-------------------------- MODULE PluginHostProofs --------------------------
(***************************************************************************)
(* The scripting host for any set of plugin names, addresses, policy       *)
(* specifications and bounds: what the plugins own in native execution is  *)
(* exactly what the registry says (HostOwnershipExact), what is published  *)
(* is what the running plugins asked for (HostPolicyCurrent), and a stop   *)
(* is left only by agreement (HostStayWins).                               *)
(*                                                                         *)
(* One inductive invariant, HostInv, carries all three.  The parts:        *)
(*   PhaseInv     which plugin Python may run in, phase by phase, and      *)
(*                where a replacement is between its private and its       *)
(*                public key;                                              *)
(*   VotesInv     the merged decision against the set of votes it stands   *)
(*                for;                                                     *)
(*   PolicyInv    the published policies; running plugins never overlap,   *)
(*                nor would they after the commit under way;               *)
(*   InterestInv  the published interests, and what a failure not yet      *)
(*                quarantined leaves stale;                                *)
(*   BpInv, HookInv   each native point by itself: its lease counts the    *)
(*                subscriptions of all holders, and whoever keeps it alive *)
(*                is the debugger, a queue or a lease;                     *)
(*   TrapInv      live traps have an owner.                                *)
(* Lemmas Type_X and Inv_X say that the action X preserves TypeOK and      *)
(* HostInv.  The lemmas before them say what an action does to the parts   *)
(* of the state the invariant reads.                                       *)
(***************************************************************************)
EXTENDS PluginHost, FiniteSetTheorems, WellFoundedInduction, TLAPS

-----------------------------------------------------------------------------
(* Counting                                                                *)

UnitsOf(f, D) == UNION {{x} \X (1..f[x]) : x \in D}

LEMMA UnitsFinite ==
  ASSUME NEW D, IsFiniteSet(D), NEW f \in [D -> Nat], NEW E \in SUBSET D
  PROVE  IsFiniteSet(UnitsOf(f, E))
<1>1. IsFiniteSet(E)
  BY FS_Subset
<1> DEFINE g == [x \in E |-> {x} \X (1..f[x])]
           T == {g[x] : x \in E}
<1>2. ASSUME NEW x \in E PROVE IsFiniteSet(g[x])
  <2>0. f[x] \in Int /\ 1 \in Int
    OBVIOUS
  <2>1. IsFiniteSet({x})
    BY FS_Singleton
  <2>2. IsFiniteSet(1..f[x])
    BY <2>0, FS_Interval
  <2>3. IsFiniteSet({x} \X (1..f[x]))
    BY <2>1, <2>2, FS_Product
  <2> QED
    BY <2>3
<1>3. g \in Surjection(E, T)
  BY DEF Surjection
<1>4. \A S \in T : IsFiniteSet(S)
  BY <1>2
<1>5. UnitsOf(f, E) = UNION T
  BY DEF UnitsOf
<1> HIDE DEF T, g
<1>6. IsFiniteSet(T)
  BY <1>1, <1>3, FS_Surjection
<1> QED
  BY <1>4, <1>5, <1>6, FS_UNION

\* A total is the total of a part plus that of the rest.
LEMMA TotalSplit ==
  ASSUME NEW D, IsFiniteSet(D), NEW f \in [D -> Nat], NEW E \in SUBSET D
  PROVE  /\ Total(f) \in Nat
         /\ Total([x \in E |-> f[x]]) \in Nat
         /\ Total([x \in D |-> IF x \in E THEN 0 ELSE f[x]]) \in Nat
         /\ Total(f) = Total([x \in E |-> f[x]])
                          + Total([x \in D |-> IF x \in E THEN 0 ELSE f[x]])
<1> DEFINE in == [x \in E |-> f[x]]
           out == [x \in D |-> IF x \in E THEN 0 ELSE f[x]]
           A == UnitsOf(f, E)
           B == UnitsOf(f, D \ E)
<1>1. /\ Total(f) = Cardinality(UnitsOf(f, D))
      /\ Total(in) = Cardinality(A)
  BY DEF Total, UnitsOf
<1>2. Total(out) = Cardinality(B)
  <2>1. \A u : u \in UnitsOf(out, D) <=> \E x \in D : u \in {x} \X (1..out[x])
    BY DEF UnitsOf
  <2>2. \A u : u \in B <=> \E x \in D \ E : u \in {x} \X (1..f[x])
    BY DEF UnitsOf
  <2>3. \A x \in E : {x} \X (1..out[x]) = {}
    <3>1. \A x \in E : 1..out[x] = {}
      OBVIOUS
    <3> QED
      BY <3>1
  <2>4. \A x \in D \ E : {x} \X (1..out[x]) = {x} \X (1..f[x])
    OBVIOUS
  <2>5. UnitsOf(out, D) = B
    <3> HIDE DEF out, B
    <3> QED
      BY <2>1, <2>2, <2>3, <2>4
  <2> QED
    BY <2>5 DEF Total, UnitsOf
<1>3. UnitsOf(f, D) = A \cup B
  BY DEF UnitsOf
<1>4. A \cap B = {}
  <2> SUFFICES ASSUME NEW u \in A, u \in B PROVE FALSE
    OBVIOUS
  <2>1. PICK x \in E : u \in {x} \X (1..f[x])
    BY DEF UnitsOf
  <2>2. PICK y \in D \ E : u \in {y} \X (1..f[y])
    BY DEF UnitsOf
  <2>3. u[1] = x /\ u[1] = y
    BY <2>1, <2>2
  <2> QED
    BY <2>3
<1>5. IsFiniteSet(A) /\ IsFiniteSet(B)
  BY UnitsFinite
<1> HIDE DEF in, out, A, B
<1>6. Cardinality(A \cup B) = Cardinality(A) + Cardinality(B) - Cardinality(A \cap B)
  BY <1>5, FS_Union
<1>7. Cardinality(A) \in Nat /\ Cardinality(B) \in Nat /\ Cardinality(A \cap B) = 0
  BY <1>4, <1>5, FS_CardinalityType, FS_EmptySet
<1>8. /\ Total(f) = Cardinality(A) + Cardinality(B)
      /\ Total(in) = Cardinality(A) /\ Total(out) = Cardinality(B)
  BY <1>1, <1>2, <1>3, <1>6, <1>7
<1>9. Total(f) \in Nat /\ Total(in) \in Nat /\ Total(out) \in Nat /\ Total(f) = Total(in) + Total(out)
  BY <1>7, <1>8
<1> QED
  BY <1>9 DEF in, out

LEMMA TotalOne ==
  ASSUME NEW x, NEW n \in Nat
  PROVE  Total([y \in {x} |-> n]) = n
<1> DEFINE f == [y \in {x} |-> n]
<1>1. UNION {{y} \X (1..f[y]) : y \in DOMAIN f} = {x} \X (1..n)
  OBVIOUS
<1>2. IsFiniteSet({x}) /\ Cardinality({x}) = 1
  BY FS_Singleton
<1>3. IsFiniteSet(1..n) /\ Cardinality(1..n) = n
  <2>1. 1 \in Int /\ n \in Int
    OBVIOUS
  <2>2. IsFiniteSet(1..n) /\ Cardinality(1..n) = IF 1 > n THEN 0 ELSE n - 1 + 1
    BY <2>1, FS_Interval
  <2> QED
    BY <2>2
<1>4. Cardinality({x} \X (1..n)) = Cardinality({x}) * Cardinality(1..n)
  BY <1>2, <1>3, FS_Product
<1>5. Cardinality({x} \X (1..n)) = n
  <2>1. Cardinality({x} \X (1..n)) = 1 * n
    BY <1>2, <1>3, <1>4
  <2> QED
    BY <2>1
<1> QED
  BY <1>1, <1>5 DEF Total

\* What one holder has is part of the total.
LEMMA TotalPart ==
  ASSUME NEW D, IsFiniteSet(D), NEW f \in [D -> Nat], NEW k \in D
  PROVE  /\ Total(f) \in Nat
         /\ Total([x \in D |-> IF x \in {k} THEN 0 ELSE f[x]]) \in Nat
         /\ Total(f) = f[k] + Total([x \in D |-> IF x \in {k} THEN 0 ELSE f[x]])
<1> DEFINE out == [x \in D |-> IF x \in {k} THEN 0 ELSE f[x]]
           in == [x \in {k} |-> f[x]]
           one == [x \in {k} |-> f[k]]
<1>1. {k} \in SUBSET D
  OBVIOUS
<1>2. Total(f) \in Nat /\ Total(out) \in Nat /\ Total(f) = Total(in) + Total(out)
  BY <1>1, TotalSplit
<1>3. in = one
  OBVIOUS
<1>4. f[k] \in Nat
  OBVIOUS
<1> HIDE DEF out, in
<1>5. Total(in) = f[k]
  BY <1>3, <1>4, TotalOne
<1> QED
  BY <1>2, <1>4, <1>5 DEF out

\* A change at one holder changes the total by as much.
LEMMA TotalExcept ==
  ASSUME NEW D, IsFiniteSet(D), NEW f \in [D -> Nat], NEW g \in [D -> Nat], NEW k \in D,
         \A x \in D : x # k => g[x] = f[x]
  PROVE  /\ Total(f) \in Nat /\ Total(g) \in Nat
         /\ Total(g) + f[k] = Total(f) + g[k]
         /\ f[k] <= Total(f)
<1> DEFINE fo == [x \in D |-> IF x \in {k} THEN 0 ELSE f[x]]
           go == [x \in D |-> IF x \in {k} THEN 0 ELSE g[x]]
<1>1. fo = go
  OBVIOUS
<1>2. Total(f) \in Nat /\ Total(fo) \in Nat /\ Total(f) = f[k] + Total(fo)
  BY TotalPart
<1>3. Total(g) \in Nat /\ Total(g) = g[k] + Total(go)
  BY TotalPart
<1>4. f[k] \in Nat /\ g[k] \in Nat
  OBVIOUS
<1> HIDE DEF fo, go
<1> QED
  BY <1>1, <1>2, <1>3, <1>4

-----------------------------------------------------------------------------
(* The inductive invariant                                                 *)

Phases == {"mail", "unload", "exec", "commit", "sync", "connected", "bound", "events",
           "apply", "act"}

Calls == {NoCall} \cup [op : {"breakpoint", "on", "intercept"}, addr : Addrs, existed : BOOLEAN]

Host ==
    [at : Phases, py : BOOLEAN, key : Keys \cup {None}, batch : Seq(Names),
     todo : SUBSET Names, call : Calls, gen : Nat, id : Nat,
     merged : Actions \cup {None}, votes : SUBSET Actions,
     target : Targets \cup {None}, changed : BOOLEAN, valid : BOOLEAN]

Commands ==
    [op : {"load"}, name : Names] \cup [op : {"unload"}, name : Names \cup {None}]

Mail ==
    [cmds : Seq(Commands), waiting : BOOLEAN, late : [bps : SUBSET Ids, hooks : SUBSET Addrs]]

Native ==
    [bps : [Ids -> Addrs \cup {None}], hooks : SUBSET Addrs, nextId : Nat,
     dbgBps : SUBSET Ids, dbgHooks : SUBSET Addrs]

Leases(points) ==
    [lease : [points -> [n : Nat, atZero : BOOLEAN]], queue : SUBSET points]

Slot == [used : BOOLEAN, id : Nat, active : BOOLEAN, oneShot : BOOLEAN]

Traps ==
    [slots : [TrapSlots -> Slot], mask : SUBSET TrapSlots, claimed : BOOLEAN, nextId : Nat]

Published ==
    [interests : SUBSET (Keys \X Targets), policy : [PolicyKinds -> SUBSET UNION Specifications],
     refused : BOOLEAN]

Stop == [on : BOOLEAN, gen : Nat, addr : Addrs \cup {None}]

Used == [commands : Nat, calls : Nat, runs : Nat, disturbances : Nat]

TypeOK ==
    /\ reg \in [Keys -> Plugin \cup {Absent}]
    /\ held \in Plugin \cup {Absent}
    /\ pending \in Seq(Names)
    /\ host \in Host
    /\ mail \in Mail
    /\ native \in Native
    /\ bpOwn \in Leases(Ids)
    /\ hookOwn \in Leases(Addrs)
    /\ traps \in Traps
    /\ pub \in Published
    /\ stop \in Stop
    /\ used \in Used

\* Whose Python may be running, and where a replacement is between its two keys.
PyPresent == host.py => host.key \in Keys /\ reg[host.key] # Absent /\ host.key \notin host.todo

TodoPresent == \A n \in host.todo : reg[n] # Absent

StageInv ==
    /\ reg[Staged] # Absent =>
         /\ host.at = "exec" /\ host.py /\ host.key = Staged
         /\ reg[Staged].state = "staging"
         /\ reg[Head(host.batch)] # Absent
    /\ host.at = "exec" /\ host.py => host.batch # <<>>
    /\ host.at \in {"exec", "commit"} => host.todo = {}
    /\ held # Absent <=> host.at = "commit"
    /\ host.at = "commit" => /\ host.py /\ host.batch # <<>>
                             /\ reg[host.key].state = "replacing"
                             /\ held.state = "running" /\ ~held.quarantined

\* Phases of the loop in which no Python runs.
Idle == {"mail", "connected", "apply", "act"}

CallInv ==
    /\ host.at \in Idle => ~host.py
    /\ host.call # NoCall => host.py /\ host.at # "sync"
    /\ host.target # None => host.at = "sync"
    /\ host.at = "sync" /\ host.py => host.target # None
    /\ host.target = None => host.valid
    /\ host.at = "unload" => mail.cmds # <<>>

QuarantineInv ==
    \A k \in Keys : reg[k] # Absent /\ reg[k].quarantined => reg[k].state \in {"error", "replacing"}

PhaseInv == PyPresent /\ TodoPresent /\ StageInv /\ CallInv /\ QuarantineInv

VotesInv ==
    /\ host.merged = None <=> host.votes = {}
    /\ host.merged \notin {None, "stay"} =>
         /\ "stay" \notin host.votes
         /\ ~({"step_into", "step_over"} \subseteq host.votes)
         /\ host.merged \in host.votes
         /\ "resume" # host.merged \/ host.votes = {"resume"}

Ranged == {"memory_translation", "code_fetch"}

\* No two running plugins translate or overlay the same range.
Disjoint(r) == \A k \in Ranged : ~Overlap(Specs(r)[k])

Current(r, p) ==
    \A k \in PolicyKinds : \/ p.policy[k] = Merged(Specs(r)[k])
                           \/ k = "xed_decode" /\ p.refused

Committed == [reg EXCEPT ![host.key] = held]

PolicyInv ==
    /\ Disjoint(reg)
    /\ host.at = "commit" => Disjoint(Committed)
    /\ host.at # "commit" /\ host.valid => Current(reg, pub)

InterestInv ==
    /\ \A u \in pub.interests : u[1] # Staged
    /\ /\ host.at # "commit" /\ (host.target = None \/ ~host.changed)
       /\ Failed(reg) = {}
       => pub.interests = Interests(reg)

\* One native point: its lease counts its subscriptions; a point that exists is
\* the debugger's, on its way out, or leased; and a lease that the scripts do not
\* remove at its end is on a point of the debugger's.
Point(o, p, present, dbg, late, count) ==
    /\ o.lease[p].n = count
    /\ present => dbg \/ p \in o.queue \/ late \/ o.lease[p].n > 0
    /\ present /\ o.lease[p].n > 0 /\ ~o.lease[p].atZero => dbg

BpInv ==
    /\ \A i \in Ids : Point(bpOwn, i, native.bps[i] # None, i \in native.dbgBps,
                            i \in mail.late.bps, Total(BpSubscriptions(i)))
    /\ \A i \in Ids : i >= native.nextId => bpOwn.lease[i].n = 0 /\ native.bps[i] = None

HookInv ==
    \A a \in Addrs : Point(hookOwn, a, a \in native.hooks, a \in native.dbgHooks,
                           a \in mail.late.hooks, Total(HookSubscriptions(a)))

TrapInv ==
    /\ \A s \in TrapSlots : traps.slots[s].active => traps.slots[s].used
    /\ ActiveTraps(traps) \subseteq UNION {p.traps : p \in Plugins}

HostInv ==
    /\ TypeOK /\ PhaseInv /\ VotesInv /\ PolicyInv /\ InterestInv
    /\ BpInv /\ HookInv /\ TrapInv

-----------------------------------------------------------------------------
(* Leases, one point at a time                                             *)

LEMMA AcquireFacts ==
  ASSUME NEW P, NEW o \in Leases(P), NEW p \in P, NEW created \in BOOLEAN
  PROVE  /\ acquire(o, p, created) \in Leases(P)
         /\ acquire(o, p, created).lease[p].n = o.lease[p].n + 1
         /\ acquire(o, p, created).lease[p].atZero =
                (o.lease[p].atZero \/ created \/ p \in o.queue)
         /\ acquire(o, p, created).queue = o.queue \ {p}
         /\ \A q \in P : q # p => acquire(o, p, created).lease[q] = o.lease[q]
<1> DEFINE l == [n |-> o.lease[p].n + 1,
                 atZero |-> o.lease[p].atZero \/ created \/ p \in o.queue]
           a == acquire(o, p, created)
<1>1. a = [lease |-> [o.lease EXCEPT ![p] = l], queue |-> o.queue \ {p}]
  BY DEF acquire
<1>2. o.lease \in [P -> [n : Nat, atZero : BOOLEAN]] /\ o.queue \in SUBSET P
  BY DEF Leases
<1>3. l \in [n : Nat, atZero : BOOLEAN]
  BY <1>2
<1>4. l.n = o.lease[p].n + 1 /\ l.atZero = (o.lease[p].atZero \/ created \/ p \in o.queue)
  OBVIOUS
<1> HIDE DEF l
<1>5. a.lease = [o.lease EXCEPT ![p] = l] /\ a.queue = o.queue \ {p}
  BY <1>1
<1>6. a \in Leases(P)
  BY <1>1, <1>2, <1>3 DEF Leases
<1> HIDE DEF a
<1> QED
  BY <1>2, <1>3, <1>4, <1>5, <1>6 DEF a

LEMMA ReleaseFacts ==
  ASSUME NEW P, NEW o \in Leases(P), NEW p \in P
  PROVE  /\ release(o, p) \in Leases(P)
         /\ release(o, p).queue = o.queue
         /\ o.lease[p].n > 1 => /\ release(o, p).lease[p].n = o.lease[p].n - 1
                                /\ release(o, p).lease[p].atZero = o.lease[p].atZero
         /\ o.lease[p].n <= 1 => release(o, p).lease[p] = NoLease
         /\ \A q \in P : q # p => release(o, p).lease[q] = o.lease[q]
<1> DEFINE l == IF o.lease[p].n <= 1 THEN NoLease ELSE [o.lease[p] EXCEPT !.n = @ - 1]
           a == release(o, p)
<1>1. a = [o EXCEPT !.lease[p] = l]
  BY DEF release
<1>2. o.lease \in [P -> [n : Nat, atZero : BOOLEAN]] /\ o.queue \in SUBSET P
  BY DEF Leases
<1>3. l \in [n : Nat, atZero : BOOLEAN]
  BY <1>2 DEF NoLease
<1>4. /\ o.lease[p].n > 1 => l.n = o.lease[p].n - 1 /\ l.atZero = o.lease[p].atZero
      /\ o.lease[p].n <= 1 => l = NoLease
  BY <1>2
<1> HIDE DEF l
<1>5. a.lease = [o.lease EXCEPT ![p] = l] /\ a.queue = o.queue
  BY <1>1 DEF Leases
<1>6. a \in Leases(P)
  BY <1>1, <1>2, <1>3 DEF Leases
<1> HIDE DEF a
<1> QED
  BY <1>2, <1>3, <1>4, <1>5, <1>6 DEF a

LEMMA QueueFacts ==
  ASSUME NEW P, NEW o \in Leases(P), NEW p \in P
  PROVE  /\ queue_removal(o, p) \in Leases(P)
         /\ queue_removal(o, p).queue = o.queue \cup {p}
         /\ queue_removal(o, p).lease = o.lease
  BY DEF queue_removal, Leases

LEMMA ReleaseOrQueueFacts ==
  ASSUME NEW P, NEW o \in Leases(P), NEW p \in P
  PROVE  LET r == release_or_queue(o, p)
         IN /\ r \in Leases(P)
            /\ r.queue = o.queue \cup {x \in {p} : release_removes(o, p)}
            /\ o.lease[p].n > 1 => /\ r.lease[p].n = o.lease[p].n - 1
                                   /\ r.lease[p].atZero = o.lease[p].atZero
            /\ o.lease[p].n <= 1 => r.lease[p] = NoLease
            /\ \A q \in P : q # p => r.lease[q] = o.lease[q]
<1>1. CASE release_removes(o, p)
  <2>1. release_or_queue(o, p) = queue_removal(release(o, p), p)
    BY <1>1 DEF release_or_queue
  <2>2. release(o, p) \in Leases(P)
    BY ReleaseFacts
  <2>3. /\ release_or_queue(o, p) \in Leases(P)
        /\ release_or_queue(o, p).queue = release(o, p).queue \cup {p}
        /\ release_or_queue(o, p).lease = release(o, p).lease
    BY <2>1, <2>2, QueueFacts
  <2> QED
    BY <1>1, <2>3, ReleaseFacts
<1>2. CASE ~release_removes(o, p)
  <2>1. release_or_queue(o, p) = release(o, p)
    BY <1>2 DEF release_or_queue
  <2> QED
    BY <1>2, <2>1, ReleaseFacts
<1> QED
  BY <1>1, <1>2

LEMMA ReleaseAllFacts ==
  ASSUME NEW P, NEW o \in Leases(P), NEW Q \in SUBSET P, NEW times \in [Q -> Nat]
  PROVE  LET r == release_all(o, times)
         IN /\ r \in Leases(P)
            /\ \A p \in Q : times[p] <= o.lease[p].n =>
                  /\ r.lease[p].n = o.lease[p].n - times[p]
                  /\ r.lease[p].n > 0 => r.lease[p].atZero = o.lease[p].atZero
            /\ \A p \in P \ Q : r.lease[p] = o.lease[p]
            /\ o.queue \subseteq r.queue
            /\ \A p \in Q : times[p] > 0 /\ o.lease[p].n = times[p] /\ o.lease[p].atZero
                               => p \in r.queue
<1> DEFINE last == {p \in DOMAIN times : 0 < times[p] /\ o.lease[p].n <= times[p]}
           L(p) == IF p \in last THEN NoLease
                   ELSE IF p \in DOMAIN times THEN [o.lease[p] EXCEPT !.n = @ - times[p]]
                   ELSE o.lease[p]
           r == release_all(o, times)
<1>1. o.lease \in [P -> [n : Nat, atZero : BOOLEAN]] /\ o.queue \in SUBSET P
  BY DEF Leases
<1>2. r = [lease |-> [p \in P |-> L(p)],
           queue |-> o.queue \cup {p \in last : o.lease[p].n > 0 /\ o.lease[p].atZero}]
  BY <1>1 DEF release_all
<1>3. ASSUME NEW p \in P
      PROVE  /\ L(p) \in [n : Nat, atZero : BOOLEAN]
             /\ p \in Q /\ times[p] <= o.lease[p].n => L(p).n = o.lease[p].n - times[p]
             /\ p \in Q /\ L(p).n > 0 => L(p).atZero = o.lease[p].atZero
             /\ p \notin Q => L(p) = o.lease[p]
  <2>1. o.lease[p] \in [n : Nat, atZero : BOOLEAN]
    BY <1>1
  <2>2. CASE p \in last
    <3>1. L(p) = NoLease /\ p \in Q
      BY <2>2
    <3>2. times[p] \in Nat /\ o.lease[p].n \in Nat /\ o.lease[p].n <= times[p]
      BY <2>1, <2>2
    <3>3. NoLease \in [n : Nat, atZero : BOOLEAN] /\ NoLease.n = 0
      BY DEF NoLease
    <3> HIDE DEF L, last
    <3> QED
      BY <3>1, <3>2, <3>3
  <2>3. CASE p \in Q /\ p \notin last
    <3>1. times[p] \in Nat /\ times[p] <= o.lease[p].n
      BY <2>1, <2>3
    <3>2. L(p) = [o.lease[p] EXCEPT !.n = @ - times[p]]
      BY <2>3
    <3> QED
      BY <2>1, <2>3, <3>1, <3>2
  <2>4. CASE p \notin Q
    BY <2>1, <2>4
  <2> QED
    BY <2>2, <2>3, <2>4
<1>4. /\ r.lease = [p \in P |-> L(p)]
      /\ r.queue = o.queue \cup {p \in last : o.lease[p].n > 0 /\ o.lease[p].atZero}
  BY <1>2
<1>5. last \subseteq P
  OBVIOUS
<1>6. \A p \in Q : times[p] > 0 /\ o.lease[p].n = times[p] /\ o.lease[p].atZero
         => p \in last /\ o.lease[p].n > 0
  BY <1>1
<1> HIDE DEF L, last
<1>7. r \in Leases(P)
  <2>1. [p \in P |-> L(p)] \in [P -> [n : Nat, atZero : BOOLEAN]]
    BY <1>3
  <2> QED
    BY <1>1, <1>2, <1>5, <2>1 DEF Leases
<1> HIDE DEF r
<1>8. /\ \A p \in Q : times[p] <= o.lease[p].n =>
            /\ r.lease[p].n = o.lease[p].n - times[p]
            /\ r.lease[p].n > 0 => r.lease[p].atZero = o.lease[p].atZero
      /\ \A p \in P \ Q : r.lease[p] = o.lease[p]
  BY <1>3, <1>4
<1>9. o.queue \subseteq r.queue
  BY <1>4
<1>10. \A p \in Q : times[p] > 0 /\ o.lease[p].n = times[p] /\ o.lease[p].atZero => p \in r.queue
  BY <1>4, <1>6
<1> QED
  BY <1>7, <1>8, <1>9, <1>10 DEF r

LEMMA PointAcquire ==
  ASSUME NEW P, NEW o \in Leases(P), NEW p \in P, NEW created \in BOOLEAN,
         NEW present \in BOOLEAN, NEW dbg \in BOOLEAN, NEW dbgNew \in BOOLEAN,
         NEW late \in BOOLEAN, NEW count \in Nat,
         Point(o, p, present, dbg, late, count), ~late,
         dbg => dbgNew, ~created /\ ~present => dbgNew
  PROVE  \A now \in BOOLEAN : Point(acquire(o, p, created), p, now, dbgNew, late, count + 1)
<1>1. o.lease[p].n \in Nat /\ o.lease[p].n = count
  BY DEF Leases, Point
<1>2. /\ acquire(o, p, created).lease[p].n = o.lease[p].n + 1
      /\ acquire(o, p, created).lease[p].atZero =
                (o.lease[p].atZero \/ created \/ p \in o.queue)
  BY AcquireFacts
<1> QED
  BY <1>1, <1>2 DEF Point

LEMMA PointRelease ==
  ASSUME NEW P, NEW o \in Leases(P), NEW p \in P,
         NEW present \in BOOLEAN, NEW dbg \in BOOLEAN, NEW late \in BOOLEAN, NEW count \in Nat,
         Point(o, p, present, dbg, late, count), count > 0
  PROVE  Point(release_or_queue(o, p), p, present, dbg, late, count - 1)
<1>1. o.lease[p].n \in Nat /\ o.lease[p].n = count
  BY DEF Leases, Point
<1> DEFINE r == release_or_queue(o, p)
<1>2. /\ r.queue = o.queue \cup {x \in {p} : release_removes(o, p)}
      /\ o.lease[p].n > 1 => /\ r.lease[p].n = o.lease[p].n - 1
                             /\ r.lease[p].atZero = o.lease[p].atZero
      /\ o.lease[p].n <= 1 => r.lease[p] = NoLease
  BY ReleaseOrQueueFacts
<1>3. NoLease.n = 0
  BY DEF NoLease
<1> HIDE DEF r
<1>4. CASE o.lease[p].n > 1
  <2> SUFFICES Point(r, p, present, dbg, late, count - 1)
    BY DEF r
  <2> QED
    BY <1>1, <1>2, <1>4 DEF Point
<1>5. CASE o.lease[p].n = 1
  <2> SUFFICES Point(r, p, present, dbg, late, count - 1)
    BY DEF r
  <2>1. r.lease[p].n = 0
    BY <1>2, <1>3, <1>5
  <2>2. o.lease[p].atZero => p \in r.queue
    BY <1>2, <1>5 DEF release_removes
  <2>3. p \in o.queue => p \in r.queue
    BY <1>2
  <2> QED
    BY <1>1, <1>5, <2>1, <2>2, <2>3 DEF Point
<1> QED
  BY <1>1, <1>4, <1>5

LEMMA PointReleaseAll ==
  ASSUME NEW P, NEW o \in Leases(P), NEW Q \in SUBSET P, NEW times \in [Q -> Nat], NEW p \in Q,
         NEW present \in BOOLEAN, NEW dbg \in BOOLEAN, NEW late \in BOOLEAN, NEW count \in Nat,
         Point(o, p, present, dbg, late, count), times[p] <= count
  PROVE  Point(release_all(o, times), p, present, dbg, late, count - times[p])
<1>1. o.lease[p].n \in Nat /\ o.lease[p].n = count /\ times[p] \in Nat
  BY DEF Leases, Point
<1> DEFINE r == release_all(o, times)
<1>2. /\ r.lease[p].n = o.lease[p].n - times[p]
      /\ r.lease[p].n > 0 => r.lease[p].atZero = o.lease[p].atZero
      /\ o.queue \subseteq r.queue
      /\ times[p] > 0 /\ o.lease[p].n = times[p] /\ o.lease[p].atZero => p \in r.queue
  <2>1. \A q \in Q : times[q] <= o.lease[q].n =>
           /\ r.lease[q].n = o.lease[q].n - times[q]
           /\ r.lease[q].n > 0 => r.lease[q].atZero = o.lease[q].atZero
    BY ReleaseAllFacts
  <2>2. o.queue \subseteq r.queue
    BY ReleaseAllFacts
  <2>3. \A q \in Q : times[q] > 0 /\ o.lease[q].n = times[q] /\ o.lease[q].atZero
                        => q \in r.queue
    BY ReleaseAllFacts
  <2> HIDE DEF r
  <2> QED
    BY <1>1, <2>1, <2>2, <2>3
<1> HIDE DEF r
<1>3. Point(r, p, present, dbg, late, count - times[p])
  BY <1>1, <1>2 DEF Point
<1> QED
  BY <1>3 DEF r

-----------------------------------------------------------------------------
(* Names, sequences and the parts of the state                             *)

LEMMA MinOfNats ==
  ASSUME NEW S \in SUBSET Nat, S # {}
  PROVE  Min(S) \in S
<1>1. \E x \in S : \A y \in S : ~(<<y, x>> \in OpToRel(<, Nat))
  BY NatLessThanWellFounded, WFMin
<1>2. \A x, y \in Nat : <<y, x>> \in OpToRel(<, Nat) <=> y < x
  BY DEF OpToRel
<1>3. \E x \in S : \A y \in S : x =< y
  <2>1. PICK x \in S : \A y \in S : ~(<<y, x>> \in OpToRel(<, Nat))
    BY <1>1
  <2>2. \A y \in S : y \in Nat /\ x \in Nat /\ ~(y < x)
    BY <1>2, <2>1
  <2>3. \A y \in S : x =< y
    BY <2>2
  <2> QED
    BY <2>3
<1> QED
  BY <1>3 DEF Min

LEMMA NamesFacts ==
  /\ Order \in Seq(Names)
  /\ Staged \in Keys /\ Staged \notin Names /\ "held" \notin Keys
  /\ None \notin Keys /\ None \notin Targets
  /\ Names \subseteq Keys /\ Addrs \subseteq Targets
  /\ Syscalls \in Targets /\ Syscalls \notin Addrs
  /\ Absent \notin Plugin
  BY HostAssumption DEF Keys, Staged, None, Targets, Syscalls

LEMMA FirstFacts ==
  ASSUME NEW S \in SUBSET Names, S # {}
  PROVE  First(S) \in S
<1> DEFINE I == {i \in DOMAIN Order : Order[i] \in S}
<1>1. I \in SUBSET Nat
  BY HostAssumption
<1>2. I # {}
  BY DEF Names, Range
<1>3. Min(I) \in I
  BY <1>1, <1>2, MinOfNats
<1> QED
  BY <1>3 DEF First

LEMMA HoldersFinite == IsFiniteSet(Keys \cup {"held"})
<1>1. IsFiniteSet(DOMAIN Order)
  <2>1. DOMAIN Order = 1..Len(Order) /\ 1 \in Int /\ Len(Order) \in Int
    BY HostAssumption
  <2> QED
    BY <2>1, FS_Interval
<1>2. Order \in Surjection(DOMAIN Order, Names)
  BY HostAssumption DEF Surjection, Names, Range
<1>3. IsFiniteSet(Names)
  BY <1>1, <1>2, FS_Surjection
<1>4. IsFiniteSet(Names \cup {Staged})
  BY <1>3, FS_AddElement
<1> QED
  BY <1>4, FS_AddElement DEF Keys

LEMMA RemoveFirstType ==
  ASSUME NEW s \in Seq(Names), NEW n
  PROVE  RemoveFirst(s, n) \in Seq(Names)
<1>1. CASE \E i \in 1..Len(s) : s[i] = n
  <2> DEFINE I == {i \in 1..Len(s) : s[i] = n}
  <2>1. I \in SUBSET Nat /\ I # {}
    BY <1>1
  <2>2. Min(I) \in I
    BY <2>1, MinOfNats
  <2>3. RemoveFirst(s, n) = RemoveAt(s, Min(I))
    BY <1>1, <2>1 DEF RemoveFirst, SelectInSeq
  <2>4. Min(I) \in 1..Len(s)
    BY <2>2
  <2> HIDE DEF I
  <2>5. /\ SubSeq(s, 1, Min(I) - 1) \in Seq(Names)
        /\ SubSeq(s, Min(I) + 1, Len(s)) \in Seq(Names)
    BY <2>4
  <2> QED
    BY <2>3, <2>5 DEF RemoveAt
<1>2. CASE ~\E i \in 1..Len(s) : s[i] = n
  BY <1>2 DEF RemoveFirst
<1> QED
  BY <1>1, <1>2

LEMMA HostFields ==
  ASSUME host \in Host
  PROVE  /\ host.at \in Phases /\ host.py \in BOOLEAN /\ host.key \in Keys \cup {None}
         /\ host.batch \in Seq(Names) /\ host.todo \in SUBSET Names /\ host.call \in Calls
         /\ host.gen \in Nat /\ host.id \in Nat
         /\ host.merged \in Actions \cup {None} /\ host.votes \in SUBSET Actions
         /\ host.target \in Targets \cup {None}
         /\ host.changed \in BOOLEAN /\ host.valid \in BOOLEAN
  BY DEF Host

LEMMA PluginFields ==
  ASSUME NEW p \in Plugin
  PROVE  /\ p.state \in {"running", "error", "staging", "replacing"}
         /\ p.quarantined \in BOOLEAN
         /\ p.bps \in SUBSET Ids /\ p.traps \in SUBSET Nat
         /\ p.events \in [Addrs -> Nat] /\ p.decisions \in [Targets -> Nat]
         /\ p.policy \in [PolicyKinds -> Specifications \cup {NoSpec}] /\ p.seenGen \in Nat
  BY DEF Plugin

LEMMA MeFacts ==
  ASSUME TypeOK, PhaseInv, host.py
  PROVE  /\ host.key \in Keys /\ Me \in Plugin /\ Me # Absent /\ reg[host.key] = Me
         /\ host.key \notin host.todo
         /\ host.at # "exec" => host.key \in Names /\ host.key # Staged
<1>1. host.key \in Keys /\ reg[host.key] # Absent /\ host.key \notin host.todo
  BY DEF PhaseInv, PyPresent
<1>2. reg[host.key] \in Plugin
  BY <1>1 DEF TypeOK
<1>3. host.at # "exec" => host.key # Staged
  BY <1>1 DEF PhaseInv, StageInv
<1> QED
  BY <1>1, <1>2, <1>3, NamesFacts DEF Me, Keys

LEMMA CallFacts ==
  ASSUME TypeOK, PhaseInv, host.call.op \in {"breakpoint", "on", "intercept"}
  PROVE  /\ host.call.addr \in Addrs /\ host.call.existed \in BOOLEAN
         /\ host.call # NoCall /\ host.py
<1>1. host.call \in Calls
  BY HostFields DEF TypeOK
<1>2. NoCall.op = "none"
  BY DEF NoCall, None
<1>3. host.call # NoCall
  BY <1>2
<1>4. host.call \in [op : {"breakpoint", "on", "intercept"}, addr : Addrs, existed : BOOLEAN]
  BY <1>1, <1>3 DEF Calls
<1> QED
  BY <1>3, <1>4 DEF PhaseInv, CallInv

LEMMA SetMeType ==
  ASSUME TypeOK, host.key \in Keys, NEW p \in Plugin \cup {Absent}, SetMe(p)
  PROVE  /\ reg' \in [Keys -> Plugin \cup {Absent}]
         /\ reg'[host.key] = p
         /\ \A k \in Keys : k # host.key => reg'[k] = reg[k]
  BY DEF TypeOK, SetMe

-----------------------------------------------------------------------------
(* What is published                                                       *)

LEMMA SpecsFacts ==
  ASSUME NEW r \in [Keys -> Plugin \cup {Absent}], NEW k \in PolicyKinds
  PROVE  /\ Running(r) \in SUBSET Keys
         /\ \A p \in Running(r) : r[p] \in Plugin
         /\ Specs(r)[k] = [p \in Running(r) |-> r[p].policy[k]]
         /\ Merged(Specs(r)[k]) \in SUBSET UNION Specifications
         /\ Interests(r) \in SUBSET (Keys \X Targets)
<1>1. Running(r) \in SUBSET Keys /\ \A p \in Running(r) : r[p] \in Plugin
  BY DEF Running
<1>2. Specs(r)[k] = [p \in Running(r) |-> r[p].policy[k]]
  BY DEF Specs
<1>3. \A p \in Running(r) : r[p].policy[k] \in Specifications \cup {NoSpec}
  BY <1>1, PluginFields
<1>4. Merged(Specs(r)[k]) \in SUBSET UNION Specifications
  BY <1>2, <1>3 DEF Merged
<1>5. Interests(r) \in SUBSET (Keys \X Targets)
  BY <1>1 DEF Interests
<1> QED
  BY <1>1, <1>2, <1>4, <1>5

LEMMA PublishFacts ==
  ASSUME NEW k \in PolicyKinds, NEW specs, NEW old, NEW flushed \in BOOLEAN
  PROVE  /\ publish(k, specs, old, flushed).value \in {old, Merged(specs)}
         /\ k = "instrumentation" => publish(k, specs, old, flushed).value = Merged(specs)
         /\ k \in Ranged /\ ~Overlap(specs) => publish(k, specs, old, flushed).value = Merged(specs)
         /\ k \in Ranged /\ Overlap(specs) => publish(k, specs, old, flushed).failed
  BY DEF publish, PolicyKinds, Ranged, Outcome, ReplaceThenFlush, instrumentation_publish,
         memory_translation_publish, code_fetch_publish, xed_decode_publish

LEMMA WithPolicyFacts ==
  ASSUME NEW r, NEW p \in Published, NEW policy \in [PolicyKinds -> SUBSET UNION Specifications]
  PROVE  /\ WithPolicy(r, p, policy) \in Published
         /\ WithPolicy(r, p, policy).interests = p.interests
         /\ WithPolicy(r, p, policy).policy = policy
         /\ WithPolicy(r, p, policy).refused <=>
                policy["xed_decode"] # Merged(Specs(r)["xed_decode"])
  BY DEF WithPolicy, Published

LEMMA InterestsFacts ==
  ASSUME NEW r \in [Keys -> Plugin \cup {Absent}], NEW p \in Published
  PROVE  /\ publish_interests(r, p) \in Published
         /\ publish_interests(r, p).interests = Interests(r)
         /\ publish_interests(r, p).policy = p.policy
         /\ publish_interests(r, p).refused = p.refused
<1>1. "xed_decode" \in PolicyKinds
  BY DEF PolicyKinds
<1>2. Interests(r) \in SUBSET (Keys \X Targets)
  BY <1>1, SpecsFacts
<1> QED
  BY <1>2 DEF publish_interests, Published

LEMMA BestEffortFacts ==
  ASSUME NEW r \in [Keys -> Plugin \cup {Absent}],
         NEW old \in [PolicyKinds -> SUBSET UNION Specifications], NEW flushed \in BOOLEAN
  PROVE  LET b == refresh_best_effort(Specs(r), old, flushed)
         IN /\ b \in [PolicyKinds -> SUBSET UNION Specifications]
            /\ \A k \in PolicyKinds : b[k] = publish(k, Specs(r)[k], old[k], flushed).value
<1> DEFINE b == refresh_best_effort(Specs(r), old, flushed)
<1>1. b = [k \in PolicyKinds |-> publish(k, Specs(r)[k], old[k], flushed).value]
  BY DEF refresh_best_effort, publish_all
<1>2. \A k \in PolicyKinds : publish(k, Specs(r)[k], old[k], flushed).value \in {old[k], Merged(Specs(r)[k])}
  BY PublishFacts
<1>3. \A k \in PolicyKinds : Merged(Specs(r)[k]) \in SUBSET UNION Specifications
  BY SpecsFacts
<1>4. \A k \in PolicyKinds : old[k] \in SUBSET UNION Specifications
  OBVIOUS
<1>5. \A k \in PolicyKinds : publish(k, Specs(r)[k], old[k], flushed).value \in SUBSET UNION Specifications
  BY <1>2, <1>3, <1>4
<1> QED
  BY <1>1, <1>5

\* A refresh from a registry without overlaps makes the policies current.
LEMMA RefreshFacts ==
  ASSUME NEW r \in [Keys -> Plugin \cup {Absent}], NEW p \in Published, NEW flushed \in BOOLEAN
  PROVE  /\ refresh(r, p, flushed) \in Published
         /\ refresh(r, p, flushed).interests = p.interests
         /\ Disjoint(r) => Current(r, refresh(r, p, flushed))
<1> DEFINE b == refresh_best_effort(Specs(r), p.policy, flushed)
           q == refresh(r, p, flushed)
<1>1. p.policy \in [PolicyKinds -> SUBSET UNION Specifications]
  BY DEF Published
<1>2. /\ b \in [PolicyKinds -> SUBSET UNION Specifications]
      /\ \A k \in PolicyKinds : b[k] = publish(k, Specs(r)[k], p.policy[k], flushed).value
  BY <1>1, BestEffortFacts
<1>3. q = WithPolicy(r, p, b)
  BY DEF refresh
<1> HIDE DEF b, q
<1>4. /\ q \in Published /\ q.interests = p.interests /\ q.policy = b
      /\ q.refused <=> b["xed_decode"] # Merged(Specs(r)["xed_decode"])
  BY <1>2, <1>3, WithPolicyFacts
<1>5. ASSUME Disjoint(r), NEW k \in PolicyKinds
      PROVE  b[k] = Merged(Specs(r)[k]) \/ (k = "xed_decode" /\ q.refused)
  <2>1. CASE k = "xed_decode"
    BY <1>4, <2>1
  <2>0. b[k] = publish(k, Specs(r)[k], p.policy[k], flushed).value
    BY <1>2
  <2>2. CASE k = "instrumentation"
    <3>1. publish(k, Specs(r)[k], p.policy[k], flushed).value = Merged(Specs(r)[k])
      BY <2>2, PublishFacts
    <3> QED
      BY <2>0, <3>1
  <2>3. CASE k \in Ranged
    <3>1. ~Overlap(Specs(r)[k])
      BY <1>5, <2>3 DEF Disjoint
    <3>2. publish(k, Specs(r)[k], p.policy[k], flushed).value = Merged(Specs(r)[k])
      BY <2>3, <3>1, PublishFacts
    <3> QED
      BY <2>0, <3>2
  <2> QED
    BY <2>1, <2>2, <2>3 DEF PolicyKinds, Ranged
<1>6. Disjoint(r) => Current(r, q)
  BY <1>4, <1>5 DEF Current
<1> QED
  BY <1>4, <1>6 DEF q

-----------------------------------------------------------------------------
(* The trap table                                                          *)

\* Every live trap of u is a live trap of t, and its identifier is not in ids.
Shrinks(t, u, ids) ==
    \A s \in TrapSlots : u.slots[s].active =>
        /\ t.slots[s].active /\ u.slots[s].used = t.slots[s].used
        /\ u.slots[s].id = t.slots[s].id /\ u.slots[s].id \notin ids

LiveUsed(t) == \A s \in TrapSlots : t.slots[s].active => t.slots[s].used

LEMMA TrapsFields ==
  ASSUME NEW t \in Traps
  PROVE  /\ t.slots \in [TrapSlots -> Slot] /\ t.mask \in SUBSET TrapSlots
         /\ t.claimed \in BOOLEAN /\ t.nextId \in Nat
  BY DEF Traps

LEMMA TrapRemoveFacts ==
  ASSUME NEW t \in Traps, NEW ids
  PROVE  /\ trap_remove(t, ids) \in Traps
         /\ LiveUsed(t) => Shrinks(t, trap_remove(t, ids), ids)
<1> DEFINE u == trap_remove(t, ids)
           S(s) == IF t.slots[s].used /\ t.slots[s].id \in ids
                   THEN [t.slots[s] EXCEPT !.active = FALSE, !.used = s \in t.mask]
                   ELSE t.slots[s]
<1>1. u = [t EXCEPT !.slots = [s \in TrapSlots |-> S(s)]]
  BY DEF trap_remove
<1>2. ASSUME NEW s \in TrapSlots
      PROVE  /\ S(s) \in Slot
             /\ S(s).active => S(s) = t.slots[s]
             /\ S(s).active => ~(t.slots[s].used /\ t.slots[s].id \in ids)
  <2>1. t.slots[s] \in Slot
    BY TrapsFields
  <2>2. CASE t.slots[s].used /\ t.slots[s].id \in ids
    <3> DEFINE m == s \in t.mask
    <3>1. S(s) = [t.slots[s] EXCEPT !.active = FALSE, !.used = m]
      BY <2>2
    <3>2. m \in BOOLEAN
      OBVIOUS
    <3> HIDE DEF m, S
    <3>3. S(s) \in Slot /\ S(s).active = FALSE
      BY <2>1, <3>1, <3>2 DEF Slot
    <3> QED
      BY <3>3
  <2>3. CASE ~(t.slots[s].used /\ t.slots[s].id \in ids)
    <3>1. S(s) = t.slots[s]
      BY <2>3
    <3> HIDE DEF S
    <3> QED
      BY <2>1, <2>3, <3>1
  <2> QED
    BY <2>2, <2>3
<1> HIDE DEF S
<1>3. u \in Traps /\ u.slots = [s \in TrapSlots |-> S(s)]
  BY <1>1, <1>2 DEF Traps
<1> HIDE DEF u
<1>4. LiveUsed(t) => Shrinks(t, u, ids)
  BY <1>2, <1>3 DEF Shrinks, LiveUsed
<1> QED
  BY <1>3, <1>4 DEF u

LEMMA TrapSetFacts ==
  ASSUME NEW t \in Traps, NEW oneShot \in BOOLEAN, NEW flushed \in BOOLEAN
  PROVE  /\ trap_set(t, oneShot, flushed) \in Traps
         /\ LiveUsed(t) =>
              /\ LiveUsed(trap_set(t, oneShot, flushed))
              /\ \A s \in TrapSlots : trap_set(t, oneShot, flushed).slots[s].active =>
                    \/ /\ t.slots[s].active
                       /\ trap_set(t, oneShot, flushed).slots[s].id = t.slots[s].id
                    \/ flushed /\ trap_set(t, oneShot, flushed).slots[s].id = t.nextId
<1> DEFINE c == CHOOSE x \in FreeSlots(t) : \A y \in FreeSlots(t) : x <= y
           new == [used |-> TRUE, id |-> t.nextId, active |-> TRUE, oneShot |-> oneShot]
           armed == [t EXCEPT !.nextId = @ + 1, !.slots[c] = new]
           u == trap_set(t, oneShot, flushed)
<1>1. u = IF flushed THEN armed ELSE trap_remove(armed, {t.nextId})
  BY DEF trap_set
<1>2. t.slots \in [TrapSlots -> Slot] /\ t.nextId \in Nat
  BY TrapsFields
<1>3. new \in Slot /\ new.id = t.nextId /\ new.active /\ new.used
  BY <1>2 DEF Slot
<1> HIDE DEF c, new
<1>4. armed \in Traps /\ armed.slots = [t.slots EXCEPT ![c] = new]
  <2>1. [t.slots EXCEPT ![c] = new] \in [TrapSlots -> Slot]
    BY <1>2, <1>3
  <2> DEFINE f == [t.slots EXCEPT ![c] = new]
  <2>2. armed = [t EXCEPT !.nextId = @ + 1, !.slots = f]
    OBVIOUS
  <2>3. t.nextId + 1 \in Nat
    BY <1>2
  <2> HIDE DEF f, armed
  <2>4. armed \in Traps /\ armed.slots = f
    BY <2>1, <2>2, <2>3 DEF Traps, f
  <2> QED
    BY <2>4 DEF f
<1> HIDE DEF armed, u
<1>5. \A s \in TrapSlots : armed.slots[s] = t.slots[s] \/ armed.slots[s] = new
  BY <1>2, <1>4
<1>6. u \in Traps
  BY <1>1, <1>4, TrapRemoveFacts
<1>7. ASSUME LiveUsed(t)
      PROVE  /\ LiveUsed(u)
             /\ \A s \in TrapSlots : u.slots[s].active =>
                  \/ t.slots[s].active /\ u.slots[s].id = t.slots[s].id
                  \/ flushed /\ u.slots[s].id = t.nextId
  <2>1. LiveUsed(armed)
    BY <1>3, <1>5, <1>7 DEF LiveUsed
  <2>2. CASE flushed
    <3>1. u = armed
      BY <1>1, <2>2
    <3> QED
      BY <1>3, <1>5, <2>1, <2>2, <3>1
  <2>3. CASE ~flushed
    <3>1. Shrinks(armed, u, {t.nextId})
      BY <1>1, <1>4, <2>1, <2>3, TrapRemoveFacts
    <3> QED
      BY <1>3, <1>5, <2>1, <3>1 DEF Shrinks, LiveUsed
  <2> QED
    BY <2>2, <2>3
<1> QED
  BY <1>6, <1>7 DEF u

LEMMA TrapMoveFacts ==
  ASSUME NEW t \in Traps
  PROVE  /\ on_execute(t) \in Traps /\ Shrinks(t, on_execute(t), {})
         /\ publish_stopped(t) \in Traps /\ Shrinks(t, publish_stopped(t), {})
         /\ trap_on_resume(t) \in Traps /\ Shrinks(t, trap_on_resume(t), {})
<1>0. t.slots \in [TrapSlots -> Slot]
  BY TrapsFields
<1>1. on_execute(t) \in Traps /\ Shrinks(t, on_execute(t), {})
  <2> DEFINE hit == {s \in TrapSlots : t.slots[s].active}
             S(s) == IF s \in hit /\ t.slots[s].oneShot
                     THEN [t.slots[s] EXCEPT !.active = FALSE] ELSE t.slots[s]
             u == on_execute(t)
  <2>1. u = [t EXCEPT !.claimed = TRUE, !.mask = hit, !.slots = [s \in TrapSlots |-> S(s)]]
    BY DEF on_execute
  <2>2. \A s \in TrapSlots : S(s) \in Slot /\ (S(s).active => S(s) = t.slots[s])
    BY <1>0 DEF Slot
  <2>3. hit \in SUBSET TrapSlots
    OBVIOUS
  <2> HIDE DEF S, hit
  <2>4. u \in Traps /\ u.slots = [s \in TrapSlots |-> S(s)]
    <3> DEFINE f == [s \in TrapSlots |-> S(s)]
    <3>1. f \in [TrapSlots -> Slot]
      BY <2>2
    <3>2. u = [t EXCEPT !.claimed = TRUE, !.mask = hit, !.slots = f]
      BY <2>1
    <3> HIDE DEF f, u
    <3>3. u \in Traps /\ u.slots = f
      BY <2>3, <3>1, <3>2 DEF Traps
    <3> QED
      BY <3>3 DEF f
  <2> HIDE DEF u
  <2>5. Shrinks(t, u, {})
    BY <2>2, <2>4 DEF Shrinks
  <2> QED
    BY <2>4, <2>5 DEF u
<1>2. publish_stopped(t) \in Traps /\ publish_stopped(t).slots = t.slots
  BY DEF publish_stopped, Traps
<1>3. trap_on_resume(t) \in Traps /\ trap_on_resume(t).slots = t.slots
  BY DEF trap_on_resume, Traps
<1>4. Shrinks(t, publish_stopped(t), {}) /\ Shrinks(t, trap_on_resume(t), {})
  BY <1>2, <1>3 DEF Shrinks
<1> QED
  BY <1>1, <1>2, <1>3, <1>4

-----------------------------------------------------------------------------
(* What a release gives back                                               *)

BpTimes(ks) == [i \in Ids |-> Total([k \in ks |-> BpUses(reg[k])[i]])]

HookTimes(ks) == [a \in Addrs |-> Total([k \in ks |-> HookUses(reg[k])[a]])]

LEMMA TimesType ==
  ASSUME TypeOK, NEW ks \in SUBSET Keys, \A k \in ks : reg[k] # Absent
  PROVE  /\ BpTimes(ks) \in [Ids -> Nat]
         /\ HookTimes(ks) \in [Addrs -> Nat]
<1>1. IsFiniteSet(ks)
  <2>1. ks \in SUBSET (Keys \cup {"held"})
    OBVIOUS
  <2> QED
    BY <2>1, HoldersFinite, FS_Subset
<1>2. \A k \in ks : reg[k] \in Plugin
  BY DEF TypeOK
<1>3. ASSUME NEW i \in Ids PROVE Total([k \in ks |-> BpUses(reg[k])[i]]) \in Nat
  <2>1. [k \in ks |-> BpUses(reg[k])[i]] \in [ks -> Nat]
    BY DEF BpUses
  <2> QED
    BY <1>1, <2>1, TotalSplit
<1>4. ASSUME NEW a \in Addrs PROVE Total([k \in ks |-> HookUses(reg[k])[a]]) \in Nat
  <2>1. ASSUME NEW k \in ks PROVE HookUses(reg[k])[a] \in Nat
    <3>1. reg[k].events[a] \in Nat /\ reg[k].decisions[a] \in Nat
      BY <1>2, PluginFields, NamesFacts
    <3> QED
      BY <3>1 DEF HookUses
  <2>2. [k \in ks |-> HookUses(reg[k])[a]] \in [ks -> Nat]
    BY <2>1
  <2> QED
    BY <1>1, <2>2, TotalSplit
<1> QED
  BY <1>3, <1>4 DEF BpTimes, HookTimes

LEMMA ReleaseType ==
  ASSUME TypeOK, NEW ks \in SUBSET Keys, \A k \in ks : reg[k] # Absent, Release(ks)
  PROVE  /\ bpOwn' \in Leases(Ids) /\ hookOwn' \in Leases(Addrs) /\ traps' \in Traps
         /\ bpOwn' = release_all(bpOwn, BpTimes(ks))
         /\ hookOwn' = release_all(hookOwn, HookTimes(ks))
<1>1. /\ bpOwn' = release_all(bpOwn, BpTimes(ks))
      /\ hookOwn' = release_all(hookOwn, HookTimes(ks))
      /\ traps' = trap_remove(traps, UNION {reg[k].traps : k \in ks})
  BY DEF Release, ReleaseBps, ReleaseHooks, RemoveTraps, BpTimes, HookTimes
<1>2. BpTimes(ks) \in [Ids -> Nat] /\ HookTimes(ks) \in [Addrs -> Nat]
  BY TimesType
<1>3. bpOwn \in Leases(Ids) /\ hookOwn \in Leases(Addrs) /\ traps \in Traps
  BY DEF TypeOK
<1>4. Ids \in SUBSET Ids /\ Addrs \in SUBSET Addrs
  OBVIOUS
<1>5. release_all(bpOwn, BpTimes(ks)) \in Leases(Ids)
  BY <1>2, <1>3, <1>4, ReleaseAllFacts
<1>6. release_all(hookOwn, HookTimes(ks)) \in Leases(Addrs)
  BY <1>2, <1>3, <1>4, ReleaseAllFacts
<1>7. traps' \in Traps
  BY <1>1, <1>3, TrapRemoveFacts
<1> QED
  BY <1>1, <1>5, <1>6, <1>7

LEMMA SpendType ==
  ASSUME used \in Used, NEW flushed \in BOOLEAN
  PROVE  Spend(flushed) \in Used
  BY DEF Spend, Used

LEMMA FlushesType == Flushes \subseteq BOOLEAN
  BY DEF Flushes

LEMMA CalledType ==
  ASSUME NEW u \in Used
  PROVE  [u EXCEPT !.calls = @ + 1] \in Used
  BY DEF Used

LEMMA AtMailType ==
  /\ AtMail \in Host
  /\ AtMail.at = "mail" /\ ~AtMail.py /\ AtMail.batch = <<>> /\ AtMail.todo = {}
  /\ AtMail.call = NoCall /\ AtMail.merged = None /\ AtMail.votes = {}
  /\ AtMail.target = None /\ AtMail.valid /\ ~AtMail.changed
  BY DEF AtMail, Host, Phases, Calls

LEMMA NativeWithoutFacts ==
  ASSUME native \in Native, NEW ids
  PROVE  /\ NativeWithout(ids) \in Native
         /\ \A i \in Ids : NativeWithout(ids).bps[i] = IF i \in ids THEN None ELSE native.bps[i]
         /\ NativeWithout(ids).dbgBps = native.dbgBps \ ids
         /\ NativeWithout(ids).hooks = native.hooks
         /\ NativeWithout(ids).dbgHooks = native.dbgHooks
         /\ NativeWithout(ids).nextId = native.nextId
<1> DEFINE b == [i \in Ids |-> IF i \in ids THEN None ELSE native.bps[i]]
<1>1. b \in [Ids -> Addrs \cup {None}]
  BY DEF Native
<1>2. \A i \in Ids : b[i] = IF i \in ids THEN None ELSE native.bps[i]
  OBVIOUS
<1> HIDE DEF b
<1>3. NativeWithout(ids) = [native EXCEPT !.bps = b, !.dbgBps = @ \ ids]
  BY DEF NativeWithout, b
<1> QED
  BY <1>1, <1>2, <1>3 DEF Native

-----------------------------------------------------------------------------
(* Types, action by action                                                 *)

LEMMA Type_AskExisting == ASSUME TypeOK, PhaseInv, NEW op \in {"breakpoint", "on", "intercept"}, NEW a \in Addrs, AskExisting(op, a) PROVE TypeOK'
<1>1. host' \in Host
  <2> DEFINE e == IF op = "breakpoint" THEN IdsAt(a) # {} ELSE a \in native.hooks
             c == [op |-> op, addr |-> a, existed |-> e]
  <2>0. e \in BOOLEAN
    <3>1. CASE op = "breakpoint"
      BY <3>1
    <3>2. CASE op # "breakpoint"
      BY <3>2
    <3> QED
      BY <3>1, <3>2
  <2> HIDE DEF e
  <2>1. c \in Calls
    BY <2>0 DEF Calls
  <2>2. host' = [host EXCEPT !.call = c] /\ host \in Host
    BY DEF AskExisting, TypeOK, e
  <2> HIDE DEF c
  <2> QED
    BY <2>1, <2>2 DEF Host
<1>2. used' \in Used
  BY CalledType DEF TypeOK, AskExisting, Called
<1> QED
  BY <1>1, <1>2 DEF TypeOK, AskExisting

LEMMA Type_pb_breakpoint == ASSUME TypeOK, PhaseInv, pb_breakpoint PROVE TypeOK'
<1> DEFINE a == host.call.addr
           id == IF IdsAt(a) # {} THEN CHOOSE i \in IdsAt(a) : TRUE ELSE native.nextId
<1>1. a \in Addrs /\ host.call.existed \in BOOLEAN /\ host.key \in Keys /\ Me \in Plugin
  BY CallFacts, MeFacts DEF pb_breakpoint
<1>2. id \in Ids
  BY DEF pb_breakpoint
<1> HIDE DEF id
<1>3. native' \in Native
  <2>1. native' = [native EXCEPT !.bps[id] = a, !.nextId = IF id = @ THEN @ + 1 ELSE @,
                          !.dbgBps = IF host.call.existed /\ id \notin IdsAt(a)
                                     THEN @ \cup {id} ELSE @]
    BY DEF pb_breakpoint, id
  <2>2. native \in Native
    BY DEF TypeOK
  <2>3. /\ [native.bps EXCEPT ![id] = a] \in [Ids -> Addrs \cup {None}]
        /\ (IF id = native.nextId THEN native.nextId + 1 ELSE native.nextId) \in Nat
        /\ (IF host.call.existed /\ id \notin IdsAt(a) THEN native.dbgBps \cup {id}
            ELSE native.dbgBps) \in SUBSET Ids
    BY <1>1, <1>2, <2>2 DEF Native
  <2> QED
    BY <2>1, <2>2, <2>3 DEF Native
<1>4. reg' \in [Keys -> Plugin \cup {Absent}]
  <2>1. [Me EXCEPT !.bps = @ \cup {id}] \in Plugin
    BY <1>1, <1>2 DEF Plugin
  <2>2. SetMe([Me EXCEPT !.bps = @ \cup {id}])
    BY DEF pb_breakpoint, id
  <2> QED
    BY <1>1, <2>1, <2>2, SetMeType
<1>5. bpOwn' \in Leases(Ids)
  <2>1. bpOwn' = IF id \in Me.bps THEN bpOwn ELSE acquire(bpOwn, id, ~host.call.existed)
    BY DEF pb_breakpoint, id
  <2>2. bpOwn \in Leases(Ids) /\ (~host.call.existed) \in BOOLEAN
    BY DEF TypeOK
  <2>3. acquire(bpOwn, id, ~host.call.existed) \in Leases(Ids)
    BY <1>2, <2>2, AcquireFacts
  <2> QED
    BY <2>1, <2>2, <2>3
<1>6. host' \in Host
  BY DEF TypeOK, pb_breakpoint, CallEnds, Host, Calls
<1> QED
  BY <1>1, <1>2, <1>3, <1>4, <1>5, <1>6 DEF TypeOK, pb_breakpoint

LEMMA Type_pb_on_event == ASSUME TypeOK, PhaseInv, pb_on_event PROVE TypeOK'
<1> DEFINE a == host.call.addr
<1>1. a \in Addrs /\ host.call.existed \in BOOLEAN /\ host.key \in Keys /\ Me \in Plugin
  BY CallFacts, MeFacts DEF pb_on_event
<1>2. native' \in Native
  <2>1. native' = HookSet(a) /\ native \in Native
    BY DEF TypeOK, pb_on_event
  <2>2. (IF host.call.existed /\ a \notin native.hooks THEN native.dbgHooks \cup {a} ELSE native.dbgHooks)
            \in SUBSET Addrs
    BY <1>1, <2>1 DEF Native
  <2> QED
    BY <1>1, <2>1, <2>2 DEF Native, HookSet
<1>3. reg' \in [Keys -> Plugin \cup {Absent}]
  <2>1. [Me EXCEPT !.events[a] = @ + 1] \in Plugin
    <3>1. [Me.events EXCEPT ![a] = @ + 1] \in [Addrs -> Nat]
      BY <1>1, PluginFields
    <3> QED
      BY <1>1, <3>1 DEF Plugin
  <2>2. SetMe([Me EXCEPT !.events[a] = @ + 1])
    BY DEF pb_on_event
  <2> QED
    BY <1>1, <2>1, <2>2, SetMeType
<1>4. hookOwn' \in Leases(Addrs)
  <2>1. hookOwn' = acquire(hookOwn, a, ~host.call.existed)
    BY DEF pb_on_event
  <2>2. hookOwn \in Leases(Addrs) /\ (~host.call.existed) \in BOOLEAN
    BY DEF TypeOK
  <2> HIDE DEF a
  <2>3. acquire(hookOwn, a, ~host.call.existed) \in Leases(Addrs)
    BY <1>1, <2>2, AcquireFacts
  <2> QED
    BY <2>1, <2>3
<1>5. host' \in Host
  BY DEF TypeOK, pb_on_event, CallEnds, Host, Calls
<1> QED
  BY <1>1, <1>2, <1>3, <1>4, <1>5 DEF TypeOK, pb_on_event

LEMMA Type_pb_intercept_hook == ASSUME TypeOK, PhaseInv, pb_intercept_hook PROVE TypeOK'
<1> DEFINE a == host.call.addr
<1>1. a \in Addrs /\ host.call.existed \in BOOLEAN /\ host.key \in Keys /\ Me \in Plugin
  BY CallFacts, MeFacts DEF pb_intercept_hook
<1>2. native' \in Native
  <2>1. native' = HookSet(a) /\ native \in Native
    BY DEF TypeOK, pb_intercept_hook
  <2>2. (IF host.call.existed /\ a \notin native.hooks THEN native.dbgHooks \cup {a} ELSE native.dbgHooks)
            \in SUBSET Addrs
    BY <1>1, <2>1 DEF Native
  <2> QED
    BY <1>1, <2>1, <2>2 DEF Native, HookSet
<1>3. reg' \in [Keys -> Plugin \cup {Absent}]
  <2>1. [Me EXCEPT !.decisions[a] = @ + 1] \in Plugin
    <3>1. [Me.decisions EXCEPT ![a] = @ + 1] \in [Targets -> Nat]
      BY <1>1, PluginFields, NamesFacts
    <3> QED
      BY <1>1, <3>1 DEF Plugin
  <2>2. SetMe([Me EXCEPT !.decisions[a] = @ + 1])
    BY DEF pb_intercept_hook
  <2> QED
    BY <1>1, <2>1, <2>2, SetMeType
<1>4. pub' \in Published
  <2>1. pub' = publish_interests(reg', pub) /\ pub \in Published
    BY DEF TypeOK, pb_intercept_hook, SetMe
  <2> QED
    BY <1>3, <2>1, InterestsFacts
<1>5. hookOwn' \in Leases(Addrs)
  <2>1. hookOwn' = acquire(hookOwn, a, ~host.call.existed)
    BY DEF pb_intercept_hook
  <2>2. hookOwn \in Leases(Addrs) /\ (~host.call.existed) \in BOOLEAN
    BY DEF TypeOK
  <2> HIDE DEF a
  <2>3. acquire(hookOwn, a, ~host.call.existed) \in Leases(Addrs)
    BY <1>1, <2>2, AcquireFacts
  <2> QED
    BY <2>1, <2>3
<1>6. host' \in Host
  BY DEF TypeOK, pb_intercept_hook, CallEnds, Host, Calls
<1> QED
  BY <1>1, <1>2, <1>3, <1>4, <1>5, <1>6 DEF TypeOK, pb_intercept_hook

LEMMA Type_SecondRequestFails == ASSUME TypeOK, PhaseInv, SecondRequestFails PROVE TypeOK'
<1>1. host' \in Host
  BY DEF TypeOK, SecondRequestFails, CallEnds, Host, Calls
<1>2. pub' \in Published
  <2>1. pub' \in {pub, publish_interests(reg, pub)}
    BY DEF SecondRequestFails
  <2> QED
    BY <2>1, InterestsFacts DEF TypeOK
<1> QED
  BY <1>1, <1>2 DEF TypeOK, SecondRequestFails

LEMMA Type_pb_breakpoint_remove == ASSUME TypeOK, PhaseInv, NEW id \in Ids, pb_breakpoint_remove(id) PROVE TypeOK'
<1>1. host.key \in Keys /\ Me \in Plugin
  BY MeFacts DEF pb_breakpoint_remove, Calling
<1>2. reg' \in [Keys -> Plugin \cup {Absent}]
  <2>1. [Me EXCEPT !.bps = @ \ {id}] \in Plugin
    BY <1>1 DEF Plugin
  <2> QED
    BY <1>1, <2>1, SetMeType DEF pb_breakpoint_remove
<1>3. bpOwn' \in Leases(Ids)
  <2>1. bpOwn' \in {release(bpOwn, id), release_or_queue(bpOwn, id)}
    BY DEF pb_breakpoint_remove
  <2>2. bpOwn \in Leases(Ids)
    BY DEF TypeOK
  <2> QED
    BY <2>1, <2>2, ReleaseFacts, ReleaseOrQueueFacts
<1>4. native' \in Native
  <2>1. native' \in {native, NativeWithout({id})}
    BY DEF pb_breakpoint_remove
  <2> QED
    BY <2>1, NativeWithoutFacts DEF TypeOK
<1>5. used' \in Used
  BY CalledType DEF TypeOK, pb_breakpoint_remove, Called
<1> QED
  BY <1>1, <1>2, <1>3, <1>4, <1>5 DEF TypeOK, pb_breakpoint_remove

LEMMA Type_pb_off_event == ASSUME TypeOK, PhaseInv, NEW a \in Addrs, pb_off_event(a) PROVE TypeOK'
<1>1. host.key \in Keys /\ Me \in Plugin
  BY MeFacts DEF pb_off_event, Calling
<1>2. reg' \in [Keys -> Plugin \cup {Absent}]
  <2>1. [Me EXCEPT !.events[a] = @ - 1] \in Plugin
    <3>1. [Me.events EXCEPT ![a] = @ - 1] \in [Addrs -> Nat]
      BY <1>1, PluginFields DEF pb_off_event
    <3> QED
      BY <1>1, <3>1 DEF Plugin
  <2> QED
    BY <1>1, <2>1, SetMeType DEF pb_off_event
<1>3. hookOwn' \in Leases(Addrs)
  <2>1. hookOwn \in Leases(Addrs)
    BY DEF TypeOK
  <2> QED
    BY <2>1, ReleaseOrQueueFacts DEF pb_off_event
<1>4. used' \in Used
  BY CalledType DEF TypeOK, pb_off_event, Called
<1> QED
  BY <1>1, <1>2, <1>3, <1>4 DEF TypeOK, pb_off_event

LEMMA Type_pb_intercept == ASSUME TypeOK, PhaseInv, pb_intercept PROVE TypeOK'
<1>1. host.key \in Keys /\ Me \in Plugin
  BY MeFacts DEF pb_intercept, Calling
<1>2. reg' \in [Keys -> Plugin \cup {Absent}]
  <2>1. [Me EXCEPT !.decisions[Syscalls] = @ + 1] \in Plugin
    <3>1. [Me.decisions EXCEPT ![Syscalls] = @ + 1] \in [Targets -> Nat]
      BY <1>1, PluginFields, NamesFacts
    <3> QED
      BY <1>1, <3>1 DEF Plugin
  <2>2. SetMe([Me EXCEPT !.decisions[Syscalls] = @ + 1])
    BY DEF pb_intercept
  <2> QED
    BY <1>1, <2>1, <2>2, SetMeType
<1>3. pub' \in Published
  <2>1. pub' = publish_interests(reg', pub) /\ pub \in Published
    BY DEF TypeOK, pb_intercept, SetMe
  <2> QED
    BY <1>2, <2>1, InterestsFacts
<1>4. used' \in Used
  BY CalledType DEF TypeOK, pb_intercept, Called
<1> QED
  BY <1>1, <1>2, <1>3, <1>4 DEF TypeOK, pb_intercept

LEMMA Type_pb_unintercept == ASSUME TypeOK, PhaseInv, NEW t \in Targets, pb_unintercept(t) PROVE TypeOK'
<1>1. host.key \in Keys /\ Me \in Plugin
  BY MeFacts DEF pb_unintercept, Calling
<1>2. reg' \in [Keys -> Plugin \cup {Absent}]
  <2>1. [Me EXCEPT !.decisions[t] = @ - 1] \in Plugin
    <3>1. [Me.decisions EXCEPT ![t] = @ - 1] \in [Targets -> Nat]
      BY <1>1, PluginFields, NamesFacts DEF pb_unintercept
    <3> QED
      BY <1>1, <3>1 DEF Plugin
  <2>2. SetMe([Me EXCEPT !.decisions[t] = @ - 1])
    BY DEF pb_unintercept
  <2> QED
    BY <1>1, <2>1, <2>2, SetMeType
<1>3. pub' \in Published
  <2>1. pub' = publish_interests(reg', pub) /\ pub \in Published
    BY DEF TypeOK, pb_unintercept, SetMe
  <2> QED
    BY <1>2, <2>1, InterestsFacts
<1>4. hookOwn' \in Leases(Addrs)
  <2>1. hookOwn \in Leases(Addrs)
    BY DEF TypeOK
  <2> QED
    BY <2>1, ReleaseOrQueueFacts DEF pb_unintercept
<1>5. used' \in Used
  BY CalledType DEF TypeOK, pb_unintercept, Called
<1> QED
  BY <1>1, <1>2, <1>3, <1>4, <1>5 DEF TypeOK, pb_unintercept

LEMMA Type_pb_execution_trap == ASSUME TypeOK, PhaseInv, NEW oneShot \in BOOLEAN, pb_execution_trap(oneShot) PROVE TypeOK'
<1>1. host.key \in Keys /\ Me \in Plugin
  BY MeFacts DEF pb_execution_trap, Calling
<1>2. PICK flushed \in Flushes :
            /\ traps' = trap_set(traps, oneShot, flushed)
            /\ IF flushed THEN SetMe([Me EXCEPT !.traps = @ \cup {traps.nextId}]) ELSE UNCHANGED reg
            /\ used' = [Spend(flushed) EXCEPT !.calls = @ + 1]
  BY DEF pb_execution_trap
<1>3. traps' \in Traps
  BY <1>2, FlushesType, TrapSetFacts DEF TypeOK
<1>4. reg' \in [Keys -> Plugin \cup {Absent}]
  <2>1. traps.nextId \in Nat
    BY TrapsFields DEF TypeOK
  <2>2. [Me EXCEPT !.traps = @ \cup {traps.nextId}] \in Plugin
    BY <1>1, <2>1 DEF Plugin
  <2> QED
    BY <1>1, <1>2, <2>2, SetMeType DEF TypeOK
<1>5. used' \in Used
  BY <1>2, FlushesType, SpendType, CalledType DEF TypeOK
<1> QED
  BY <1>1, <1>2, <1>3, <1>4, <1>5 DEF TypeOK, pb_execution_trap

LEMMA Type_pb_execution_trap_remove == ASSUME TypeOK, PhaseInv, NEW id, pb_execution_trap_remove(id) PROVE TypeOK'
<1>1. host.key \in Keys /\ Me \in Plugin
  BY MeFacts DEF pb_execution_trap_remove, Calling
<1>2. reg' \in [Keys -> Plugin \cup {Absent}]
  <2>1. [Me EXCEPT !.traps = @ \ {id}] \in Plugin
    BY <1>1 DEF Plugin
  <2> QED
    BY <1>1, <2>1, SetMeType DEF pb_execution_trap_remove
<1>3. traps' \in Traps
  BY TrapRemoveFacts DEF TypeOK, pb_execution_trap_remove
<1>4. used' \in Used
  BY CalledType DEF TypeOK, pb_execution_trap_remove, Called
<1> QED
  BY <1>1, <1>2, <1>3, <1>4 DEF TypeOK, pb_execution_trap_remove

\* The registry a policy call asks for, what publishing it answers, and what is
\* then in force.
Asked(kind, spec) == [reg EXCEPT ![host.key].policy[kind] = spec]
Answer(kind, spec, flushed) ==
    publish(kind, Specs(Asked(kind, spec))[kind], pub.policy[kind], flushed)
Tried(kind, spec, flushed) ==
    WithPolicy(Asked(kind, spec), pub,
               [pub.policy EXCEPT ![kind] = Answer(kind, spec, flushed).value])

LEMMA AskedFacts ==
  ASSUME TypeOK, PhaseInv, NEW kind \in PolicyKinds, NEW spec \in Specifications \cup {NoSpec},
         NEW flushed \in BOOLEAN, host.py
  PROVE  /\ Asked(kind, spec) \in [Keys -> Plugin \cup {Absent}]
         /\ \A k \in Keys : k # host.key => Asked(kind, spec)[k] = reg[k]
         /\ Asked(kind, spec)[host.key] = [Me EXCEPT !.policy[kind] = spec]
         /\ [pub.policy EXCEPT ![kind] = Answer(kind, spec, flushed).value]
                 \in [PolicyKinds -> SUBSET UNION Specifications]
         /\ Tried(kind, spec, flushed) \in Published
<1>1. host.key \in Keys /\ Me \in Plugin /\ reg[host.key] = Me
  BY MeFacts
<1>2. Asked(kind, spec) = [reg EXCEPT ![host.key] = [Me EXCEPT !.policy[kind] = spec]]
  BY <1>1 DEF Asked, TypeOK
<1>3. [Me EXCEPT !.policy[kind] = spec] \in Plugin
  <2>1. [Me.policy EXCEPT ![kind] = spec] \in [PolicyKinds -> Specifications \cup {NoSpec}]
    BY <1>1, PluginFields
  <2> QED
    BY <1>1, <2>1 DEF Plugin
<1>4. /\ Asked(kind, spec) \in [Keys -> Plugin \cup {Absent}]
      /\ \A k \in Keys : k # host.key => Asked(kind, spec)[k] = reg[k]
      /\ Asked(kind, spec)[host.key] = [Me EXCEPT !.policy[kind] = spec]
  BY <1>1, <1>2, <1>3 DEF TypeOK
<1>5. pub \in Published /\ pub.policy \in [PolicyKinds -> SUBSET UNION Specifications]
  BY DEF TypeOK, Published
<1>6. Answer(kind, spec, flushed).value \in {pub.policy[kind], Merged(Specs(Asked(kind, spec))[kind])}
  BY PublishFacts DEF Answer
<1>7. Merged(Specs(Asked(kind, spec))[kind]) \in SUBSET UNION Specifications
  BY <1>4, SpecsFacts
<1>8. [pub.policy EXCEPT ![kind] = Answer(kind, spec, flushed).value]
                 \in [PolicyKinds -> SUBSET UNION Specifications]
  BY <1>5, <1>6, <1>7
<1>9. Tried(kind, spec, flushed) \in Published
  BY <1>5, <1>8, WithPolicyFacts DEF Tried
<1> QED
  BY <1>4, <1>8, <1>9

LEMMA PolicyCallFacts ==
  ASSUME NEW kind \in PolicyKinds, NEW spec, PolicyCall(kind, spec)
  PROVE  \E flushed, again \in BOOLEAN :
            /\ reg' = IF Answer(kind, spec, flushed).failed THEN reg ELSE Asked(kind, spec)
            /\ pub' = IF Answer(kind, spec, flushed).failed
                      THEN refresh(reg, Tried(kind, spec, flushed), again)
                      ELSE Tried(kind, spec, flushed)
            /\ used' = [Spend(flushed /\ again) EXCEPT !.calls = @ + 1]
<1>1. PICK flushed, again \in Flushes :
            /\ reg' = IF Answer(kind, spec, flushed).failed THEN reg ELSE Asked(kind, spec)
            /\ pub' = IF Answer(kind, spec, flushed).failed
                      THEN refresh(reg, Tried(kind, spec, flushed), again)
                      ELSE Tried(kind, spec, flushed)
            /\ used' = [Spend(flushed /\ again) EXCEPT !.calls = @ + 1]
  BY DEF PolicyCall, Answer, Asked, Tried
<1>2. flushed \in BOOLEAN /\ again \in BOOLEAN
  BY FlushesType
<1> QED
  BY <1>1, <1>2

LEMMA Type_PolicyCall == ASSUME TypeOK, PhaseInv, NEW kind \in PolicyKinds, NEW spec \in Specifications \cup {NoSpec}, PolicyCall(kind, spec) PROVE TypeOK'
<1>1. PICK flushed, again \in BOOLEAN :
            /\ reg' = IF Answer(kind, spec, flushed).failed THEN reg ELSE Asked(kind, spec)
            /\ pub' = IF Answer(kind, spec, flushed).failed
                      THEN refresh(reg, Tried(kind, spec, flushed), again)
                      ELSE Tried(kind, spec, flushed)
            /\ used' = [Spend(flushed /\ again) EXCEPT !.calls = @ + 1]
  BY PolicyCallFacts
<1>2. /\ Asked(kind, spec) \in [Keys -> Plugin \cup {Absent}]
      /\ Tried(kind, spec, flushed) \in Published
  BY AskedFacts DEF PolicyCall, Calling
<1>3. reg \in [Keys -> Plugin \cup {Absent}]
  BY DEF TypeOK
<1>4. refresh(reg, Tried(kind, spec, flushed), again) \in Published
  BY <1>2, <1>3, RefreshFacts
<1>5. reg' \in [Keys -> Plugin \cup {Absent}]
  BY <1>1, <1>2, <1>3
<1>6. pub' \in Published
  BY <1>1, <1>2, <1>4
<1>7. used' \in Used
  <2>1. (flushed /\ again) \in BOOLEAN
    OBVIOUS
  <2> QED
    BY <1>1, <2>1, SpendType, CalledType DEF TypeOK
<1> QED
  BY <1>1, <1>2, <1>3, <1>4, <1>5, <1>6, <1>7 DEF TypeOK, PolicyCall

LEMMA Type_pb_resume == ASSUME TypeOK, PhaseInv, pb_resume PROVE TypeOK'
<1>1. stop' \in Stop /\ traps' \in Traps
  BY TrapMoveFacts DEF TypeOK, pb_resume, Resumed, Stop
<1>2. used' \in Used
  BY CalledType DEF TypeOK, pb_resume, Called
<1> QED
  BY <1>1, <1>2 DEF TypeOK, pb_resume

LEMMA FreshFacts ==
  ASSUME NEW state \in {"running", "error", "staging", "replacing"}, NEW gen \in Nat
  PROVE  /\ FreshPlugin(state, gen) \in Plugin
         /\ FreshPlugin(state, gen).state = state /\ ~FreshPlugin(state, gen).quarantined
         /\ FreshPlugin(state, gen).bps = {} /\ FreshPlugin(state, gen).traps = {}
         /\ \A a \in Addrs : FreshPlugin(state, gen).events[a] = 0
         /\ \A t \in Targets : FreshPlugin(state, gen).decisions[t] = 0
         /\ \A k \in PolicyKinds : FreshPlugin(state, gen).policy[k] = NoSpec
<1> DEFINE e == [a \in Addrs |-> 0]
           d == [t \in Targets |-> 0]
           y == [k \in PolicyKinds |-> NoSpec]
<1>1. /\ e \in [Addrs -> Nat] /\ d \in [Targets -> Nat]
      /\ y \in [PolicyKinds -> Specifications \cup {NoSpec}]
      /\ \A a \in Addrs : e[a] = 0
      /\ \A t \in Targets : d[t] = 0
      /\ \A k \in PolicyKinds : y[k] = NoSpec
  OBVIOUS
<1>2. FreshPlugin(state, gen) = [state |-> state, quarantined |-> FALSE, bps |-> {}, traps |-> {},
                                 events |-> e, decisions |-> d, policy |-> y, seenGen |-> gen]
  BY DEF FreshPlugin
<1> HIDE DEF e, d, y
<1>3. FreshPlugin(state, gen) \in Plugin
  BY <1>1, <1>2 DEF Plugin
<1> QED
  BY <1>1, <1>2, <1>3

LEMMA PluginQuarantined ==
  ASSUME NEW p \in Plugin, NEW q \in BOOLEAN
  PROVE  /\ [p EXCEPT !.quarantined = q] \in Plugin
         /\ [p EXCEPT !.quarantined = q].quarantined = q
         /\ [p EXCEPT !.quarantined = q].state = p.state
         /\ [p EXCEPT !.quarantined = q].bps = p.bps
         /\ [p EXCEPT !.quarantined = q].traps = p.traps
         /\ [p EXCEPT !.quarantined = q].events = p.events
         /\ [p EXCEPT !.quarantined = q].decisions = p.decisions
         /\ [p EXCEPT !.quarantined = q].policy = p.policy
  BY DEF Plugin

\* What quarantine leaves of a plugin, and the registry it leaves.
Emptied(p) == [Drained(p) EXCEPT !.quarantined = TRUE]
Quarantined == [k \in Keys |-> IF k \in Failed(reg) THEN Emptied(reg[k]) ELSE reg[k]]

LEMMA EmptiedFacts ==
  ASSUME NEW p \in Plugin
  PROVE  /\ Emptied(p) \in Plugin /\ Emptied(p).state = p.state /\ Emptied(p).quarantined
         /\ Emptied(p).bps = {} /\ Emptied(p).traps = {}
         /\ \A a \in Addrs : Emptied(p).events[a] = 0
         /\ \A t \in Targets : Emptied(p).decisions[t] = 0
<1> DEFINE f == FreshPlugin(p.state, p.seenGen)
           d == [f EXCEPT !.quarantined = p.quarantined]
<1>1. /\ f \in Plugin /\ f.state = p.state /\ f.bps = {} /\ f.traps = {}
      /\ \A a \in Addrs : f.events[a] = 0
      /\ \A t \in Targets : f.decisions[t] = 0
  BY PluginFields, FreshFacts
<1>2. Emptied(p) = [d EXCEPT !.quarantined = TRUE]
  BY DEF Emptied, Drained
<1>3. p.quarantined \in BOOLEAN
  BY PluginFields
<1> HIDE DEF f
<1>4. /\ d \in Plugin /\ d.state = f.state /\ d.bps = f.bps /\ d.traps = f.traps
      /\ d.events = f.events /\ d.decisions = f.decisions
  BY <1>1, <1>3, PluginQuarantined
<1> HIDE DEF d
<1> DEFINE t == TRUE
           e == [d EXCEPT !.quarantined = t]
<1>5. t \in BOOLEAN /\ t /\ Emptied(p) = e
  BY <1>2
<1> HIDE DEF t
<1>6. /\ e \in Plugin /\ e.quarantined = t /\ e.state = d.state /\ e.bps = d.bps /\ e.traps = d.traps
      /\ e.events = d.events /\ e.decisions = d.decisions
  BY <1>4, <1>5, PluginQuarantined
<1> HIDE DEF e
<1> QED
  BY <1>1, <1>4, <1>5, <1>6

LEMMA QuarantineFacts ==
  ASSUME TypeOK, quarantine_error_plugins
  PROVE  \/ Failed(reg) = {} /\ UNCHANGED <<reg, bpOwn, hookOwn, traps, pub, used>>
         \/ \E flushed \in BOOLEAN :
               /\ Failed(reg) # {}
               /\ reg' = Quarantined /\ Release(Failed(reg))
               /\ pub' = refresh(Quarantined, publish_interests(Quarantined, pub), flushed)
               /\ used' = Spend(flushed)
<1>1. CASE Failed(reg) = {}
  BY <1>1 DEF quarantine_error_plugins
<1>2. CASE Failed(reg) # {}
  <2>1. PICK flushed \in Flushes :
               /\ reg' = Quarantined /\ Release(Failed(reg))
               /\ pub' = refresh(Quarantined, publish_interests(Quarantined, pub), flushed)
               /\ used' = Spend(flushed)
    BY <1>2 DEF quarantine_error_plugins, Quarantined, Emptied
  <2> QED
    BY <1>2, <2>1, FlushesType
<1> QED
  BY <1>1, <1>2

LEMMA QuarantinedFacts ==
  ASSUME TypeOK
  PROVE  /\ Failed(reg) \in SUBSET Keys
         /\ \A k \in Failed(reg) : reg[k] \in Plugin /\ reg[k] # Absent
         /\ Quarantined \in [Keys -> Plugin \cup {Absent}]
         /\ \A k \in Failed(reg) : Quarantined[k] = Emptied(reg[k])
         /\ \A k \in Keys : k \notin Failed(reg) => Quarantined[k] = reg[k]
<1>1. Failed(reg) \in SUBSET Keys /\ \A k \in Failed(reg) : reg[k] \in Plugin /\ reg[k] # Absent
  BY DEF TypeOK, Failed
<1>2. \A k \in Failed(reg) : Emptied(reg[k]) \in Plugin
  BY <1>1, EmptiedFacts
<1>3. \A k \in Keys : reg[k] \in Plugin \cup {Absent}
  BY DEF TypeOK
<1> QED
  BY <1>1, <1>2, <1>3 DEF Quarantined

LEMMA QuarantineType ==
  ASSUME TypeOK, quarantine_error_plugins
  PROVE  /\ reg' \in [Keys -> Plugin \cup {Absent}]
         /\ bpOwn' \in Leases(Ids) /\ hookOwn' \in Leases(Addrs) /\ traps' \in Traps
         /\ pub' \in Published /\ used' \in Used
<1>1. CASE Failed(reg) = {} /\ UNCHANGED <<reg, bpOwn, hookOwn, traps, pub, used>>
  BY <1>1 DEF TypeOK
<1>2. ASSUME NEW flushed \in BOOLEAN,
             reg' = Quarantined, Release(Failed(reg)),
             pub' = refresh(Quarantined, publish_interests(Quarantined, pub), flushed),
             used' = Spend(flushed)
      PROVE  /\ reg' \in [Keys -> Plugin \cup {Absent}]
             /\ bpOwn' \in Leases(Ids) /\ hookOwn' \in Leases(Addrs) /\ traps' \in Traps
             /\ pub' \in Published /\ used' \in Used
  <2>1. bpOwn' \in Leases(Ids) /\ hookOwn' \in Leases(Addrs) /\ traps' \in Traps
    BY <1>2, QuarantinedFacts, ReleaseType
  <2>2. Quarantined \in [Keys -> Plugin \cup {Absent}] /\ pub \in Published /\ used \in Used
    BY QuarantinedFacts DEF TypeOK
  <2>3. pub' \in Published
    BY <1>2, <2>2, InterestsFacts, RefreshFacts
  <2>4. used' \in Used
    BY <1>2, <2>2, SpendType
  <2> QED
    BY <1>2, <2>1, <2>2, <2>3, <2>4
<1> QED
  BY <1>1, <1>2, QuarantineFacts

\* One plugin is given up: everything is released and published anew.
LEMMA GivenUpType ==
  ASSUME TypeOK, NEW k \in Keys, reg[k] # Absent, Release({k}),
         NEW r \in [Keys -> Plugin \cup {Absent}], NEW flushed \in BOOLEAN, NEW p \in Published
  PROVE  /\ bpOwn' \in Leases(Ids) /\ hookOwn' \in Leases(Addrs) /\ traps' \in Traps
         /\ refresh(r, publish_interests(r, p), flushed) \in Published
<1>1. {k} \in SUBSET Keys /\ \A x \in {k} : reg[x] # Absent
  OBVIOUS
<1>2. bpOwn' \in Leases(Ids) /\ hookOwn' \in Leases(Addrs) /\ traps' \in Traps
  BY <1>1, ReleaseType
<1> QED
  BY <1>2, InterestsFacts, RefreshFacts

LEMMA MailFacts ==
  ASSUME TypeOK, mail.cmds # <<>>
  PROVE  /\ Replied \in Mail
         /\ Head(mail.cmds) \in Commands
         /\ Replied.late = mail.late
         /\ Head(mail.cmds).op = "load" => Head(mail.cmds).name \in Names
<1>1. mail \in Mail /\ mail.cmds \in Seq(Commands)
  BY DEF TypeOK, Mail
<1>2. Head(mail.cmds) \in Commands /\ Tail(mail.cmds) \in Seq(Commands)
  BY <1>1
<1>3. Replied \in Mail /\ Replied.late = mail.late
  BY <1>1, <1>2 DEF Replied, Mail
<1>4. \A c \in Commands : c.op = "load" => c.name \in Names
  BY DEF Commands
<1> QED
  BY <1>2, <1>3, <1>4

\* The host h has called plugin k.
InCall(h, k) ==
    /\ h \in Host
    /\ h.at = host.at /\ h.py /\ h.key = k /\ h.todo = host.todo \ {k}
    /\ h.batch = host.batch /\ h.call = host.call /\ h.merged = host.merged
    /\ h.votes = host.votes /\ h.target = host.target
    /\ h.changed = host.changed /\ h.valid = host.valid

LEMMA InCallFacts ==
  ASSUME host \in Host, NEW k \in host.todo
  PROVE  \E h \in Host : h = CallPlugin(k) /\ InCall(h, k)
<1>1. host.todo \in SUBSET Names
  BY HostFields
<1>2. k \in Keys
  BY <1>1, NamesFacts
<1> DEFINE h == [host EXCEPT !.py = TRUE, !.key = k, !.todo = @ \ {k}]
<1>3. h = CallPlugin(k)
  BY DEF CallPlugin
<1>4. h \in Host
  BY <1>1, <1>2 DEF Host
<1>5. /\ h.at = host.at /\ h.py /\ h.key = k /\ h.todo = host.todo \ {k}
      /\ h.batch = host.batch /\ h.call = host.call /\ h.merged = host.merged
      /\ h.votes = host.votes /\ h.target = host.target
      /\ h.changed = host.changed /\ h.valid = host.valid
  BY DEF Host
<1> HIDE DEF h
<1>6. InCall(h, k)
  BY <1>4, <1>5 DEF InCall
<1> QED
  BY <1>3, <1>4, <1>6

LEMMA CallFirstFacts ==
  ASSUME host \in Host, host.todo # {}
  PROVE  \E k \in host.todo : \E h \in Host : h = CallFirst /\ InCall(h, k)
<1>1. host.todo \in SUBSET Names
  BY HostFields
<1>2. First(host.todo) \in host.todo
  BY <1>1, FirstFacts
<1>3. CallFirst = CallPlugin(First(host.todo))
  BY DEF CallFirst
<1> QED
  BY <1>2, <1>3, InCallFacts

LEMMA ExecDoneFacts ==
  ASSUME host \in Host, host.batch # <<>>
  PROVE  /\ ExecDone \in Host
         /\ ExecDone.at = "exec" /\ ~ExecDone.py /\ ExecDone.key = None
         /\ ExecDone.todo = host.todo /\ ExecDone.call = host.call
         /\ ExecDone.merged = host.merged /\ ExecDone.votes = host.votes
         /\ ExecDone.target = host.target
         /\ ExecDone.changed = host.changed /\ ExecDone.valid = host.valid
<1>1. Tail(host.batch) \in Seq(Names)
  BY HostFields
<1>2. ExecDone \in Host
  BY <1>1 DEF ExecDone, Host, Phases
<1> QED
  BY <1>2 DEF ExecDone, Host

LEMMA Type_cmd_load == ASSUME TypeOK, PhaseInv, cmd_load PROVE TypeOK'
<1>1. mail' \in Mail
  BY MailFacts DEF cmd_load
<1>2. pending' \in Seq(Names)
  <2>1. pending \in Seq(Names) /\ Head(mail.cmds).name \in Names
    BY MailFacts DEF cmd_load, TypeOK
  <2>2. RemoveFirst(pending, Head(mail.cmds).name) \in Seq(Names)
    BY <2>1, RemoveFirstType
  <2> QED
    BY <2>1, <2>2 DEF cmd_load
<1> QED
  BY <1>1, <1>2 DEF TypeOK, cmd_load

LEMMA Type_cmd_unload == ASSUME TypeOK, PhaseInv, cmd_unload PROVE TypeOK'
<1> DEFINE names == ToUnload(Head(mail.cmds))
<1>1. names \in SUBSET Names
  BY DEF ToUnload
<1>2. mail' \in Mail
  BY MailFacts DEF cmd_unload, TypeOK
<1>3. host' \in Host
  <2>1. CASE names = {}
    BY <2>1 DEF cmd_unload, TypeOK
  <2>2. CASE names # {}
    <3>1. PICK f \in names :
              host' = [host EXCEPT !.at = "unload", !.py = TRUE, !.key = f, !.todo = names \ {f}]
      BY <2>2 DEF cmd_unload
    <3>2. f \in Keys
      BY <1>1, NamesFacts
    <3> HIDE DEF names
    <3> QED
      BY <1>1, <3>1, <3>2 DEF TypeOK, Host, Phases
  <2> QED
    BY <2>1, <2>2
<1> QED
  BY <1>1, <1>2, <1>3 DEF TypeOK, cmd_unload

LEMMA RetireFacts ==
  ASSUME TypeOK, PhaseInv, retire_plugin
  PROVE  \E flushed \in BOOLEAN :
            /\ reg' = [reg EXCEPT ![host.key] = Absent] /\ Release({host.key})
            /\ pub' = refresh(reg', publish_interests(reg', pub), flushed)
            /\ used' = Spend(flushed)
<1>1. PICK flushed \in Flushes :
            /\ reg' = [reg EXCEPT ![host.key] = Absent] /\ Release({host.key})
            /\ pub' = refresh([reg EXCEPT ![host.key] = Absent],
                              publish_interests([reg EXCEPT ![host.key] = Absent], pub), flushed)
            /\ used' = Spend(flushed)
  BY DEF retire_plugin
<1> QED
  BY <1>1, FlushesType

LEMMA Type_retire_plugin == ASSUME TypeOK, PhaseInv, retire_plugin PROVE TypeOK'
<1>1. host.key \in Keys /\ Me \in Plugin
  BY MeFacts DEF retire_plugin
<1>2. PICK flushed \in BOOLEAN :
            /\ reg' = [reg EXCEPT ![host.key] = Absent] /\ Release({host.key})
            /\ pub' = refresh(reg', publish_interests(reg', pub), flushed)
            /\ used' = Spend(flushed)
  BY RetireFacts
<1>3. reg' \in [Keys -> Plugin \cup {Absent}]
  BY <1>2 DEF TypeOK
<1>4. bpOwn' \in Leases(Ids) /\ hookOwn' \in Leases(Addrs) /\ traps' \in Traps /\ pub' \in Published
  <2>1. pub \in Published /\ reg[host.key] # Absent
    BY MeFacts DEF TypeOK, retire_plugin
  <2> QED
    BY <1>1, <1>2, <1>3, <2>1, GivenUpType
<1>5. used' \in Used
  BY <1>2, SpendType DEF TypeOK
<1>6. host' \in Host
  <2>1. host' = AtMail \/ \E n \in host.todo : host' = CallPlugin(n)
    BY DEF retire_plugin
  <2>2. ASSUME NEW n \in host.todo, host' = CallPlugin(n) PROVE host' \in Host
    BY <2>2, InCallFacts DEF TypeOK
  <2> QED
    BY <2>1, <2>2, AtMailType
<1>7. mail' \in Mail
  BY MailFacts DEF retire_plugin, TypeOK, PhaseInv, CallInv
<1> QED
  BY <1>1, <1>2, <1>3, <1>4, <1>5, <1>6, <1>7 DEF TypeOK, retire_plugin

LEMMA Type_BeginTick == ASSUME TypeOK, PhaseInv, BeginTick PROVE TypeOK'
<1>1. host' \in Host
  <2>1. host' = [AtMail EXCEPT !.at = "exec", !.batch = pending] /\ pending \in Seq(Names)
    BY DEF BeginTick, TypeOK
  <2> QED
    BY <2>1, AtMailType DEF Host, Phases
<1>2. pending' \in Seq(Names)
  BY DEF BeginTick
<1> QED
  BY <1>1, <1>2 DEF TypeOK, BeginTick

LEMMA ExecBeginFacts ==
  ASSUME TypeOK, ExecBegin
  PROVE  LET n == Head(host.batch)
             key == IF reg[n] = Absent THEN n ELSE Staged
         IN /\ n \in Names /\ key \in Keys
            /\ \E gen \in Nat : /\ reg' = [reg EXCEPT ![key] =
                                   FreshPlugin(IF key = n THEN "running" ELSE "staging", gen)]
                               /\ FreshPlugin(IF key = n THEN "running" ELSE "staging", gen) \in Plugin
            /\ host' = [host EXCEPT !.py = TRUE, !.key = key]
<1> DEFINE n == Head(host.batch)
           key == IF reg[n] = Absent THEN n ELSE Staged
           gen == IF mail.waiting THEN 0 ELSE stop.gen
           st == IF key = n THEN "running" ELSE "staging"
<1>1. n \in Names
  BY HostFields DEF TypeOK, ExecBegin
<1>2. key \in Keys
  BY <1>1, NamesFacts
<1>3. gen \in Nat
  BY DEF TypeOK, Stop
<1>4. st \in {"running", "error", "staging", "replacing"}
  OBVIOUS
<1>5. reg' = [reg EXCEPT ![key] = FreshPlugin(st, gen)] /\ host' = [host EXCEPT !.py = TRUE, !.key = key]
  BY DEF ExecBegin
<1> HIDE DEF gen, st
<1>6. FreshPlugin(st, gen) \in Plugin
  BY <1>3, <1>4, FreshFacts
<1> QED
  BY <1>1, <1>2, <1>3, <1>5, <1>6 DEF st

LEMMA Type_ExecBegin == ASSUME TypeOK, PhaseInv, ExecBegin PROVE TypeOK'
<1> DEFINE n == Head(host.batch)
           key == IF reg[n] = Absent THEN n ELSE Staged
<1>1. /\ key \in Keys
      /\ \E p \in Plugin : reg' = [reg EXCEPT ![key] = p]
      /\ host' = [host EXCEPT !.py = TRUE, !.key = key]
  BY ExecBeginFacts
<1> HIDE DEF key
<1>2. reg' \in [Keys -> Plugin \cup {Absent}]
  BY <1>1 DEF TypeOK
<1>3. host' \in Host
  BY <1>1 DEF TypeOK, Host
<1> QED
  BY <1>1, <1>2, <1>3 DEF TypeOK, ExecBegin

LEMMA ExecFailsFacts ==
  ASSUME TypeOK, PhaseInv, ExecFails
  PROVE  /\ \/ /\ host.key = Staged /\ reg' = [reg EXCEPT ![Staged] = Absent] /\ Release({Staged})
            \/ /\ host.key # Staged /\ reg' = [reg EXCEPT ![host.key].state = "error"]
               /\ UNCHANGED <<bpOwn, hookOwn, traps>>
         /\ \E flushed \in BOOLEAN : /\ pub' = refresh(reg', publish_interests(reg', pub), flushed)
                                    /\ used' = Spend(flushed)
<1> DEFINE r == IF host.key = Staged THEN [reg EXCEPT ![Staged] = Absent]
                ELSE [reg EXCEPT ![host.key].state = "error"]
<1>1. PICK flushed \in Flushes :
         /\ reg' = r
         /\ IF host.key = Staged THEN Release({Staged}) ELSE UNCHANGED <<bpOwn, hookOwn, traps>>
         /\ pub' = refresh(r, publish_interests(r, pub), flushed)
         /\ used' = Spend(flushed)
  BY DEF ExecFails
<1>2. flushed \in BOOLEAN
  BY FlushesType
<1>3. pub' = refresh(reg', publish_interests(reg', pub), flushed) /\ used' = Spend(flushed)
  BY <1>1
<1> QED
  BY <1>1, <1>2, <1>3

LEMMA StateFacts ==
  ASSUME NEW p \in Plugin, NEW s \in {"running", "error", "staging", "replacing"}
  PROVE  /\ [p EXCEPT !.state = s] \in Plugin
         /\ [p EXCEPT !.state = s].state = s
         /\ [p EXCEPT !.state = s].quarantined = p.quarantined
         /\ [p EXCEPT !.state = s].bps = p.bps
         /\ [p EXCEPT !.state = s].traps = p.traps
         /\ [p EXCEPT !.state = s].events = p.events
         /\ [p EXCEPT !.state = s].decisions = p.decisions
         /\ [p EXCEPT !.state = s].policy = p.policy
  BY DEF Plugin

LEMMA Type_ExecFails == ASSUME TypeOK, PhaseInv, ExecFails PROVE TypeOK'
<1>1. host.key \in Keys /\ Me \in Plugin
  BY MeFacts DEF ExecFails
<1>2. reg' \in [Keys -> Plugin \cup {Absent}]
  <2>1. CASE host.key = Staged
    BY <2>1, ExecFailsFacts DEF TypeOK
  <2>2. CASE host.key # Staged
    <3>1. [Me EXCEPT !.state = "error"] \in Plugin
      BY <1>1, StateFacts
    <3>2. reg' = [reg EXCEPT ![host.key] = [Me EXCEPT !.state = "error"]]
      BY <2>2, ExecFailsFacts DEF Me
    <3> QED
      BY <1>1, <3>1, <3>2 DEF TypeOK
  <2> QED
    BY <2>1, <2>2
<1>3. bpOwn' \in Leases(Ids) /\ hookOwn' \in Leases(Addrs) /\ traps' \in Traps
  <2>1. CASE host.key = Staged
    <3>1. Release({Staged}) /\ reg[Staged] # Absent /\ Staged \in Keys
      BY <2>1, ExecFailsFacts, MeFacts, NamesFacts DEF ExecFails
    <3>2. {Staged} \in SUBSET Keys /\ \A k \in {Staged} : reg[k] # Absent
      BY <3>1
    <3> QED
      BY <3>1, <3>2, ReleaseType
  <2>2. CASE host.key # Staged
    BY <2>2, ExecFailsFacts DEF TypeOK
  <2> QED
    BY <2>1, <2>2
<1>4. PICK flushed \in BOOLEAN : /\ pub' = refresh(reg', publish_interests(reg', pub), flushed)
                              /\ used' = Spend(flushed)
  BY ExecFailsFacts
<1>5. pub' \in Published
  BY <1>2, <1>4, InterestsFacts, RefreshFacts DEF TypeOK
<1>6. used' \in Used
  BY <1>4, SpendType DEF TypeOK
<1>7. host' \in Host
  BY ExecDoneFacts DEF ExecFails, TypeOK, PhaseInv, StageInv
<1> QED
  BY <1>1, <1>2, <1>3, <1>4, <1>5, <1>6, <1>7 DEF TypeOK, ExecFails

LEMMA Type_ExecLoads == ASSUME TypeOK, PhaseInv, ExecLoads PROVE TypeOK'
<1>1. host' \in Host
  BY ExecDoneFacts DEF ExecLoads, TypeOK, PhaseInv, StageInv
<1> QED
  BY <1>1 DEF TypeOK, ExecLoads

\* The replacement is visible instead of the plugin it replaces.
LEMMA SwitchedFacts ==
  ASSUME TypeOK, PhaseInv, host.at = "exec", host.py, host.key = Staged, NEW n, n = Head(host.batch)
  PROVE  /\ n \in Names /\ n \in Keys /\ n # Staged
         /\ reg[n] \in Plugin /\ reg[n] # Absent /\ reg[Staged] \in Plugin /\ reg[Staged] # Absent
         /\ Switched(n) \in [Keys -> Plugin \cup {Absent}]
         /\ Switched(n)[n] = [reg[n] EXCEPT !.state = "replacing"]
         /\ Switched(n)[Staged] = [reg[Staged] EXCEPT !.state = "running"]
         /\ Switched(n)[n] \in Plugin /\ Switched(n)[Staged] \in Plugin
         /\ \A k \in Keys : k \notin {n, Staged} => Switched(n)[k] = reg[k]
<1>1. /\ reg[Staged] \in Plugin /\ reg[Staged] # Absent
  BY MeFacts DEF Me
<1>2. host.batch \in Seq(Names) /\ host.batch # <<>>
  BY HostFields DEF TypeOK, PhaseInv, StageInv
<1>3. n \in Names /\ n \in Keys /\ n # Staged
  BY <1>2, NamesFacts
<1>4. reg[n] # Absent /\ reg[n] \in Plugin
  BY <1>1, <1>3 DEF TypeOK, PhaseInv, StageInv
<1> DEFINE a == [reg[n] EXCEPT !.state = "replacing"]
           b == [reg[Staged] EXCEPT !.state = "running"]
<1>5. a \in Plugin /\ b \in Plugin
  BY <1>1, <1>4, StateFacts
<1>6. Switched(n) = [reg EXCEPT ![n] = a, ![Staged] = b]
  BY <1>3 DEF Switched
<1> HIDE DEF a, b
<1>7. /\ Switched(n) \in [Keys -> Plugin \cup {Absent}]
      /\ Switched(n)[n] = a /\ Switched(n)[Staged] = b
      /\ \A k \in Keys : k \notin {n, Staged} => Switched(n)[k] = reg[k]
  BY <1>3, <1>5, <1>6, NamesFacts DEF TypeOK
<1> QED
  BY <1>1, <1>3, <1>4, <1>5, <1>7 DEF a, b

LEMMA RejectedFacts ==
  ASSUME TypeOK, PhaseInv, ReplaceRejected
  PROVE  /\ reg[Staged] \in Plugin /\ reg[Staged] # Absent /\ host.key = Staged
         /\ reg' = [reg EXCEPT ![Staged] = Absent] /\ Release({Staged})
         /\ \E tried \in Published : \E flushed, again \in BOOLEAN :
               /\ pub' = refresh(reg', publish_interests(reg', tried), again)
               /\ used' = Spend(flushed)
         /\ host' = ExecDone
<1> DEFINE n == Head(host.batch)
           shown == Switched(n)
           r == [reg EXCEPT ![Staged] = Absent]
           tried(f) == WithPolicy(shown, pub, refresh_best_effort(Specs(shown), pub.policy, f))
<1>1. PICK flushed, again \in Flushes :
            /\ reg' = r /\ Release({Staged})
            /\ pub' = AfterRollback(r, tried(flushed), again)
            /\ used' = Spend(flushed /\ again)
  BY DEF ReplaceRejected
<1>2. flushed \in BOOLEAN /\ again \in BOOLEAN /\ (flushed /\ again) \in BOOLEAN
  BY FlushesType
<1>3. /\ host.at = "exec" /\ host.py /\ host.key = Staged
      /\ host' = ExecDone
  BY DEF ReplaceRejected
<1>4. shown \in [Keys -> Plugin \cup {Absent}] /\ reg[Staged] \in Plugin /\ reg[Staged] # Absent
  BY <1>3, SwitchedFacts
<1>5. pub \in Published /\ pub.policy \in [PolicyKinds -> SUBSET UNION Specifications]
  BY DEF TypeOK, Published
<1> HIDE DEF shown
<1>6. refresh_best_effort(Specs(shown), pub.policy, flushed) \in [PolicyKinds -> SUBSET UNION Specifications]
  BY <1>2, <1>4, <1>5, BestEffortFacts
<1>7. tried(flushed) \in Published
  BY <1>5, <1>6, WithPolicyFacts
<1> HIDE DEF tried
<1>8. pub' = refresh(reg', publish_interests(reg', tried(flushed)), again)
  BY <1>1 DEF AfterRollback
<1>9. \E t \in Published : \E f, g \in BOOLEAN :
         /\ pub' = refresh(reg', publish_interests(reg', t), g)
         /\ used' = Spend(f)
  BY <1>1, <1>2, <1>7, <1>8
<1> QED
  BY <1>1, <1>3, <1>4, <1>9

LEMMA Type_ReplaceRejected == ASSUME TypeOK, PhaseInv, ReplaceRejected PROVE TypeOK'
<1>1. /\ reg[Staged] \in Plugin /\ reg[Staged] # Absent /\ host.key = Staged /\ Staged \in Keys
      /\ reg' = [reg EXCEPT ![Staged] = Absent] /\ Release({Staged})
      /\ host' = ExecDone
  BY RejectedFacts, NamesFacts
<1>2. PICK tried \in Published : \E flushed, again \in BOOLEAN :
               /\ pub' = refresh(reg', publish_interests(reg', tried), again)
               /\ used' = Spend(flushed)
  BY RejectedFacts
<1>3. PICK flushed, again \in BOOLEAN :
               /\ pub' = refresh(reg', publish_interests(reg', tried), again)
               /\ used' = Spend(flushed)
  BY <1>2
<1>4. reg' \in [Keys -> Plugin \cup {Absent}]
  BY <1>1 DEF TypeOK
<1>5. bpOwn' \in Leases(Ids) /\ hookOwn' \in Leases(Addrs) /\ traps' \in Traps /\ pub' \in Published
  BY <1>1, <1>3, <1>4, GivenUpType
<1>6. used' \in Used
  BY <1>3, SpendType DEF TypeOK
<1>7. host' \in Host
  BY ExecDoneFacts DEF ReplaceRejected, TypeOK, PhaseInv, StageInv
<1> QED
  BY <1>1, <1>2, <1>3, <1>4, <1>5, <1>6, <1>7 DEF TypeOK, ReplaceRejected

LEMMA AcceptedFacts ==
  ASSUME TypeOK, PhaseInv, ReplaceAccepted
  PROVE  LET n == Head(host.batch)
         IN /\ host.at = "exec" /\ host.py /\ host.key = Staged
            /\ ~publish_checked_fails(Specs(Switched(n)), pub.policy, TRUE)
            /\ held' = Switched(n)[Staged]
            /\ reg' = [Switched(n) EXCEPT ![Staged] = Absent]
            /\ host' = [host EXCEPT !.at = "commit", !.key = n]
            /\ pub' \in Published /\ pub'.interests = pub.interests
<1> DEFINE n == Head(host.batch)
           shown == Switched(n)
           b == refresh_best_effort(Specs(shown), pub.policy, TRUE)
<1>1. /\ host.at = "exec" /\ host.py /\ host.key = Staged
      /\ ~publish_checked_fails(Specs(shown), pub.policy, TRUE)
      /\ pub' = WithPolicy(shown, pub, b)
      /\ held' = shown[Staged] /\ reg' = [shown EXCEPT ![Staged] = Absent]
      /\ host' = [host EXCEPT !.at = "commit", !.key = n]
  BY DEF ReplaceAccepted
<1>2. shown \in [Keys -> Plugin \cup {Absent}]
  BY <1>1, SwitchedFacts
<1>3. pub \in Published /\ pub.policy \in [PolicyKinds -> SUBSET UNION Specifications]
  BY DEF TypeOK, Published
<1> HIDE DEF shown
<1>4. b \in [PolicyKinds -> SUBSET UNION Specifications]
  BY <1>2, <1>3, BestEffortFacts
<1> HIDE DEF b
<1> DEFINE w == WithPolicy(shown, pub, b)
<1>5. w \in Published /\ w.interests = pub.interests
  <2>1. w \in Published
    BY <1>3, <1>4, WithPolicyFacts
  <2>2. w.interests = pub.interests
    BY <1>3, <1>4, WithPolicyFacts, ZenonT(30)
  <2> QED
    BY <2>1, <2>2
<1> HIDE DEF w
<1>6. pub' \in Published /\ pub'.interests = pub.interests
  <2>1. pub' = w
    BY <1>1 DEF w
  <2> QED
    BY <1>5, <2>1
<1> QED
  BY <1>1, <1>6 DEF shown

LEMMA Type_ReplaceAccepted == ASSUME TypeOK, PhaseInv, ReplaceAccepted PROVE TypeOK'
<1> DEFINE n == Head(host.batch)
<1>1. /\ n \in Keys /\ Switched(n) \in [Keys -> Plugin \cup {Absent}] /\ Switched(n)[Staged] \in Plugin
      /\ held' = Switched(n)[Staged] /\ reg' = [Switched(n) EXCEPT ![Staged] = Absent]
      /\ host' = [host EXCEPT !.at = "commit", !.key = n]
      /\ pub' \in Published
  <2>1. /\ host.at = "exec" /\ host.py /\ host.key = Staged
        /\ held' = Switched(n)[Staged] /\ reg' = [Switched(n) EXCEPT ![Staged] = Absent]
        /\ host' = [host EXCEPT !.at = "commit", !.key = n] /\ pub' \in Published
    BY AcceptedFacts
  <2> QED
    BY <2>1, SwitchedFacts
<1> HIDE DEF n
<1>2. reg' \in [Keys -> Plugin \cup {Absent}]
  BY <1>1
<1>3. held' \in Plugin \cup {Absent}
  BY <1>1
<1>4. host' \in Host
  BY <1>1 DEF TypeOK, Host, Phases
<1> QED
  BY <1>1, <1>2, <1>3, <1>4 DEF TypeOK, ReplaceAccepted

LEMMA CommitFacts ==
  ASSUME TypeOK, PhaseInv, ReplaceCommit
  PROVE  /\ host.at = "commit" /\ host.key \in Names /\ host.key # Staged /\ reg[host.key] # Absent
         /\ held \in Plugin /\ held # Absent
         /\ reg' = Committed /\ Release({host.key}) /\ held' = Absent /\ host' = ExecDone
         /\ reg' \in [Keys -> Plugin \cup {Absent}]
         /\ \E flushed \in BOOLEAN : /\ pub' = refresh(reg', publish_interests(reg', pub), flushed)
                                    /\ used' = Spend(flushed)
<1>1. PICK flushed \in Flushes :
            /\ reg' = Committed /\ Release({host.key})
            /\ pub' = refresh(Committed, publish_interests(Committed, pub), flushed)
            /\ used' = Spend(flushed)
  BY DEF ReplaceCommit, Committed
<1>2. host.at = "commit" /\ held' = Absent /\ host' = ExecDone /\ host.py
  BY DEF ReplaceCommit
<1>3. host.key \in Names /\ host.key # Staged /\ reg[host.key] # Absent /\ host.key \in Keys
  BY <1>2, MeFacts
<1>4. held # Absent /\ held \in Plugin
  BY <1>2 DEF TypeOK, PhaseInv, StageInv
<1>5. Committed \in [Keys -> Plugin \cup {Absent}]
  BY <1>3, <1>4 DEF Committed, TypeOK
<1>6. flushed \in BOOLEAN
  BY FlushesType
<1>7. pub' = refresh(reg', publish_interests(reg', pub), flushed)
  BY <1>1
<1> QED
  BY <1>1, <1>2, <1>3, <1>4, <1>5, <1>6, <1>7

LEMMA Type_ReplaceCommit == ASSUME TypeOK, PhaseInv, ReplaceCommit PROVE TypeOK'
<1>1. /\ host.key \in Keys /\ reg[host.key] # Absent /\ Release({host.key}) /\ held' = Absent
      /\ reg' \in [Keys -> Plugin \cup {Absent}] /\ host' = ExecDone
  BY CommitFacts, NamesFacts
<1>2. PICK flushed \in BOOLEAN : /\ pub' = refresh(reg', publish_interests(reg', pub), flushed)
                                /\ used' = Spend(flushed)
  BY CommitFacts
<1>3. bpOwn' \in Leases(Ids) /\ hookOwn' \in Leases(Addrs) /\ traps' \in Traps /\ pub' \in Published
  BY <1>1, <1>2, GivenUpType DEF TypeOK
<1>4. used' \in Used
  BY <1>2, SpendType DEF TypeOK
<1>5. host' \in Host
  BY ExecDoneFacts DEF ReplaceCommit, TypeOK, PhaseInv, StageInv
<1> QED
  BY <1>1, <1>2, <1>3, <1>4, <1>5 DEF TypeOK, ReplaceCommit

LEMMA Type_ExecEnds == ASSUME TypeOK, PhaseInv, ExecEnds PROVE TypeOK'
<1>1. /\ reg' \in [Keys -> Plugin \cup {Absent}]
      /\ bpOwn' \in Leases(Ids) /\ hookOwn' \in Leases(Addrs) /\ traps' \in Traps
      /\ pub' \in Published /\ used' \in Used
  BY QuarantineType DEF ExecEnds
<1>2. host' \in Host
  BY DEF ExecEnds, TypeOK, Host, Phases
<1> QED
  BY <1>1, <1>2 DEF TypeOK, ExecEnds

LEMMA Type_SyncEnds == ASSUME TypeOK, PhaseInv, SyncEnds PROVE TypeOK'
<1>1. /\ reg' \in [Keys -> Plugin \cup {Absent}]
      /\ bpOwn' \in Leases(Ids) /\ hookOwn' \in Leases(Addrs) /\ traps' \in Traps
      /\ pub' \in Published /\ used' \in Used
  BY QuarantineType DEF SyncEnds
<1>2. host' \in Host
  <2>1. host' = [AtMail EXCEPT !.at = "connected"]
    BY DEF SyncEnds
  <2> QED
    BY <2>1, AtMailType DEF Host, Phases
<1> QED
  BY <1>1, <1>2 DEF TypeOK, SyncEnds

LEMMA Type_DispatchEnds == ASSUME TypeOK, PhaseInv, DispatchEnds PROVE TypeOK'
<1>1. /\ reg' \in [Keys -> Plugin \cup {Absent}]
      /\ bpOwn' \in Leases(Ids) /\ hookOwn' \in Leases(Addrs) /\ traps' \in Traps
      /\ pub' \in Published /\ used' \in Used
  BY QuarantineType DEF DispatchEnds
<1>2. host' \in Host
  BY DEF DispatchEnds, TypeOK, Host, Phases
<1> QED
  BY <1>1, <1>2 DEF TypeOK, DispatchEnds

LEMMA Type_DecideBegin == ASSUME TypeOK, PhaseInv, NEW t \in Targets, DecideBegin(t) PROVE TypeOK'
<1>1. PICK s \in SUBSET Names : host' = [host EXCEPT !.target = t, !.changed = FALSE, !.valid = TRUE, !.todo = s]
  BY DEF DecideBegin
<1>2. host' \in Host
  BY <1>1 DEF TypeOK, Host
<1>3. used' \in Used
  BY DEF TypeOK, DecideBegin, Used
<1> QED
  BY <1>1, <1>2, <1>3 DEF TypeOK, DecideBegin

LEMMA Type_DecideCall == ASSUME TypeOK, PhaseInv, DecideCall PROVE TypeOK'
<1>1. host' \in Host
  BY CallFirstFacts DEF DecideCall, TypeOK
<1> QED
  BY <1>1 DEF TypeOK, DecideCall

LEMMA DecideReturnFacts ==
  ASSUME TypeOK, PhaseInv, NEW failed \in BOOLEAN, NEW once \in BOOLEAN, DecideReturn(failed, once)
  PROVE  LET t == host.target
             gone == once /\ Me.decisions[t] > 0
             p == [Me EXCEPT !.state = IF failed THEN "error" ELSE @,
                             !.decisions[t] = IF gone THEN @ - 1 ELSE @]
         IN /\ host.at = "sync" /\ host.py
            /\ host.key \in Keys /\ Me \in Plugin /\ t \in Targets /\ Me.decisions[t] \in Nat
            /\ SetMe(p) /\ p \in Plugin
            /\ p.state = (IF failed THEN "error" ELSE Me.state) /\ p.quarantined = Me.quarantined
            /\ p.policy = Me.policy /\ p.bps = Me.bps /\ p.traps = Me.traps /\ p.events = Me.events
            /\ \A x \in Targets : p.decisions[x] = IF x = t /\ gone THEN Me.decisions[x] - 1
                                                   ELSE Me.decisions[x]
            /\ hookOwn' = IF gone /\ t \in Addrs THEN release_or_queue(hookOwn, t) ELSE hookOwn
            /\ host' = [host EXCEPT !.py = FALSE, !.key = None,
                                    !.changed = @ \/ failed \/ gone, !.valid = @ /\ ~failed]
<1> DEFINE t == host.target
           gone == once /\ Me.decisions[t] > 0
           s == IF failed THEN "error" ELSE Me.state
           n == IF gone THEN Me.decisions[t] - 1 ELSE Me.decisions[t]
           p == [Me EXCEPT !.state = IF failed THEN "error" ELSE @,
                           !.decisions[t] = IF gone THEN @ - 1 ELSE @]
<1>1. /\ host.at = "sync" /\ host.py /\ SetMe(p)
      /\ hookOwn' = IF gone /\ t \in Addrs THEN release_or_queue(hookOwn, t) ELSE hookOwn
      /\ host' = [host EXCEPT !.py = FALSE, !.key = None,
                              !.changed = @ \/ failed \/ gone, !.valid = @ /\ ~failed]
  BY DEF DecideReturn
<1>2. host.key \in Keys /\ Me \in Plugin
  BY <1>1, MeFacts
<1>3. t \in Targets
  BY <1>1, HostFields DEF TypeOK, PhaseInv, CallInv
<1>4. Me.decisions \in [Targets -> Nat] /\ Me.decisions[t] \in Nat
  BY <1>2, <1>3, PluginFields
<1>5. s \in {"running", "error", "staging", "replacing"}
  BY <1>2, PluginFields
<1>6. n \in Nat
  BY <1>4
<1> DEFINE d == [Me.decisions EXCEPT ![t] = n]
<1>7. p = [Me EXCEPT !.state = s, !.decisions = d]
  OBVIOUS
<1>8. d \in [Targets -> Nat]
  BY <1>4, <1>6
<1>9. \A x \in Targets : d[x] = IF x = t /\ gone THEN Me.decisions[x] - 1 ELSE Me.decisions[x]
  BY <1>3, <1>4
<1> HIDE DEF d, s, p
<1>10. /\ p \in Plugin /\ p.state = s /\ p.decisions = d /\ p.quarantined = Me.quarantined
       /\ p.policy = Me.policy /\ p.bps = Me.bps /\ p.traps = Me.traps /\ p.events = Me.events
  BY <1>2, <1>5, <1>7, <1>8 DEF Plugin
<1> QED
  BY <1>1, <1>2, <1>3, <1>4, <1>9, <1>10 DEF p, s

LEMMA Type_DecideReturn == ASSUME TypeOK, PhaseInv, NEW failed \in BOOLEAN, NEW once \in BOOLEAN, DecideReturn(failed, once) PROVE TypeOK'
<1> DEFINE t == host.target
           gone == once /\ Me.decisions[t] > 0
<1>1. /\ host.key \in Keys /\ t \in Targets
      /\ \E p \in Plugin : SetMe(p)
      /\ hookOwn' = IF gone /\ t \in Addrs THEN release_or_queue(hookOwn, t) ELSE hookOwn
      /\ host' = [host EXCEPT !.py = FALSE, !.key = None,
                              !.changed = @ \/ failed \/ gone, !.valid = @ /\ ~failed]
  BY DecideReturnFacts
<1>2. reg' \in [Keys -> Plugin \cup {Absent}]
  BY <1>1, SetMeType
<1>3. hookOwn' \in Leases(Addrs)
  BY <1>1, ReleaseOrQueueFacts DEF TypeOK
<1>4. host' \in Host
  <2> DEFINE c == host.changed \/ failed \/ gone
             v == host.valid /\ ~failed
  <2>1. c \in BOOLEAN /\ v \in BOOLEAN
    OBVIOUS
  <2>2. host' = [host EXCEPT !.py = FALSE, !.key = None, !.changed = c, !.valid = v]
    BY <1>1
  <2> HIDE DEF c, v
  <2> QED
    BY <2>1, <2>2 DEF TypeOK, Host
<1> QED
  BY <1>1, <1>2, <1>3, <1>4 DEF TypeOK, DecideReturn

LEMMA Type_DecideEnd == ASSUME TypeOK, PhaseInv, DecideEnd PROVE TypeOK'
<1>1. PICK flushed \in Flushes :
            /\ pub' = IF host.valid THEN (IF host.changed THEN publish_interests(reg, pub) ELSE pub)
                      ELSE refresh(reg, IF host.changed THEN publish_interests(reg, pub) ELSE pub, flushed)
            /\ used' = IF host.valid THEN used ELSE Spend(flushed)
  BY DEF DecideEnd
<1>2. pub' \in Published
  <2> DEFINE shown == IF host.changed THEN publish_interests(reg, pub) ELSE pub
  <2>1. shown \in Published
    BY InterestsFacts DEF TypeOK
  <2>2. pub' = IF host.valid THEN shown ELSE refresh(reg, shown, flushed)
    BY <1>1
  <2> HIDE DEF shown
  <2>3. refresh(reg, shown, flushed) \in Published
    BY <2>1, FlushesType, RefreshFacts DEF TypeOK
  <2> QED
    BY <2>1, <2>2, <2>3
<1>3. used' \in Used
  BY <1>1, FlushesType, SpendType DEF TypeOK
<1>4. host' \in Host
  <2>1. host' = [AtMail EXCEPT !.at = "sync"]
    BY DEF DecideEnd
  <2> QED
    BY <2>1, AtMailType DEF Host, Phases
<1> QED
  BY <1>1, <1>2, <1>3, <1>4 DEF TypeOK, DecideEnd

LEMMA Type_TickCut == ASSUME TypeOK, PhaseInv, TickCut PROVE TypeOK'
<1>1. host' \in Host
  BY AtMailType DEF TickCut
<1> QED
  BY <1>1 DEF TypeOK, TickCut


LEMMA EventsNextFacts ==
  ASSUME NEW h \in Host
  PROVE  /\ EventsNext(h) \in Host
         /\ EventsNext(h).at \in {h.at, "events"} /\ EventsNext(h).py = h.py
         /\ EventsNext(h).key = h.key /\ EventsNext(h).batch = h.batch
         /\ EventsNext(h).call = h.call /\ EventsNext(h).gen = h.gen
         /\ EventsNext(h).merged = h.merged /\ EventsNext(h).votes = h.votes
         /\ EventsNext(h).target = h.target
         /\ EventsNext(h).changed = h.changed /\ EventsNext(h).valid = h.valid
         /\ EventsNext(h).todo \in {h.todo, {n \in Names : reg[n] # Absent}}
<1>1. CASE h.todo # {}
  BY <1>1 DEF EventsNext
<1>2. CASE h.todo = {}
  <2> DEFINE s == {n \in Names : reg[n] # Absent}
  <2>1. EventsNext(h) = [h EXCEPT !.at = "events", !.todo = s]
    BY <1>2 DEF EventsNext
  <2>2. s \in SUBSET Names
    OBVIOUS
  <2> HIDE DEF s
  <2>3. EventsNext(h) \in Host
    BY <2>1, <2>2 DEF Host, Phases
  <2>4. /\ EventsNext(h).at = "events" /\ EventsNext(h).py = h.py
        /\ EventsNext(h).key = h.key /\ EventsNext(h).batch = h.batch
        /\ EventsNext(h).call = h.call /\ EventsNext(h).gen = h.gen
        /\ EventsNext(h).merged = h.merged /\ EventsNext(h).votes = h.votes
        /\ EventsNext(h).target = h.target
        /\ EventsNext(h).changed = h.changed /\ EventsNext(h).valid = h.valid
        /\ EventsNext(h).todo = s
    BY <2>1 DEF Host
  <2> QED
    BY <2>3, <2>4 DEF s
<1> QED
  BY <1>1, <1>2

\* The connected phase without a stop of the scripts, or with its handlers.
LEMMA ConnectedFacts ==
  ASSUME TypeOK, PhaseInv, Connected
  PROVE  \E h \in Host :
            /\ host' = EventsNext(h)
            /\ h.at = "bound" /\ ~h.py /\ h.batch = <<>> /\ h.call = NoCall
            /\ h.target = None /\ h.valid
            /\ h.todo \in SUBSET Names /\ \A n \in h.todo : reg[n] # Absent
            /\ \/ h.merged = None /\ h.votes = {}
               \/ h.merged = "stay" /\ h.votes = {"stay"}
<1> DEFINE hit == IF stop.on /\ stop.addr # None
                  THEN {i \in Ids : native'.bps[i] = stop.addr} ELSE {}
           id == IF hit = {} THEN 0 ELSE CHOOSE i \in hit : TRUE
           todo == IF hit = {} THEN {} ELSE Handlers(id)
           owned == todo # {} /\ has_external_owner(bpOwn, id)
           m == IF owned THEN "stay" ELSE None
           v == IF owned THEN {"stay"} ELSE {}
           h == [AtMail EXCEPT !.at = "bound", !.gen = stop.gen, !.id = id, !.todo = todo,
                               !.merged = m, !.votes = v]
<1>1. host' = EventsNext(h)
  BY DEF Connected
<1>2. hit \in SUBSET Ids
  OBVIOUS
<1>3. id \in Nat
  <2> HIDE DEF hit
  <2>1. Ids \subseteq Nat
    BY DEF Ids
  <2> QED
    BY <1>2, <2>1
<1>4. todo \in SUBSET Names /\ \A n \in todo : reg[n] # Absent
  <2> HIDE DEF hit, id
  <2> QED
    BY DEF Handlers, Running
<1>5. /\ m \in Actions \cup {None} /\ v \in SUBSET Actions
      /\ (m = None /\ v = {}) \/ (m = "stay" /\ v = {"stay"})
  <2> HIDE DEF owned
  <2> QED
    BY DEF Actions
<1>6. stop.gen \in Nat
  BY DEF TypeOK, Stop
<1> HIDE DEF hit, id, todo, owned, m, v
<1>7. h \in Host
  BY <1>3, <1>4, <1>5, <1>6, AtMailType DEF Host, Phases
<1>8. /\ h.at = "bound" /\ ~h.py /\ h.batch = <<>> /\ h.call = NoCall
      /\ h.target = None /\ h.valid /\ h.todo = todo /\ h.merged = m /\ h.votes = v
  BY AtMailType DEF Host
<1> HIDE DEF h
<1> QED
  BY <1>1, <1>4, <1>5, <1>7, <1>8

LEMMA Type_Connected == ASSUME TypeOK, PhaseInv, Connected PROVE TypeOK'
<1>1. native' \in Native
  BY NativeWithoutFacts DEF TypeOK, Connected
<1>2. bpOwn' \in Leases(Ids)
  BY DEF TypeOK, Connected, Leases
<1>3. host' \in Host
  BY ConnectedFacts, EventsNextFacts
<1> QED
  BY <1>1, <1>2, <1>3 DEF TypeOK, Connected

LEMMA Type_BoundCall == ASSUME TypeOK, PhaseInv, BoundCall PROVE TypeOK'
<1>1. host' \in Host
  BY CallFirstFacts DEF BoundCall, TypeOK
<1> QED
  BY <1>1 DEF TypeOK, BoundCall

LEMMA MergeType ==
  ASSUME NEW c \in Actions \cup {None}, NEW n \in Actions
  PROVE  merge_action(c, n) \in Actions
  BY DEF merge_action, Actions, None

\* What a breakpoint callback leaves: its plugin and the state of the round.
LEMMA BoundReturnFacts ==
  ASSUME TypeOK, PhaseInv, NEW action \in Actions, NEW failed \in BOOLEAN, NEW once \in BOOLEAN,
         BoundReturn(action, failed, once)
  PROVE  LET gone == once /\ host.id \in Me.bps
         IN /\ host.at = "bound" /\ host.py /\ host.call = NoCall
            /\ host.key \in Keys /\ Me \in Plugin
            /\ \E p \in Plugin :
                  /\ SetMe(p)
                  /\ p.state = (IF failed THEN "error" ELSE Me.state) /\ p.quarantined = Me.quarantined
                  /\ p.bps = (IF gone THEN Me.bps \ {host.id} ELSE Me.bps)
                  /\ p.policy = Me.policy /\ p.traps = Me.traps /\ p.events = Me.events
                  /\ p.decisions = Me.decisions
            /\ bpOwn' = IF gone THEN release_or_queue(bpOwn, host.id) ELSE bpOwn
            /\ \E flushed \in BOOLEAN :
                  /\ pub' = IF failed THEN refresh(reg', pub, flushed) ELSE pub
                  /\ used' = IF failed THEN Spend(flushed) ELSE used
            /\ \E h \in Host :
                  /\ host' = EventsNext(h)
                  /\ h.at = "bound" /\ ~h.py /\ h.call = NoCall /\ h.todo = host.todo
                  /\ h.target = host.target /\ h.valid = host.valid /\ h.changed = host.changed
                  /\ h.merged = merge_action(host.merged, action) /\ h.votes = host.votes \cup {action}
<1> DEFINE gone == once /\ host.id \in Me.bps
           s == IF failed THEN "error" ELSE Me.state
           b == IF gone THEN Me.bps \ {host.id} ELSE Me.bps
           p == [Me EXCEPT !.seenGen = host.gen, !.state = IF failed THEN "error" ELSE @,
                           !.bps = IF gone THEN @ \ {host.id} ELSE @]
           m == merge_action(host.merged, action)
           h == [host EXCEPT !.py = FALSE, !.key = None,
                             !.merged = merge_action(@, action), !.votes = @ \cup {action}]
<1>1. /\ host.at = "bound" /\ host.py /\ host.call = NoCall /\ SetMe(p)
      /\ bpOwn' = IF gone THEN release_or_queue(bpOwn, host.id) ELSE bpOwn
      /\ \E flushed \in Flushes :
            /\ pub' = IF failed THEN refresh(reg', pub, flushed) ELSE pub
            /\ used' = IF failed THEN Spend(flushed) ELSE used
      /\ host' = EventsNext(h)
  BY DEF BoundReturn
<1>2. host.key \in Keys /\ Me \in Plugin /\ host \in Host
  BY <1>1, MeFacts DEF TypeOK
<1>3. s \in {"running", "error", "staging", "replacing"}
  BY <1>2, PluginFields
<1>4. b \in SUBSET Ids
  BY <1>2, PluginFields
<1>5. m \in Actions /\ host.votes \cup {action} \in SUBSET Actions /\ host.gen \in Nat
  BY <1>2, HostFields, MergeType
<1>6. /\ p = [Me EXCEPT !.seenGen = host.gen, !.state = s, !.bps = b]
      /\ h = [host EXCEPT !.py = FALSE, !.key = None, !.merged = m, !.votes = @ \cup {action}]
  OBVIOUS
<1>7. \E flushed \in BOOLEAN :
         /\ pub' = IF failed THEN refresh(reg', pub, flushed) ELSE pub
         /\ used' = IF failed THEN Spend(flushed) ELSE used
  BY <1>1, FlushesType
<1> HIDE DEF s, b, p, m, h
<1>8. /\ p \in Plugin /\ p.state = s /\ p.bps = b /\ p.quarantined = Me.quarantined
      /\ p.policy = Me.policy /\ p.traps = Me.traps /\ p.events = Me.events
      /\ p.decisions = Me.decisions
  BY <1>2, <1>3, <1>4, <1>5, <1>6 DEF Plugin
<1>9. h \in Host
  BY <1>2, <1>5, <1>6 DEF Host
<1>10. /\ h.at = "bound" /\ ~h.py /\ h.call = NoCall /\ h.todo = host.todo
       /\ h.target = host.target /\ h.valid = host.valid /\ h.changed = host.changed
       /\ h.merged = m /\ h.votes = host.votes \cup {action}
  BY <1>1, <1>2, <1>6 DEF Host
<1>11. \E q \in Plugin :
          /\ SetMe(q)
          /\ q.state = (IF failed THEN "error" ELSE Me.state) /\ q.quarantined = Me.quarantined
          /\ q.bps = (IF gone THEN Me.bps \ {host.id} ELSE Me.bps)
          /\ q.policy = Me.policy /\ q.traps = Me.traps /\ q.events = Me.events
          /\ q.decisions = Me.decisions
  BY <1>1, <1>8 DEF s, b
<1>12. \E g \in Host :
          /\ host' = EventsNext(g)
          /\ g.at = "bound" /\ ~g.py /\ g.call = NoCall /\ g.todo = host.todo
          /\ g.target = host.target /\ g.valid = host.valid /\ g.changed = host.changed
          /\ g.merged = merge_action(host.merged, action) /\ g.votes = host.votes \cup {action}
  BY <1>1, <1>9, <1>10 DEF m
<1> QED
  BY <1>1, <1>2, <1>7, <1>11, <1>12

LEMMA Type_BoundReturn ==
  ASSUME TypeOK, PhaseInv, NEW action \in Actions, NEW failed \in BOOLEAN, NEW once \in BOOLEAN,
         BoundReturn(action, failed, once)
  PROVE  TypeOK'
<1> DEFINE gone == once /\ host.id \in Me.bps
<1>1. /\ host.key \in Keys /\ Me \in Plugin
      /\ \E p \in Plugin : SetMe(p)
      /\ bpOwn' = IF gone THEN release_or_queue(bpOwn, host.id) ELSE bpOwn
      /\ \E h \in Host : host' = EventsNext(h)
  BY BoundReturnFacts
<1>2. PICK flushed \in BOOLEAN :
         /\ pub' = IF failed THEN refresh(reg', pub, flushed) ELSE pub
         /\ used' = IF failed THEN Spend(flushed) ELSE used
  BY BoundReturnFacts
<1>3. reg' \in [Keys -> Plugin \cup {Absent}]
  BY <1>1, SetMeType
<1>4. bpOwn' \in Leases(Ids)
  <2>1. gone => host.id \in Ids
    BY <1>1, PluginFields
  <2> QED
    BY <1>1, <2>1, ReleaseOrQueueFacts DEF TypeOK
<1>5. pub' \in Published
  BY <1>2, <1>3, RefreshFacts DEF TypeOK
<1>6. used' \in Used
  BY <1>2, SpendType DEF TypeOK
<1>7. host' \in Host
  BY <1>1, EventsNextFacts
<1> QED
  BY <1>3, <1>4, <1>5, <1>6, <1>7 DEF TypeOK, BoundReturn

LEMMA Type_DispatchCall == ASSUME TypeOK, PhaseInv, DispatchCall PROVE TypeOK'
<1>1. PICK n \in host.todo : host' = [host EXCEPT !.py = TRUE, !.key = n, !.todo = @ \cap After(n)]
  BY DEF DispatchCall
<1>2. n \in Keys /\ host \in Host
  BY HostFields, NamesFacts DEF TypeOK
<1>3. host' \in Host
  BY <1>1, <1>2 DEF Host
<1>4. used' \in Used
  BY DEF TypeOK, DispatchCall, Used
<1> QED
  BY <1>3, <1>4 DEF TypeOK, DispatchCall

\* What the event callbacks of a plugin leave.
Dispatched(p, failed, once) ==
    /\ SetMe(p)
    /\ p.state = (IF failed THEN "error" ELSE Me.state) /\ p.quarantined = Me.quarantined
    /\ p.bps = Me.bps /\ p.policy = Me.policy /\ p.traps = Me.traps
    /\ \A a \in Addrs : p.events[a] = IF a \in once THEN Me.events[a] - 1 ELSE Me.events[a]
    /\ p.decisions = Me.decisions

LEMMA DispatchReturnFacts ==
  ASSUME TypeOK, PhaseInv, NEW failed \in BOOLEAN, NEW once \in SUBSET Addrs,
         DispatchReturn(failed, once)
  PROVE  /\ host.at = "events" /\ host.py /\ host.call = NoCall
         /\ host.key \in Keys /\ Me \in Plugin
         /\ \A a \in once : Me.events[a] > 0
         /\ \E p \in Plugin : SetMe(p) /\ Dispatched(p, failed, once)
         /\ hookOwn' = release_all(hookOwn, [a \in once |-> 1])
         /\ \E flushed \in BOOLEAN :
               /\ pub' = IF failed THEN refresh(reg', pub, flushed) ELSE pub
               /\ used' = IF failed THEN Spend(flushed) ELSE used
         /\ host' = [host EXCEPT !.py = FALSE, !.key = None]
<1> DEFINE s == IF failed THEN "error" ELSE Me.state
           e == [a \in Addrs |-> IF a \in once THEN Me.events[a] - 1 ELSE Me.events[a]]
           p == [Me EXCEPT !.state = IF failed THEN "error" ELSE @,
                           !.events = [a \in Addrs |-> IF a \in once THEN @[a] - 1 ELSE @[a]]]
<1>1. /\ host.at = "events" /\ host.py /\ host.call = NoCall /\ SetMe(p)
      /\ \A a \in once : Me.events[a] > 0
      /\ hookOwn' = release_all(hookOwn, [a \in once |-> 1])
      /\ \E flushed \in Flushes :
            /\ pub' = IF failed THEN refresh(reg', pub, flushed) ELSE pub
            /\ used' = IF failed THEN Spend(flushed) ELSE used
      /\ host' = [host EXCEPT !.py = FALSE, !.key = None]
  BY DEF DispatchReturn
<1>2. host.key \in Keys /\ Me \in Plugin
  BY <1>1, MeFacts
<1>3. s \in {"running", "error", "staging", "replacing"}
  BY <1>2, PluginFields
<1>4. e \in [Addrs -> Nat]
  <2>1. Me.events \in [Addrs -> Nat]
    BY <1>2, PluginFields
  <2> QED
    BY <1>1, <2>1
<1>5. \A a \in Addrs : e[a] = IF a \in once THEN Me.events[a] - 1 ELSE Me.events[a]
  OBVIOUS
<1>6. p = [Me EXCEPT !.state = s, !.events = e]
  OBVIOUS
<1>7. \E flushed \in BOOLEAN :
         /\ pub' = IF failed THEN refresh(reg', pub, flushed) ELSE pub
         /\ used' = IF failed THEN Spend(flushed) ELSE used
  BY <1>1, FlushesType
<1> HIDE DEF s, e, p
<1>8. /\ p \in Plugin /\ p.state = s /\ p.events = e /\ p.quarantined = Me.quarantined
      /\ p.bps = Me.bps /\ p.policy = Me.policy /\ p.traps = Me.traps
      /\ p.decisions = Me.decisions
  BY <1>2, <1>3, <1>4, <1>6 DEF Plugin
<1>9. \E q \in Plugin : SetMe(q) /\ Dispatched(q, failed, once)
  BY <1>1, <1>5, <1>8 DEF Dispatched, s
<1> QED
  BY <1>1, <1>2, <1>7, <1>9

LEMMA Type_DispatchReturn ==
  ASSUME TypeOK, PhaseInv, NEW failed \in BOOLEAN, NEW once \in SUBSET Addrs,
         DispatchReturn(failed, once)
  PROVE  TypeOK'
<1>1. /\ host.key \in Keys
      /\ \E p \in Plugin : SetMe(p)
      /\ hookOwn' = release_all(hookOwn, [a \in once |-> 1])
      /\ host' = [host EXCEPT !.py = FALSE, !.key = None]
  BY DispatchReturnFacts
<1>2. PICK flushed \in BOOLEAN :
         /\ pub' = IF failed THEN refresh(reg', pub, flushed) ELSE pub
         /\ used' = IF failed THEN Spend(flushed) ELSE used
  BY DispatchReturnFacts
<1>3. reg' \in [Keys -> Plugin \cup {Absent}]
  BY <1>1, SetMeType
<1>4. hookOwn' \in Leases(Addrs)
  <2> DEFINE ones == [a \in once |-> 1]
  <2>1. ones \in [once -> Nat] /\ hookOwn \in Leases(Addrs)
    BY DEF TypeOK
  <2> HIDE DEF ones
  <2>2. release_all(hookOwn, ones) \in Leases(Addrs)
    BY <2>1, ReleaseAllFacts
  <2> QED
    BY <1>1, <2>2 DEF ones
<1>5. pub' \in Published
  BY <1>2, <1>3, RefreshFacts DEF TypeOK
<1>6. used' \in Used
  BY <1>2, SpendType DEF TypeOK
<1>7. host' \in Host
  BY <1>1 DEF TypeOK, Host
<1> QED
  BY <1>3, <1>4, <1>5, <1>6, <1>7 DEF TypeOK, DispatchReturn

LEMMA TakeFacts ==
  ASSUME NEW P, NEW o \in Leases(P)
  PROVE  /\ take_removals(o) \in Leases(P)
         /\ take_removals(o).lease = o.lease /\ take_removals(o).queue = {}
  BY DEF take_removals, Leases

\* Breakpoints and hooks leave the native tables.
Without(ids, addrs) ==
    [NativeWithout(ids) EXCEPT !.hooks = @ \ addrs, !.dbgHooks = @ \ addrs]

LEMMA WithoutFacts ==
  ASSUME native \in Native, NEW ids, NEW addrs
  PROVE  /\ Without(ids, addrs) \in Native
         /\ \A i \in Ids : Without(ids, addrs).bps[i] = IF i \in ids THEN None ELSE native.bps[i]
         /\ Without(ids, addrs).dbgBps = native.dbgBps \ ids
         /\ Without(ids, addrs).hooks = native.hooks \ addrs
         /\ Without(ids, addrs).dbgHooks = native.dbgHooks \ addrs
         /\ Without(ids, addrs).nextId = native.nextId
<1> DEFINE n == NativeWithout(ids)
<1>1. /\ n \in Native
      /\ \A i \in Ids : n.bps[i] = IF i \in ids THEN None ELSE native.bps[i]
      /\ n.dbgBps = native.dbgBps \ ids /\ n.hooks = native.hooks /\ n.dbgHooks = native.dbgHooks
      /\ n.nextId = native.nextId
  BY NativeWithoutFacts
<1>2. Without(ids, addrs) = [n EXCEPT !.hooks = @ \ addrs, !.dbgHooks = @ \ addrs]
  BY DEF Without
<1> HIDE DEF n
<1>3. /\ Without(ids, addrs) \in Native
      /\ Without(ids, addrs).bps = n.bps
      /\ Without(ids, addrs).dbgBps = n.dbgBps
      /\ Without(ids, addrs).hooks = n.hooks \ addrs
      /\ Without(ids, addrs).dbgHooks = n.dbgHooks \ addrs
      /\ Without(ids, addrs).nextId = n.nextId
  BY <1>1, <1>2 DEF Native
<1> QED
  BY <1>1, <1>3

\* The requests of the host reach the server now, or after the command it waits for.
LEMMA ApplyFacts ==
  ASSUME TypeOK, apply_stop_action
  PROVE  /\ \/ /\ mail.waiting
               /\ mail' \in Mail /\ mail'.cmds = mail.cmds /\ mail'.waiting = mail.waiting
               /\ mail'.late.bps = mail.late.bps \cup bpOwn.queue
               /\ mail'.late.hooks = mail.late.hooks \cup hookOwn.queue
               /\ UNCHANGED <<native, hookOwn>>
            \/ /\ ~mail.waiting /\ native' = Without(bpOwn.queue, hookOwn.queue)
               /\ hookOwn' = take_removals(hookOwn) /\ mail' = mail
         /\ bpOwn' = take_removals(bpOwn)
         /\ \/ host' = AtMail
            \/ /\ host' = [host EXCEPT !.at = "act"]
               /\ host.merged \notin {None, "stay"} /\ ~mail.waiting /\ SameStop
<1>1. /\ bpOwn' = take_removals(bpOwn)
      /\ \/ host' = AtMail
         \/ /\ host' = [host EXCEPT !.at = "act"]
            /\ host.merged \notin {None, "stay"} /\ ~mail.waiting /\ SameStop
  BY DEF apply_stop_action, apply_removals
<1>2. CASE mail.waiting
  <2> DEFINE l == [mail.late EXCEPT !.bps = @ \cup bpOwn.queue, !.hooks = @ \cup hookOwn.queue]
  <2>1. /\ mail' = [mail EXCEPT !.late.bps = @ \cup bpOwn.queue, !.late.hooks = @ \cup hookOwn.queue]
        /\ UNCHANGED <<native, hookOwn>>
    BY <1>2 DEF apply_stop_action, apply_removals
  <2>2. /\ mail \in Mail /\ mail.late \in [bps : SUBSET Ids, hooks : SUBSET Addrs]
        /\ bpOwn.queue \in SUBSET Ids /\ hookOwn.queue \in SUBSET Addrs
    BY DEF TypeOK, Mail, Leases
  <2>3. /\ l \in [bps : SUBSET Ids, hooks : SUBSET Addrs]
        /\ l.bps = mail.late.bps \cup bpOwn.queue /\ l.hooks = mail.late.hooks \cup hookOwn.queue
    BY <2>2
  <2>5. mail' = [mail EXCEPT !.late = l]
    BY <2>1, <2>2 DEF Mail
  <2> HIDE DEF l
  <2>7. mail' \in Mail /\ mail'.cmds = mail.cmds /\ mail'.waiting = mail.waiting /\ mail'.late = l
    BY <2>2, <2>3, <2>5 DEF Mail
  <2> QED
    BY <1>1, <1>2, <2>1, <2>3, <2>7
<1>3. CASE ~mail.waiting
  BY <1>1, <1>3 DEF apply_stop_action, apply_removals, Without
<1> QED
  BY <1>2, <1>3

LEMMA Type_apply_stop_action == ASSUME TypeOK, PhaseInv, apply_stop_action PROVE TypeOK'
<1>1. bpOwn' \in Leases(Ids)
  BY ApplyFacts, TakeFacts DEF TypeOK
<1>2. mail' \in Mail /\ native' \in Native /\ hookOwn' \in Leases(Addrs)
  BY ApplyFacts, TakeFacts, WithoutFacts DEF TypeOK
<1>3. host' \in Host
  <2>1. host' = AtMail \/ host' = [host EXCEPT !.at = "act"]
    BY ApplyFacts
  <2>2. host \in Host
    BY DEF TypeOK
  <2>3. [host EXCEPT !.at = "act"] \in Host
    BY <2>2 DEF Host, Phases
  <2> QED
    BY <2>1, <2>3, AtMailType
<1> QED
  BY <1>1, <1>2, <1>3 DEF TypeOK, apply_stop_action

LEMMA ResumedType ==
  ASSUME TypeOK, Resumed
  PROVE  stop' \in Stop /\ traps' \in Traps
  BY TrapMoveFacts DEF TypeOK, Resumed, Stop

LEMMA Type_Act == ASSUME TypeOK, PhaseInv, Act PROVE TypeOK'
<1>1. stop' \in Stop /\ traps' \in Traps
  BY ResumedType DEF TypeOK, Act
<1>2. host' \in Host
  BY AtMailType DEF Act
<1> QED
  BY <1>1, <1>2 DEF TypeOK, Act

LEMMA Type_send_command ==
  ASSUME TypeOK, PhaseInv, NEW cmd \in Commands, send_command(cmd) PROVE TypeOK'
<1>1. mail' \in Mail
  <2>1. Append(mail.cmds, cmd) \in Seq(Commands) /\ mail \in Mail
    BY DEF TypeOK, Mail
  <2> QED
    BY <2>1 DEF send_command, Mail
<1>2. used' \in Used
  BY DEF TypeOK, send_command, Used
<1> QED
  BY <1>1, <1>2 DEF TypeOK, send_command

LEMMA Type_SendTimesOut == ASSUME TypeOK, PhaseInv, SendTimesOut PROVE TypeOK'
<1>1. mail' \in Mail
  BY DEF TypeOK, SendTimesOut, Mail
<1>2. used' \in Used
  BY DEF TypeOK, SendTimesOut, Used
<1> QED
  BY <1>1, <1>2 DEF TypeOK, SendTimesOut

LEMMA LateFacts ==
  ASSUME TypeOK, ServeLate
  PROVE  /\ native' = Without(mail.late.bps, mail.late.hooks)
         /\ mail' \in Mail /\ mail'.late.bps = {} /\ mail'.late.hooks = {}
         /\ mail'.cmds = mail.cmds /\ mail'.waiting = mail.waiting
<1>1. native' = Without(mail.late.bps, mail.late.hooks)
  BY DEF ServeLate, Without
<1> DEFINE l == [bps |-> {}, hooks |-> {}]
<1>2. mail' = [mail EXCEPT !.late = l] /\ l \in [bps : SUBSET Ids, hooks : SUBSET Addrs]
  BY DEF ServeLate
<1>3. l.bps = {} /\ l.hooks = {}
  OBVIOUS
<1> HIDE DEF l
<1>4. mail' \in Mail /\ mail'.late = l /\ mail'.cmds = mail.cmds /\ mail'.waiting = mail.waiting
  BY <1>2 DEF TypeOK, Mail
<1> QED
  BY <1>1, <1>3, <1>4

LEMMA Type_ServeLate == ASSUME TypeOK, PhaseInv, ServeLate PROVE TypeOK'
<1>1. native' \in Native
  BY LateFacts, WithoutFacts DEF TypeOK
<1>2. mail' \in Mail
  BY LateFacts
<1> QED
  BY <1>1, <1>2 DEF TypeOK, ServeLate

LEMMA ExternalType == ASSUME TypeOK, External PROVE used' \in Used
  BY DEF TypeOK, External, Used

LEMMA MarkFacts ==
  ASSUME NEW P, NEW o \in Leases(P), NEW p \in P
  PROVE  LET m == mark_external_owner(o, p)
         IN /\ m \in Leases(P) /\ m.queue = o.queue
            /\ m.lease[p].n = o.lease[p].n /\ ~m.lease[p].atZero
            /\ \A q \in P : q # p => m.lease[q] = o.lease[q]
<1> DEFINE l == [o.lease[p] EXCEPT !.atZero = FALSE]
           m == mark_external_owner(o, p)
<1>1. o.lease \in [P -> [n : Nat, atZero : BOOLEAN]] /\ o.queue \in SUBSET P
  BY DEF Leases
<1>2. l \in [n : Nat, atZero : BOOLEAN] /\ l.n = o.lease[p].n /\ ~l.atZero
  BY <1>1
<1>3. m = [o EXCEPT !.lease[p] = l]
  BY <1>1 DEF mark_external_owner
<1> HIDE DEF l
<1>4. m.lease = [o.lease EXCEPT ![p] = l] /\ m.queue = o.queue
  BY <1>3 DEF Leases
<1>5. m \in Leases(P)
  BY <1>1, <1>2, <1>3 DEF Leases
<1> HIDE DEF m
<1> QED
  BY <1>1, <1>2, <1>4, <1>5 DEF m

LEMMA Type_handle_bp_set ==
  ASSUME TypeOK, PhaseInv, NEW a \in Addrs, handle_bp_set(a) PROVE TypeOK'
<1> DEFINE id == IF IdsAt(a) # {} THEN CHOOSE i \in IdsAt(a) : TRUE ELSE native.nextId
           script == host.call.op = "breakpoint" /\ host.call.addr = a
<1>1. /\ id \in Ids
      /\ native' = [native EXCEPT !.bps[id] = a, !.dbgBps = @ \cup {id},
                                  !.nextId = IF id = @ THEN @ + 1 ELSE @]
      /\ bpOwn' = IF script \/ bpOwn.lease[id].n = 0
                  THEN bpOwn ELSE mark_external_owner(bpOwn, id)
  BY DEF handle_bp_set
<1> HIDE DEF id, script
<1>2. native' \in Native
  <2>1. /\ native \in Native
        /\ [native.bps EXCEPT ![id] = a] \in [Ids -> Addrs \cup {None}]
        /\ (IF id = native.nextId THEN native.nextId + 1 ELSE native.nextId) \in Nat
        /\ native.dbgBps \cup {id} \in SUBSET Ids
    BY <1>1 DEF TypeOK, Native
  <2> QED
    BY <1>1, <2>1 DEF Native
<1>3. bpOwn' \in Leases(Ids)
  <2>1. bpOwn \in Leases(Ids)
    BY DEF TypeOK
  <2>2. mark_external_owner(bpOwn, id) \in Leases(Ids)
    BY <1>1, <2>1, MarkFacts
  <2> QED
    BY <1>1, <2>1, <2>2
<1>4. used' \in Used
  BY ExternalType DEF handle_bp_set
<1> QED
  BY <1>2, <1>3, <1>4 DEF TypeOK, handle_bp_set, External

LEMMA Type_handle_bp_remove ==
  ASSUME TypeOK, PhaseInv, NEW id \in Ids, handle_bp_remove(id) PROVE TypeOK'
<1>1. native' \in Native
  BY NativeWithoutFacts DEF TypeOK, handle_bp_remove
<1>2. used' \in Used
  BY ExternalType DEF handle_bp_remove
<1> QED
  BY <1>1, <1>2 DEF TypeOK, handle_bp_remove, External

LEMMA Type_handle_hook_set ==
  ASSUME TypeOK, PhaseInv, NEW a \in Addrs, handle_hook_set(a) PROVE TypeOK'
<1>1. native' \in Native
  BY DEF TypeOK, handle_hook_set, Native
<1>2. used' \in Used
  BY ExternalType DEF handle_hook_set
<1> QED
  BY <1>1, <1>2 DEF TypeOK, handle_hook_set, External

LEMMA Type_handle_hook_remove ==
  ASSUME TypeOK, PhaseInv, NEW a \in Addrs, handle_hook_remove(a) PROVE TypeOK'
<1>1. native' \in Native
  BY DEF TypeOK, handle_hook_remove, Native
<1>2. used' \in Used
  BY ExternalType DEF handle_hook_remove
<1> QED
  BY <1>1, <1>2 DEF TypeOK, handle_hook_remove, External

LEMMA Type_handle_resume == ASSUME TypeOK, PhaseInv, handle_resume PROVE TypeOK'
<1>1. stop' \in Stop /\ traps' \in Traps
  BY ResumedType DEF handle_resume
<1>2. used' \in Used
  BY ExternalType DEF handle_resume
<1> QED
  BY <1>1, <1>2 DEF TypeOK, handle_resume, External

LEMMA Type_StopsAt == ASSUME TypeOK, PhaseInv, NEW a \in Addrs \cup {None}, StopsAt(a) PROVE TypeOK'
<1>1. stop' \in Stop
  <2>1. stop \in Stop /\ stop' = [stop EXCEPT !.on = TRUE, !.gen = @ + 1, !.addr = a]
    BY DEF TypeOK, StopsAt
  <2>2. stop.gen + 1 \in Nat
    BY <2>1 DEF Stop
  <2> QED
    BY <2>1, <2>2 DEF Stop
<1>2. traps' \in Traps
  BY TrapMoveFacts DEF TypeOK, StopsAt
<1> QED
  BY <1>1, <1>2 DEF TypeOK, StopsAt

LEMMA Type_TrapClaim == ASSUME TypeOK, PhaseInv, TrapClaim PROVE TypeOK'
<1>1. traps' \in Traps
  BY TrapMoveFacts DEF TypeOK, TrapClaim
<1> QED
  BY <1>1 DEF TypeOK, TrapClaim

LEMMA Type_Init == ASSUME Init PROVE TypeOK
<1>1. reg \in [Keys -> Plugin \cup {Absent}] /\ held \in Plugin \cup {Absent} /\ pending \in Seq(Names)
  BY DEF Init
<1>2. host \in Host
  BY AtMailType DEF Init
<1>3. mail \in Mail
  BY DEF Init, Mail
<1>4. native \in Native
  BY DEF Init, Native
<1>5. bpOwn \in Leases(Ids) /\ hookOwn \in Leases(Addrs)
  BY DEF Init, EmptyLeases, NoLease, Leases
<1>6. traps \in Traps
  BY DEF Init, EmptyTraps, EmptySlot, Traps, Slot
<1>7. pub \in Published
  BY DEF Init, Published
<1>8. stop \in Stop /\ used \in Used
  BY DEF Init, Stop, Used
<1> QED
  BY <1>1, <1>2, <1>3, <1>4, <1>5, <1>6, <1>7, <1>8 DEF TypeOK

-----------------------------------------------------------------------------
(* What each part of the invariant looks at                                *)

SameStates(r, s) ==
    \A k \in Keys : /\ r[k] = Absent <=> s[k] = Absent
                    /\ r[k] # Absent => /\ s[k].state = r[k].state
                                        /\ s[k].quarantined = r[k].quarantined

SamePolicies(r, s) == \A k \in Keys : r[k] # Absent => s[k].policy = r[k].policy

SameDecisions(r, s) == \A k \in Keys : r[k] # Absent => s[k].decisions = r[k].decisions

\* What a plugin, if there is one, holds of a breakpoint, of a hook and of traps.
BpOf(p, i) == IF p # Absent /\ i \in p.bps THEN 1 ELSE 0

HookOf(p, a) == IF p = Absent THEN 0 ELSE p.events[a] + p.decisions[a]

TrapsOf(p) == IF p = Absent THEN {} ELSE p.traps

SameBps(r, s) == \A k \in Keys : \A i \in Ids : BpOf(s[k], i) = BpOf(r[k], i)

SameHooks(r, s) == \A k \in Keys : \A a \in Addrs : HookOf(s[k], a) = HookOf(r[k], a)

KeepTraps(r, s) == \A k \in Keys : TrapsOf(r[k]) \subseteq TrapsOf(s[k])

SamePlace ==
    /\ host'.at = host.at /\ host'.py = host.py /\ host'.key = host.key
    /\ host'.batch = host.batch /\ host'.todo = host.todo
    /\ host'.merged = host.merged /\ host'.votes = host.votes
    /\ host'.target = host.target /\ host'.changed = host.changed /\ host'.valid = host.valid

LEMMA SameReg ==
  ASSUME NEW r
  PROVE  /\ SameStates(r, r) /\ SamePolicies(r, r) /\ SameDecisions(r, r)
         /\ SameBps(r, r) /\ SameHooks(r, r) /\ KeepTraps(r, r)
  BY DEF SameStates, SamePolicies, SameDecisions, SameBps, SameHooks, KeepTraps

LEMMA SetFacts ==
  ASSUME TypeOK, host.key \in Keys, Me \in Plugin, NEW p \in Plugin, SetMe(p)
  PROVE  /\ p.state = Me.state /\ p.quarantined = Me.quarantined => SameStates(reg, reg')
         /\ p.policy = Me.policy => SamePolicies(reg, reg')
         /\ p.decisions = Me.decisions => SameDecisions(reg, reg')
         /\ p.bps = Me.bps => SameBps(reg, reg')
         /\ p.events = Me.events /\ p.decisions = Me.decisions => SameHooks(reg, reg')
         /\ Me.traps \subseteq p.traps => KeepTraps(reg, reg')
<1>1. /\ reg'[host.key] = p /\ reg[host.key] = Me
      /\ \A k \in Keys : k # host.key => reg'[k] = reg[k]
  BY SetMeType DEF Me
<1>2. p # Absent /\ Me # Absent
  BY NamesFacts
<1>3. p.state = Me.state /\ p.quarantined = Me.quarantined => SameStates(reg, reg')
  BY <1>1, <1>2 DEF SameStates
<1>4. /\ p.policy = Me.policy => SamePolicies(reg, reg')
      /\ p.decisions = Me.decisions => SameDecisions(reg, reg')
  BY <1>1, <1>2 DEF SamePolicies, SameDecisions
<1>5. p.bps = Me.bps => SameBps(reg, reg')
  BY <1>1, <1>2 DEF SameBps, BpOf
<1>6. p.events = Me.events /\ p.decisions = Me.decisions => SameHooks(reg, reg')
  BY <1>1, <1>2 DEF SameHooks, HookOf
<1>7. Me.traps \subseteq p.traps => KeepTraps(reg, reg')
  BY <1>1, <1>2 DEF KeepTraps, TrapsOf
<1> QED
  BY <1>3, <1>4, <1>5, <1>6, <1>7

LEMMA CallSet ==
  ASSUME host \in Host, NEW c, host' = [host EXCEPT !.call = c]
  PROVE  SamePlace /\ host'.call = c
  BY DEF Host, SamePlace

LEMMA BatchHead ==
  ASSUME TypeOK, host.batch # <<>>
  PROVE  Head(host.batch) \in Names /\ Head(host.batch) \in Keys /\ Head(host.batch) # Staged
  BY HostFields, NamesFacts DEF TypeOK

LEMMA PhaseKept ==
  ASSUME TypeOK, PhaseInv, SameStates(reg, reg'), held' = held, SamePlace,
         \/ host'.call = NoCall \/ host'.call = host.call
         \/ host.py /\ host.at # "sync",
         mail.cmds # <<>> => mail'.cmds # <<>>
  PROVE  PhaseInv'
<1>1. PyPresent'
  BY DEF PhaseInv, PyPresent, SameStates, SamePlace
<1>2. TodoPresent'
  BY HostFields, NamesFacts DEF TypeOK, PhaseInv, TodoPresent, SameStates, SamePlace
<1>3. StageInv'
  <2>1. Staged \in Keys
    BY NamesFacts
  <2>2. host.at = "exec" /\ host.py => Head(host.batch) \in Keys
    BY BatchHead DEF PhaseInv, StageInv
  <2>3. host.at = "commit" => host.py /\ host.key \in Keys /\ reg[host.key] # Absent
    BY DEF PhaseInv, StageInv, PyPresent
  <2> QED
    BY <2>1, <2>2, <2>3 DEF PhaseInv, StageInv, SameStates, SamePlace
<1>4. CallInv'
  BY DEF PhaseInv, CallInv, SamePlace
<1>5. QuarantineInv'
  BY DEF PhaseInv, QuarantineInv, SameStates
<1> QED
  BY <1>1, <1>2, <1>3, <1>4, <1>5 DEF PhaseInv

LEMMA VotesKept ==
  ASSUME VotesInv, host'.merged = host.merged, host'.votes = host.votes
  PROVE  VotesInv'
  BY DEF VotesInv

LEMMA VotesReset ==
  ASSUME host'.merged = None, host'.votes = {}
  PROVE  VotesInv'
  BY DEF VotesInv

LEMMA SpecsSame ==
  ASSUME NEW r, NEW s, SameStates(r, s), SamePolicies(r, s)
  PROVE  Specs(r) = Specs(s)
<1>1. Running(r) = Running(s)
  BY DEF Running, SameStates
<1>2. \A p \in Running(r) : r[p].policy = s[p].policy
  BY DEF Running, SamePolicies
<1> QED
  BY <1>1, <1>2 DEF Specs

LEMMA InterestsSame ==
  ASSUME NEW r, NEW s, SameStates(r, s), SameDecisions(r, s)
  PROVE  Interests(r) = Interests(s) /\ Failed(r) = Failed(s)
<1>1. Running(r) = Running(s) /\ Failed(r) = Failed(s)
  BY DEF Running, Failed, SameStates
<1>2. \A p \in Running(r) : r[p].decisions = s[p].decisions
  BY DEF Running, SameDecisions
<1> QED
  BY <1>1, <1>2 DEF Interests

LEMMA PolicyKept ==
  ASSUME TypeOK, PhaseInv, PolicyInv, SameStates(reg, reg'), SamePolicies(reg, reg'),
         TypeOK', pub'.policy = pub.policy, pub'.refused = pub.refused,
         host'.at = "commit" => host.at = "commit" /\ host'.key = host.key /\ held' = held,
         host'.at # "commit" /\ host'.valid => host.at # "commit" /\ host.valid
  PROVE  PolicyInv'
<1>1. Specs(reg') = Specs(reg)
  BY SpecsSame
<1>2. Disjoint(reg)'
  BY <1>1 DEF PolicyInv, Disjoint
<1>3. ASSUME host'.at = "commit" PROVE Disjoint(Committed)'
  <2>1. host.key \in Keys /\ host'.key = host.key /\ held' = held
    BY <1>3 DEF PhaseInv, StageInv, PyPresent
  <2>2. Committed \in [Keys -> Plugin \cup {Absent}] /\ Committed' \in [Keys -> Plugin \cup {Absent}]
    BY <2>1 DEF TypeOK, Committed
  <2>3. Committed[host.key] = held /\ Committed'[host.key] = held
    BY <2>1 DEF TypeOK, Committed
  <2>4. \A k \in Keys : k # host.key => Committed[k] = reg[k] /\ Committed'[k] = reg'[k]
    BY <2>1 DEF TypeOK, Committed
  <2>5. SameStates(Committed, Committed') /\ SamePolicies(Committed, Committed')
    BY <2>3, <2>4 DEF SameStates, SamePolicies
  <2>6. Specs(Committed) = Specs(Committed')
    BY <2>5, SpecsSame
  <2>7. Disjoint(Committed)
    BY <1>3 DEF PolicyInv
  <2> QED
    BY <2>6, <2>7 DEF Disjoint
<1>4. ASSUME host'.at # "commit", host'.valid PROVE Current(reg, pub)'
  <2>1. Current(reg, pub)
    BY <1>4 DEF PolicyInv
  <2> QED
    BY <1>1, <2>1 DEF Current
<1> QED
  BY <1>2, <1>3, <1>4 DEF PolicyInv

LEMMA InterestKept ==
  ASSUME InterestInv, SameStates(reg, reg'), SameDecisions(reg, reg'),
         pub'.interests = pub.interests,
         host'.at # "commit" /\ (host'.target = None \/ ~host'.changed) =>
            host.at # "commit" /\ (host.target = None \/ ~host.changed)
  PROVE  InterestInv'
<1>1. Interests(reg') = Interests(reg) /\ Failed(reg') = Failed(reg)
  BY InterestsSame
<1> QED
  BY <1>1 DEF InterestInv

\* The subscriptions on a point, in terms of the registry and the replacement.
BpCounts(r, h, i) == [k \in Keys \cup {"held"} |-> IF k = "held" THEN BpOf(h, i) ELSE BpOf(r[k], i)]

HookCounts(r, h, a) ==
    [k \in Keys \cup {"held"} |-> IF k = "held" THEN HookOf(h, a) ELSE HookOf(r[k], a)]

LEMMA BpCountsAre ==
  ASSUME NEW i \in Ids
  PROVE  /\ BpSubscriptions(i) = BpCounts(reg, held, i)
         /\ BpSubscriptions(i)' = BpCounts(reg', held', i)
<1>1. DOMAIN Holders = Keys \cup {"held"} /\ DOMAIN Holders' = Keys \cup {"held"}
  BY DEF Holders
<1>2. /\ Holders["held"] = held /\ \A k \in Keys : Holders[k] = reg[k]
      /\ Holders'["held"] = held' /\ \A k \in Keys : Holders'[k] = reg'[k]
  BY NamesFacts DEF Holders
<1>3. BpSubscriptions(i) = BpCounts(reg, held, i)
  BY <1>1, <1>2, NamesFacts DEF BpSubscriptions, BpCounts, BpOf
<1>4. BpSubscriptions(i)' = BpCounts(reg', held', i)
  BY <1>1, <1>2, NamesFacts DEF BpSubscriptions, BpCounts, BpOf
<1> QED
  BY <1>3, <1>4

LEMMA HookCountsAre ==
  ASSUME NEW a \in Addrs
  PROVE  /\ HookSubscriptions(a) = HookCounts(reg, held, a)
         /\ HookSubscriptions(a)' = HookCounts(reg', held', a)
<1>1. DOMAIN Holders = Keys \cup {"held"} /\ DOMAIN Holders' = Keys \cup {"held"}
  BY DEF Holders
<1>2. /\ Holders["held"] = held /\ \A k \in Keys : Holders[k] = reg[k]
      /\ Holders'["held"] = held' /\ \A k \in Keys : Holders'[k] = reg'[k]
  BY NamesFacts DEF Holders
<1>3. HookSubscriptions(a) = HookCounts(reg, held, a)
  BY <1>1, <1>2, NamesFacts DEF HookSubscriptions, HookCounts, HookOf
<1>4. HookSubscriptions(a)' = HookCounts(reg', held', a)
  BY <1>1, <1>2, NamesFacts DEF HookSubscriptions, HookCounts, HookOf
<1> QED
  BY <1>3, <1>4

LEMMA BpKept ==
  ASSUME BpInv, SameBps(reg, reg'), held' = held, bpOwn' = bpOwn,
         native'.bps = native.bps, native'.dbgBps = native.dbgBps, native'.nextId = native.nextId,
         mail'.late.bps = mail.late.bps
  PROVE  BpInv'
<1>1. \A i \in Ids : BpCounts(reg', held', i) = BpCounts(reg, held, i)
  BY DEF BpCounts, SameBps
<1>2. \A i \in Ids : BpSubscriptions(i)' = BpSubscriptions(i)
  BY <1>1, BpCountsAre
<1> QED
  BY <1>2 DEF BpInv

LEMMA HookKept ==
  ASSUME HookInv, SameHooks(reg, reg'), held' = held, hookOwn' = hookOwn,
         native'.hooks = native.hooks, native'.dbgHooks = native.dbgHooks,
         mail'.late.hooks = mail.late.hooks
  PROVE  HookInv'
<1>1. \A a \in Addrs : HookCounts(reg', held', a) = HookCounts(reg, held, a)
  BY DEF HookCounts, SameHooks
<1>2. \A a \in Addrs : HookSubscriptions(a)' = HookSubscriptions(a)
  BY <1>1, HookCountsAre
<1> QED
  BY <1>2 DEF HookInv

\* The traps the plugins own.
Owned(r, h) == (UNION {TrapsOf(r[k]) : k \in Keys}) \cup TrapsOf(h)

LEMMA OwnedAre ==
  /\ UNION {p.traps : p \in Plugins} = Owned(reg, held)
  /\ UNION {p.traps : p \in Plugins'} = Owned(reg', held')
<1>1. ASSUME NEW r, NEW h, NEW P,
             P = {r[k] : k \in {x \in Keys : r[x] # Absent}} \cup ({h} \ {Absent})
      PROVE  UNION {p.traps : p \in P} = Owned(r, h)
  <2>0. \A t : t \in Owned(r, h) <=> (\E k \in Keys : t \in TrapsOf(r[k])) \/ t \in TrapsOf(h)
    BY DEF Owned
  <2>1. ASSUME NEW t, NEW p \in P, t \in p.traps PROVE t \in Owned(r, h)
    BY <1>1, <2>0, <2>1 DEF TrapsOf
  <2>2. ASSUME NEW t \in Owned(r, h) PROVE \E p \in P : t \in p.traps
    <3>1. CASE \E k \in Keys : t \in TrapsOf(r[k])
      BY <1>1, <3>1 DEF TrapsOf
    <3>2. CASE t \in TrapsOf(h)
      BY <1>1, <3>2 DEF TrapsOf
    <3> QED
      BY <2>0, <3>1, <3>2
  <2> QED
    BY <2>1, <2>2
<1> QED
  BY <1>1 DEF Plugins

LEMMA TrapKept ==
  ASSUME TrapInv, KeepTraps(reg, reg'), held' = held, Shrinks(traps, traps', {})
  PROVE  TrapInv'
<1>1. Owned(reg, held) \subseteq Owned(reg', held')
  BY DEF KeepTraps, Owned
<1>2. ActiveTraps(traps') \subseteq ActiveTraps(traps)
  BY DEF ActiveTraps, Shrinks
<1>3. \A s \in TrapSlots : traps'.slots[s].active => traps'.slots[s].used
  BY DEF TrapInv, Shrinks
<1>4. ActiveTraps(traps)' \subseteq UNION {p.traps : p \in Plugins'}
  BY <1>1, <1>2, OwnedAre DEF TrapInv
<1> QED
  BY <1>3, <1>4 DEF TrapInv

LEMMA ShrinksSame == ASSUME NEW t PROVE Shrinks(t, t, {})
  BY DEF Shrinks

\* A step of Python in its place: what it leaves alone stays true.
LEMMA Kept ==
  ASSUME HostInv, TypeOK', SamePlace, held' = held, SameStates(reg, reg')
  PROVE  /\ (/\ \/ host'.call = NoCall \/ host'.call = host.call
                \/ host.py /\ host.at # "sync"
             /\ mail.cmds # <<>> => mail'.cmds # <<>>) => PhaseInv'
         /\ VotesInv'
         /\ (/\ SamePolicies(reg, reg')
             /\ pub'.policy = pub.policy /\ pub'.refused = pub.refused) => PolicyInv'
         /\ SameDecisions(reg, reg') /\ pub'.interests = pub.interests => InterestInv'
<1>1. TypeOK /\ PhaseInv /\ VotesInv /\ PolicyInv /\ InterestInv
  BY DEF HostInv
<1>2. /\ host'.at = host.at /\ host'.key = host.key /\ host'.merged = host.merged
      /\ host'.votes = host.votes /\ host'.target = host.target
      /\ host'.changed = host.changed /\ host'.valid = host.valid
  BY DEF SamePlace
<1>3. ASSUME \/ host'.call = NoCall \/ host'.call = host.call
             \/ host.py /\ host.at # "sync",
             mail.cmds # <<>> => mail'.cmds # <<>>
      PROVE  PhaseInv'
  BY <1>1, <1>3, PhaseKept
<1>4. VotesInv'
  BY <1>1, <1>2, VotesKept
<1>5. ASSUME SamePolicies(reg, reg'), pub'.policy = pub.policy, pub'.refused = pub.refused
      PROVE  PolicyInv'
  BY <1>1, <1>2, <1>5, PolicyKept
<1>6. ASSUME SameDecisions(reg, reg'), pub'.interests = pub.interests PROVE InterestInv'
  BY <1>1, <1>2, <1>6, InterestKept
<1> QED
  BY <1>3, <1>4, <1>5, <1>6

LEMMA SamePlaceSame == ASSUME host' = host PROVE SamePlace
  BY DEF SamePlace

\* A staged plugin is not running, so what the registry publishes does not show it.
LEMMA InterestsPublished ==
  ASSUME PhaseInv', pub'.interests = Interests(reg')
  PROVE  InterestInv'
<1>1. reg'[Staged] # Absent => reg'[Staged].state # "running"
  BY DEF PhaseInv, StageInv
<1>2. Staged \notin Running(reg')
  BY <1>1 DEF Running
<1>3. \A u \in Interests(reg') : u[1] # Staged
  BY <1>2 DEF Interests
<1> QED
  BY <1>3 DEF InterestInv

-----------------------------------------------------------------------------
(* How the number of subscriptions on a point changes                      *)

Registry == [Keys -> Plugin \cup {Absent}]

LEMMA BpCountsType ==
  ASSUME NEW r \in Registry, NEW h \in Plugin \cup {Absent}, NEW i \in Ids
  PROVE  /\ BpCounts(r, h, i) \in [Keys \cup {"held"} -> Nat]
         /\ BpCounts(r, h, i)["held"] = BpOf(h, i)
         /\ \A k \in Keys : BpCounts(r, h, i)[k] = BpOf(r[k], i)
  BY NamesFacts DEF BpCounts, BpOf

LEMMA HookOfType ==
  ASSUME NEW p \in Plugin \cup {Absent}, NEW a \in Addrs
  PROVE  HookOf(p, a) \in Nat
<1>1. CASE p = Absent
  BY <1>1 DEF HookOf
<1>2. CASE p # Absent
  <2>1. p.events[a] \in Nat /\ p.decisions[a] \in Nat
    BY <1>2, PluginFields, NamesFacts
  <2> QED
    BY <1>2, <2>1 DEF HookOf
<1> QED
  BY <1>1, <1>2

LEMMA HookCountsType ==
  ASSUME NEW r \in Registry, NEW h \in Plugin \cup {Absent}, NEW a \in Addrs
  PROVE  /\ HookCounts(r, h, a) \in [Keys \cup {"held"} -> Nat]
         /\ HookCounts(r, h, a)["held"] = HookOf(h, a)
         /\ \A k \in Keys : HookCounts(r, h, a)[k] = HookOf(r[k], a)
<1>1. \A k \in Keys : HookOf(r[k], a) \in Nat
  BY HookOfType DEF Registry
<1>2. HookOf(h, a) \in Nat
  BY HookOfType
<1> QED
  BY <1>1, <1>2, NamesFacts DEF HookCounts

\* One plugin changes.
LEMMA BpTotalSet ==
  ASSUME NEW r \in Registry, NEW s \in Registry, NEW h \in Plugin \cup {Absent}, NEW i \in Ids,
         NEW k \in Keys, \A x \in Keys : x # k => s[x] = r[x]
  PROVE  /\ Total(BpCounts(r, h, i)) \in Nat /\ Total(BpCounts(s, h, i)) \in Nat
         /\ Total(BpCounts(s, h, i)) + BpOf(r[k], i) = Total(BpCounts(r, h, i)) + BpOf(s[k], i)
         /\ BpOf(r[k], i) <= Total(BpCounts(r, h, i))
<1> DEFINE D == Keys \cup {"held"}
           f == BpCounts(r, h, i)
           g == BpCounts(s, h, i)
<1>1. f \in [D -> Nat] /\ g \in [D -> Nat] /\ f[k] = BpOf(r[k], i) /\ g[k] = BpOf(s[k], i)
  BY BpCountsType
<1>2. \A x \in D : x # k => g[x] = f[x]
  BY BpCountsType
<1>3. IsFiniteSet(D) /\ k \in D
  BY HoldersFinite
<1> HIDE DEF D, f, g
<1>4. /\ Total(f) \in Nat /\ Total(g) \in Nat
      /\ Total(g) + f[k] = Total(f) + g[k] /\ f[k] <= Total(f)
  BY <1>1, <1>2, <1>3, TotalExcept
<1> QED
  BY <1>1, <1>4 DEF f, g

LEMMA HookTotalSet ==
  ASSUME NEW r \in Registry, NEW s \in Registry, NEW h \in Plugin \cup {Absent}, NEW a \in Addrs,
         NEW k \in Keys, \A x \in Keys : x # k => s[x] = r[x]
  PROVE  /\ Total(HookCounts(r, h, a)) \in Nat /\ Total(HookCounts(s, h, a)) \in Nat
         /\ Total(HookCounts(s, h, a)) + HookOf(r[k], a) = Total(HookCounts(r, h, a)) + HookOf(s[k], a)
         /\ HookOf(r[k], a) <= Total(HookCounts(r, h, a))
<1> DEFINE D == Keys \cup {"held"}
           f == HookCounts(r, h, a)
           g == HookCounts(s, h, a)
<1>1. f \in [D -> Nat] /\ g \in [D -> Nat] /\ f[k] = HookOf(r[k], a) /\ g[k] = HookOf(s[k], a)
  <2>1. f \in [D -> Nat] /\ f[k] = HookOf(r[k], a)
    BY HookCountsType
  <2>2. g \in [D -> Nat] /\ g[k] = HookOf(s[k], a)
    BY HookCountsType
  <2> QED
    BY <2>1, <2>2
<1>2. \A x \in D : x # k => g[x] = f[x]
  BY HookCountsType
<1>3. IsFiniteSet(D) /\ k \in D
  BY HoldersFinite
<1> HIDE DEF D, f, g
<1>4. /\ Total(f) \in Nat /\ Total(g) \in Nat
      /\ Total(g) + f[k] = Total(f) + g[k] /\ f[k] <= Total(f)
  BY <1>1, <1>2, <1>3, TotalExcept
<1> QED
  BY <1>1, <1>4 DEF f, g

\* The plugin between two keys changes.
LEMMA BpTotalHeld ==
  ASSUME NEW r \in Registry, NEW h \in Plugin \cup {Absent}, NEW j \in Plugin \cup {Absent}, NEW i \in Ids
  PROVE  /\ Total(BpCounts(r, h, i)) \in Nat /\ Total(BpCounts(r, j, i)) \in Nat
         /\ Total(BpCounts(r, j, i)) + BpOf(h, i) = Total(BpCounts(r, h, i)) + BpOf(j, i)
<1> DEFINE D == Keys \cup {"held"}
           f == BpCounts(r, h, i)
           g == BpCounts(r, j, i)
<1>1. f \in [D -> Nat] /\ g \in [D -> Nat] /\ f["held"] = BpOf(h, i) /\ g["held"] = BpOf(j, i)
  BY BpCountsType
<1>2. \A x \in D : x # "held" => g[x] = f[x]
  <2>1. \A x \in Keys : f[x] = BpOf(r[x], i)
    BY BpCountsType
  <2>2. \A x \in Keys : g[x] = BpOf(r[x], i)
    BY BpCountsType
  <2> QED
    BY <2>1, <2>2
<1>3. IsFiniteSet(D) /\ "held" \in D
  BY HoldersFinite
<1> HIDE DEF D, f, g
<1>4. /\ Total(f) \in Nat /\ Total(g) \in Nat
      /\ Total(g) + f["held"] = Total(f) + g["held"]
  BY <1>1, <1>2, <1>3, TotalExcept
<1> QED
  BY <1>1, <1>4 DEF f, g

LEMMA HookTotalHeld ==
  ASSUME NEW r \in Registry, NEW h \in Plugin \cup {Absent}, NEW j \in Plugin \cup {Absent}, NEW a \in Addrs
  PROVE  /\ Total(HookCounts(r, h, a)) \in Nat /\ Total(HookCounts(r, j, a)) \in Nat
         /\ Total(HookCounts(r, j, a)) + HookOf(h, a) = Total(HookCounts(r, h, a)) + HookOf(j, a)
<1> DEFINE D == Keys \cup {"held"}
           f == HookCounts(r, h, a)
           g == HookCounts(r, j, a)
<1>1. f \in [D -> Nat] /\ g \in [D -> Nat] /\ f["held"] = HookOf(h, a) /\ g["held"] = HookOf(j, a)
  BY HookCountsType
<1>2. \A x \in D : x # "held" => g[x] = f[x]
  <2>1. \A x \in Keys : f[x] = HookOf(r[x], a)
    BY HookCountsType
  <2>2. \A x \in Keys : g[x] = HookOf(r[x], a)
    BY HookCountsType
  <2> QED
    BY <2>1, <2>2
<1>3. IsFiniteSet(D) /\ "held" \in D
  BY HoldersFinite
<1> HIDE DEF D, f, g
<1>4. /\ Total(f) \in Nat /\ Total(g) \in Nat
      /\ Total(g) + f["held"] = Total(f) + g["held"]
  BY <1>1, <1>2, <1>3, TotalExcept
<1> QED
  BY <1>1, <1>4 DEF f, g

\* The plugins under ks give everything back.
LEMMA BpTotalGiven ==
  ASSUME TypeOK, NEW ks \in SUBSET Keys, \A k \in ks : reg[k] # Absent, NEW s \in Registry, NEW i \in Ids,
         \A k \in ks : BpOf(s[k], i) = 0, \A k \in Keys \ ks : s[k] = reg[k]
  PROVE  /\ Total(BpCounts(reg, held, i)) \in Nat /\ Total(BpCounts(s, held, i)) \in Nat
         /\ BpTimes(ks)[i] \in Nat
         /\ Total(BpCounts(reg, held, i)) = BpTimes(ks)[i] + Total(BpCounts(s, held, i))
<1> DEFINE D == Keys \cup {"held"}
           f == BpCounts(reg, held, i)
           g == BpCounts(s, held, i)
           in == [x \in ks |-> f[x]]
           out == [x \in D |-> IF x \in ks THEN 0 ELSE f[x]]
<1>0. reg \in Registry /\ held \in Plugin \cup {Absent}
  BY DEF TypeOK, Registry
<1>1. f \in [D -> Nat] /\ g \in [D -> Nat] /\ IsFiniteSet(D) /\ ks \in SUBSET D
  BY <1>0, BpCountsType, HoldersFinite
<1>2. \A k \in ks : f[k] = BpUses(reg[k])[i]
  BY <1>0, BpCountsType DEF BpUses, BpOf
<1>3. BpTimes(ks)[i] = Total(in)
  <2>1. in = [k \in ks |-> BpUses(reg[k])[i]]
    BY <1>2
  <2> QED
    BY <2>1 DEF BpTimes
<1>4. g = out
  <2>1. \A x \in D : g[x] = out[x]
    BY <1>0, BpCountsType, NamesFacts
  <2> QED
    BY <1>1, <2>1
<1>6. f \in [D -> Nat] /\ IsFiniteSet(D) /\ ks \in SUBSET D
  BY <1>1
<1> HIDE DEF D, f, g
<1>5. Total(f) \in Nat /\ Total(in) \in Nat /\ Total(out) \in Nat /\ Total(f) = Total(in) + Total(out)
  BY <1>6, TotalSplit
<1> HIDE DEF in, out
<1> QED
  BY <1>3, <1>4, <1>5 DEF f, g

LEMMA HookTotalGiven ==
  ASSUME TypeOK, NEW ks \in SUBSET Keys, \A k \in ks : reg[k] # Absent, NEW s \in Registry, NEW a \in Addrs,
         \A k \in ks : HookOf(s[k], a) = 0, \A k \in Keys \ ks : s[k] = reg[k]
  PROVE  /\ Total(HookCounts(reg, held, a)) \in Nat /\ Total(HookCounts(s, held, a)) \in Nat
         /\ HookTimes(ks)[a] \in Nat
         /\ Total(HookCounts(reg, held, a)) = HookTimes(ks)[a] + Total(HookCounts(s, held, a))
<1> DEFINE D == Keys \cup {"held"}
           f == HookCounts(reg, held, a)
           g == HookCounts(s, held, a)
           in == [x \in ks |-> f[x]]
           out == [x \in D |-> IF x \in ks THEN 0 ELSE f[x]]
<1>0. reg \in Registry /\ held \in Plugin \cup {Absent}
  BY DEF TypeOK, Registry
<1>1. f \in [D -> Nat] /\ g \in [D -> Nat] /\ IsFiniteSet(D) /\ ks \in SUBSET D
  BY <1>0, HookCountsType, HoldersFinite
<1>2. \A k \in ks : f[k] = HookUses(reg[k])[a]
  BY <1>0, HookCountsType DEF HookUses, HookOf
<1>3. HookTimes(ks)[a] = Total(in)
  <2>1. in = [k \in ks |-> HookUses(reg[k])[a]]
    BY <1>2
  <2> QED
    BY <2>1 DEF HookTimes
<1>4. g = out
  <2>1. \A x \in D : g[x] = out[x]
    BY <1>0, HookCountsType, NamesFacts
  <2> QED
    BY <1>1, <2>1
<1>6. f \in [D -> Nat] /\ IsFiniteSet(D) /\ ks \in SUBSET D
  BY <1>1
<1> HIDE DEF D, f, g
<1>5. Total(f) \in Nat /\ Total(in) \in Nat /\ Total(out) \in Nat /\ Total(f) = Total(in) + Total(out)
  BY <1>6, TotalSplit
<1> HIDE DEF in, out
<1> QED
  BY <1>3, <1>4, <1>5 DEF f, g

-----------------------------------------------------------------------------
(* Python calls                                                            *)

LEMMA BpsSet ==
  ASSUME NEW p \in Plugin, NEW s \in SUBSET Ids
  PROVE  LET q == [p EXCEPT !.bps = s]
         IN /\ q \in Plugin /\ q.bps = s /\ q.state = p.state /\ q.quarantined = p.quarantined
            /\ q.policy = p.policy /\ q.decisions = p.decisions /\ q.events = p.events
            /\ q.traps = p.traps
  BY DEF Plugin

LEMMA EventsSet ==
  ASSUME NEW p \in Plugin, NEW s \in [Addrs -> Nat]
  PROVE  LET q == [p EXCEPT !.events = s]
         IN /\ q \in Plugin /\ q.events = s /\ q.state = p.state /\ q.quarantined = p.quarantined
            /\ q.policy = p.policy /\ q.decisions = p.decisions /\ q.bps = p.bps
            /\ q.traps = p.traps
  BY DEF Plugin

LEMMA DecisionsSet ==
  ASSUME NEW p \in Plugin, NEW s \in [Targets -> Nat]
  PROVE  LET q == [p EXCEPT !.decisions = s]
         IN /\ q \in Plugin /\ q.decisions = s /\ q.state = p.state /\ q.quarantined = p.quarantined
            /\ q.policy = p.policy /\ q.events = p.events /\ q.bps = p.bps
            /\ q.traps = p.traps
  BY DEF Plugin

LEMMA TrapsSet ==
  ASSUME NEW p \in Plugin, NEW s \in SUBSET Nat
  PROVE  LET q == [p EXCEPT !.traps = s]
         IN /\ q \in Plugin /\ q.traps = s /\ q.state = p.state /\ q.quarantined = p.quarantined
            /\ q.policy = p.policy /\ q.decisions = p.decisions /\ q.events = p.events
            /\ q.bps = p.bps
  BY DEF Plugin

\* The invariants of the points, over the registry and the replacement.
BpAt(i) == Point(bpOwn, i, native.bps[i] # None, i \in native.dbgBps, i \in mail.late.bps,
                 Total(BpCounts(reg, held, i)))

HookAt(a) == Point(hookOwn, a, a \in native.hooks, a \in native.dbgHooks, a \in mail.late.hooks,
                   Total(HookCounts(reg, held, a)))

Unissued == \A i \in Ids : i >= native.nextId => bpOwn.lease[i].n = 0 /\ native.bps[i] = None

LEMMA BpInvIs == BpInv <=> (\A i \in Ids : BpAt(i)) /\ Unissued
  BY BpCountsAre DEF BpInv, BpAt, Unissued

LEMMA BpInvFrom ==
  ASSUME \A i \in Ids : BpAt(i)', Unissued'
  PROVE  BpInv'
  BY BpCountsAre DEF BpInv, BpAt, Unissued

LEMMA HookInvIs == HookInv <=> \A a \in Addrs : HookAt(a)
  BY HookCountsAre DEF HookInv, HookAt

LEMMA HookInvFrom ==
  ASSUME \A a \in Addrs : HookAt(a)'
  PROVE  HookInv'
  BY HookCountsAre DEF HookInv, HookAt

LEMMA BpCountSet ==
  ASSUME TypeOK, TypeOK', held' = held, host.key \in Keys, Me \in Plugin, NEW p \in Plugin, SetMe(p),
         NEW i \in Ids
  PROVE  /\ Total(BpCounts(reg, held, i)) \in Nat /\ Total(BpCounts(reg', held', i)) \in Nat
         /\ Total(BpCounts(reg', held', i)) + BpOf(Me, i) = Total(BpCounts(reg, held, i)) + BpOf(p, i)
         /\ BpOf(Me, i) <= Total(BpCounts(reg, held, i))
<1>1. /\ reg \in Registry /\ reg' \in Registry /\ held \in Plugin \cup {Absent}
      /\ reg[host.key] = Me
  BY DEF TypeOK, Registry, Me
<1>2. reg'[host.key] = p /\ \A k \in Keys : k # host.key => reg'[k] = reg[k]
  BY SetMeType
<1> QED
  BY <1>1, <1>2, BpTotalSet

LEMMA HookCountSet ==
  ASSUME TypeOK, TypeOK', held' = held, host.key \in Keys, Me \in Plugin, NEW p \in Plugin, SetMe(p),
         NEW a \in Addrs
  PROVE  /\ Total(HookCounts(reg, held, a)) \in Nat /\ Total(HookCounts(reg', held', a)) \in Nat
         /\ Total(HookCounts(reg', held', a)) + HookOf(Me, a) = Total(HookCounts(reg, held, a)) + HookOf(p, a)
         /\ HookOf(Me, a) <= Total(HookCounts(reg, held, a))
<1>1. /\ reg \in Registry /\ reg' \in Registry /\ held \in Plugin \cup {Absent}
      /\ reg[host.key] = Me
  BY DEF TypeOK, Registry, Me
<1>2. reg'[host.key] = p /\ \A k \in Keys : k # host.key => reg'[k] = reg[k]
  BY SetMeType
<1> QED
  BY <1>1, <1>2, HookTotalSet

\* One hook subscription more, or less, on an address.
LEMMA HookGains ==
  ASSUME HostInv, TypeOK', held' = held, host.key \in Keys, Me \in Plugin, NEW p \in Plugin, SetMe(p),
         NEW a \in Addrs, NEW created \in BOOLEAN,
         hookOwn' = acquire(hookOwn, a, created),
         HookOf(p, a) = HookOf(Me, a) + 1,
         \A b \in Addrs : b # a => HookOf(p, b) = HookOf(Me, b),
         native'.hooks = native.hooks \cup {a},
         native'.dbgHooks = IF ~created /\ a \notin native.hooks THEN native.dbgHooks \cup {a}
                            ELSE native.dbgHooks,
         mail' = mail, mail.late.hooks = {}
  PROVE  HookInv'
<1> SUFFICES ASSUME NEW b \in Addrs PROVE HookAt(b)'
  BY HookInvFrom
<1> DEFINE c == Total(HookCounts(reg, held, b))
           d == Total(HookCounts(reg', held', b))
<1>1. TypeOK /\ HookAt(b) /\ hookOwn \in Leases(Addrs)
  BY HookInvIs DEF HostInv, TypeOK
<1>2. /\ c \in Nat /\ d \in Nat
      /\ d + HookOf(Me, b) = c + HookOf(p, b)
  BY <1>1, HookCountSet
<1>3. HookOf(Me, b) \in Nat /\ HookOf(p, b) \in Nat
  BY HookOfType
<1>4. Point(hookOwn, b, b \in native.hooks, b \in native.dbgHooks, b \in mail.late.hooks, c)
  BY <1>1 DEF HookAt
<1> HIDE DEF c, d
<1>5. CASE b = a
  <2>1. d = c + 1
    BY <1>2, <1>3, <1>5
  <2> DEFINE present == b \in native.hooks
             dbg == b \in native.dbgHooks
             dbgNew == b \in native'.dbgHooks
             late == b \in mail.late.hooks
             now == b \in native'.hooks
  <2>2. /\ present \in BOOLEAN /\ dbg \in BOOLEAN /\ dbgNew \in BOOLEAN /\ late \in BOOLEAN
        /\ now \in BOOLEAN /\ ~late
    OBVIOUS
  <2>3. (dbg => dbgNew) /\ (~created /\ ~present => dbgNew)
    BY <1>5
  <2>4. Point(hookOwn, b, present, dbg, late, c)
    BY <1>4
  <2> HIDE DEF present, dbg, dbgNew, late, now
  <2>5. Point(acquire(hookOwn, b, created), b, now, dbgNew, late, c + 1)
    BY <1>1, <1>2, <2>2, <2>3, <2>4, PointAcquire, SMTT(30)
  <2>6. Point(hookOwn', b, b \in native'.hooks, b \in native'.dbgHooks, b \in mail'.late.hooks, d)
    BY <1>5, <2>1, <2>5 DEF dbgNew, late, now
  <2> QED
    BY <2>6 DEF HookAt, d
<1>6. CASE b # a
  <2>1. d = c
    BY <1>2, <1>3, <1>6
  <2>2. hookOwn'.lease[b] = hookOwn.lease[b] /\ hookOwn'.queue = hookOwn.queue \ {a}
    BY <1>1, <1>6, AcquireFacts
  <2>3. Point(hookOwn', b, b \in native'.hooks, b \in native'.dbgHooks, b \in mail'.late.hooks, d)
    BY <1>4, <1>6, <2>1, <2>2 DEF Point
  <2> QED
    BY <2>3 DEF HookAt, d
<1> QED
  BY <1>5, <1>6

LEMMA HookLoses ==
  ASSUME HostInv, TypeOK', held' = held, host.key \in Keys, Me \in Plugin, NEW p \in Plugin, SetMe(p),
         NEW a \in Addrs, hookOwn' = release_or_queue(hookOwn, a),
         HookOf(Me, a) = HookOf(p, a) + 1,
         \A b \in Addrs : b # a => HookOf(p, b) = HookOf(Me, b),
         native' = native, mail' = mail
  PROVE  HookInv'
<1> SUFFICES ASSUME NEW b \in Addrs PROVE HookAt(b)'
  BY HookInvFrom
<1> DEFINE c == Total(HookCounts(reg, held, b))
           d == Total(HookCounts(reg', held', b))
<1>1. TypeOK /\ HookAt(b) /\ hookOwn \in Leases(Addrs)
  BY HookInvIs DEF HostInv, TypeOK
<1>2. /\ c \in Nat /\ d \in Nat
      /\ d + HookOf(Me, b) = c + HookOf(p, b) /\ HookOf(Me, b) <= c
  BY <1>1, HookCountSet
<1>3. HookOf(Me, b) \in Nat /\ HookOf(p, b) \in Nat
  BY HookOfType
<1>4. Point(hookOwn, b, b \in native.hooks, b \in native.dbgHooks, b \in mail.late.hooks, c)
  BY <1>1 DEF HookAt
<1> HIDE DEF c, d
<1>5. CASE b = a
  <2>1. d = c - 1 /\ c > 0
    BY <1>2, <1>3, <1>5
  <2> DEFINE present == b \in native.hooks
             dbg == b \in native.dbgHooks
             late == b \in mail.late.hooks
  <2>2. present \in BOOLEAN /\ dbg \in BOOLEAN /\ late \in BOOLEAN
    OBVIOUS
  <2>3. Point(hookOwn, b, present, dbg, late, c)
    BY <1>4
  <2> HIDE DEF present, dbg, late
  <2>4. Point(release_or_queue(hookOwn, b), b, present, dbg, late, c - 1)
    BY <1>1, <1>2, <2>1, <2>2, <2>3, PointRelease
  <2>5. Point(hookOwn', b, b \in native'.hooks, b \in native'.dbgHooks, b \in mail'.late.hooks, d)
    BY <1>5, <2>1, <2>4 DEF present, dbg, late
  <2> QED
    BY <2>5 DEF HookAt, d
<1>6. CASE b # a
  <2>1. d = c
    BY <1>2, <1>3, <1>6
  <2>2. /\ hookOwn'.lease[b] = hookOwn.lease[b]
        /\ hookOwn'.queue = hookOwn.queue \cup {x \in {a} : release_removes(hookOwn, a)}
    BY <1>1, <1>6, ReleaseOrQueueFacts
  <2>3. Point(hookOwn', b, b \in native'.hooks, b \in native'.dbgHooks, b \in mail'.late.hooks, d)
    BY <1>4, <1>6, <2>1, <2>2 DEF Point
  <2> QED
    BY <2>3 DEF HookAt, d
<1> QED
  BY <1>5, <1>6

LEMMA Inv_AskExisting == ASSUME HostInv, NEW op \in {"breakpoint", "on", "intercept"}, NEW a \in Addrs, AskExisting(op, a) PROVE HostInv'
<1>1. TypeOK /\ PhaseInv /\ VotesInv /\ PolicyInv /\ InterestInv /\ BpInv /\ HookInv /\ TrapInv
  BY DEF HostInv
<1>2. TypeOK'
  BY <1>1, Type_AskExisting
<1>3. SamePlace /\ UNCHANGED <<reg, held, mail, native, bpOwn, hookOwn, traps, pub>>
  BY <1>1, CallSet DEF AskExisting, TypeOK
<1>4. host.py /\ host.at # "sync"
  BY DEF AskExisting, Calling, RpcServed
<1>5. PhaseInv' /\ VotesInv' /\ PolicyInv' /\ InterestInv'
  BY <1>2, <1>3, <1>4, Kept, SameReg
<1>6. BpInv' /\ HookInv' /\ TrapInv'
  BY <1>1, <1>3, BpKept, HookKept, TrapKept, SameReg, ShrinksSame
<1> QED
  BY <1>2, <1>3, <1>4, <1>5, <1>6 DEF HostInv

LEMMA Inv_pb_breakpoint == ASSUME HostInv, pb_breakpoint PROVE HostInv'
<1>1. TypeOK /\ PhaseInv /\ VotesInv /\ PolicyInv /\ InterestInv /\ BpInv /\ HookInv /\ TrapInv
  BY DEF HostInv
<1>2. TypeOK'
  BY <1>1, Type_pb_breakpoint
<1> DEFINE a == host.call.addr
           id == IF IdsAt(a) # {} THEN CHOOSE i \in IdsAt(a) : TRUE ELSE native.nextId
           p == [Me EXCEPT !.bps = @ \cup {id}]
<1>3. a \in Addrs /\ host.call.existed \in BOOLEAN /\ host.py /\ host.key \in Keys /\ Me \in Plugin /\ host \in Host
  BY <1>1, CallFacts, MeFacts DEF pb_breakpoint, TypeOK
<1>4. /\ id \in Ids /\ SetMe(p)
      /\ native' = [native EXCEPT !.bps[id] = a, !.nextId = IF id = @ THEN @ + 1 ELSE @,
                                  !.dbgBps = IF host.call.existed /\ id \notin IdsAt(a)
                                             THEN @ \cup {id} ELSE @]
      /\ bpOwn' = IF id \in Me.bps THEN bpOwn ELSE acquire(bpOwn, id, ~host.call.existed)
      /\ host' = [host EXCEPT !.call = NoCall]
      /\ mail.late.bps = {}
      /\ UNCHANGED <<held, mail, hookOwn, traps, pub>>
  BY DEF pb_breakpoint, CallEnds, RpcServed, ServerFree
<1>5. id \in IdsAt(a) \/ (IdsAt(a) = {} /\ id = native.nextId)
  OBVIOUS
<1> HIDE DEF id
<1>6. /\ p \in Plugin /\ p.bps = Me.bps \cup {id} /\ p.state = Me.state /\ p.quarantined = Me.quarantined
      /\ p.policy = Me.policy /\ p.decisions = Me.decisions /\ p.events = Me.events /\ p.traps = Me.traps
  <2>1. Me.bps \cup {id} \in SUBSET Ids
    BY <1>3, <1>4, PluginFields
  <2> QED
    BY <1>3, <2>1, BpsSet
<1> HIDE DEF p
<1>7. /\ SameStates(reg, reg') /\ SamePolicies(reg, reg') /\ SameDecisions(reg, reg')
      /\ SameHooks(reg, reg') /\ KeepTraps(reg, reg')
  BY <1>1, <1>3, <1>4, <1>6, SetFacts
<1>8. SamePlace /\ host'.call = NoCall
  BY <1>3, <1>4, CallSet
<1>9. PhaseInv' /\ VotesInv' /\ PolicyInv' /\ InterestInv'
  BY <1>2, <1>4, <1>7, <1>8, Kept
<1>10. /\ native' \in Native /\ native'.hooks = native.hooks /\ native'.dbgHooks = native.dbgHooks
      /\ native'.bps = [native.bps EXCEPT ![id] = a]
      /\ native'.nextId = (IF id = native.nextId THEN native.nextId + 1 ELSE native.nextId)
      /\ native'.dbgBps = (IF host.call.existed /\ id \notin IdsAt(a) THEN native.dbgBps \cup {id}
                            ELSE native.dbgBps)
  BY <1>1, <1>2, <1>4 DEF TypeOK, Native
<1>11. HookInv' /\ TrapInv'
  BY <1>1, <1>4, <1>7, <1>10, HookKept, TrapKept, ShrinksSame
<1>12. native.bps \in [Ids -> Addrs \cup {None}] /\ native.nextId \in Nat /\ Ids \subseteq Nat /\ a # None
      /\ bpOwn \in Leases(Ids)
  BY <1>1, <1>3, HostAssumption DEF TypeOK, Native, Ids
<1>13. \A i \in Ids : i # id => bpOwn'.lease[i] = bpOwn.lease[i] /\ (i \in bpOwn'.queue <=> i \in bpOwn.queue)
  <2>1. CASE id \in Me.bps
    BY <1>4, <2>1
  <2>2. CASE id \notin Me.bps
    <3> DEFINE created == ~host.call.existed
    <3>1. bpOwn' = acquire(bpOwn, id, created) /\ created \in BOOLEAN
      BY <1>4, <2>2
    <3> HIDE DEF created
    <3>2. /\ \A i \in Ids : i # id => bpOwn'.lease[i] = bpOwn.lease[i]
          /\ bpOwn'.queue = bpOwn.queue \ {id}
      BY <1>4, <1>12, <3>1, AcquireFacts
    <3> QED
      BY <3>2
  <2> QED
    BY <2>1, <2>2
<1>14. \A i \in Ids : BpAt(i)'
  <2> SUFFICES ASSUME NEW i \in Ids PROVE BpAt(i)'
    OBVIOUS
  <2> DEFINE c == Total(BpCounts(reg, held, i))
             d == Total(BpCounts(reg', held', i))
  <2>1. BpAt(i) /\ Unissued
    BY <1>1, BpInvIs
  <2>2. /\ c \in Nat /\ d \in Nat /\ d + BpOf(Me, i) = c + BpOf(p, i) /\ BpOf(Me, i) <= c
    BY <1>1, <1>2, <1>3, <1>4, <1>6, BpCountSet
  <2>3. Me # Absent /\ p # Absent
    BY <1>3, <1>6, NamesFacts
  <2>4. Point(bpOwn, i, native.bps[i] # None, i \in native.dbgBps, i \in mail.late.bps, c)
    BY <2>1 DEF BpAt
  <2> HIDE DEF c, d
  <2>5. CASE i # id
    <3>1. BpOf(p, i) = BpOf(Me, i) /\ BpOf(Me, i) \in Nat
      BY <1>6, <2>3, <2>5 DEF BpOf
    <3>2. d = c
      BY <2>2, <3>1
    <3>3. /\ bpOwn'.lease[i] = bpOwn.lease[i]
          /\ i \in bpOwn'.queue <=> i \in bpOwn.queue
      BY <1>13, <2>5
    <3>4. native'.bps[i] = native.bps[i] /\ (i \in native'.dbgBps <=> i \in native.dbgBps)
      BY <1>4, <1>10, <1>12, <2>5
    <3>5. Point(bpOwn', i, native'.bps[i] # None, i \in native'.dbgBps, i \in mail'.late.bps, d)
      BY <1>4, <2>4, <3>2, <3>3, <3>4 DEF Point
    <3> QED
      BY <3>5 DEF BpAt, d
  <2>6. CASE i = id /\ id \in Me.bps
    <3>1. BpOf(p, i) = 1 /\ BpOf(Me, i) = 1
      BY <1>6, <2>3, <2>6 DEF BpOf
    <3>2. d = c /\ c > 0
      BY <2>2, <3>1
    <3>3. bpOwn.lease[i].n > 0
      BY <2>4, <3>2 DEF Point
    <3>4. native.bps[i] # None
      <4>1. CASE id \in IdsAt(a)
        BY <1>12, <2>6, <4>1 DEF IdsAt
      <4>2. CASE id = native.nextId
        <5>1. i \in Nat /\ i >= native.nextId
          BY <1>12, <2>6, <4>2
        <5> QED
          BY <2>1, <3>3, <5>1 DEF Unissued
      <4> QED
        BY <1>5, <4>1, <4>2
    <3>5. bpOwn' = bpOwn /\ native'.bps[i] # None /\ (i \in native.dbgBps => i \in native'.dbgBps)
      BY <1>4, <1>10, <1>12, <2>6
    <3>6. Point(bpOwn', i, native'.bps[i] # None, i \in native'.dbgBps, i \in mail'.late.bps, d)
      BY <1>4, <2>4, <3>2, <3>3, <3>4, <3>5 DEF Point
    <3> QED
      BY <3>6 DEF BpAt, d
  <2>7. CASE i = id /\ id \notin Me.bps
    <3>1. BpOf(p, i) = 1 /\ BpOf(Me, i) = 0
      BY <1>6, <2>3, <2>7 DEF BpOf
    <3>2. d = c + 1
      BY <2>2, <3>1
    <3> DEFINE present == native.bps[i] # None
               dbg == i \in native.dbgBps
               dbgNew == i \in native'.dbgBps
               late == i \in mail.late.bps
               now == native'.bps[i] # None
               created == ~host.call.existed
    <3>3. /\ present \in BOOLEAN /\ dbg \in BOOLEAN /\ dbgNew \in BOOLEAN /\ late \in BOOLEAN
          /\ now \in BOOLEAN /\ created \in BOOLEAN
      OBVIOUS
    <3>4. ~late /\ (dbg => dbgNew)
      BY <1>4, <1>10
    <3>5. ~created /\ ~present => dbgNew
      <4>1. ~present => id \notin IdsAt(a)
        BY <1>12, <2>7 DEF IdsAt
      <4> QED
        BY <1>3, <1>10, <2>7, <4>1
    <3>6. Point(bpOwn, i, present, dbg, late, c) /\ bpOwn \in Leases(Ids) /\ c \in Nat
      BY <1>12, <2>2, <2>4
    <3>7. bpOwn' = acquire(bpOwn, i, created)
      BY <1>4, <2>7
    <3> HIDE DEF present, dbg, dbgNew, late, now, created
    <3>8. Point(acquire(bpOwn, i, created), i, now, dbgNew, late, c + 1)
      BY <3>3, <3>4, <3>5, <3>6, PointAcquire
    <3>9. Point(bpOwn', i, native'.bps[i] # None, i \in native'.dbgBps, i \in mail'.late.bps, d)
      BY <1>4, <3>2, <3>7, <3>8 DEF now, dbgNew, late
    <3> QED
      BY <3>9 DEF BpAt, d
  <2> QED
    BY <2>5, <2>6, <2>7
<1>15. Unissued'
  <2> SUFFICES ASSUME NEW i \in Ids, i >= native'.nextId
                PROVE  bpOwn'.lease[i].n = 0 /\ native'.bps[i] = None
    BY DEF Unissued
  <2>1. i \in Nat /\ i >= native.nextId /\ id \in Nat
    BY <1>4, <1>10, <1>12
  <2>2. id < native.nextId \/ id = native.nextId
    <3>1. CASE id \in IdsAt(a)
      <4>1. native.bps[id] # None
        BY <1>12, <3>1 DEF IdsAt
      <4>2. ~(id >= native.nextId)
        BY <1>1, <1>4, <4>1, BpInvIs DEF Unissued
      <4> QED
        BY <1>12, <2>1, <4>2
    <3> QED
      BY <1>5, <3>1
  <2>3. i # id
    BY <1>10, <1>12, <2>1, <2>2
  <2>4. bpOwn.lease[i].n = 0 /\ native.bps[i] = None
    BY <1>1, <2>1, BpInvIs DEF Unissued
  <2>5. bpOwn'.lease[i] = bpOwn.lease[i]
    BY <1>13, <2>3
  <2> QED
    BY <1>4, <1>10, <1>12, <2>3, <2>4, <2>5
<1>16. BpInv'
  BY <1>14, <1>15, BpInvFrom
<1> QED
  BY <1>2, <1>3, <1>4, <1>5, <1>6, <1>7, <1>8, <1>9, <1>10, <1>11, <1>12, <1>13, <1>14, <1>15, <1>16 DEF HostInv

LEMMA SetHooks ==
  ASSUME TypeOK, host.key \in Keys, Me \in Plugin, NEW p \in Plugin, SetMe(p),
         \A a \in Addrs : HookOf(p, a) = HookOf(Me, a)
  PROVE  SameHooks(reg, reg')
<1>1. /\ reg'[host.key] = p /\ reg[host.key] = Me
      /\ \A k \in Keys : k # host.key => reg'[k] = reg[k]
  BY SetMeType DEF Me
<1> QED
  BY <1>1 DEF SameHooks

LEMMA HookSetFacts ==
  ASSUME native \in Native, NEW a \in Addrs, native' = HookSet(a)
  PROVE  /\ native'.hooks = native.hooks \cup {a}
         /\ native'.dbgHooks = IF host.call.existed /\ a \notin native.hooks
                               THEN native.dbgHooks \cup {a} ELSE native.dbgHooks
         /\ native'.bps = native.bps /\ native'.dbgBps = native.dbgBps /\ native'.nextId = native.nextId
  BY DEF HookSet, Native

\* One event handler or one interceptor more: the hook it is on.
LEMMA MoreEvents ==
  ASSUME NEW p \in Plugin, NEW a \in Addrs
  PROVE  LET q == [p EXCEPT !.events[a] = @ + 1]
         IN /\ q \in Plugin /\ q.state = p.state /\ q.quarantined = p.quarantined
            /\ q.policy = p.policy /\ q.decisions = p.decisions /\ q.bps = p.bps /\ q.traps = p.traps
            /\ HookOf(q, a) = HookOf(p, a) + 1
            /\ \A b \in Addrs : b # a => HookOf(q, b) = HookOf(p, b)
<1> DEFINE e == [p.events EXCEPT ![a] = @ + 1]
           q == [p EXCEPT !.events[a] = @ + 1]
<1>1. p.events \in [Addrs -> Nat] /\ p.decisions \in [Targets -> Nat]
  BY PluginFields
<1>2. e \in [Addrs -> Nat] /\ e[a] = p.events[a] + 1 /\ \A b \in Addrs : b # a => e[b] = p.events[b]
  BY <1>1
<1>3. q = [p EXCEPT !.events = e]
  OBVIOUS
<1> HIDE DEF e, q
<1>4. /\ q \in Plugin /\ q.state = p.state /\ q.quarantined = p.quarantined
      /\ q.policy = p.policy /\ q.decisions = p.decisions /\ q.bps = p.bps /\ q.traps = p.traps
      /\ q.events = e
  BY <1>2, <1>3, EventsSet
<1>5. p # Absent /\ q # Absent /\ p.events[a] \in Nat /\ p.decisions[a] \in Nat
  BY <1>1, <1>4, NamesFacts
<1>6. HookOf(q, a) = HookOf(p, a) + 1
  BY <1>2, <1>4, <1>5 DEF HookOf
<1>7. \A b \in Addrs : b # a => HookOf(q, b) = HookOf(p, b)
  BY <1>2, <1>4, <1>5 DEF HookOf
<1> QED
  BY <1>4, <1>6, <1>7 DEF q

LEMMA FewerEvents ==
  ASSUME NEW p \in Plugin, NEW a \in Addrs, p.events[a] > 0
  PROVE  LET q == [p EXCEPT !.events[a] = @ - 1]
         IN /\ q \in Plugin /\ q.state = p.state /\ q.quarantined = p.quarantined
            /\ q.policy = p.policy /\ q.decisions = p.decisions /\ q.bps = p.bps /\ q.traps = p.traps
            /\ HookOf(p, a) = HookOf(q, a) + 1
            /\ \A b \in Addrs : b # a => HookOf(q, b) = HookOf(p, b)
<1> DEFINE e == [p.events EXCEPT ![a] = @ - 1]
           q == [p EXCEPT !.events[a] = @ - 1]
<1>1. p.events \in [Addrs -> Nat] /\ p.decisions \in [Targets -> Nat]
  BY PluginFields
<1>2. e \in [Addrs -> Nat] /\ e[a] = p.events[a] - 1 /\ \A b \in Addrs : b # a => e[b] = p.events[b]
  BY <1>1
<1>3. q = [p EXCEPT !.events = e]
  OBVIOUS
<1> HIDE DEF e, q
<1>4. /\ q \in Plugin /\ q.state = p.state /\ q.quarantined = p.quarantined
      /\ q.policy = p.policy /\ q.decisions = p.decisions /\ q.bps = p.bps /\ q.traps = p.traps
      /\ q.events = e
  BY <1>2, <1>3, EventsSet
<1>5. p # Absent /\ q # Absent /\ p.events[a] \in Nat /\ p.decisions[a] \in Nat
  BY <1>1, <1>4, NamesFacts
<1>6. HookOf(p, a) = HookOf(q, a) + 1
  BY <1>2, <1>4, <1>5 DEF HookOf
<1>7. \A b \in Addrs : b # a => HookOf(q, b) = HookOf(p, b)
  BY <1>2, <1>4, <1>5 DEF HookOf
<1> QED
  BY <1>4, <1>6, <1>7 DEF q

LEMMA MoreDecisions ==
  ASSUME NEW p \in Plugin, NEW t \in Targets
  PROVE  LET q == [p EXCEPT !.decisions[t] = @ + 1]
         IN /\ q \in Plugin /\ q.state = p.state /\ q.quarantined = p.quarantined
            /\ q.policy = p.policy /\ q.events = p.events /\ q.bps = p.bps /\ q.traps = p.traps
            /\ t \in Addrs => HookOf(q, t) = HookOf(p, t) + 1
            /\ \A b \in Addrs : b # t => HookOf(q, b) = HookOf(p, b)
<1> DEFINE e == [p.decisions EXCEPT ![t] = @ + 1]
           q == [p EXCEPT !.decisions[t] = @ + 1]
<1>1. p.events \in [Addrs -> Nat] /\ p.decisions \in [Targets -> Nat]
  BY PluginFields
<1>2. e \in [Targets -> Nat] /\ e[t] = p.decisions[t] + 1 /\ \A b \in Targets : b # t => e[b] = p.decisions[b]
  BY <1>1
<1>3. q = [p EXCEPT !.decisions = e]
  OBVIOUS
<1> HIDE DEF e, q
<1>4. /\ q \in Plugin /\ q.state = p.state /\ q.quarantined = p.quarantined
      /\ q.policy = p.policy /\ q.decisions = e /\ q.bps = p.bps /\ q.traps = p.traps
      /\ q.events = p.events
  BY <1>2, <1>3, DecisionsSet
<1>5. /\ p # Absent /\ q # Absent /\ p.decisions[t] \in Nat /\ Addrs \subseteq Targets
      /\ t \in Addrs => p.events[t] \in Nat
  BY <1>1, <1>4, NamesFacts
<1>6. t \in Addrs => HookOf(q, t) = HookOf(p, t) + 1
  BY <1>2, <1>4, <1>5 DEF HookOf
<1>7. \A b \in Addrs : b # t => HookOf(q, b) = HookOf(p, b)
  BY <1>2, <1>4, <1>5 DEF HookOf
<1> QED
  BY <1>4, <1>6, <1>7 DEF q

LEMMA FewerDecisions ==
  ASSUME NEW p \in Plugin, NEW t \in Targets, p.decisions[t] > 0
  PROVE  LET q == [p EXCEPT !.decisions[t] = @ - 1]
         IN /\ q \in Plugin /\ q.state = p.state /\ q.quarantined = p.quarantined
            /\ q.policy = p.policy /\ q.events = p.events /\ q.bps = p.bps /\ q.traps = p.traps
            /\ t \in Addrs => HookOf(p, t) = HookOf(q, t) + 1
            /\ \A b \in Addrs : b # t => HookOf(q, b) = HookOf(p, b)
<1> DEFINE e == [p.decisions EXCEPT ![t] = @ - 1]
           q == [p EXCEPT !.decisions[t] = @ - 1]
<1>1. p.events \in [Addrs -> Nat] /\ p.decisions \in [Targets -> Nat]
  BY PluginFields
<1>2. e \in [Targets -> Nat] /\ e[t] = p.decisions[t] - 1 /\ \A b \in Targets : b # t => e[b] = p.decisions[b]
  BY <1>1
<1>3. q = [p EXCEPT !.decisions = e]
  OBVIOUS
<1> HIDE DEF e, q
<1>4. /\ q \in Plugin /\ q.state = p.state /\ q.quarantined = p.quarantined
      /\ q.policy = p.policy /\ q.decisions = e /\ q.bps = p.bps /\ q.traps = p.traps
      /\ q.events = p.events
  BY <1>2, <1>3, DecisionsSet
<1>5. /\ p # Absent /\ q # Absent /\ p.decisions[t] \in Nat /\ Addrs \subseteq Targets
      /\ t \in Addrs => p.events[t] \in Nat
  BY <1>1, <1>4, NamesFacts
<1>6. t \in Addrs => HookOf(p, t) = HookOf(q, t) + 1
  BY <1>2, <1>4, <1>5 DEF HookOf
<1>7. \A b \in Addrs : b # t => HookOf(q, b) = HookOf(p, b)
  BY <1>2, <1>4, <1>5 DEF HookOf
<1> QED
  BY <1>4, <1>6, <1>7 DEF q

LEMMA Inv_pb_on_event == ASSUME HostInv, pb_on_event PROVE HostInv'
<1>1. TypeOK /\ PhaseInv /\ VotesInv /\ PolicyInv /\ InterestInv /\ BpInv /\ HookInv /\ TrapInv
  BY DEF HostInv
<1>2. TypeOK'
  BY <1>1, Type_pb_on_event
<1> DEFINE a == host.call.addr
           p == [Me EXCEPT !.events[a] = @ + 1]
           created == ~host.call.existed
<1>3. a \in Addrs /\ created \in BOOLEAN /\ host.call.existed \in BOOLEAN /\ host.py /\ host.key \in Keys /\ Me \in Plugin /\ host \in Host /\ pub \in Published /\ native \in Native
  BY <1>1, CallFacts, MeFacts DEF pb_on_event, TypeOK
<1>4. /\ SetMe(p) /\ native' = HookSet(a)
      /\ hookOwn' = acquire(hookOwn, a, created)
      /\ host' = [host EXCEPT !.call = NoCall] /\ mail.late.hooks = {}
      /\ UNCHANGED <<held, mail, bpOwn, traps, pub>>
  BY DEF pb_on_event, CallEnds, RpcServed, ServerFree
<1>5. /\ p \in Plugin /\ p.state = Me.state /\ p.quarantined = Me.quarantined /\ p.policy = Me.policy
      /\ p.decisions = Me.decisions /\ p.bps = Me.bps /\ p.traps = Me.traps
      /\ HookOf(p, a) = HookOf(Me, a) + 1
      /\ \A b \in Addrs : b # a => HookOf(p, b) = HookOf(Me, b)
  BY <1>3, MoreEvents
<1>6. host.call.existed <=> ~created
  BY <1>3
<1>7. /\ native'.hooks = native.hooks \cup {a}
      /\ native'.dbgHooks = (IF ~created /\ a \notin native.hooks THEN native.dbgHooks \cup {a} ELSE native.dbgHooks)
      /\ native'.bps = native.bps /\ native'.dbgBps = native.dbgBps /\ native'.nextId = native.nextId
  <2>1. a \in Addrs /\ native \in Native /\ native' = HookSet(a)
    BY <1>3, <1>4
  <2> HIDE DEF a
  <2> QED
    BY <1>6, <2>1, HookSetFacts
<1> HIDE DEF a, p, created
<1>8. /\ SameStates(reg, reg') /\ SamePolicies(reg, reg') /\ SameDecisions(reg, reg')
      /\ SameBps(reg, reg') /\ KeepTraps(reg, reg')
  BY <1>1, <1>3, <1>4, <1>5, SetFacts
<1>9. SamePlace /\ host'.call = NoCall
  BY <1>3, <1>4, CallSet
<1>10. PhaseInv' /\ VotesInv' /\ PolicyInv' /\ InterestInv'
  BY <1>2, <1>4, <1>8, <1>9, Kept
<1>11. HookInv'
  BY <1>2, <1>3, <1>4, <1>5, <1>7, HookGains
<1>12. BpInv' /\ TrapInv'
  BY <1>1, <1>4, <1>7, <1>8, BpKept, TrapKept, ShrinksSame
<1> QED
  BY <1>2, <1>3, <1>4, <1>5, <1>6, <1>7, <1>8, <1>9, <1>10, <1>11, <1>12 DEF HostInv

LEMMA Inv_pb_intercept_hook == ASSUME HostInv, pb_intercept_hook PROVE HostInv'
<1>1. TypeOK /\ PhaseInv /\ VotesInv /\ PolicyInv /\ InterestInv /\ BpInv /\ HookInv /\ TrapInv
  BY DEF HostInv
<1>2. TypeOK'
  BY <1>1, Type_pb_intercept_hook
<1> DEFINE a == host.call.addr
           p == [Me EXCEPT !.decisions[a] = @ + 1]
           created == ~host.call.existed
<1>3. a \in Addrs /\ a \in Targets /\ created \in BOOLEAN /\ host.call.existed \in BOOLEAN /\ host.py /\ host.key \in Keys /\ Me \in Plugin /\ host \in Host /\ pub \in Published /\ native \in Native
  BY <1>1, CallFacts, MeFacts, NamesFacts DEF pb_intercept_hook, TypeOK
<1>4. /\ SetMe(p) /\ native' = HookSet(a)
      /\ pub' = publish_interests(reg', pub)
      /\ hookOwn' = acquire(hookOwn, a, created)
      /\ host' = [host EXCEPT !.call = NoCall] /\ mail.late.hooks = {}
      /\ UNCHANGED <<held, mail, bpOwn, traps>>
  BY DEF pb_intercept_hook, CallEnds, RpcServed, ServerFree, SetMe
<1>5. /\ p \in Plugin /\ p.state = Me.state /\ p.quarantined = Me.quarantined /\ p.policy = Me.policy
      /\ p.bps = Me.bps /\ p.traps = Me.traps
      /\ HookOf(p, a) = HookOf(Me, a) + 1
      /\ \A b \in Addrs : b # a => HookOf(p, b) = HookOf(Me, b)
  BY <1>3, MoreDecisions
<1>6. host.call.existed <=> ~created
  BY <1>3
<1>7. /\ native'.hooks = native.hooks \cup {a}
      /\ native'.dbgHooks = (IF ~created /\ a \notin native.hooks THEN native.dbgHooks \cup {a} ELSE native.dbgHooks)
      /\ native'.bps = native.bps /\ native'.dbgBps = native.dbgBps /\ native'.nextId = native.nextId
  <2>1. a \in Addrs /\ native \in Native /\ native' = HookSet(a)
    BY <1>3, <1>4
  <2> HIDE DEF a
  <2> QED
    BY <1>6, <2>1, HookSetFacts
<1> HIDE DEF a, p, created
<1>8. /\ SameStates(reg, reg') /\ SamePolicies(reg, reg')
      /\ SameBps(reg, reg') /\ KeepTraps(reg, reg')
  BY <1>1, <1>3, <1>4, <1>5, SetFacts
<1>9. SamePlace /\ host'.call = NoCall
  BY <1>3, <1>4, CallSet
<1>10. pub'.interests = Interests(reg') /\ pub'.policy = pub.policy /\ pub'.refused = pub.refused
  BY <1>2, <1>3, <1>4, InterestsFacts DEF TypeOK
<1>11. PhaseInv' /\ VotesInv' /\ PolicyInv'
  BY <1>2, <1>4, <1>8, <1>9, <1>10, Kept
<1>12. InterestInv'
  BY <1>10, <1>11, InterestsPublished
<1>13. HookInv'
  BY <1>2, <1>3, <1>4, <1>5, <1>7, HookGains
<1>14. BpInv' /\ TrapInv'
  BY <1>1, <1>4, <1>7, <1>8, BpKept, TrapKept, ShrinksSame
<1> QED
  BY <1>2, <1>3, <1>4, <1>5, <1>6, <1>7, <1>8, <1>9, <1>10, <1>11, <1>12, <1>13, <1>14 DEF HostInv

LEMMA Inv_SecondRequestFails == ASSUME HostInv, SecondRequestFails PROVE HostInv'
<1>1. TypeOK /\ PhaseInv /\ VotesInv /\ PolicyInv /\ InterestInv /\ BpInv /\ HookInv /\ TrapInv
  BY DEF HostInv
<1>2. TypeOK'
  BY <1>1, Type_SecondRequestFails
<1>3. host \in Host /\ pub \in Published /\ reg \in [Keys -> Plugin \cup {Absent}]
  BY <1>1 DEF TypeOK
<1>4. /\ host' = [host EXCEPT !.call = NoCall]
      /\ pub' = publish_interests(reg, pub) \/ pub' = pub
      /\ UNCHANGED <<reg, held, mail, native, bpOwn, hookOwn, traps>>
  BY DEF SecondRequestFails, CallEnds
<1>5. SamePlace /\ host'.call = NoCall
  BY <1>3, <1>4, CallSet
<1>6. /\ pub'.interests = Interests(reg') \/ pub'.interests = pub.interests
      /\ pub'.policy = pub.policy /\ pub'.refused = pub.refused
  BY <1>3, <1>4, InterestsFacts
<1>7. PhaseInv' /\ VotesInv' /\ PolicyInv'
  BY <1>2, <1>4, <1>5, <1>6, Kept, SameReg
<1>8. InterestInv'
  BY <1>2, <1>4, <1>5, <1>6, <1>7, InterestsPublished, Kept, SameReg
<1>9. BpInv' /\ HookInv' /\ TrapInv'
  BY <1>1, <1>4, BpKept, HookKept, TrapKept, SameReg, ShrinksSame
<1> QED
  BY <1>2, <1>3, <1>4, <1>5, <1>6, <1>7, <1>8, <1>9 DEF HostInv

LEMMA Inv_pb_off_event == ASSUME HostInv, NEW a \in Addrs, pb_off_event(a) PROVE HostInv'
<1>1. TypeOK /\ PhaseInv /\ VotesInv /\ PolicyInv /\ InterestInv /\ BpInv /\ HookInv /\ TrapInv
  BY DEF HostInv
<1>2. TypeOK'
  BY <1>1, Type_pb_off_event
<1> DEFINE p == [Me EXCEPT !.events[a] = @ - 1]
<1>3. host.py /\ host.key \in Keys /\ Me \in Plugin /\ host \in Host /\ pub \in Published /\ native \in Native
  BY <1>1, MeFacts DEF pb_off_event, Calling, TypeOK
<1>4. /\ SetMe(p) /\ Me.events[a] > 0
      /\ hookOwn' = release_or_queue(hookOwn, a)
      /\ UNCHANGED <<held, host, mail, native, bpOwn, traps, pub>>
  BY DEF pb_off_event
<1>5. /\ p \in Plugin /\ p.state = Me.state /\ p.quarantined = Me.quarantined /\ p.policy = Me.policy
      /\ p.decisions = Me.decisions /\ p.bps = Me.bps /\ p.traps = Me.traps
      /\ HookOf(Me, a) = HookOf(p, a) + 1
      /\ \A b \in Addrs : b # a => HookOf(p, b) = HookOf(Me, b)
  BY <1>3, <1>4, FewerEvents
<1> HIDE DEF p
<1>6. /\ SameStates(reg, reg') /\ SamePolicies(reg, reg') /\ SameDecisions(reg, reg')
      /\ SameBps(reg, reg') /\ KeepTraps(reg, reg')
  BY <1>1, <1>3, <1>4, <1>5, SetFacts
<1>7. SamePlace
  BY <1>4, SamePlaceSame
<1>8. PhaseInv' /\ VotesInv' /\ PolicyInv' /\ InterestInv'
  BY <1>2, <1>4, <1>6, <1>7, Kept
<1>9. HookInv'
  BY <1>2, <1>3, <1>4, <1>5, HookLoses
<1>10. BpInv' /\ TrapInv'
  BY <1>1, <1>4, <1>6, BpKept, TrapKept, ShrinksSame
<1> QED
  BY <1>2, <1>3, <1>4, <1>5, <1>6, <1>7, <1>8, <1>9, <1>10 DEF HostInv

LEMMA Inv_pb_intercept == ASSUME HostInv, pb_intercept PROVE HostInv'
<1>1. TypeOK /\ PhaseInv /\ VotesInv /\ PolicyInv /\ InterestInv /\ BpInv /\ HookInv /\ TrapInv
  BY DEF HostInv
<1>2. TypeOK'
  BY <1>1, Type_pb_intercept
<1> DEFINE p == [Me EXCEPT !.decisions[Syscalls] = @ + 1]
<1>3. host.py /\ host.key \in Keys /\ Me \in Plugin /\ host \in Host /\ pub \in Published /\ native \in Native
  BY <1>1, MeFacts DEF pb_intercept, Calling, TypeOK
<1>4. /\ SetMe(p) /\ pub' = publish_interests(reg', pub)
      /\ UNCHANGED <<held, host, mail, native, bpOwn, hookOwn, traps>>
  BY DEF pb_intercept, SetMe
<1>5. /\ p \in Plugin /\ p.state = Me.state /\ p.quarantined = Me.quarantined /\ p.policy = Me.policy
      /\ p.bps = Me.bps /\ p.traps = Me.traps
      /\ \A b \in Addrs : HookOf(p, b) = HookOf(Me, b)
  BY <1>3, MoreDecisions, NamesFacts
<1> HIDE DEF p
<1>6. /\ SameStates(reg, reg') /\ SamePolicies(reg, reg')
      /\ SameBps(reg, reg') /\ KeepTraps(reg, reg')
  BY <1>1, <1>3, <1>4, <1>5, SetFacts
<1>7. SameHooks(reg, reg')
  BY <1>1, <1>3, <1>4, <1>5, SetHooks
<1>8. SamePlace
  BY <1>4, SamePlaceSame
<1>9. pub'.interests = Interests(reg') /\ pub'.policy = pub.policy /\ pub'.refused = pub.refused
  BY <1>2, <1>3, <1>4, InterestsFacts DEF TypeOK
<1>10. PhaseInv' /\ VotesInv' /\ PolicyInv'
  BY <1>2, <1>4, <1>6, <1>8, <1>9, Kept
<1>11. InterestInv'
  BY <1>9, <1>10, InterestsPublished
<1>12. BpInv' /\ HookInv' /\ TrapInv'
  BY <1>1, <1>4, <1>6, <1>7, BpKept, HookKept, TrapKept, ShrinksSame
<1> QED
  BY <1>2, <1>3, <1>4, <1>5, <1>6, <1>7, <1>8, <1>9, <1>10, <1>11, <1>12 DEF HostInv

LEMMA Inv_pb_unintercept == ASSUME HostInv, NEW t \in Targets, pb_unintercept(t) PROVE HostInv'
<1>1. TypeOK /\ PhaseInv /\ VotesInv /\ PolicyInv /\ InterestInv /\ BpInv /\ HookInv /\ TrapInv
  BY DEF HostInv
<1>2. TypeOK'
  BY <1>1, Type_pb_unintercept
<1> DEFINE p == [Me EXCEPT !.decisions[t] = @ - 1]
<1>3. host.py /\ host.key \in Keys /\ Me \in Plugin /\ host \in Host /\ pub \in Published /\ native \in Native
  BY <1>1, MeFacts DEF pb_unintercept, Calling, TypeOK
<1>4. /\ SetMe(p) /\ Me.decisions[t] > 0 /\ pub' = publish_interests(reg', pub)
      /\ hookOwn' = (IF t \in Addrs THEN release_or_queue(hookOwn, t) ELSE hookOwn)
      /\ UNCHANGED <<held, host, mail, native, bpOwn, traps>>
  BY DEF pb_unintercept, SetMe
<1>5. /\ p \in Plugin /\ p.state = Me.state /\ p.quarantined = Me.quarantined /\ p.policy = Me.policy
      /\ p.bps = Me.bps /\ p.traps = Me.traps
      /\ t \in Addrs => HookOf(Me, t) = HookOf(p, t) + 1
      /\ \A b \in Addrs : b # t => HookOf(p, b) = HookOf(Me, b)
  BY <1>3, <1>4, FewerDecisions
<1> HIDE DEF p
<1>6. /\ SameStates(reg, reg') /\ SamePolicies(reg, reg')
      /\ SameBps(reg, reg') /\ KeepTraps(reg, reg')
  BY <1>1, <1>3, <1>4, <1>5, SetFacts
<1>7. SamePlace
  BY <1>4, SamePlaceSame
<1>8. pub'.interests = Interests(reg') /\ pub'.policy = pub.policy /\ pub'.refused = pub.refused
  BY <1>2, <1>3, <1>4, InterestsFacts DEF TypeOK
<1>9. PhaseInv' /\ VotesInv' /\ PolicyInv'
  BY <1>2, <1>4, <1>6, <1>7, <1>8, Kept
<1>10. InterestInv'
  BY <1>8, <1>9, InterestsPublished
<1>11. HookInv'
  <2>1. CASE t \in Addrs
    BY <1>2, <1>3, <1>4, <1>5, <2>1, HookLoses
  <2>2. CASE t \notin Addrs
    <3>1. SameHooks(reg, reg')
      BY <1>1, <1>3, <1>4, <1>5, <2>2, SetHooks
    <3> QED
      BY <1>1, <1>4, <2>2, <3>1, HookKept
  <2> QED
    BY <2>1, <2>2
<1>12. BpInv' /\ TrapInv'
  BY <1>1, <1>4, <1>6, BpKept, TrapKept, ShrinksSame
<1> QED
  BY <1>2, <1>3, <1>4, <1>5, <1>6, <1>7, <1>8, <1>9, <1>10, <1>11, <1>12 DEF HostInv

LEMMA Inv_pb_resume == ASSUME HostInv, pb_resume PROVE HostInv'
<1>1. TypeOK /\ PhaseInv /\ VotesInv /\ PolicyInv /\ InterestInv /\ BpInv /\ HookInv /\ TrapInv
  BY DEF HostInv
<1>2. TypeOK'
  BY <1>1, Type_pb_resume
<1>3. traps' = trap_on_resume(traps) /\ traps \in Traps /\ UNCHANGED <<reg, held, host, mail, native, bpOwn, hookOwn, pub>>
  BY <1>1 DEF pb_resume, Resumed, TypeOK
<1>4. SamePlace
  BY <1>3, SamePlaceSame
<1>5. PhaseInv' /\ VotesInv' /\ PolicyInv' /\ InterestInv'
  BY <1>2, <1>3, <1>4, Kept, SameReg
<1>6. Shrinks(traps, traps', {})
  BY <1>3, TrapMoveFacts
<1>7. BpInv' /\ HookInv' /\ TrapInv'
  BY <1>1, <1>3, <1>6, BpKept, HookKept, TrapKept, SameReg
<1> QED
  BY <1>2, <1>3, <1>4, <1>5, <1>6, <1>7 DEF HostInv

\* A handler less of one breakpoint.
LEMMA BpLoses ==
  ASSUME HostInv, TypeOK', held' = held, host.key \in Keys, Me \in Plugin, NEW p \in Plugin, SetMe(p),
         NEW id \in Ids, id \in Me.bps, p.bps = Me.bps \ {id},
         bpOwn' = release_or_queue(bpOwn, id), native' = native, mail' = mail
  PROVE  BpInv'
<1>1. TypeOK /\ BpInv /\ bpOwn \in Leases(Ids) /\ Unissued
  BY BpInvIs DEF HostInv, TypeOK
<1>2. /\ \A i \in Ids : i # id => bpOwn'.lease[i] = bpOwn.lease[i]
      /\ bpOwn'.queue = bpOwn.queue \cup {x \in {id} : release_removes(bpOwn, id)}
      /\ bpOwn.lease[id].n = 0 => bpOwn'.lease[id].n = 0
  BY <1>1, ReleaseOrQueueFacts DEF NoLease
<1>3. ASSUME NEW i \in Ids PROVE BpAt(i)'
  <2> DEFINE c == Total(BpCounts(reg, held, i))
             d == Total(BpCounts(reg', held', i))
  <2>1. BpAt(i)
    BY <1>1, BpInvIs
  <2>2. /\ c \in Nat /\ d \in Nat
        /\ d + BpOf(Me, i) = c + BpOf(p, i) /\ BpOf(Me, i) <= c
    BY <1>1, BpCountSet
  <2>3. Me # Absent /\ p # Absent
    BY NamesFacts
  <2>4. Point(bpOwn, i, native.bps[i] # None, i \in native.dbgBps, i \in mail.late.bps, c)
    BY <2>1 DEF BpAt
  <2> HIDE DEF c, d
  <2>5. CASE i = id
    <3>1. BpOf(Me, i) = 1 /\ BpOf(p, i) = 0
      BY <2>3, <2>5 DEF BpOf
    <3>2. d = c - 1 /\ c > 0
      BY <2>2, <3>1
    <3> DEFINE present == native.bps[i] # None
               dbg == i \in native.dbgBps
               late == i \in mail.late.bps
    <3>3. present \in BOOLEAN /\ dbg \in BOOLEAN /\ late \in BOOLEAN
      OBVIOUS
    <3>4. Point(bpOwn, i, present, dbg, late, c)
      BY <2>4
    <3> HIDE DEF present, dbg, late
    <3>5. Point(release_or_queue(bpOwn, i), i, present, dbg, late, c - 1)
      BY <1>1, <2>2, <3>2, <3>3, <3>4, PointRelease
    <3>6. Point(bpOwn', i, native'.bps[i] # None, i \in native'.dbgBps, i \in mail'.late.bps, d)
      BY <2>5, <3>2, <3>5 DEF present, dbg, late
    <3> QED
      BY <3>6 DEF BpAt, d
  <2>6. CASE i # id
    <3>1. BpOf(Me, i) = BpOf(p, i) /\ BpOf(p, i) \in Nat
      BY <2>3, <2>6 DEF BpOf
    <3>2. d = c
      BY <2>2, <3>1
    <3>3. bpOwn'.lease[i] = bpOwn.lease[i] /\ (i \in bpOwn'.queue <=> i \in bpOwn.queue)
      BY <1>2, <2>6
    <3>4. Point(bpOwn', i, native'.bps[i] # None, i \in native'.dbgBps, i \in mail'.late.bps, d)
      BY <2>4, <3>2, <3>3 DEF Point
    <3> QED
      BY <3>4 DEF BpAt, d
  <2> QED
    BY <2>5, <2>6
<1>4. Unissued'
  BY <1>1, <1>2 DEF Unissued
<1> QED
  BY <1>3, <1>4, BpInvFrom

\* The last handler of a breakpoint the scripts created removes it at once.
LEMMA BpRemoved ==
  ASSUME HostInv, TypeOK', held' = held, host.key \in Keys, Me \in Plugin, NEW p \in Plugin, SetMe(p),
         NEW id \in Ids, id \in Me.bps, p.bps = Me.bps \ {id}, release_removes(bpOwn, id),
         bpOwn' = release(bpOwn, id), native' = NativeWithout({id}), mail' = mail
  PROVE  BpInv'
<1>1. TypeOK /\ BpInv /\ bpOwn \in Leases(Ids) /\ Unissued /\ native \in Native
  BY BpInvIs DEF HostInv, TypeOK
<1>2. /\ \A i \in Ids : i # id => bpOwn'.lease[i] = bpOwn.lease[i]
      /\ bpOwn'.queue = bpOwn.queue
      /\ bpOwn.lease[id].n = 1 /\ bpOwn'.lease[id].n = 0
  BY <1>1, ReleaseFacts DEF NoLease, release_removes
<1>3. /\ \A i \in Ids : native'.bps[i] = IF i \in {id} THEN None ELSE native.bps[i]
      /\ native'.dbgBps = native.dbgBps \ {id} /\ native'.nextId = native.nextId
  BY <1>1, NativeWithoutFacts
<1>4. ASSUME NEW i \in Ids PROVE BpAt(i)'
  <2> DEFINE c == Total(BpCounts(reg, held, i))
             d == Total(BpCounts(reg', held', i))
  <2>1. BpAt(i)
    BY <1>1, BpInvIs
  <2>2. /\ c \in Nat /\ d \in Nat
        /\ d + BpOf(Me, i) = c + BpOf(p, i) /\ BpOf(Me, i) <= c
    BY <1>1, BpCountSet
  <2>3. Me # Absent /\ p # Absent
    BY NamesFacts
  <2>4. Point(bpOwn, i, native.bps[i] # None, i \in native.dbgBps, i \in mail.late.bps, c)
    BY <2>1 DEF BpAt
  <2> HIDE DEF c, d
  <2>5. CASE i = id
    <3>1. BpOf(Me, i) = 1 /\ BpOf(p, i) = 0
      BY <2>3, <2>5 DEF BpOf
    <3>2. c = 1
      BY <1>2, <2>4, <2>5 DEF Point
    <3>3. d = 0
      BY <2>2, <3>1, <3>2
    <3>4. Point(bpOwn', i, native'.bps[i] # None, i \in native'.dbgBps, i \in mail'.late.bps, d)
      BY <1>2, <1>3, <2>5, <3>3 DEF Point
    <3> QED
      BY <3>4 DEF BpAt, d
  <2>6. CASE i # id
    <3>1. BpOf(Me, i) = BpOf(p, i) /\ BpOf(p, i) \in Nat
      BY <2>3, <2>6 DEF BpOf
    <3>2. d = c
      BY <2>2, <3>1
    <3>3. /\ bpOwn'.lease[i] = bpOwn.lease[i] /\ native'.bps[i] = native.bps[i]
          /\ i \in native'.dbgBps <=> i \in native.dbgBps
      BY <1>2, <1>3, <2>6
    <3>4. Point(bpOwn', i, native'.bps[i] # None, i \in native'.dbgBps, i \in mail'.late.bps, d)
      BY <1>2, <2>4, <3>2, <3>3 DEF Point
    <3> QED
      BY <3>4 DEF BpAt, d
  <2> QED
    BY <2>5, <2>6
<1>5. Unissued'
  BY <1>1, <1>2, <1>3 DEF Unissued
<1> QED
  BY <1>4, <1>5, BpInvFrom

\* Traps are removed with the claim to them.
LEMMA TrapsGiven ==
  ASSUME TrapInv, NEW ids, Shrinks(traps, traps', ids),
         Owned(reg, held) \ ids \subseteq Owned(reg', held')
  PROVE  TrapInv'
<1>1. ActiveTraps(traps') \subseteq ActiveTraps(traps) \ ids
  BY DEF ActiveTraps, Shrinks
<1>2. \A s \in TrapSlots : traps'.slots[s].active => traps'.slots[s].used
  BY DEF TrapInv, Shrinks
<1>3. ActiveTraps(traps)' \subseteq UNION {p.traps : p \in Plugins'}
  BY <1>1, OwnedAre DEF TrapInv
<1> QED
  BY <1>2, <1>3 DEF TrapInv

LEMMA OwnedIs ==
  ASSUME NEW r, NEW h, NEW t
  PROVE  t \in Owned(r, h) <=> (\E k \in Keys : t \in TrapsOf(r[k])) \/ t \in TrapsOf(h)
  BY DEF Owned

LEMMA Inv_pb_breakpoint_remove == ASSUME HostInv, NEW id \in Ids, pb_breakpoint_remove(id) PROVE HostInv'
<1>1. TypeOK /\ PhaseInv /\ VotesInv /\ PolicyInv /\ InterestInv /\ BpInv /\ HookInv /\ TrapInv
  BY DEF HostInv
<1>2. TypeOK'
  BY <1>1, Type_pb_breakpoint_remove
<1> DEFINE p == [Me EXCEPT !.bps = @ \ {id}]
<1>3. host.py /\ host.key \in Keys /\ Me \in Plugin /\ host \in Host /\ pub \in Published /\ native \in Native /\ traps \in Traps
  BY <1>1, MeFacts DEF pb_breakpoint_remove, Calling, TypeOK
<1>4. /\ SetMe(p) /\ id \in Me.bps
      /\ \/ release_removes(bpOwn, id) /\ bpOwn' = release(bpOwn, id) /\ native' = NativeWithout({id})
         \/ bpOwn' = release_or_queue(bpOwn, id) /\ native' = native
      /\ UNCHANGED <<held, host, mail, hookOwn, traps, pub>>
  BY DEF pb_breakpoint_remove
<1>5. /\ p \in Plugin /\ p.state = Me.state /\ p.quarantined = Me.quarantined /\ p.policy = Me.policy
      /\ p.decisions = Me.decisions /\ p.events = Me.events /\ p.traps = Me.traps
      /\ p.bps = Me.bps \ {id}
  <2>1. Me.bps \ {id} \in SUBSET Ids
    BY <1>3, PluginFields
  <2> QED
    BY <1>3, <2>1, BpsSet
<1> HIDE DEF p
<1>6. /\ SameStates(reg, reg') /\ SamePolicies(reg, reg') /\ SameDecisions(reg, reg')
      /\ SameHooks(reg, reg') /\ KeepTraps(reg, reg')
  BY <1>1, <1>3, <1>4, <1>5, SetFacts
<1>7. SamePlace
  BY <1>4, SamePlaceSame
<1>8. PhaseInv' /\ VotesInv' /\ PolicyInv' /\ InterestInv'
  BY <1>2, <1>4, <1>6, <1>7, Kept
<1>9. BpInv'
  BY <1>2, <1>3, <1>4, <1>5, BpLoses, BpRemoved
<1>10. native'.hooks = native.hooks /\ native'.dbgHooks = native.dbgHooks
  BY <1>3, <1>4, NativeWithoutFacts
<1>11. HookInv' /\ TrapInv'
  BY <1>1, <1>4, <1>6, <1>10, HookKept, TrapKept, ShrinksSame
<1> QED
  BY <1>2, <1>3, <1>4, <1>5, <1>6, <1>7, <1>8, <1>9, <1>10, <1>11 DEF HostInv

LEMMA Inv_pb_execution_trap == ASSUME HostInv, NEW oneShot \in BOOLEAN, pb_execution_trap(oneShot) PROVE HostInv'
<1>1. TypeOK /\ PhaseInv /\ VotesInv /\ PolicyInv /\ InterestInv /\ BpInv /\ HookInv /\ TrapInv
  BY DEF HostInv
<1>2. TypeOK'
  BY <1>1, Type_pb_execution_trap
<1> DEFINE p == [Me EXCEPT !.traps = @ \cup {traps.nextId}]
<1>3. host.py /\ host.key \in Keys /\ Me \in Plugin /\ host \in Host /\ pub \in Published /\ native \in Native /\ traps \in Traps
  BY <1>1, MeFacts DEF pb_execution_trap, Calling, TypeOK
<1>4. \E flushed \in BOOLEAN : /\ traps' = trap_set(traps, oneShot, flushed)
                               /\ IF flushed THEN SetMe(p) ELSE reg' = reg
  <2>1. PICK flushed \in Flushes : /\ traps' = trap_set(traps, oneShot, flushed)
                               /\ IF flushed THEN SetMe(p) ELSE reg' = reg
    BY DEF pb_execution_trap
  <2> QED
    BY <2>1, FlushesType
<1>5. UNCHANGED <<held, host, mail, native, bpOwn, hookOwn, pub>>
  BY DEF pb_execution_trap
<1>6. /\ p \in Plugin /\ p.state = Me.state /\ p.quarantined = Me.quarantined /\ p.policy = Me.policy
      /\ p.decisions = Me.decisions /\ p.events = Me.events /\ p.bps = Me.bps
      /\ p.traps = Me.traps \cup {traps.nextId}
  <2>1. Me.traps \cup {traps.nextId} \in SUBSET Nat
    BY <1>3, PluginFields, TrapsFields
  <2> QED
    BY <1>3, <2>1, TrapsSet
<1> HIDE DEF p
<1>7. /\ SameStates(reg, reg') /\ SamePolicies(reg, reg') /\ SameDecisions(reg, reg')
      /\ SameBps(reg, reg') /\ SameHooks(reg, reg') /\ KeepTraps(reg, reg')
  <2>1. CASE SetMe(p)
    BY <1>1, <1>3, <1>6, <2>1, SetFacts
  <2>2. CASE reg' = reg
    BY <2>2, SameReg
  <2> QED
    BY <1>4, <2>1, <2>2
<1>8. SamePlace
  BY <1>5, SamePlaceSame
<1>9. PhaseInv' /\ VotesInv' /\ PolicyInv' /\ InterestInv'
  BY <1>2, <1>5, <1>7, <1>8, Kept
<1>10. BpInv' /\ HookInv'
  BY <1>1, <1>5, <1>7, BpKept, HookKept
<1>11. TrapInv'
  <2>1. PICK flushed \in BOOLEAN : /\ traps' = trap_set(traps, oneShot, flushed)
                               /\ IF flushed THEN SetMe(p) ELSE reg' = reg
    BY <1>4
  <2>2. LiveUsed(traps)
    BY <1>1 DEF TrapInv, LiveUsed
  <2>3. /\ LiveUsed(traps')
        /\ \A s \in TrapSlots : traps'.slots[s].active =>
              \/ traps.slots[s].active /\ traps'.slots[s].id = traps.slots[s].id
              \/ flushed /\ traps'.slots[s].id = traps.nextId
    BY <1>3, <2>1, <2>2, TrapSetFacts
  <2>4. Owned(reg, held) \subseteq Owned(reg', held')
    BY <1>5, <1>7 DEF KeepTraps, Owned
  <2>5. flushed => traps.nextId \in Owned(reg', held')
    <3> SUFFICES ASSUME flushed PROVE traps.nextId \in Owned(reg', held')
      OBVIOUS
    <3>1. reg'[host.key] = p
      BY <1>1, <1>3, <1>6, <2>1, SetMeType
    <3>2. traps.nextId \in TrapsOf(reg'[host.key])
      BY <1>6, <3>1, NamesFacts DEF TrapsOf
    <3> QED
      BY <1>3, <3>2, OwnedIs
  <2>6. ActiveTraps(traps) \subseteq Owned(reg, held)
    BY <1>1, OwnedAre DEF TrapInv
  <2>7. ActiveTraps(traps') \subseteq Owned(reg', held')
    BY <2>3, <2>4, <2>5, <2>6 DEF ActiveTraps
  <2>8. ActiveTraps(traps)' \subseteq UNION {q.traps : q \in Plugins'}
    BY <2>7, OwnedAre
  <2> QED
    BY <2>3, <2>8 DEF TrapInv, LiveUsed
<1> QED
  BY <1>2, <1>3, <1>4, <1>5, <1>6, <1>7, <1>8, <1>9, <1>10, <1>11 DEF HostInv

LEMMA Inv_pb_execution_trap_remove == ASSUME HostInv, NEW id, pb_execution_trap_remove(id) PROVE HostInv'
<1>1. TypeOK /\ PhaseInv /\ VotesInv /\ PolicyInv /\ InterestInv /\ BpInv /\ HookInv /\ TrapInv
  BY DEF HostInv
<1>2. TypeOK'
  BY <1>1, Type_pb_execution_trap_remove
<1> DEFINE p == [Me EXCEPT !.traps = @ \ {id}]
<1>3. host.py /\ host.key \in Keys /\ Me \in Plugin /\ host \in Host /\ pub \in Published /\ native \in Native /\ traps \in Traps
  BY <1>1, MeFacts DEF pb_execution_trap_remove, Calling, TypeOK
<1>4. SetMe(p) /\ traps' = trap_remove(traps, {id}) /\ UNCHANGED <<held, host, mail, native, bpOwn, hookOwn, pub>>
  BY DEF pb_execution_trap_remove
<1>5. /\ p \in Plugin /\ p.state = Me.state /\ p.quarantined = Me.quarantined /\ p.policy = Me.policy
      /\ p.decisions = Me.decisions /\ p.events = Me.events /\ p.bps = Me.bps
      /\ p.traps = Me.traps \ {id}
  <2>1. Me.traps \ {id} \in SUBSET Nat
    BY <1>3, PluginFields
  <2> QED
    BY <1>3, <2>1, TrapsSet
<1> HIDE DEF p
<1>6. /\ SameStates(reg, reg') /\ SamePolicies(reg, reg') /\ SameDecisions(reg, reg')
      /\ SameBps(reg, reg') /\ SameHooks(reg, reg')
  BY <1>1, <1>3, <1>4, <1>5, SetFacts
<1>7. SamePlace
  BY <1>4, SamePlaceSame
<1>8. PhaseInv' /\ VotesInv' /\ PolicyInv' /\ InterestInv'
  BY <1>2, <1>4, <1>6, <1>7, Kept
<1>9. BpInv' /\ HookInv'
  BY <1>1, <1>4, <1>6, BpKept, HookKept
<1>10. TrapInv'
  <2>1. Shrinks(traps, traps', {id})
    BY <1>1, <1>3, <1>4, TrapRemoveFacts DEF TrapInv, LiveUsed
  <2>2. reg'[host.key] = p /\ \A k \in Keys : k # host.key => reg'[k] = reg[k]
    BY <1>1, <1>3, <1>4, <1>5, SetMeType
  <2>3. \A k \in Keys : TrapsOf(reg[k]) \ {id} \subseteq TrapsOf(reg'[k])
    BY <1>5, <2>2, NamesFacts DEF TrapsOf, Me
  <2>4. Owned(reg, held) \ {id} \subseteq Owned(reg', held')
    BY <1>4, <2>3, OwnedIs
  <2> QED
    BY <1>1, <2>1, <2>4, TrapsGiven
<1> QED
  BY <1>2, <1>3, <1>4, <1>5, <1>6, <1>7, <1>8, <1>9, <1>10 DEF HostInv

\* What one plugin asked for is set: the other kinds are as they were.
LEMMA AskedSpecs ==
  ASSUME TypeOK, PhaseInv, NEW kind \in PolicyKinds, NEW spec \in Specifications \cup {NoSpec}, host.py
  PROVE  /\ SameStates(reg, Asked(kind, spec)) /\ SameDecisions(reg, Asked(kind, spec))
         /\ SameBps(reg, Asked(kind, spec)) /\ SameHooks(reg, Asked(kind, spec))
         /\ KeepTraps(reg, Asked(kind, spec))
         /\ \A k \in PolicyKinds : k # kind => Specs(Asked(kind, spec))[k] = Specs(reg)[k]
<1> DEFINE s == Asked(kind, spec)
           p == [Me EXCEPT !.policy[kind] = spec]
<1>1. /\ s \in [Keys -> Plugin \cup {Absent}]
      /\ \A k \in Keys : k # host.key => s[k] = reg[k]
      /\ s[host.key] = p
  <2>1. TRUE \in BOOLEAN
    OBVIOUS
  <2> QED
    BY <2>1, AskedFacts
<1>2. host.key \in Keys /\ Me \in Plugin /\ reg[host.key] = Me /\ reg \in [Keys -> Plugin \cup {Absent}]
  BY MeFacts DEF TypeOK
<1> HIDE DEF s
<1>3. Me.policy \in [PolicyKinds -> Specifications \cup {NoSpec}]
  BY <1>2, PluginFields
<1>4. [Me.policy EXCEPT ![kind] = spec] \in [PolicyKinds -> Specifications \cup {NoSpec}]
  BY <1>3
<1>5. /\ p \in Plugin /\ p.state = Me.state /\ p.quarantined = Me.quarantined
      /\ p.policy = [Me.policy EXCEPT ![kind] = spec]
      /\ p.decisions = Me.decisions /\ p.events = Me.events /\ p.bps = Me.bps /\ p.traps = Me.traps
  BY <1>2, <1>4 DEF Plugin
<1> HIDE DEF p
<1>6. p # Absent /\ Me # Absent
  BY <1>2, <1>5, NamesFacts
<1>7. SameStates(reg, s) /\ SameDecisions(reg, s)
  BY <1>1, <1>2, <1>5, <1>6 DEF SameStates, SameDecisions
<1>8. SameBps(reg, s) /\ SameHooks(reg, s) /\ KeepTraps(reg, s)
  BY <1>1, <1>2, <1>5, <1>6 DEF SameBps, SameHooks, KeepTraps, BpOf, HookOf, TrapsOf
<1>9. Running(s) = Running(reg)
  BY <1>7 DEF SameStates, Running
<1>10. ASSUME NEW k \in PolicyKinds, k # kind PROVE Specs(s)[k] = Specs(reg)[k]
  <2>1. \A x \in Running(reg) : s[x].policy[k] = reg[x].policy[k]
    BY <1>1, <1>2, <1>3, <1>5, <1>10 DEF Running
  <2>2. [x \in Running(s) |-> s[x].policy[k]] = [x \in Running(reg) |-> reg[x].policy[k]]
    BY <1>9, <2>1
  <2>3. /\ Specs(s)[k] = [x \in Running(s) |-> s[x].policy[k]]
        /\ Specs(reg)[k] = [x \in Running(reg) |-> reg[x].policy[k]]
    BY <1>1, <1>2, SpecsFacts
  <2> QED
    BY <2>2, <2>3
<1> QED
  BY <1>7, <1>8, <1>10 DEF s

LEMMA TriedFacts ==
  ASSUME TypeOK, PhaseInv, NEW kind \in PolicyKinds, NEW spec \in Specifications \cup {NoSpec},
         NEW flushed \in BOOLEAN, host.py
  PROVE  LET t == Tried(kind, spec, flushed)
         IN /\ t \in Published /\ t.interests = pub.interests
            /\ t.policy = [pub.policy EXCEPT ![kind] = Answer(kind, spec, flushed).value]
            /\ t.refused <=> t.policy["xed_decode"] # Merged(Specs(Asked(kind, spec))["xed_decode"])
<1> DEFINE q == [pub.policy EXCEPT ![kind] = Answer(kind, spec, flushed).value]
           r == Asked(kind, spec)
<1>1. q \in [PolicyKinds -> SUBSET UNION Specifications] /\ pub \in Published
  BY AskedFacts DEF TypeOK
<1>2. Tried(kind, spec, flushed) = WithPolicy(r, pub, q)
  BY DEF Tried
<1> HIDE DEF q, r
<1>3. /\ WithPolicy(r, pub, q) \in Published
      /\ WithPolicy(r, pub, q).interests = pub.interests
      /\ WithPolicy(r, pub, q).policy = q
      /\ WithPolicy(r, pub, q).refused <=> q["xed_decode"] # Merged(Specs(r)["xed_decode"])
  BY <1>1, WithPolicyFacts
<1> QED
  BY <1>2, <1>3 DEF q, r

\* The commit overwrites the plugin whose on_unload runs.
LEMMA CommittedSame ==
  ASSUME TypeOK, TypeOK', held' = held, host'.key = host.key, host.key \in Keys,
         \A k \in Keys : k # host.key => reg'[k] = reg[k]
  PROVE  Committed' = Committed
  BY DEF Committed, TypeOK

LEMMA Inv_PolicyCall == ASSUME HostInv, NEW kind \in PolicyKinds, NEW spec \in Specifications \cup {NoSpec}, PolicyCall(kind, spec) PROVE HostInv'
<1>1. TypeOK /\ PhaseInv /\ VotesInv /\ PolicyInv /\ InterestInv /\ BpInv /\ HookInv /\ TrapInv
  BY DEF HostInv
<1>2. TypeOK'
  BY <1>1, Type_PolicyCall
<1>3. host.py /\ host.key \in Keys /\ UNCHANGED <<held, host, mail, native, bpOwn, hookOwn, traps>>
  BY <1>1, MeFacts DEF PolicyCall, Calling
<1>4. \E flushed, again \in BOOLEAN :
         /\ reg' = IF Answer(kind, spec, flushed).failed THEN reg ELSE Asked(kind, spec)
         /\ pub' = IF Answer(kind, spec, flushed).failed
                   THEN refresh(reg, Tried(kind, spec, flushed), again)
                   ELSE Tried(kind, spec, flushed)
  BY PolicyCallFacts
<1>5. /\ SameStates(reg, reg') /\ SameDecisions(reg, reg') /\ SameBps(reg, reg')
      /\ SameHooks(reg, reg') /\ KeepTraps(reg, reg')
  BY <1>1, <1>3, <1>4, AskedSpecs, SameReg
<1>6. SamePlace
  BY <1>3, SamePlaceSame
<1>7. pub'.interests = pub.interests
  <2>1. PICK flushed \in BOOLEAN, again \in BOOLEAN :
         pub' = IF Answer(kind, spec, flushed).failed
                   THEN refresh(reg, Tried(kind, spec, flushed), again)
                   ELSE Tried(kind, spec, flushed)
    BY <1>4
  <2>2. /\ Tried(kind, spec, flushed) \in Published
        /\ [pub.policy EXCEPT ![kind] = Answer(kind, spec, flushed).value] \in [PolicyKinds -> SUBSET UNION Specifications]
    BY <1>1, <1>3, AskedFacts
  <2>3. Tried(kind, spec, flushed).interests = pub.interests
    BY <1>1, <1>3, TriedFacts
  <2>4. refresh(reg, Tried(kind, spec, flushed), again).interests = Tried(kind, spec, flushed).interests
    BY <1>1, <2>2, RefreshFacts DEF TypeOK
  <2> QED
    BY <2>1, <2>3, <2>4
<1>8. PhaseInv' /\ VotesInv' /\ InterestInv'
  BY <1>2, <1>3, <1>5, <1>6, <1>7, Kept
<1>9. BpInv' /\ HookInv' /\ TrapInv'
  BY <1>1, <1>3, <1>5, BpKept, HookKept, TrapKept, ShrinksSame
<1>10. PolicyInv'
  <2>1. PICK flushed \in BOOLEAN, again \in BOOLEAN :
         /\ reg' = IF Answer(kind, spec, flushed).failed THEN reg ELSE Asked(kind, spec)
         /\ pub' = IF Answer(kind, spec, flushed).failed
                   THEN refresh(reg, Tried(kind, spec, flushed), again)
                   ELSE Tried(kind, spec, flushed)
    BY <1>4
  <2>2. /\ Tried(kind, spec, flushed) \in Published
        /\ [pub.policy EXCEPT ![kind] = Answer(kind, spec, flushed).value] \in [PolicyKinds -> SUBSET UNION Specifications]
        /\ \A k \in Keys : k # host.key => Asked(kind, spec)[k] = reg[k]
    BY <1>1, <1>3, AskedFacts
  <2>3. Disjoint(reg) /\ (host.at = "commit" => Disjoint(Committed))
        /\ (host.at # "commit" /\ host.valid => Current(reg, pub))
    BY <1>1 DEF PolicyInv
  <2>4. Committed' = Committed
    BY <1>1, <1>2, <1>3, <2>1, <2>2, CommittedSame
  <2>5. CASE Answer(kind, spec, flushed).failed
    <3>1. reg' = reg /\ Current(reg, pub')
      BY <1>1, <2>1, <2>2, <2>3, <2>5, RefreshFacts DEF TypeOK
    <3> QED
      BY <1>3, <2>3, <2>4, <3>1 DEF PolicyInv
  <2>6. CASE ~Answer(kind, spec, flushed).failed
    <3> DEFINE s == Asked(kind, spec)
    <3>1. reg' = s /\ pub' = Tried(kind, spec, flushed)
      BY <2>1, <2>6
    <3>2. \A k \in PolicyKinds : k # kind => Specs(s)[k] = Specs(reg)[k]
      BY <1>1, <1>3, AskedSpecs
    <3>3. /\ pub'.policy = [pub.policy EXCEPT ![kind] = Answer(kind, spec, flushed).value]
          /\ pub'.refused <=> pub'.policy["xed_decode"] # Merged(Specs(s)["xed_decode"])
      BY <1>1, <1>3, <3>1, TriedFacts
    <3>4. pub.policy \in [PolicyKinds -> SUBSET UNION Specifications]
      BY <1>1 DEF TypeOK, Published
    <3>5. Answer(kind, spec, flushed) = publish(kind, Specs(s)[kind], pub.policy[kind], flushed)
      BY DEF Answer
    <3>6. kind \in Ranged => ~Overlap(Specs(s)[kind])
      BY <2>6, <3>5, PublishFacts
    <3>7. kind # "xed_decode" => pub'.policy[kind] = Merged(Specs(s)[kind])
      <4>1. kind \in {"instrumentation"} \cup Ranged \/ kind = "xed_decode"
        BY DEF PolicyKinds, Ranged
      <4>2. kind # "xed_decode" => Answer(kind, spec, flushed).value = Merged(Specs(s)[kind])
        BY <3>5, <3>6, <4>1, PublishFacts
      <4> QED
        BY <3>3, <3>4, <4>2
    <3> HIDE DEF s
    <3>8. Disjoint(reg')
      BY <2>3, <3>1, <3>2, <3>6 DEF Disjoint, Ranged, PolicyKinds
    <3>9. ASSUME Current(reg, pub) PROVE Current(reg', pub')
      <4> SUFFICES ASSUME NEW k \in PolicyKinds, k # "xed_decode"
                   PROVE  pub'.policy[k] = Merged(Specs(reg')[k])
        BY <3>1, <3>3 DEF Current
      <4>1. k # kind => pub'.policy[k] = pub.policy[k]
        BY <3>3, <3>4
      <4>2. pub.policy[k] = Merged(Specs(reg)[k])
        BY <3>9 DEF Current
      <4> QED
        BY <3>1, <3>2, <3>7, <4>1, <4>2
    <3> QED
      BY <1>3, <2>3, <2>4, <3>8, <3>9 DEF PolicyInv
  <2> QED
    BY <2>5, <2>6
<1> QED
  BY <1>2, <1>3, <1>4, <1>5, <1>6, <1>7, <1>8, <1>9, <1>10 DEF HostInv

LEMMA Inv_send_command == ASSUME HostInv, NEW cmd \in Commands, send_command(cmd) PROVE HostInv'
<1>1. TypeOK /\ PhaseInv /\ VotesInv /\ PolicyInv /\ InterestInv /\ BpInv /\ HookInv /\ TrapInv
  BY DEF HostInv
<1>2. TypeOK'
  BY <1>1, Type_send_command
<1>3. UNCHANGED <<reg, held, host, native, bpOwn, hookOwn, traps, pub>> /\ mail \in Mail /\ mail' = [mail EXCEPT !.cmds = Append(@, cmd), !.waiting = TRUE]
  BY <1>1 DEF send_command, TypeOK
<1>4. mail'.late = mail.late /\ mail'.cmds # <<>>
  <2>1. mail.cmds \in Seq(Commands)
    BY <1>3 DEF Mail
  <2>2. Append(mail.cmds, cmd) # <<>>
    BY <2>1
  <2>3. mail'.cmds = Append(mail.cmds, cmd) /\ mail'.late = mail.late
    BY <1>3 DEF Mail
  <2> QED
    BY <2>2, <2>3
<1>5. SamePlace
  BY <1>3, SamePlaceSame
<1>6. PhaseInv' /\ VotesInv' /\ PolicyInv' /\ InterestInv'
  BY <1>2, <1>3, <1>4, <1>5, Kept, SameReg
<1>7. BpInv' /\ HookInv' /\ TrapInv'
  BY <1>1, <1>3, <1>4, BpKept, HookKept, TrapKept, SameReg, ShrinksSame
<1> QED
  BY <1>2, <1>3, <1>4, <1>5, <1>6, <1>7 DEF HostInv

LEMMA Inv_SendTimesOut == ASSUME HostInv, SendTimesOut PROVE HostInv'
<1>1. TypeOK /\ PhaseInv /\ VotesInv /\ PolicyInv /\ InterestInv /\ BpInv /\ HookInv /\ TrapInv
  BY DEF HostInv
<1>2. TypeOK'
  BY <1>1, Type_SendTimesOut
<1>3. UNCHANGED <<reg, held, host, native, bpOwn, hookOwn, traps, pub>> /\ mail \in Mail /\ mail' = [mail EXCEPT !.waiting = FALSE]
  BY <1>1 DEF SendTimesOut, TypeOK
<1>4. mail'.late = mail.late /\ mail'.cmds = mail.cmds
  BY <1>3 DEF Mail
<1>5. SamePlace
  BY <1>3, SamePlaceSame
<1>6. PhaseInv' /\ VotesInv' /\ PolicyInv' /\ InterestInv'
  BY <1>2, <1>3, <1>4, <1>5, Kept, SameReg
<1>7. BpInv' /\ HookInv' /\ TrapInv'
  BY <1>1, <1>3, <1>4, BpKept, HookKept, TrapKept, SameReg, ShrinksSame
<1> QED
  BY <1>2, <1>3, <1>4, <1>5, <1>6, <1>7 DEF HostInv

\* The registry, the leases and the removals under way are as they were, and what
\* left the native tables was nobody's to keep.
LEMMA BpMoved ==
  ASSUME BpInv, reg' = reg, held' = held, native'.nextId = native.nextId,
         \A i \in Ids : bpOwn'.lease[i] = bpOwn.lease[i],
         \A i \in Ids : \/ native'.bps[i] = None
                        \/ /\ native'.bps[i] = native.bps[i]
                           /\ i \in native.dbgBps => i \in native'.dbgBps
                           /\ i \in bpOwn.queue \/ i \in mail.late.bps =>
                                 i \in bpOwn'.queue \/ i \in mail'.late.bps
  PROVE  BpInv'
<1>1. \A i \in Ids : BpSubscriptions(i)' = BpSubscriptions(i)
  BY DEF BpSubscriptions, Holders
<1>2. ASSUME NEW i \in Ids PROVE BpAt(i)'
  BY <1>1, BpCountsAre DEF BpInv, BpAt, Point
<1>3. Unissued'
  BY DEF BpInv, Unissued
<1> QED
  BY <1>2, <1>3, BpInvFrom

LEMMA HookMoved ==
  ASSUME HookInv, reg' = reg, held' = held,
         \A a \in Addrs : hookOwn'.lease[a] = hookOwn.lease[a],
         \A a \in Addrs : \/ a \notin native'.hooks
                          \/ /\ a \in native.hooks
                             /\ a \in native.dbgHooks => a \in native'.dbgHooks
                             /\ a \in hookOwn.queue \/ a \in mail.late.hooks =>
                                   a \in hookOwn'.queue \/ a \in mail'.late.hooks
                          \/ a \in native'.dbgHooks
  PROVE  HookInv'
<1>1. \A a \in Addrs : HookSubscriptions(a)' = HookSubscriptions(a)
  BY DEF HookSubscriptions, Holders
<1>2. ASSUME NEW a \in Addrs PROVE HookAt(a)'
  BY <1>1, HookCountsAre DEF HookInv, HookAt, Point
<1> QED
  BY <1>2, HookInvFrom

LEMMA Inv_ServeLate == ASSUME HostInv, ServeLate PROVE HostInv'
<1>1. TypeOK /\ PhaseInv /\ VotesInv /\ PolicyInv /\ InterestInv /\ BpInv /\ HookInv /\ TrapInv
  BY DEF HostInv
<1>2. TypeOK'
  BY <1>1, Type_ServeLate
<1>3. UNCHANGED <<reg, held, host, bpOwn, hookOwn, traps, pub>> /\ native \in Native
  BY <1>1 DEF ServeLate, TypeOK
<1>4. /\ native' = Without(mail.late.bps, mail.late.hooks)
      /\ mail'.late.bps = {} /\ mail'.late.hooks = {} /\ mail'.cmds = mail.cmds
  BY <1>1, LateFacts
<1>5. SamePlace
  BY <1>3, SamePlaceSame
<1>6. PhaseInv' /\ VotesInv' /\ PolicyInv' /\ InterestInv'
  BY <1>2, <1>3, <1>4, <1>5, Kept, SameReg
<1>7. /\ \A i \in Ids : native'.bps[i] = IF i \in mail.late.bps THEN None ELSE native.bps[i]
      /\ native'.dbgBps = native.dbgBps \ mail.late.bps /\ native'.nextId = native.nextId
      /\ native'.hooks = native.hooks \ mail.late.hooks
      /\ native'.dbgHooks = native.dbgHooks \ mail.late.hooks
  BY <1>3, <1>4, WithoutFacts
<1>8. BpInv'
  BY <1>1, <1>3, <1>4, <1>7, BpMoved
<1>9. HookInv'
  BY <1>1, <1>3, <1>4, <1>7, HookMoved
<1>10. TrapInv'
  BY <1>1, <1>3, TrapKept, SameReg, ShrinksSame
<1> QED
  BY <1>2, <1>3, <1>4, <1>5, <1>6, <1>7, <1>8, <1>9, <1>10 DEF HostInv

LEMMA Inv_handle_bp_remove == ASSUME HostInv, NEW id \in Ids, handle_bp_remove(id) PROVE HostInv'
<1>1. TypeOK /\ PhaseInv /\ VotesInv /\ PolicyInv /\ InterestInv /\ BpInv /\ HookInv /\ TrapInv
  BY DEF HostInv
<1>2. TypeOK'
  BY <1>1, Type_handle_bp_remove
<1>3. UNCHANGED <<reg, held, host, mail, bpOwn, hookOwn, traps, pub>> /\ native \in Native /\ native' = NativeWithout({id})
  BY <1>1 DEF handle_bp_remove, External, TypeOK
<1>4. SamePlace
  BY <1>3, SamePlaceSame
<1>5. PhaseInv' /\ VotesInv' /\ PolicyInv' /\ InterestInv'
  BY <1>2, <1>3, <1>4, Kept, SameReg
<1>6. /\ \A i \in Ids : native'.bps[i] = IF i \in {id} THEN None ELSE native.bps[i]
      /\ native'.dbgBps = native.dbgBps \ {id} /\ native'.nextId = native.nextId
      /\ native'.hooks = native.hooks /\ native'.dbgHooks = native.dbgHooks
  BY <1>3, NativeWithoutFacts
<1>7. BpInv'
  BY <1>1, <1>3, <1>6, BpMoved
<1>8. HookInv' /\ TrapInv'
  BY <1>1, <1>3, <1>6, HookKept, TrapKept, SameReg, ShrinksSame
<1> QED
  BY <1>2, <1>3, <1>4, <1>5, <1>6, <1>7, <1>8 DEF HostInv

LEMMA Inv_handle_hook_set == ASSUME HostInv, NEW a \in Addrs, handle_hook_set(a) PROVE HostInv'
<1>1. TypeOK /\ PhaseInv /\ VotesInv /\ PolicyInv /\ InterestInv /\ BpInv /\ HookInv /\ TrapInv
  BY DEF HostInv
<1>2. TypeOK'
  BY <1>1, Type_handle_hook_set
<1>3. UNCHANGED <<reg, held, host, mail, bpOwn, hookOwn, traps, pub>> /\ native \in Native /\ native' = [native EXCEPT !.hooks = @ \cup {a}, !.dbgHooks = @ \cup {a}]
  BY <1>1 DEF handle_hook_set, External, TypeOK
<1>4. SamePlace
  BY <1>3, SamePlaceSame
<1>5. PhaseInv' /\ VotesInv' /\ PolicyInv' /\ InterestInv'
  BY <1>2, <1>3, <1>4, Kept, SameReg
<1>6. /\ native'.bps = native.bps /\ native'.dbgBps = native.dbgBps /\ native'.nextId = native.nextId
      /\ native'.hooks = native.hooks \cup {a} /\ native'.dbgHooks = native.dbgHooks \cup {a}
  BY <1>3 DEF Native
<1>7. HookInv'
  BY <1>1, <1>3, <1>6, HookMoved
<1>8. BpInv' /\ TrapInv'
  BY <1>1, <1>3, <1>6, BpKept, TrapKept, SameReg, ShrinksSame
<1> QED
  BY <1>2, <1>3, <1>4, <1>5, <1>6, <1>7, <1>8 DEF HostInv

LEMMA Inv_handle_hook_remove == ASSUME HostInv, NEW a \in Addrs, handle_hook_remove(a) PROVE HostInv'
<1>1. TypeOK /\ PhaseInv /\ VotesInv /\ PolicyInv /\ InterestInv /\ BpInv /\ HookInv /\ TrapInv
  BY DEF HostInv
<1>2. TypeOK'
  BY <1>1, Type_handle_hook_remove
<1>3. UNCHANGED <<reg, held, host, mail, bpOwn, hookOwn, traps, pub>> /\ native \in Native /\ native' = [native EXCEPT !.hooks = @ \ {a}, !.dbgHooks = @ \ {a}]
  BY <1>1 DEF handle_hook_remove, External, TypeOK
<1>4. SamePlace
  BY <1>3, SamePlaceSame
<1>5. PhaseInv' /\ VotesInv' /\ PolicyInv' /\ InterestInv'
  BY <1>2, <1>3, <1>4, Kept, SameReg
<1>6. /\ native'.bps = native.bps /\ native'.dbgBps = native.dbgBps /\ native'.nextId = native.nextId
      /\ native'.hooks = native.hooks \ {a} /\ native'.dbgHooks = native.dbgHooks \ {a}
  BY <1>3 DEF Native
<1>7. HookInv'
  BY <1>1, <1>3, <1>6, HookMoved
<1>8. BpInv' /\ TrapInv'
  BY <1>1, <1>3, <1>6, BpKept, TrapKept, SameReg, ShrinksSame
<1> QED
  BY <1>2, <1>3, <1>4, <1>5, <1>6, <1>7, <1>8 DEF HostInv

LEMMA Inv_handle_resume == ASSUME HostInv, handle_resume PROVE HostInv'
<1>1. TypeOK /\ PhaseInv /\ VotesInv /\ PolicyInv /\ InterestInv /\ BpInv /\ HookInv /\ TrapInv
  BY DEF HostInv
<1>2. TypeOK'
  BY <1>1, Type_handle_resume
<1>3. traps' = trap_on_resume(traps) /\ traps \in Traps /\ UNCHANGED <<reg, held, host, mail, native, bpOwn, hookOwn, pub>>
  BY <1>1 DEF handle_resume, External, Resumed, TypeOK
<1>4. SamePlace
  BY <1>3, SamePlaceSame
<1>5. PhaseInv' /\ VotesInv' /\ PolicyInv' /\ InterestInv'
  BY <1>2, <1>3, <1>4, Kept, SameReg
<1>6. Shrinks(traps, traps', {})
  BY <1>3, TrapMoveFacts
<1>7. BpInv' /\ HookInv' /\ TrapInv'
  BY <1>1, <1>3, <1>6, BpKept, HookKept, TrapKept, SameReg
<1> QED
  BY <1>2, <1>3, <1>4, <1>5, <1>6, <1>7 DEF HostInv

LEMMA Inv_StopsAt == ASSUME HostInv, NEW a \in Addrs \cup {None}, StopsAt(a) PROVE HostInv'
<1>1. TypeOK /\ PhaseInv /\ VotesInv /\ PolicyInv /\ InterestInv /\ BpInv /\ HookInv /\ TrapInv
  BY DEF HostInv
<1>2. TypeOK'
  BY <1>1, Type_StopsAt
<1>3. traps' = publish_stopped(traps) /\ traps \in Traps /\ UNCHANGED <<reg, held, host, mail, native, bpOwn, hookOwn, pub>>
  BY <1>1 DEF StopsAt, TypeOK
<1>4. SamePlace
  BY <1>3, SamePlaceSame
<1>5. PhaseInv' /\ VotesInv' /\ PolicyInv' /\ InterestInv'
  BY <1>2, <1>3, <1>4, Kept, SameReg
<1>6. Shrinks(traps, traps', {})
  BY <1>3, TrapMoveFacts
<1>7. BpInv' /\ HookInv' /\ TrapInv'
  BY <1>1, <1>3, <1>6, BpKept, HookKept, TrapKept, SameReg
<1> QED
  BY <1>2, <1>3, <1>4, <1>5, <1>6, <1>7 DEF HostInv

LEMMA Inv_TrapClaim == ASSUME HostInv, TrapClaim PROVE HostInv'
<1>1. TypeOK /\ PhaseInv /\ VotesInv /\ PolicyInv /\ InterestInv /\ BpInv /\ HookInv /\ TrapInv
  BY DEF HostInv
<1>2. TypeOK'
  BY <1>1, Type_TrapClaim
<1>3. traps' = on_execute(traps) /\ traps \in Traps /\ UNCHANGED <<reg, held, host, mail, native, bpOwn, hookOwn, pub>>
  BY <1>1 DEF TrapClaim, TypeOK
<1>4. SamePlace
  BY <1>3, SamePlaceSame
<1>5. PhaseInv' /\ VotesInv' /\ PolicyInv' /\ InterestInv'
  BY <1>2, <1>3, <1>4, Kept, SameReg
<1>6. Shrinks(traps, traps', {})
  BY <1>3, TrapMoveFacts
<1>7. BpInv' /\ HookInv' /\ TrapInv'
  BY <1>1, <1>3, <1>6, BpKept, HookKept, TrapKept, SameReg
<1> QED
  BY <1>2, <1>3, <1>4, <1>5, <1>6, <1>7 DEF HostInv

LEMMA Inv_handle_bp_set == ASSUME HostInv, NEW a \in Addrs, handle_bp_set(a) PROVE HostInv'
<1>1. TypeOK /\ PhaseInv /\ VotesInv /\ PolicyInv /\ InterestInv /\ BpInv /\ HookInv /\ TrapInv
  BY DEF HostInv
<1>2. TypeOK'
  BY <1>1, Type_handle_bp_set
<1> DEFINE id == IF IdsAt(a) # {} THEN CHOOSE i \in IdsAt(a) : TRUE ELSE native.nextId
<1>3. /\ UNCHANGED <<reg, held, host, mail, hookOwn, traps, pub>> /\ native \in Native /\ bpOwn \in Leases(Ids)
      /\ id \in Ids
      /\ native' = [native EXCEPT !.bps[id] = a, !.dbgBps = @ \cup {id},
                                  !.nextId = IF id = @ THEN @ + 1 ELSE @]
      /\ bpOwn' = bpOwn \/ bpOwn' = mark_external_owner(bpOwn, id)
  BY <1>1 DEF handle_bp_set, External, TypeOK
<1>4. id \in IdsAt(a) \/ (IdsAt(a) = {} /\ id = native.nextId)
  OBVIOUS
<1> HIDE DEF id
<1>5. SamePlace
  BY <1>3, SamePlaceSame
<1>6. PhaseInv' /\ VotesInv' /\ PolicyInv' /\ InterestInv'
  BY <1>2, <1>3, <1>5, Kept, SameReg
<1>7. /\ native'.hooks = native.hooks /\ native'.dbgHooks = native.dbgHooks
      /\ native'.bps = [native.bps EXCEPT ![id] = a] /\ native'.dbgBps = native.dbgBps \cup {id}
      /\ native'.nextId = (IF id = native.nextId THEN native.nextId + 1 ELSE native.nextId)
      /\ native.bps \in [Ids -> Addrs \cup {None}] /\ native.nextId \in Nat /\ Ids \subseteq Nat
      /\ a # None
  BY <1>3, HostAssumption DEF Native, Ids
<1>8. HookInv' /\ TrapInv'
  BY <1>1, <1>3, <1>7, HookKept, TrapKept, SameReg, ShrinksSame
<1>9. /\ \A i \in Ids : bpOwn'.lease[i].n = bpOwn.lease[i].n
      /\ \A i \in Ids : i # id => bpOwn'.lease[i] = bpOwn.lease[i]
      /\ bpOwn'.queue = bpOwn.queue
  BY <1>3, MarkFacts
<1>10. \A i \in Ids : BpAt(i)'
  <2>1. \A i \in Ids : BpSubscriptions(i)' = BpSubscriptions(i)
    BY <1>3 DEF BpSubscriptions, Holders
  <2> SUFFICES ASSUME NEW i \in Ids PROVE BpAt(i)'
    OBVIOUS
  <2>2. CASE i = id
    BY <1>1, <1>3, <1>7, <1>9, <2>1, <2>2, BpCountsAre DEF BpInv, BpAt, Point
  <2>3. CASE i # id
    BY <1>1, <1>3, <1>7, <1>9, <2>1, <2>3, BpCountsAre DEF BpInv, BpAt, Point
  <2> QED
    BY <2>2, <2>3
<1>11. Unissued'
  <2> SUFFICES ASSUME NEW i \in Ids, i >= native'.nextId
                PROVE  bpOwn'.lease[i].n = 0 /\ native'.bps[i] = None
    BY DEF Unissued
  <2>1. i \in Nat /\ i >= native.nextId /\ id \in Nat
    BY <1>3, <1>7
  <2>2. id < native.nextId \/ id = native.nextId
    <3>1. CASE id \in IdsAt(a)
      <4>1. native.bps[id] # None
        BY <1>7, <3>1 DEF IdsAt
      <4>2. ~(id >= native.nextId)
        BY <1>1, <1>3, <4>1, BpInvIs DEF Unissued
      <4> QED
        BY <1>7, <2>1, <4>2
    <3> QED
      BY <1>4, <3>1
  <2>3. i # id
    BY <1>7, <2>1, <2>2
  <2>4. bpOwn.lease[i].n = 0 /\ native.bps[i] = None
    BY <1>1, <2>1, BpInvIs DEF Unissued
  <2> QED
    BY <1>7, <1>9, <2>3, <2>4
<1>12. BpInv'
  BY <1>10, <1>11, BpInvFrom
<1> QED
  BY <1>2, <1>3, <1>4, <1>5, <1>6, <1>7, <1>8, <1>9, <1>10, <1>11, <1>12 DEF HostInv

-----------------------------------------------------------------------------
(* Steps of the host thread                                                *)

\* Outside the replacement of a plugin nothing is staged or held.
LEMMA Outside ==
  ASSUME PhaseInv, host.at # "commit", host.at = "exec" /\ host.py => host.key # Staged
  PROVE  reg[Staged] = Absent /\ held = Absent
  BY DEF PhaseInv, StageInv

LEMMA PhaseNow ==
  ASSUME PyPresent', TodoPresent', QuarantineInv', reg'[Staged] = Absent, held' = Absent,
         host'.at # "commit", host'.at = "exec" => ~host'.py /\ host'.todo = {}, host'.call = NoCall,
         host'.target # None => host'.at = "sync",
         host'.at = "sync" /\ host'.py => host'.target # None,
         host'.target = None => host'.valid,
         host'.at = "unload" => mail'.cmds # <<>>,
         host'.at \in Idle => ~host'.py
  PROVE  PhaseInv'
  BY DEF PhaseInv, StageInv, CallInv

LEMMA QuarantineKept ==
  ASSUME PhaseInv, \A k \in Keys : \/ reg'[k] = Absent
                                   \/ reg'[k] = reg[k]
                                   \/ reg'[k].state \in {"error", "replacing"}
                                   \/ ~reg'[k].quarantined
  PROVE  QuarantineInv'
  BY DEF PhaseInv, QuarantineInv

LEMMA DisjointShrinks ==
  ASSUME NEW r \in Registry, NEW s \in Registry, Disjoint(r),
         \A k \in Running(s) : k \in Running(r) /\ s[k].policy = r[k].policy
  PROVE  Disjoint(s)
<1> SUFFICES ASSUME NEW k \in Ranged, Overlap(Specs(s)[k]) PROVE Overlap(Specs(r)[k])
  BY DEF Disjoint
<1>1. k \in PolicyKinds
  BY DEF Ranged, PolicyKinds
<1>2. /\ Specs(r)[k] = [p \in Running(r) |-> r[p].policy[k]]
      /\ Specs(s)[k] = [p \in Running(s) |-> s[p].policy[k]]
  BY <1>1, SpecsFacts DEF Registry
<1> QED
  BY <1>2 DEF Overlap

\* A refresh outside the commit brings the policies up to date.
LEMMA PolicyRefreshed ==
  ASSUME TypeOK', Disjoint(reg'), host'.at # "commit", NEW p \in Published, NEW flushed \in BOOLEAN,
         pub' = refresh(reg', p, flushed)
  PROVE  PolicyInv' /\ pub'.interests = p.interests
<1>1. Current(reg', pub') /\ pub'.interests = p.interests
  BY RefreshFacts DEF TypeOK
<1> QED
  BY <1>1 DEF PolicyInv

LEMMA RefreshedAll ==
  ASSUME TypeOK', Disjoint(reg'), host'.at # "commit", NEW p \in Published, NEW flushed \in BOOLEAN,
         pub' = refresh(reg', publish_interests(reg', p), flushed)
  PROVE  PolicyInv' /\ pub'.interests = Interests(reg')
<1>1. publish_interests(reg', p) \in Published /\ publish_interests(reg', p).interests = Interests(reg')
  BY InterestsFacts DEF TypeOK
<1> DEFINE q == publish_interests(reg', p)
<1>2. q \in Published /\ q.interests = Interests(reg') /\ pub' = refresh(reg', q, flushed)
  BY <1>1
<1> HIDE DEF q
<1> QED
  BY <1>2, PolicyRefreshed

\* The leases after the plugins under ks have given up what they own.
LEMMA BpGiven ==
  ASSUME TypeOK, BpInv, NEW ks \in SUBSET Keys, \A k \in ks : reg[k] # Absent, Release(ks),
         native' = native, mail'.late = mail.late, NEW s \in Registry,
         \A k \in ks : \A i \in Ids : BpOf(s[k], i) = 0, \A k \in Keys \ ks : s[k] = reg[k],
         \A i \in Ids : Total(BpCounts(reg', held', i)) = Total(BpCounts(s, held, i))
  PROVE  BpInv'
<1>1. bpOwn \in Leases(Ids) /\ BpTimes(ks) \in [Ids -> Nat] /\ bpOwn' = release_all(bpOwn, BpTimes(ks))
  BY TimesType, ReleaseType DEF TypeOK
<1>2. ASSUME NEW i \in Ids PROVE BpAt(i)' /\ (bpOwn.lease[i].n = 0 => bpOwn'.lease[i].n = 0)
  <2> DEFINE c == Total(BpCounts(reg, held, i))
             d == Total(BpCounts(reg', held', i))
             times == BpTimes(ks)
             present == native.bps[i] # None
             dbg == i \in native.dbgBps
             late == i \in mail.late.bps
  <2>1. c \in Nat /\ d \in Nat /\ times[i] \in Nat /\ c = times[i] + d
    BY BpTotalGiven
  <2>2. Point(bpOwn, i, present, dbg, late, c)
    BY BpInvIs DEF BpAt
  <2>3. present \in BOOLEAN /\ dbg \in BOOLEAN /\ late \in BOOLEAN /\ times \in [Ids -> Nat] /\ Ids \in SUBSET Ids
    BY <1>1
  <2>4. bpOwn' = release_all(bpOwn, times)
    BY <1>1
  <2>5. Point(bpOwn', i, native'.bps[i] # None, i \in native'.dbgBps, i \in mail'.late.bps, d)
    <3>1. times[i] <= c /\ d = c - times[i]
      BY <2>1
    <3> HIDE DEF c, d, times, present, dbg, late
    <3>2. Point(release_all(bpOwn, times), i, present, dbg, late, c - times[i])
      BY <1>1, <2>1, <2>2, <2>3, <3>1, PointReleaseAll
    <3> QED
      BY <2>4, <3>1, <3>2 DEF present, dbg, late
  <2>6. bpOwn.lease[i].n = 0 => bpOwn'.lease[i].n = 0
    <3>1. bpOwn.lease[i].n = c /\ bpOwn'.lease[i].n = d
      BY <2>2, <2>5 DEF Point
    <3> HIDE DEF c, d, times
    <3> QED
      BY <2>1, <3>1
  <2> QED
    BY <2>5, <2>6 DEF BpAt
<1>3. Unissued
  BY BpInvIs
<1>4. Unissued'
  BY <1>2, <1>3 DEF Unissued
<1> QED
  BY <1>2, <1>4, BpInvFrom

LEMMA HookGiven ==
  ASSUME TypeOK, HookInv, NEW ks \in SUBSET Keys, \A k \in ks : reg[k] # Absent, Release(ks),
         native' = native, mail'.late = mail.late, NEW s \in Registry,
         \A k \in ks : \A a \in Addrs : HookOf(s[k], a) = 0, \A k \in Keys \ ks : s[k] = reg[k],
         \A a \in Addrs : Total(HookCounts(reg', held', a)) = Total(HookCounts(s, held, a))
  PROVE  HookInv'
<1>1. hookOwn \in Leases(Addrs) /\ HookTimes(ks) \in [Addrs -> Nat] /\ hookOwn' = release_all(hookOwn, HookTimes(ks))
  BY TimesType, ReleaseType DEF TypeOK
<1>2. ASSUME NEW i \in Addrs PROVE HookAt(i)'
  <2> DEFINE c == Total(HookCounts(reg, held, i))
             d == Total(HookCounts(reg', held', i))
             times == HookTimes(ks)
             present == i \in native.hooks
             dbg == i \in native.dbgHooks
             late == i \in mail.late.hooks
  <2>1. c \in Nat /\ d \in Nat /\ times[i] \in Nat /\ c = times[i] + d
    BY HookTotalGiven
  <2>2. Point(hookOwn, i, present, dbg, late, c)
    BY HookInvIs DEF HookAt
  <2>3. present \in BOOLEAN /\ dbg \in BOOLEAN /\ late \in BOOLEAN /\ times \in [Addrs -> Nat] /\ Addrs \in SUBSET Addrs
    BY <1>1
  <2>4. hookOwn' = release_all(hookOwn, times)
    BY <1>1
  <2>5. Point(hookOwn', i, i \in native'.hooks, i \in native'.dbgHooks, i \in mail'.late.hooks, d)
    <3>1. times[i] <= c /\ d = c - times[i]
      BY <2>1
    <3> HIDE DEF c, d, times, present, dbg, late
    <3>2. Point(release_all(hookOwn, times), i, present, dbg, late, c - times[i])
      BY <1>1, <2>1, <2>2, <2>3, <3>1, PointReleaseAll
    <3> QED
      BY <2>4, <3>1, <3>2 DEF present, dbg, late
  <2> QED
    BY <2>5 DEF HookAt
<1> QED
  BY <1>2, HookInvFrom

LEMMA TrapGiven ==
  ASSUME TypeOK, TrapInv, NEW ks \in SUBSET Keys, \A k \in ks : reg[k] # Absent, Release(ks),
         \A k \in Keys \ ks : TrapsOf(reg[k]) \subseteq Owned(reg', held'),
         TrapsOf(held) \subseteq Owned(reg', held')
  PROVE  TrapInv'
<1> DEFINE ids == UNION {reg[k].traps : k \in ks}
<1>1. traps' = trap_remove(traps, ids) /\ traps \in Traps
  BY DEF Release, RemoveTraps, TypeOK
<1>2. \A k \in ks : TrapsOf(reg[k]) \subseteq ids
  BY DEF TrapsOf
<1> HIDE DEF ids
<1>3. Shrinks(traps, traps', ids)
  BY <1>1, TrapRemoveFacts DEF TrapInv, LiveUsed
<1>4. Owned(reg, held) \ ids \subseteq Owned(reg', held')
  BY <1>2, OwnedIs
<1> QED
  BY <1>3, <1>4, TrapsGiven

\* The usual case: the plugins leave the registry or stay in it empty.
LEMMA OwnersGone ==
  ASSUME HostInv, TypeOK', NEW ks \in SUBSET Keys, \A k \in ks : reg[k] # Absent, Release(ks),
         held' = held, native' = native, mail'.late = mail.late,
         \A k \in ks : /\ \A i \in Ids : BpOf(reg'[k], i) = 0
                       /\ \A a \in Addrs : HookOf(reg'[k], a) = 0,
         \A k \in Keys \ ks : reg'[k] = reg[k]
  PROVE  BpInv' /\ HookInv' /\ TrapInv'
<1>1. TypeOK /\ BpInv /\ HookInv /\ TrapInv
  BY DEF HostInv
<1> DEFINE s == reg'
<1>2. s \in Registry /\ reg' = s
  BY DEF TypeOK, Registry
<1> HIDE DEF s
<1>3. BpInv'
  BY <1>1, <1>2, BpGiven
<1>4. HookInv'
  BY <1>1, <1>2, HookGiven
<1>5. TrapInv'
  BY <1>1, TrapGiven, OwnedIs
<1> QED
  BY <1>3, <1>4, <1>5

LEMMA Inv_cmd_load == ASSUME HostInv, cmd_load PROVE HostInv'
<1>1. TypeOK /\ PhaseInv /\ VotesInv /\ PolicyInv /\ InterestInv /\ BpInv /\ HookInv /\ TrapInv
  BY DEF HostInv
<1>2. TypeOK'
  BY <1>1, Type_cmd_load
<1>3. /\ host.at = "mail" /\ mail.cmds # <<>> /\ mail' = Replied
      /\ UNCHANGED <<reg, held, host, native, bpOwn, hookOwn, traps, pub>>
  BY DEF cmd_load
<1>4. mail'.late = mail.late
  BY <1>1, <1>3, MailFacts
<1>5. SamePlace
  BY <1>3, SamePlaceSame
<1>6. VotesInv' /\ PolicyInv' /\ InterestInv'
  BY <1>2, <1>3, <1>5, Kept, SameReg
<1>7. PhaseInv'
  BY <1>1, <1>3 DEF PhaseInv, PyPresent, TodoPresent, StageInv, CallInv, QuarantineInv
<1>8. BpInv' /\ HookInv' /\ TrapInv'
  BY <1>1, <1>3, <1>4, BpKept, HookKept, TrapKept, SameReg, ShrinksSame
<1> QED
  BY <1>2, <1>3, <1>4, <1>5, <1>6, <1>7, <1>8 DEF HostInv

LEMMA Inv_cmd_unload == ASSUME HostInv, cmd_unload PROVE HostInv'
<1>1. TypeOK /\ PhaseInv /\ VotesInv /\ PolicyInv /\ InterestInv /\ BpInv /\ HookInv /\ TrapInv
  BY DEF HostInv
<1>2. TypeOK'
  BY <1>1, Type_cmd_unload
<1> DEFINE names == ToUnload(Head(mail.cmds))
<1>3. /\ host.at = "mail" /\ mail.cmds # <<>> /\ host \in Host
      /\ \/ mail' = Replied /\ host' = host
         \/ /\ mail' = mail
            /\ \E n \in names : host' = [host EXCEPT !.at = "unload", !.py = TRUE, !.key = n,
                                                    !.todo = names \ {n}]
      /\ UNCHANGED <<reg, held, native, bpOwn, hookOwn, traps, pub>>
  BY <1>1 DEF cmd_unload, TypeOK
<1>4. mail'.late = mail.late
  BY <1>1, <1>3, MailFacts
<1>5. BpInv' /\ HookInv' /\ TrapInv'
  BY <1>1, <1>3, <1>4, BpKept, HookKept, TrapKept, SameReg, ShrinksSame
<1>6. PhaseInv' /\ VotesInv' /\ PolicyInv' /\ InterestInv'
  <2>1. CASE host' = host
    <3>1. SamePlace
      BY <2>1, SamePlaceSame
    <3>2. VotesInv' /\ PolicyInv' /\ InterestInv'
      BY <1>2, <1>3, <3>1, Kept, SameReg
    <3>3. PhaseInv'
      BY <1>1, <1>3, <2>1 DEF PhaseInv, PyPresent, TodoPresent, StageInv, CallInv, QuarantineInv
    <3> QED
      BY <3>2, <3>3
  <2>2. ASSUME mail' = mail, NEW k \in names,
               host' = [host EXCEPT !.at = "unload", !.py = TRUE, !.key = k, !.todo = names \ {k}]
        PROVE  PhaseInv' /\ VotesInv' /\ PolicyInv' /\ InterestInv'
    <3>1. names \in SUBSET Names /\ \A n \in names : reg[n] # Absent
      BY DEF ToUnload
    <3> HIDE DEF names
    <3>2. k \in names
      BY <2>2
    <3>3. /\ host'.at = "unload" /\ host'.py /\ host'.key = k
          /\ host'.todo = names \ {k}
          /\ host'.call = host.call /\ host'.merged = host.merged /\ host'.votes = host.votes
          /\ host'.target = host.target /\ host'.valid = host.valid /\ host'.changed = host.changed
      BY <1>3, <2>2 DEF Host
    <3>4. VotesInv'
      BY <1>1, <3>3, VotesKept
    <3>5. PolicyInv'
      BY <1>1, <1>2, <1>3, <3>3, PolicyKept, SameReg
    <3>6. InterestInv'
      BY <1>1, <1>3, <3>3, InterestKept, SameReg
    <3>7. PyPresent' /\ TodoPresent'
      BY <1>3, <3>1, <3>2, <3>3, NamesFacts DEF PyPresent, TodoPresent
    <3>8. reg[Staged] = Absent /\ held = Absent
      BY <1>1, <1>3, Outside
    <3>9. host.call = NoCall /\ host.target = None /\ host.valid
      BY <1>1, <1>3 DEF PhaseInv, CallInv, Idle
    <3>10. QuarantineInv'
      BY <1>1, <1>3, QuarantineKept
    <3>11. PhaseInv'
      BY <1>3, <2>2, <3>3, <3>7, <3>8, <3>9, <3>10, PhaseNow DEF Idle
    <3> QED
      BY <3>4, <3>5, <3>6, <3>11
  <2> QED
    BY <1>3, <2>1, <2>2
<1> QED
  BY <1>2, <1>3, <1>4, <1>5, <1>6 DEF HostInv

LEMMA Inv_retire_plugin == ASSUME HostInv, retire_plugin PROVE HostInv'
<1>1. TypeOK /\ PhaseInv /\ VotesInv /\ PolicyInv /\ InterestInv /\ BpInv /\ HookInv /\ TrapInv
  BY DEF HostInv
<1>2. TypeOK'
  BY <1>1, Type_retire_plugin
<1>3. /\ host.at = "unload" /\ host.py /\ host.call = NoCall /\ host \in Host
      /\ host.key \in Keys /\ host.key # Staged /\ reg[host.key] # Absent /\ host.key \notin host.todo
      /\ \/ host' = AtMail /\ mail' = Replied
         \/ mail' = mail /\ \E n \in host.todo : host' = CallPlugin(n)
      /\ UNCHANGED <<held, native>>
  BY <1>1, MeFacts DEF retire_plugin, TypeOK
<1>4. mail.cmds # <<>> /\ host.target = None
  BY <1>1, <1>3 DEF PhaseInv, CallInv
<1>5. mail'.late = mail.late
  BY <1>1, <1>3, <1>4, MailFacts
<1>6. \E flushed \in BOOLEAN :
            /\ reg' = [reg EXCEPT ![host.key] = Absent] /\ Release({host.key})
            /\ pub' = refresh(reg', publish_interests(reg', pub), flushed)
  BY <1>1, RetireFacts
<1>7. /\ reg'[host.key] = Absent /\ (\A k \in Keys : k # host.key => reg'[k] = reg[k])
      /\ reg \in Registry /\ reg' \in Registry /\ pub \in Published
  BY <1>1, <1>2, <1>3, <1>6 DEF TypeOK, Registry
<1>8. BpInv' /\ HookInv' /\ TrapInv'
  <2> DEFINE ks == {host.key}
  <2>1. /\ ks \in SUBSET Keys /\ \A k \in ks : reg[k] # Absent
        /\ Release(ks)
        /\ \A k \in ks : /\ \A i \in Ids : BpOf(reg'[k], i) = 0
                         /\ \A a \in Addrs : HookOf(reg'[k], a) = 0
        /\ \A k \in Keys \ ks : reg'[k] = reg[k]
    BY <1>3, <1>6, <1>7 DEF BpOf, HookOf
  <2> HIDE DEF ks
  <2> QED
    BY <1>2, <1>3, <1>5, <2>1, OwnersGone
<1>9. Disjoint(reg')
  <2>1. \A k \in Running(reg') : k \in Running(reg) /\ reg'[k].policy = reg[k].policy
    BY <1>7 DEF Running
  <2>2. Disjoint(reg)
    BY <1>1 DEF PolicyInv
  <2> QED
    BY <1>7, <2>1, <2>2, DisjointShrinks
<1>10. \/ /\ ~host'.py /\ host'.at = "mail" /\ host'.todo = {} /\ VotesInv'
       \/ /\ host'.at = "unload" /\ host'.key \in host.todo /\ host'.todo = host.todo \ {host'.key}
          /\ mail' = mail /\ VotesInv'
  <2>1. CASE host' = AtMail
    BY <2>1, AtMailType, VotesReset
  <2>2. CASE mail' = mail /\ \E n \in host.todo : host' = CallPlugin(n)
    <3>1. /\ host'.at = "unload" /\ host'.key \in host.todo /\ host'.todo = host.todo \ {host'.key}
          /\ host'.merged = host.merged /\ host'.votes = host.votes
      <4>1. PICK n \in host.todo : host' = CallPlugin(n)
        BY <2>2
      <4>2. InCall(host', n)
        BY <1>3, <4>1, InCallFacts
      <4> QED
        BY <1>3, <4>2 DEF InCall
    <3> QED
      BY <1>1, <2>2, <3>1, VotesKept
  <2> QED
    BY <1>3, <2>1, <2>2
<1>11. host'.call = NoCall /\ host'.target = None /\ host'.valid
  <2>1. host.valid
    BY <1>1, <1>4 DEF PhaseInv, CallInv
  <2> QED
    <3>1. CASE host' = AtMail
      BY <3>1, AtMailType
    <3>2. CASE \E n \in host.todo : host' = CallPlugin(n)
      <4>1. PICK n \in host.todo : host' = CallPlugin(n)
        BY <3>2
      <4>2. InCall(host', n)
        BY <1>3, <4>1, InCallFacts
      <4> QED
        BY <1>3, <1>4, <2>1, <4>2 DEF InCall
    <3> QED
      BY <1>3, <3>1, <3>2
<1>12. PhaseInv'
  <2>1. \A n \in host.todo : n \in Keys /\ reg'[n] # Absent
    BY <1>1, <1>3, <1>7, HostFields, NamesFacts DEF PhaseInv, TodoPresent
  <2>2. PyPresent' /\ TodoPresent'
    BY <1>10, <2>1 DEF PyPresent, TodoPresent
  <2>3. QuarantineInv'
    BY <1>1, <1>7, QuarantineKept
  <2>4. reg[Staged] = Absent /\ held = Absent
    BY <1>1, <1>3, Outside
  <2>5. reg'[Staged] = Absent /\ held' = Absent
    BY <1>3, <1>7, <2>4, NamesFacts
  <2> QED
    BY <1>4, <1>10, <1>11, <2>2, <2>3, <2>5, PhaseNow DEF Idle
<1>13. PolicyInv' /\ InterestInv'
  BY <1>2, <1>6, <1>7, <1>9, <1>10, <1>12, RefreshedAll, InterestsPublished
<1> QED
  BY <1>2, <1>3, <1>4, <1>5, <1>6, <1>7, <1>8, <1>9, <1>10, <1>11, <1>12, <1>13 DEF HostInv

LEMMA Inv_BeginTick == ASSUME HostInv, BeginTick PROVE HostInv'
<1>1. TypeOK /\ PhaseInv /\ VotesInv /\ PolicyInv /\ InterestInv /\ BpInv /\ HookInv /\ TrapInv
  BY DEF HostInv
<1>2. TypeOK'
  BY <1>1, Type_BeginTick
<1>3. /\ host.at = "mail" /\ pending \in Seq(Names)
      /\ host' = [AtMail EXCEPT !.at = "exec", !.batch = pending]
      /\ UNCHANGED <<reg, held, mail, native, bpOwn, hookOwn, traps, pub>>
  BY <1>1 DEF BeginTick, TypeOK
<1>4. /\ host'.at = "exec" /\ ~host'.py /\ host'.todo = {} /\ host'.call = NoCall
      /\ host'.merged = None /\ host'.votes = {} /\ host'.target = None /\ host'.valid
  BY <1>3 DEF AtMail
<1>5. host.target = None /\ host.valid /\ reg[Staged] = Absent /\ held = Absent
  BY <1>1, <1>3, Outside DEF PhaseInv, CallInv
<1>6. QuarantineInv'
  BY <1>1, <1>3, QuarantineKept
<1>7. PhaseInv'
  BY <1>3, <1>4, <1>5, <1>6, PhaseNow DEF PyPresent, TodoPresent
<1>8. VotesInv'
  BY <1>4, VotesReset
<1>9. PolicyInv'
  BY <1>1, <1>2, <1>3, <1>4, <1>5, PolicyKept, SameReg
<1>10. InterestInv'
  BY <1>1, <1>3, <1>4, <1>5, InterestKept, SameReg
<1>11. BpInv' /\ HookInv' /\ TrapInv'
  BY <1>1, <1>3, BpKept, HookKept, TrapKept, SameReg, ShrinksSame
<1> QED
  BY <1>2, <1>3, <1>4, <1>5, <1>6, <1>7, <1>8, <1>9, <1>10, <1>11 DEF HostInv

LEMMA Inv_ExecLoads == ASSUME HostInv, ExecLoads PROVE HostInv'
<1>1. TypeOK /\ PhaseInv /\ VotesInv /\ PolicyInv /\ InterestInv /\ BpInv /\ HookInv /\ TrapInv
  BY DEF HostInv
<1>2. TypeOK'
  BY <1>1, Type_ExecLoads
<1>3. /\ host.at = "exec" /\ host.py /\ host.call = NoCall /\ host.key # Staged /\ host' = ExecDone /\ host \in Host
      /\ UNCHANGED <<reg, held, mail, native, bpOwn, hookOwn, traps, pub>>
  BY <1>1 DEF ExecLoads, TypeOK
<1>4. host.batch # <<>> /\ host.todo = {} /\ host.target = None /\ host.valid /\ reg[Staged] = Absent /\ held = Absent
  BY <1>1, <1>3, Outside DEF PhaseInv, CallInv, StageInv
<1>5. /\ host'.at = "exec" /\ ~host'.py /\ host'.todo = host.todo /\ host'.call = host.call
      /\ host'.merged = host.merged /\ host'.votes = host.votes /\ host'.target = host.target
      /\ host'.valid = host.valid
  BY <1>3, <1>4, ExecDoneFacts
<1>6. QuarantineInv'
  BY <1>1, <1>3, QuarantineKept
<1>7. PhaseInv'
  BY <1>1, <1>3, <1>4, <1>5, <1>6, PhaseNow DEF PyPresent, TodoPresent, PhaseInv
<1>8. VotesInv'
  BY <1>1, <1>5, VotesKept
<1>9. PolicyInv'
  BY <1>1, <1>2, <1>3, <1>4, <1>5, PolicyKept, SameReg
<1>10. InterestInv'
  BY <1>1, <1>3, <1>4, <1>5, InterestKept, SameReg
<1>11. BpInv' /\ HookInv' /\ TrapInv'
  BY <1>1, <1>3, BpKept, HookKept, TrapKept, SameReg, ShrinksSame
<1> QED
  BY <1>2, <1>3, <1>4, <1>5, <1>6, <1>7, <1>8, <1>9, <1>10, <1>11 DEF HostInv

\* A plugin that has asked for nothing yet changes nothing that is published.
LEMMA FreshSame ==
  ASSUME NEW r \in Registry, NEW s \in Registry, NEW key \in Keys, r[key] = Absent,
         \A k \in Keys : k # key => s[k] = r[k], s[key] \in Plugin, s[key].state # "error",
         \A k \in PolicyKinds : s[key].policy[k] = NoSpec,
         \A t \in Targets : s[key].decisions[t] = 0
  PROVE  /\ \A k \in PolicyKinds : /\ Merged(Specs(s)[k]) = Merged(Specs(r)[k])
                                   /\ Overlap(Specs(s)[k]) => Overlap(Specs(r)[k])
         /\ Interests(s) = Interests(r) /\ Failed(s) = Failed(r)
<1>1. ASSUME NEW k \in PolicyKinds
      PROVE  /\ Merged(Specs(s)[k]) = Merged(Specs(r)[k])
             /\ Overlap(Specs(s)[k]) => Overlap(Specs(r)[k])
  <2> DEFINE f == Specs(r)[k]
             g == Specs(s)[k]
  <2>1. /\ f = [p \in Running(r) |-> r[p].policy[k]]
        /\ g = [p \in Running(s) |-> s[p].policy[k]]
    BY SpecsFacts DEF Registry
  <2>2. /\ \A p \in DOMAIN f : p \in DOMAIN g /\ g[p] = f[p]
        /\ \A p \in DOMAIN g : g[p] # NoSpec => p \in DOMAIN f /\ g[p] = f[p]
    BY <2>1 DEF Running
  <2> HIDE DEF f, g
  <2>3. {g[p] : p \in {x \in DOMAIN g : g[x] # NoSpec}} = {f[p] : p \in {x \in DOMAIN f : f[x] # NoSpec}}
    BY <2>2
  <2>4. Merged(g) = Merged(f)
    BY <2>3 DEF Merged
  <2>5. Overlap(g) => Overlap(f)
    BY <2>2 DEF Overlap
  <2> QED
    BY <2>4, <2>5 DEF f, g
<1>2. Interests(s) = Interests(r)
  <2>1. ASSUME NEW u \in Keys \X Targets PROVE u \in Interests(s) <=> u \in Interests(r)
    BY DEF Interests, Running
  <2>2. Interests(s) \subseteq Keys \X Targets /\ Interests(r) \subseteq Keys \X Targets
    BY DEF Interests, Running
  <2> QED
    BY <2>1, <2>2
<1>3. Failed(s) = Failed(r)
  BY NamesFacts DEF Failed
<1> QED
  BY <1>1, <1>2, <1>3

LEMMA Inv_ExecBegin == ASSUME HostInv, ExecBegin PROVE HostInv'
<1>1. TypeOK /\ PhaseInv /\ VotesInv /\ PolicyInv /\ InterestInv /\ BpInv /\ HookInv /\ TrapInv
  BY DEF HostInv
<1>2. TypeOK'
  BY <1>1, Type_ExecBegin
<1> DEFINE n == Head(host.batch)
           key == IF reg[n] = Absent THEN n ELSE Staged
           state == IF key = n THEN "running" ELSE "staging"
<1>3. /\ host.at = "exec" /\ ~host.py /\ host.batch # <<>> /\ host \in Host /\ pub \in Published
      /\ UNCHANGED <<held, mail, native, bpOwn, hookOwn, traps, pub>>
  BY <1>1 DEF ExecBegin, TypeOK
<1>4. /\ n \in Names /\ n \in Keys /\ n # Staged /\ key \in Keys
      /\ \E gen \in Nat : reg' = [reg EXCEPT ![key] = FreshPlugin(state, gen)]
      /\ host' = [host EXCEPT !.py = TRUE, !.key = key]
  BY <1>1, <1>3, ExecBeginFacts, BatchHead
<1>5. reg[Staged] = Absent /\ held = Absent /\ host.target = None /\ host.valid /\ host.call = NoCall /\ host.todo = {}
  BY <1>1, <1>3, Outside DEF PhaseInv, CallInv, StageInv
<1>6. reg[key] = Absent /\ (key = Staged => reg[n] # Absent) /\ state \in {"running", "error", "staging", "replacing"} /\ state \in {"running", "staging"} /\ (key = Staged => state = "staging")
  BY <1>4, <1>5
<1> HIDE DEF key, state
<1>7. /\ (\A k \in Keys : k # key => reg'[k] = reg[k]) /\ reg \in Registry /\ reg' \in Registry
      /\ reg'[key] \in Plugin /\ reg'[key].state = state /\ ~reg'[key].quarantined
      /\ reg'[key].bps = {} /\ reg'[key].traps = {}
      /\ (\A a \in Addrs : reg'[key].events[a] = 0) /\ (\A t \in Targets : reg'[key].decisions[t] = 0)
      /\ (\A k \in PolicyKinds : reg'[key].policy[k] = NoSpec)
  <2>1. PICK gen \in Nat : reg' = [reg EXCEPT ![key] = FreshPlugin(state, gen)]
    BY <1>4
  <2> DEFINE f == FreshPlugin(state, gen)
  <2>2. reg' = [reg EXCEPT ![key] = f] /\ reg \in Registry /\ reg' \in Registry
    BY <1>1, <1>2, <2>1 DEF TypeOK, Registry
  <2>3. /\ f \in Plugin /\ f.state = state /\ ~f.quarantined /\ f.bps = {} /\ f.traps = {}
        /\ (\A a \in Addrs : f.events[a] = 0) /\ (\A t \in Targets : f.decisions[t] = 0)
        /\ (\A k \in PolicyKinds : f.policy[k] = NoSpec)
    BY <1>6, <2>1, FreshFacts
  <2> HIDE DEF f
  <2>4. reg'[key] = f /\ \A k \in Keys : k # key => reg'[k] = reg[k]
    BY <1>4, <2>2 DEF Registry
  <2> QED
    BY <2>2, <2>3, <2>4
<1>8. /\ host'.at = "exec" /\ host'.py /\ host'.key = key /\ host'.todo = host.todo /\ host'.batch = host.batch
      /\ host'.call = host.call /\ host'.merged = host.merged /\ host'.votes = host.votes
      /\ host'.target = host.target /\ host'.valid = host.valid
  BY <1>3, <1>4 DEF Host
<1>9. reg'[key] # Absent
  BY <1>7, NamesFacts
<1>10. PhaseInv'
  <2>1. key \notin host.todo /\ \A m \in host.todo : m \in Keys /\ reg[m] # Absent
    BY <1>1, <1>3, <1>6, HostFields, NamesFacts DEF PhaseInv, TodoPresent
  <2>2. PyPresent' /\ TodoPresent'
    BY <1>4, <1>7, <1>8, <1>9, <2>1 DEF PyPresent, TodoPresent
  <2>3. StageInv'
    BY <1>3, <1>4, <1>5, <1>6, <1>7, <1>8, NamesFacts DEF StageInv
  <2>4. CallInv'
    BY <1>5, <1>8 DEF CallInv, Idle
  <2>5. QuarantineInv'
    BY <1>1, <1>7, QuarantineKept
  <2> QED
    BY <2>2, <2>3, <2>4, <2>5 DEF PhaseInv
<1>11. VotesInv'
  BY <1>1, <1>8, VotesKept
<1>12. (\A k \in PolicyKinds : Merged(Specs(reg')[k]) = Merged(Specs(reg)[k]) /\ (Overlap(Specs(reg')[k]) => Overlap(Specs(reg)[k])))
         /\ Interests(reg') = Interests(reg) /\ Failed(reg') = Failed(reg)
  <2>1. /\ reg \in Registry /\ reg' \in Registry /\ key \in Keys /\ reg[key] = Absent
        /\ \A k \in Keys : k # key => reg'[k] = reg[k]
        /\ reg'[key] \in Plugin /\ reg'[key].state # "error"
        /\ \A k \in PolicyKinds : reg'[key].policy[k] = NoSpec
        /\ \A t \in Targets : reg'[key].decisions[t] = 0
    BY <1>4, <1>6, <1>7
  <2> QED
    BY <2>1, FreshSame
<1>13. PolicyInv'
  <2>1. Disjoint(reg) /\ Current(reg, pub)
    BY <1>1, <1>3, <1>5 DEF PolicyInv
  <2>2. Disjoint(reg')
    BY <1>12, <2>1 DEF Disjoint, Ranged, PolicyKinds
  <2>3. Current(reg', pub')
    BY <1>3, <1>12, <2>1 DEF Current
  <2> QED
    BY <1>8, <2>2, <2>3 DEF PolicyInv
<1>14. InterestInv'
  <2>1. Interests(reg)' = Interests(reg) /\ Failed(reg)' = Failed(reg)
    BY <1>12
  <2> QED
    BY <1>1, <1>3, <1>5, <1>8, <2>1 DEF InterestInv
<1>15. SameBps(reg, reg') /\ SameHooks(reg, reg') /\ KeepTraps(reg, reg')
  BY <1>6, <1>7, <1>9, NamesFacts DEF SameBps, SameHooks, KeepTraps, BpOf, HookOf, TrapsOf
<1>16. BpInv' /\ HookInv' /\ TrapInv'
  BY <1>1, <1>3, <1>15, BpKept, HookKept, TrapKept, ShrinksSame
<1> QED
  BY <1>2, <1>3, <1>4, <1>5, <1>6, <1>7, <1>8, <1>9, <1>10, <1>11, <1>12, <1>13, <1>14, <1>15, <1>16 DEF HostInv

\* A staged plugin is dropped, with everything it acquired.
LEMMA StagedGone ==
  ASSUME HostInv, TypeOK', host.at = "exec", host.py, host.call = NoCall, host.key = Staged, host' = ExecDone,
         reg' = [reg EXCEPT ![Staged] = Absent], Release({Staged}),
         UNCHANGED <<held, mail, native>>, NEW p \in Published, NEW flushed \in BOOLEAN,
         pub' = refresh(reg', publish_interests(reg', p), flushed)
  PROVE  HostInv'
<1>1. TypeOK /\ PhaseInv /\ VotesInv /\ PolicyInv /\ host \in Host
  BY DEF HostInv, TypeOK
<1>2. host.batch # <<>> /\ host.todo = {} /\ host.target = None /\ host.valid /\ held = Absent /\ reg[Staged] # Absent
  BY <1>1 DEF PhaseInv, CallInv, StageInv, PyPresent
<1>3. /\ host'.at = "exec" /\ ~host'.py /\ host'.todo = host.todo /\ host'.call = host.call
      /\ host'.merged = host.merged /\ host'.votes = host.votes /\ host'.target = host.target
      /\ host'.valid = host.valid
  BY <1>1, <1>2, ExecDoneFacts
<1>4. /\ reg'[Staged] = Absent /\ (\A k \in Keys : k # Staged => reg'[k] = reg[k])
      /\ reg \in Registry /\ reg' \in Registry /\ Staged \in Keys
  BY <1>1, NamesFacts DEF TypeOK, Registry
<1>5. BpInv' /\ HookInv' /\ TrapInv'
  <2> DEFINE ks == {Staged}
  <2>1. /\ ks \in SUBSET Keys /\ \A k \in ks : reg[k] # Absent
        /\ Release(ks)
        /\ \A k \in ks : /\ \A i \in Ids : BpOf(reg'[k], i) = 0
                         /\ \A a \in Addrs : HookOf(reg'[k], a) = 0
        /\ \A k \in Keys \ ks : reg'[k] = reg[k]
    BY <1>2, <1>4 DEF BpOf, HookOf
  <2> HIDE DEF ks
  <2> QED
    BY <2>1, OwnersGone
<1>6. Disjoint(reg')
  <2>1. \A k \in Running(reg') : k \in Running(reg) /\ reg'[k].policy = reg[k].policy
    BY <1>4 DEF Running
  <2>2. Disjoint(reg)
    BY <1>1 DEF PolicyInv
  <2> QED
    BY <1>4, <2>1, <2>2, DisjointShrinks
<1>7. PhaseInv'
  <2>1. \A n \in host.todo : n \in Keys /\ n # Staged
    BY <1>1, HostFields, NamesFacts
  <2>2. PyPresent' /\ TodoPresent'
    BY <1>1, <1>3, <1>4, <2>1 DEF PyPresent, TodoPresent, PhaseInv
  <2>3. QuarantineInv'
    BY <1>1, <1>4, QuarantineKept
  <2> QED
    BY <1>2, <1>3, <1>4, <2>2, <2>3, PhaseNow
<1>8. PolicyInv' /\ InterestInv'
  BY <1>3, <1>6, <1>7, RefreshedAll, InterestsPublished
<1>9. VotesInv'
  BY <1>1, <1>3, VotesKept
<1> QED
  BY <1>5, <1>7, <1>8, <1>9 DEF HostInv

LEMMA Inv_ReplaceRejected == ASSUME HostInv, ReplaceRejected PROVE HostInv'
<1>1. TypeOK /\ PhaseInv /\ VotesInv /\ PolicyInv /\ InterestInv /\ BpInv /\ HookInv /\ TrapInv
  BY DEF HostInv
<1>2. TypeOK'
  BY <1>1, Type_ReplaceRejected
<1>3. /\ host.at = "exec" /\ host.py /\ host.call = NoCall /\ host.key = Staged /\ host' = ExecDone
      /\ UNCHANGED <<held, mail, native>>
  BY DEF ReplaceRejected
<1>4. /\ reg' = [reg EXCEPT ![Staged] = Absent] /\ Release({Staged})
      /\ \E tried \in Published : \E again \in BOOLEAN :
            pub' = refresh(reg', publish_interests(reg', tried), again)
  BY <1>1, RejectedFacts
<1>5. HostInv'
  BY <1>2, <1>3, <1>4, StagedGone
<1> QED
  BY <1>2, <1>3, <1>4, <1>5 DEF HostInv

LEMMA Inv_ExecFails == ASSUME HostInv, ExecFails PROVE HostInv'
<1>1. TypeOK /\ PhaseInv /\ VotesInv /\ PolicyInv /\ InterestInv /\ BpInv /\ HookInv /\ TrapInv
  BY DEF HostInv
<1>2. TypeOK'
  BY <1>1, Type_ExecFails
<1>3. /\ host.at = "exec" /\ host.py /\ host.call = NoCall /\ host' = ExecDone
      /\ UNCHANGED <<held, mail, native>> /\ host \in Host /\ pub \in Published
  BY <1>1 DEF ExecFails, TypeOK
<1>4. /\ \/ /\ host.key = Staged /\ reg' = [reg EXCEPT ![Staged] = Absent] /\ Release({Staged})
         \/ /\ host.key # Staged /\ reg' = [reg EXCEPT ![host.key].state = "error"]
            /\ UNCHANGED <<bpOwn, hookOwn, traps>>
      /\ \E flushed \in BOOLEAN : pub' = refresh(reg', publish_interests(reg', pub), flushed)
  BY <1>1, ExecFailsFacts
<1>5. ASSUME host.key = Staged PROVE HostInv'
  BY <1>2, <1>3, <1>4, <1>5, StagedGone
<1>6. ASSUME host.key # Staged PROVE HostInv'
  <2>1. reg' = [reg EXCEPT ![host.key].state = "error"] /\ UNCHANGED <<bpOwn, hookOwn, traps>>
    BY <1>4, <1>6
  <2>2. host.key \in Keys /\ Me \in Plugin /\ reg[host.key] = Me
    BY <1>1, <1>3, MeFacts
  <2> DEFINE p == [Me EXCEPT !.state = "error"]
  <2>3. SetMe(p)
    BY <2>1, <2>2 DEF SetMe, Me
  <2>4. /\ p \in Plugin /\ p.state = "error" /\ p.bps = Me.bps /\ p.traps = Me.traps
        /\ p.events = Me.events /\ p.decisions = Me.decisions /\ p.policy = Me.policy
    BY <2>2, StateFacts
  <2> HIDE DEF p
  <2>5. SameBps(reg, reg') /\ SameHooks(reg, reg') /\ KeepTraps(reg, reg')
    BY <1>1, <2>2, <2>3, <2>4, SetFacts
  <2>6. BpInv' /\ HookInv' /\ TrapInv'
    BY <1>1, <1>3, <2>1, <2>5, BpKept, HookKept, TrapKept, ShrinksSame
  <2>7. reg'[host.key] = p /\ (\A k \in Keys : k # host.key => reg'[k] = reg[k]) /\ reg \in Registry /\ reg' \in Registry
    BY <1>1, <2>2, <2>3, <2>4, SetMeType DEF TypeOK, Registry
  <2>8. Disjoint(reg')
    <3>1. \A k \in Running(reg') : k \in Running(reg) /\ reg'[k].policy = reg[k].policy
      BY <2>2, <2>4, <2>7 DEF Running
    <3>2. Disjoint(reg)
      BY <1>1 DEF PolicyInv
    <3> QED
      BY <2>7, <3>1, <3>2, DisjointShrinks
  <2>9. host.batch # <<>> /\ host.todo = {} /\ host.target = None /\ host.valid /\ held = Absent /\ reg[Staged] = Absent
    BY <1>1, <1>3, <1>6 DEF PhaseInv, CallInv, StageInv
  <2>10. /\ host'.at = "exec" /\ ~host'.py /\ host'.todo = host.todo /\ host'.call = host.call
         /\ host'.merged = host.merged /\ host'.votes = host.votes /\ host'.target = host.target
         /\ host'.valid = host.valid
    BY <1>3, <2>9, ExecDoneFacts
  <2>11. PhaseInv'
    <3>1. \A n \in host.todo : n \in Keys
      BY <1>3, HostFields, NamesFacts
    <3>2. PyPresent' /\ TodoPresent'
      BY <1>1, <2>4, <2>7, <2>10, <3>1, NamesFacts DEF PyPresent, TodoPresent, PhaseInv
    <3>3. QuarantineInv'
      BY <1>1, <2>4, <2>7, QuarantineKept
    <3>4. reg'[Staged] = Absent
      BY <1>6, <2>7, <2>9, NamesFacts
    <3> QED
      BY <1>3, <2>9, <2>10, <3>2, <3>3, <3>4, PhaseNow DEF Idle
  <2>12. PolicyInv' /\ InterestInv'
    BY <1>2, <1>3, <1>4, <2>8, <2>10, <2>11, RefreshedAll, InterestsPublished
  <2>13. VotesInv'
    BY <1>1, <2>10, VotesKept
  <2> QED
    BY <1>2, <2>6, <2>11, <2>12, <2>13 DEF HostInv
<1> QED
  BY <1>2, <1>3, <1>4, <1>5, <1>6 DEF HostInv

LEMMA BpTotals ==
  ASSUME BpInv, bpOwn' = bpOwn, native' = native, mail' = mail,
         \A i \in Ids : Total(BpCounts(reg', held', i)) = Total(BpCounts(reg, held, i))
  PROVE  BpInv'
<1>1. \A i \in Ids : BpAt(i)'
  BY BpInvIs DEF BpAt
<1>2. Unissued'
  BY BpInvIs DEF Unissued
<1> QED
  BY <1>1, <1>2, BpInvFrom

LEMMA HookTotals ==
  ASSUME HookInv, hookOwn' = hookOwn, native' = native, mail' = mail,
         \A a \in Addrs : Total(HookCounts(reg', held', a)) = Total(HookCounts(reg, held, a))
  PROVE  HookInv'
<1>1. \A a \in Addrs : HookAt(a)'
  BY HookInvIs DEF HookAt
<1> QED
  BY <1>1, HookInvFrom

\* Policies that were published without an error do not overlap.
LEMMA CheckedDisjoint ==
  ASSUME NEW r, NEW old, ~publish_checked_fails(Specs(r), old, TRUE)
  PROVE  Disjoint(r)
<1> SUFFICES ASSUME NEW k \in Ranged, Overlap(Specs(r)[k]) PROVE FALSE
  BY DEF Disjoint
<1>1. k \in PolicyKinds
  BY DEF Ranged, PolicyKinds
<1> DEFINE yes == TRUE
           specs == Specs(r)[k]
<1>2. yes \in BOOLEAN /\ ~publish(k, specs, old[k], yes).failed
  BY <1>1 DEF publish_checked_fails, publish_all
<1> HIDE DEF yes, specs
<1>3. Overlap(specs) => publish(k, specs, old[k], yes).failed
  BY <1>1, <1>2, PublishFacts
<1> QED
  BY <1>2, <1>3 DEF specs

\* A staged plugin that takes the place of the one under n overlaps nothing that
\* it did not overlap as a plugin of its own.
LEMMA CommitDisjoint ==
  ASSUME NEW r \in Registry, NEW s \in Registry, NEW n \in Names, Disjoint(r),
         s[n] = r[Staged], s[Staged] = Absent,
         \A k \in Keys : k \notin {n, Staged} => s[k] = r[k]
  PROVE  Disjoint(s)
<1> SUFFICES ASSUME NEW k \in Ranged, Overlap(Specs(s)[k]) PROVE Overlap(Specs(r)[k])
  BY DEF Disjoint
<1>1. k \in PolicyKinds /\ Staged \in Keys /\ n # Staged /\ n \in Keys
  BY NamesFacts DEF Ranged, PolicyKinds
<1> DEFINE f == Specs(r)[k]
           g == Specs(s)[k]
           From(x) == IF x = n THEN Staged ELSE x
<1>2. f = [p \in Running(r) |-> r[p].policy[k]] /\ g = [p \in Running(s) |-> s[p].policy[k]]
  BY <1>1, SpecsFacts DEF Registry
<1>3. \A x \in DOMAIN g : x # Staged /\ From(x) \in DOMAIN f /\ f[From(x)] = g[x]
  BY <1>1, <1>2 DEF Running
<1>4. \A x \in DOMAIN g, y \in DOMAIN g : x # y => From(x) # From(y)
  BY <1>3
<1> HIDE DEF f, g, From
<1>5. PICK x \in DOMAIN g, y \in DOMAIN g : x # y /\ g[x] # NoSpec /\ g[y] # NoSpec /\ g[x] \cap g[y] # {}
  BY DEF g, Overlap
<1>6. From(x) \in DOMAIN f /\ From(y) \in DOMAIN f /\ From(x) # From(y) /\ f[From(x)] = g[x] /\ f[From(y)] = g[y]
  BY <1>3, <1>4, <1>5
<1>7. Overlap(f)
  BY <1>5, <1>6 DEF Overlap
<1> QED
  BY <1>7 DEF f

LEMMA Inv_ReplaceAccepted == ASSUME HostInv, ReplaceAccepted PROVE HostInv'
<1>1. TypeOK /\ PhaseInv /\ VotesInv /\ PolicyInv /\ InterestInv /\ BpInv /\ HookInv /\ TrapInv
  BY DEF HostInv
<1>2. TypeOK'
  BY <1>1, Type_ReplaceAccepted
<1> DEFINE n == Head(host.batch)
<1>3. /\ host.at = "exec" /\ host.py /\ host.call = NoCall /\ host.key = Staged /\ host \in Host
      /\ UNCHANGED <<mail, native, bpOwn, hookOwn, traps>>
  BY <1>1 DEF ReplaceAccepted, TypeOK
<1>4. /\ ~publish_checked_fails(Specs(Switched(n)), pub.policy, TRUE)
      /\ held' = Switched(n)[Staged] /\ reg' = [Switched(n) EXCEPT ![Staged] = Absent]
      /\ host' = [host EXCEPT !.at = "commit", !.key = n] /\ pub'.interests = pub.interests
  BY <1>1, AcceptedFacts
<1>5. /\ n \in Names /\ n \in Keys /\ n # Staged
      /\ reg[n] \in Plugin /\ reg[n] # Absent /\ reg[Staged] \in Plugin /\ reg[Staged] # Absent
      /\ Switched(n) \in Registry
      /\ Switched(n)[n] = [reg[n] EXCEPT !.state = "replacing"]
      /\ Switched(n)[Staged] = [reg[Staged] EXCEPT !.state = "running"]
      /\ (\A k \in Keys : k \notin {n, Staged} => Switched(n)[k] = reg[k])
  <2>1. n = Head(host.batch)
    OBVIOUS
  <2> HIDE DEF n
  <2> QED
    BY <1>1, <1>3, <2>1, SwitchedFacts DEF Registry
<1> HIDE DEF n
<1>6. /\ reg \in Registry /\ reg' \in Registry /\ Staged \in Keys /\ reg'[Staged] = Absent
      /\ reg'[n] = Switched(n)[n] /\ (\A k \in Keys : k \notin {n, Staged} => reg'[k] = reg[k])
      /\ held' = Switched(n)[Staged]
  BY <1>1, <1>2, <1>4, <1>5, NamesFacts DEF Registry, TypeOK
<1>7. /\ reg'[n] \in Plugin /\ reg'[n].state = "replacing" /\ reg'[n].bps = reg[n].bps /\ reg'[n].traps = reg[n].traps
      /\ reg'[n].events = reg[n].events /\ reg'[n].decisions = reg[n].decisions
      /\ reg'[n].quarantined = reg[n].quarantined
  <2> DEFINE q == reg[n]
             st == "replacing"
  <2>1. reg'[n] = [q EXCEPT !.state = st] /\ q \in Plugin /\ st \in {"running", "error", "staging", "replacing"}
    BY <1>5, <1>6
  <2> HIDE DEF q
  <2>2. /\ [q EXCEPT !.state = st] \in Plugin /\ [q EXCEPT !.state = st].state = st
        /\ [q EXCEPT !.state = st].quarantined = q.quarantined
        /\ [q EXCEPT !.state = st].bps = q.bps /\ [q EXCEPT !.state = st].traps = q.traps
        /\ [q EXCEPT !.state = st].events = q.events /\ [q EXCEPT !.state = st].decisions = q.decisions
    BY <2>1, StateFacts
  <2> QED
    BY <2>1, <2>2 DEF q
<1>8. /\ held' \in Plugin /\ held'.state = "running" /\ held'.quarantined = reg[Staged].quarantined
      /\ held'.bps = reg[Staged].bps /\ held'.traps = reg[Staged].traps
      /\ held'.events = reg[Staged].events /\ held'.decisions = reg[Staged].decisions
  <2> DEFINE q == reg[Staged]
             st == "running"
  <2>1. held' = [q EXCEPT !.state = st] /\ q \in Plugin /\ st \in {"running", "error", "staging", "replacing"}
    BY <1>5, <1>6
  <2> HIDE DEF q
  <2>2. /\ [q EXCEPT !.state = st] \in Plugin /\ [q EXCEPT !.state = st].state = st
        /\ [q EXCEPT !.state = st].quarantined = q.quarantined
        /\ [q EXCEPT !.state = st].bps = q.bps /\ [q EXCEPT !.state = st].traps = q.traps
        /\ [q EXCEPT !.state = st].events = q.events /\ [q EXCEPT !.state = st].decisions = q.decisions
    BY <2>1, StateFacts
  <2> QED
    BY <2>1, <2>2 DEF q
<1>9. /\ held = Absent /\ reg[Staged].state = "staging" /\ host.batch # <<>> /\ host.todo = {}
      /\ host.target = None /\ host.valid
  BY <1>1, <1>3, <1>5 DEF PhaseInv, StageInv, CallInv
<1>10. ~reg[Staged].quarantined
  BY <1>1, <1>5, <1>6, <1>9 DEF PhaseInv, QuarantineInv
<1>11. held' # Absent /\ reg'[n] # Absent
  BY <1>7, <1>8, NamesFacts
<1>12. /\ host'.at = "commit" /\ host'.py /\ host'.key = n /\ host'.todo = host.todo /\ host'.batch = host.batch
       /\ host'.call = host.call /\ host'.merged = host.merged /\ host'.votes = host.votes
       /\ host'.target = host.target /\ host'.valid = host.valid
  BY <1>3, <1>4 DEF Host
<1>13. PhaseInv'
  <2>1. PyPresent' /\ TodoPresent'
    BY <1>5, <1>9, <1>11, <1>12 DEF PyPresent, TodoPresent
  <2>2. StageInv'
    BY <1>6, <1>7, <1>8, <1>9, <1>10, <1>11, <1>12 DEF StageInv
  <2>3. CallInv'
    BY <1>3, <1>9, <1>12 DEF CallInv, Idle
  <2>4. QuarantineInv'
    <3>1. \A k \in Keys : reg'[k] = Absent \/ reg'[k] = reg[k] \/ reg'[k].state \in {"error", "replacing"}
      BY <1>6, <1>7
    <3> QED
      BY <1>1, <3>1, QuarantineKept
  <2> QED
    BY <2>1, <2>2, <2>3, <2>4 DEF PhaseInv
<1>14. VotesInv'
  BY <1>1, <1>12, VotesKept
<1>15. PolicyInv'
  <2>1. Disjoint(Switched(n))
    BY <1>4, CheckedDisjoint
  <2> DEFINE r == Switched(n)
  <2>2. r \in Registry /\ Disjoint(r) /\ reg'[n] = r[n] /\ held' = r[Staged] /\ r[n].state = "replacing"
        /\ \A k \in Keys : k \notin {n, Staged} => reg'[k] = r[k]
    BY <1>5, <1>6, <1>7, <2>1
  <2> HIDE DEF r
  <2>3. Disjoint(reg')
    <3>1. \A k \in Running(reg') : k \in Running(r) /\ reg'[k].policy = r[k].policy
      BY <1>6, <2>2 DEF Running
    <3> QED
      BY <1>6, <2>2, <3>1, DisjointShrinks
  <2> DEFINE s == [reg' EXCEPT ![n] = held']
  <2>4. /\ s \in Registry /\ s[n] = r[Staged] /\ s[Staged] = Absent
        /\ \A k \in Keys : k \notin {n, Staged} => s[k] = r[k]
    BY <1>5, <1>6, <1>8, <2>2 DEF Registry
  <2>5. Committed' = s
    BY <1>12 DEF Committed
  <2> HIDE DEF s
  <2>6. Disjoint(s)
    BY <1>5, <2>2, <2>4, CommitDisjoint
  <2>7. Disjoint(Committed')
    BY <2>5, <2>6
  <2> QED
    BY <1>12, <2>3, <2>7 DEF PolicyInv
<1>16. InterestInv'
  BY <1>1, <1>4, <1>12 DEF InterestInv
<1>17. BpInv'
  <2> SUFFICES ASSUME NEW i \in Ids PROVE Total(BpCounts(reg', held', i)) = Total(BpCounts(reg, held, i))
    BY <1>1, <1>3, BpTotals
  <2> DEFINE s == [reg EXCEPT ![Staged] = Absent]
  <2>1. s \in Registry /\ s[Staged] = Absent /\ \A k \in Keys : k # Staged => s[k] = reg[k]
    BY <1>6 DEF Registry
  <2> HIDE DEF s
  <2>2. held \in Plugin \cup {Absent} /\ held' \in Plugin \cup {Absent}
    BY <1>1, <1>2 DEF TypeOK
  <2>3. /\ Total(BpCounts(reg, held, i)) \in Nat /\ Total(BpCounts(s, held, i)) \in Nat
        /\ Total(BpCounts(s, held, i)) + BpOf(reg[Staged], i) = Total(BpCounts(reg, held, i)) + BpOf(s[Staged], i)
    BY <1>6, <2>1, <2>2, BpTotalSet
  <2>4. /\ Total(BpCounts(s, held', i)) \in Nat
        /\ Total(BpCounts(s, held', i)) + BpOf(held, i) = Total(BpCounts(s, held, i)) + BpOf(held', i)
    BY <2>1, <2>2, BpTotalHeld
  <2>5. BpOf(held', i) = BpOf(reg[Staged], i) /\ BpOf(held, i) = 0 /\ BpOf(s[Staged], i) = 0 /\ BpOf(reg[Staged], i) \in Nat
    BY <1>5, <1>8, <1>9, <1>11, <2>1 DEF BpOf
  <2>6. Total(BpCounts(s, held', i)) = Total(BpCounts(reg, held, i))
    BY <2>3, <2>4, <2>5
  <2>7. \A k \in Keys : BpOf(reg'[k], i) = BpOf(s[k], i)
    <3> SUFFICES ASSUME NEW k \in Keys PROVE BpOf(reg'[k], i) = BpOf(s[k], i)
      OBVIOUS
    <3>1. CASE k = n
      <4>1. reg'[k] # Absent /\ s[k] # Absent /\ reg'[k].bps = s[k].bps
        BY <1>5, <1>7, <1>11, <2>1, <3>1
      <4> QED
        BY <4>1 DEF BpOf
    <3>2. CASE k # n
      <4>1. reg'[k] = s[k]
        BY <1>6, <2>1, <3>2
      <4> QED
        BY <4>1
    <3> QED
      BY <3>1, <3>2
  <2>8. BpCounts(reg', held', i) = BpCounts(s, held', i)
    BY <2>7 DEF BpCounts
  <2> QED
    BY <2>6, <2>8
<1>18. HookInv'
  <2> SUFFICES ASSUME NEW i \in Addrs PROVE Total(HookCounts(reg', held', i)) = Total(HookCounts(reg, held, i))
    BY <1>1, <1>3, HookTotals
  <2> DEFINE s == [reg EXCEPT ![Staged] = Absent]
  <2>1. s \in Registry /\ s[Staged] = Absent /\ \A k \in Keys : k # Staged => s[k] = reg[k]
    BY <1>6 DEF Registry
  <2> HIDE DEF s
  <2>2. held \in Plugin \cup {Absent} /\ held' \in Plugin \cup {Absent}
    BY <1>1, <1>2 DEF TypeOK
  <2>3. /\ Total(HookCounts(reg, held, i)) \in Nat /\ Total(HookCounts(s, held, i)) \in Nat
        /\ Total(HookCounts(s, held, i)) + HookOf(reg[Staged], i) = Total(HookCounts(reg, held, i)) + HookOf(s[Staged], i)
    BY <1>6, <2>1, <2>2, HookTotalSet
  <2>4. /\ Total(HookCounts(s, held', i)) \in Nat
        /\ Total(HookCounts(s, held', i)) + HookOf(held, i) = Total(HookCounts(s, held, i)) + HookOf(held', i)
    BY <2>1, <2>2, HookTotalHeld
  <2>5. HookOf(held', i) = HookOf(reg[Staged], i) /\ HookOf(held, i) = 0 /\ HookOf(s[Staged], i) = 0
    BY <1>5, <1>8, <1>9, <1>11, <2>1 DEF HookOf
  <2>6. HookOf(reg[Staged], i) \in Nat
    BY <1>5, HookOfType
  <2>7. Total(HookCounts(s, held', i)) = Total(HookCounts(reg, held, i))
    BY <2>3, <2>4, <2>5, <2>6
  <2>8. \A k \in Keys : HookOf(reg'[k], i) = HookOf(s[k], i)
    <3> SUFFICES ASSUME NEW k \in Keys PROVE HookOf(reg'[k], i) = HookOf(s[k], i)
      OBVIOUS
    <3>1. CASE k = n
      <4>1. /\ reg'[k] # Absent /\ s[k] # Absent
            /\ reg'[k].events = s[k].events /\ reg'[k].decisions = s[k].decisions
        BY <1>5, <1>7, <1>11, <2>1, <3>1
      <4> QED
        BY <4>1 DEF HookOf
    <3>2. CASE k # n
      <4>1. reg'[k] = s[k]
        BY <1>6, <2>1, <3>2
      <4> QED
        BY <4>1
    <3> QED
      BY <3>1, <3>2
  <2>9. HookCounts(reg', held', i) = HookCounts(s, held', i)
    BY <2>8 DEF HookCounts
  <2> QED
    BY <2>7, <2>9
<1>19. TrapInv'
  <2>1. \A k \in Keys : k # Staged => TrapsOf(reg[k]) \subseteq TrapsOf(reg'[k])
    BY <1>5, <1>6, <1>7, <1>11 DEF TrapsOf
  <2>2. TrapsOf(reg[Staged]) \subseteq TrapsOf(held') /\ TrapsOf(held) = {}
    BY <1>5, <1>8, <1>9, <1>11 DEF TrapsOf
  <2>3. Owned(reg, held) \ {} \subseteq Owned(reg', held')
    BY <2>1, <2>2, OwnedIs
  <2>4. Shrinks(traps, traps', {})
    BY <1>3, ShrinksSame
  <2> QED
    BY <1>1, <2>3, <2>4, TrapsGiven
<1> QED
  BY <1>2, <1>3, <1>4, <1>5, <1>6, <1>7, <1>8, <1>9, <1>10, <1>11, <1>12, <1>13, <1>14, <1>15, <1>16, <1>17, <1>18, <1>19 DEF HostInv

LEMMA Inv_ReplaceCommit == ASSUME HostInv, ReplaceCommit PROVE HostInv'
<1>1. TypeOK /\ PhaseInv /\ VotesInv /\ PolicyInv /\ InterestInv /\ BpInv /\ HookInv /\ TrapInv
  BY DEF HostInv
<1>2. TypeOK'
  BY <1>1, Type_ReplaceCommit
<1>3. /\ host.at = "commit" /\ host.key \in Names /\ host.key # Staged /\ host.key \in Keys /\ reg[host.key] # Absent
      /\ held \in Plugin /\ held # Absent
      /\ reg' = Committed /\ Release({host.key}) /\ held' = Absent /\ host' = ExecDone
      /\ (\E flushed \in BOOLEAN : pub' = refresh(reg', publish_interests(reg', pub), flushed))
  BY <1>1, CommitFacts, NamesFacts
<1>4. host.py /\ host.call = NoCall /\ host \in Host /\ pub \in Published /\ UNCHANGED <<mail, native>>
  BY <1>1 DEF ReplaceCommit, TypeOK
<1>5. /\ host.batch # <<>> /\ host.todo = {} /\ host.target = None /\ host.valid /\ reg[Staged] = Absent
      /\ held.state = "running" /\ ~held.quarantined
  BY <1>1, <1>3 DEF PhaseInv, StageInv, CallInv
<1>6. /\ host'.at = "exec" /\ ~host'.py /\ host'.todo = host.todo /\ host'.call = host.call
      /\ host'.merged = host.merged /\ host'.votes = host.votes /\ host'.target = host.target
      /\ host'.valid = host.valid
  BY <1>3, <1>4, <1>5, ExecDoneFacts
<1>7. /\ reg \in Registry /\ reg' \in Registry /\ reg'[host.key] = held
      /\ (\A k \in Keys : k # host.key => reg'[k] = reg[k])
  BY <1>1, <1>2, <1>3 DEF Committed, TypeOK, Registry
<1>8. PhaseInv'
  <2>1. PyPresent' /\ TodoPresent'
    BY <1>5, <1>6 DEF PyPresent, TodoPresent
  <2>2. QuarantineInv'
    BY <1>1, <1>5, <1>7, QuarantineKept
  <2>3. reg'[Staged] = Absent
    BY <1>3, <1>5, <1>7, NamesFacts
  <2> QED
    BY <1>3, <1>4, <1>5, <1>6, <2>1, <2>2, <2>3, PhaseNow DEF Idle
<1>9. VotesInv'
  BY <1>1, <1>6, VotesKept
<1>10. Disjoint(reg')
  BY <1>1, <1>3 DEF PolicyInv
<1>11. PolicyInv' /\ InterestInv'
  BY <1>2, <1>3, <1>4, <1>6, <1>8, <1>10, RefreshedAll, InterestsPublished
<1> DEFINE ks == {host.key}
           s == [reg EXCEPT ![host.key] = Absent]
<1>12. /\ ks \in SUBSET Keys /\ (\A k \in ks : reg[k] # Absent) /\ Release(ks) /\ s \in Registry /\ s[host.key] = Absent
       /\ (\A k \in Keys : k # host.key => s[k] = reg[k])
       /\ (\A k \in ks : s[k] = Absent) /\ (\A k \in Keys \ ks : s[k] = reg[k] /\ reg'[k] = reg[k])
       /\ mail'.late = mail.late
  BY <1>3, <1>4, <1>7 DEF Registry
<1> HIDE DEF ks, s
<1>13. BpInv'
  <2>1. ASSUME NEW i \in Ids PROVE Total(BpCounts(reg', held', i)) = Total(BpCounts(s, held, i))
    <3>1. held' \in Plugin \cup {Absent} /\ \A k \in Keys : k # host.key => reg'[k] = s[k]
      BY <1>3, <1>7, <1>12
    <3>2. /\ Total(BpCounts(reg', held, i)) \in Nat /\ Total(BpCounts(s, held, i)) \in Nat
          /\ Total(BpCounts(reg', held, i)) + BpOf(s[host.key], i) = Total(BpCounts(s, held, i)) + BpOf(reg'[host.key], i)
      BY <1>3, <1>7, <1>12, <3>1, BpTotalSet
    <3>3. /\ Total(BpCounts(reg', held', i)) \in Nat
          /\ Total(BpCounts(reg', held', i)) + BpOf(held, i) = Total(BpCounts(reg', held, i)) + BpOf(held', i)
      BY <1>3, <1>7, <3>1, BpTotalHeld
    <3>4. BpOf(held', i) = 0 /\ BpOf(s[host.key], i) = 0 /\ BpOf(reg'[host.key], i) = BpOf(held, i) /\ BpOf(held, i) \in Nat
      BY <1>3, <1>7, <1>12 DEF BpOf
    <3> QED
      BY <3>2, <3>3, <3>4
  <2>2. \A k \in ks : \A i \in Ids : BpOf(s[k], i) = 0
    BY <1>12 DEF BpOf
  <2> QED
    BY <1>1, <1>4, <1>12, <2>1, <2>2, BpGiven
<1>14. HookInv'
  <2>1. ASSUME NEW i \in Addrs PROVE Total(HookCounts(reg', held', i)) = Total(HookCounts(s, held, i))
    <3>1. held' \in Plugin \cup {Absent} /\ \A k \in Keys : k # host.key => reg'[k] = s[k]
      BY <1>3, <1>7, <1>12
    <3>2. /\ Total(HookCounts(reg', held, i)) \in Nat /\ Total(HookCounts(s, held, i)) \in Nat
          /\ Total(HookCounts(reg', held, i)) + HookOf(s[host.key], i) = Total(HookCounts(s, held, i)) + HookOf(reg'[host.key], i)
      BY <1>3, <1>7, <1>12, <3>1, HookTotalSet
    <3>3. /\ Total(HookCounts(reg', held', i)) \in Nat
          /\ Total(HookCounts(reg', held', i)) + HookOf(held, i) = Total(HookCounts(reg', held, i)) + HookOf(held', i)
      BY <1>3, <1>7, <3>1, HookTotalHeld
    <3>4. HookOf(held', i) = 0 /\ HookOf(s[host.key], i) = 0 /\ HookOf(reg'[host.key], i) = HookOf(held, i)
      BY <1>3, <1>7, <1>12 DEF HookOf
    <3>5. HookOf(held, i) \in Nat
      BY <1>3, HookOfType
    <3> QED
      BY <3>2, <3>3, <3>4, <3>5
  <2>2. \A k \in ks : \A i \in Addrs : HookOf(s[k], i) = 0
    BY <1>12 DEF HookOf
  <2> QED
    BY <1>1, <1>4, <1>12, <2>1, <2>2, HookGiven
<1>15. TrapInv'
  <2>1. TrapsOf(held) \subseteq Owned(reg', held')
    BY <1>3, <1>7, OwnedIs
  <2>2. \A k \in Keys \ ks : TrapsOf(reg[k]) \subseteq Owned(reg', held')
    BY <1>12, OwnedIs
  <2> QED
    BY <1>1, <1>12, <2>1, <2>2, TrapGiven
<1> QED
  BY <1>2, <1>3, <1>4, <1>5, <1>6, <1>7, <1>8, <1>9, <1>10, <1>11, <1>12, <1>13, <1>14, <1>15 DEF HostInv

\* The quarantine at the end of a phase.
LEMMA Quarantining ==
  ASSUME HostInv, TypeOK', quarantine_error_plugins, UNCHANGED <<held, mail, native>>,
         host.at \in {"exec", "sync", "events"}, ~host.py, host.target = None,
         ~host'.py, host'.at \in {"sync", "connected", "apply"}, host'.call = NoCall, host'.target = None,
         host'.valid, \A n \in host'.todo : n \in Keys /\ reg[n] # Absent
  PROVE  PhaseInv' /\ PolicyInv' /\ InterestInv' /\ BpInv' /\ HookInv' /\ TrapInv'
<1>1. TypeOK /\ PhaseInv /\ VotesInv /\ PolicyInv /\ InterestInv /\ BpInv /\ HookInv /\ TrapInv
  BY DEF HostInv
<1>2. reg[Staged] = Absent /\ held = Absent /\ host.valid
  BY <1>1, Outside DEF PhaseInv, CallInv
<1>3. CASE Failed(reg) = {} /\ UNCHANGED <<reg, bpOwn, hookOwn, traps, pub, used>>
  <2>1. BpInv' /\ HookInv' /\ TrapInv'
    BY <1>1, <1>3, BpKept, HookKept, TrapKept, SameReg, ShrinksSame
  <2>2. PolicyInv'
    BY <1>1, <1>2, <1>3, PolicyKept, SameReg
  <2>3. InterestInv'
    BY <1>1, <1>3, InterestKept, SameReg
  <2>4. QuarantineInv'
    BY <1>1, <1>3, QuarantineKept
  <2>5. PhaseInv'
    BY <1>2, <1>3, <2>4, PhaseNow DEF PyPresent, TodoPresent
  <2> QED
    BY <2>1, <2>2, <2>3, <2>5
<1>4. CASE \E flushed \in BOOLEAN :
               /\ Failed(reg) # {}
               /\ reg' = Quarantined /\ Release(Failed(reg))
               /\ pub' = refresh(Quarantined, publish_interests(Quarantined, pub), flushed)
               /\ used' = Spend(flushed)
  <2> DEFINE ks == Failed(reg)
  <2>1. /\ ks \in SUBSET Keys /\ (\A k \in ks : reg[k] \in Plugin /\ reg[k] # Absent)
        /\ (\A k \in ks : reg'[k] = Emptied(reg[k])) /\ (\A k \in Keys \ ks : reg'[k] = reg[k])
        /\ reg \in Registry /\ reg' \in Registry /\ Release(ks) /\ pub \in Published
    BY <1>1, <1>4, QuarantinedFacts DEF TypeOK, Registry
  <2>2. \A k \in ks : reg[k].state = "error"
    BY DEF Failed
  <2>3. PICK flushed \in BOOLEAN : pub' = refresh(reg', publish_interests(reg', pub), flushed)
    BY <1>4
  <2> HIDE DEF ks
  <2>4. \A k \in ks : /\ reg'[k] \in Plugin /\ reg'[k] # Absent /\ reg'[k].state = "error"
                      /\ reg'[k].bps = {} /\ \A a \in Addrs : reg'[k].events[a] = 0
                      /\ \A t \in Targets : reg'[k].decisions[t] = 0
    BY <2>1, <2>2, EmptiedFacts, NamesFacts
  <2>5. \A k \in ks : /\ \A i \in Ids : BpOf(reg'[k], i) = 0
                      /\ \A a \in Addrs : HookOf(reg'[k], a) = 0
    BY <2>4, NamesFacts DEF BpOf, HookOf
  <2>6. BpInv' /\ HookInv' /\ TrapInv'
    BY <2>1, <2>5, OwnersGone
  <2>7. \A k \in Running(reg') : k \in Running(reg) /\ reg'[k].policy = reg[k].policy
    BY <2>1, <2>4 DEF Running
  <2>8. Disjoint(reg')
    BY <1>1, <2>1, <2>7, DisjointShrinks DEF PolicyInv
  <2>9. QuarantineInv'
    BY <1>1, <2>1, <2>4, QuarantineKept
  <2>10. \A k \in Keys : reg'[k] = Absent <=> reg[k] = Absent
    BY <2>1, <2>4
  <2>11. PhaseInv'
    BY <1>2, <2>9, <2>10, PhaseNow, NamesFacts DEF PyPresent, TodoPresent
  <2>12. PolicyInv' /\ InterestInv'
    BY <2>1, <2>3, <2>8, <2>11, RefreshedAll, InterestsPublished
  <2> QED
    BY <2>6, <2>11, <2>12
<1> QED
  BY <1>1, <1>3, <1>4, QuarantineFacts

LEMMA Inv_ExecEnds == ASSUME HostInv, ExecEnds PROVE HostInv'
<1>1. TypeOK /\ PhaseInv /\ VotesInv /\ PolicyInv /\ InterestInv /\ BpInv /\ HookInv /\ TrapInv
  BY DEF HostInv
<1>2. TypeOK'
  BY <1>1, Type_ExecEnds
<1>3. /\ host.at = "exec" /\ ~host.py /\ host \in Host /\ quarantine_error_plugins /\ UNCHANGED <<held, mail, native>>
      /\ host' = [host EXCEPT !.at = "sync"]
  BY <1>1 DEF ExecEnds, TypeOK
<1>4. host.target = None /\ host.valid /\ host.call = NoCall /\ host.todo = {}
  BY <1>1, <1>3 DEF PhaseInv, CallInv, StageInv
<1>5. /\ host'.at = "sync" /\ ~host'.py /\ host'.todo = host.todo /\ host'.call = NoCall
      /\ host'.merged = host.merged /\ host'.votes = host.votes /\ host'.target = None /\ host'.valid
  BY <1>3, <1>4 DEF Host
<1>6. PhaseInv' /\ PolicyInv' /\ InterestInv' /\ BpInv' /\ HookInv' /\ TrapInv'
  BY <1>2, <1>3, <1>4, <1>5, Quarantining
<1>7. VotesInv'
  BY <1>1, <1>5, VotesKept
<1> QED
  BY <1>2, <1>3, <1>4, <1>5, <1>6, <1>7 DEF HostInv

LEMMA Inv_SyncEnds == ASSUME HostInv, SyncEnds PROVE HostInv'
<1>1. TypeOK /\ PhaseInv /\ VotesInv /\ PolicyInv /\ InterestInv /\ BpInv /\ HookInv /\ TrapInv
  BY DEF HostInv
<1>2. TypeOK'
  BY <1>1, Type_SyncEnds
<1>3. /\ host.at = "sync" /\ ~host.py /\ host.target = None /\ quarantine_error_plugins /\ UNCHANGED <<held, mail, native>>
      /\ host' = [AtMail EXCEPT !.at = "connected"]
  BY DEF SyncEnds
<1>4. host.valid
  BY <1>1, <1>3 DEF PhaseInv, CallInv
<1>5. /\ host'.at = "connected" /\ ~host'.py /\ host'.todo = {} /\ host'.call = NoCall
      /\ host'.merged = None /\ host'.votes = {} /\ host'.target = None /\ host'.valid
  BY <1>3 DEF AtMail
<1>6. PhaseInv' /\ PolicyInv' /\ InterestInv' /\ BpInv' /\ HookInv' /\ TrapInv'
  BY <1>2, <1>3, <1>4, <1>5, Quarantining
<1>7. VotesInv'
  BY <1>5, VotesReset
<1> QED
  BY <1>2, <1>3, <1>4, <1>5, <1>6, <1>7 DEF HostInv

LEMMA Inv_DispatchEnds == ASSUME HostInv, DispatchEnds PROVE HostInv'
<1>1. TypeOK /\ PhaseInv /\ VotesInv /\ PolicyInv /\ InterestInv /\ BpInv /\ HookInv /\ TrapInv
  BY DEF HostInv
<1>2. TypeOK'
  BY <1>1, Type_DispatchEnds
<1>3. /\ host.at = "events" /\ ~host.py /\ host \in Host /\ quarantine_error_plugins /\ UNCHANGED <<held, mail, native>>
      /\ host' = [host EXCEPT !.at = "apply", !.todo = {}]
  BY <1>1 DEF DispatchEnds, TypeOK
<1>4. host.target = None /\ host.valid /\ host.call = NoCall
  BY <1>1, <1>3 DEF PhaseInv, CallInv
<1>5. /\ host'.at = "apply" /\ ~host'.py /\ host'.todo = {} /\ host'.call = NoCall
      /\ host'.merged = host.merged /\ host'.votes = host.votes /\ host'.target = None /\ host'.valid
  BY <1>3, <1>4 DEF Host
<1>6. PhaseInv' /\ PolicyInv' /\ InterestInv' /\ BpInv' /\ HookInv' /\ TrapInv'
  BY <1>2, <1>3, <1>4, <1>5, Quarantining
<1>7. VotesInv'
  BY <1>1, <1>5, VotesKept
<1> QED
  BY <1>2, <1>3, <1>4, <1>5, <1>6, <1>7 DEF HostInv

LEMMA Inv_DecideBegin == ASSUME HostInv, NEW t \in Targets, DecideBegin(t) PROVE HostInv'
<1>1. TypeOK /\ PhaseInv /\ VotesInv /\ PolicyInv /\ InterestInv /\ BpInv /\ HookInv /\ TrapInv
  BY DEF HostInv
<1>2. TypeOK'
  BY <1>1, Type_DecideBegin
<1>3. /\ host.at = "sync" /\ ~host.py /\ host.target = None /\ host \in Host
      /\ host' = [host EXCEPT !.target = t, !.changed = FALSE, !.valid = TRUE,
                            !.todo = {n \in Names : /\ <<n, t>> \in pub.interests
                                                    /\ <<n, t>> \in Interests(reg)}]
      /\ UNCHANGED <<reg, held, mail, native, bpOwn, hookOwn, traps, pub>>
  BY <1>1 DEF DecideBegin, TypeOK
<1>4. host.valid /\ host.call = NoCall /\ reg[Staged] = Absent /\ held = Absent /\ t # None
  BY <1>1, <1>3, Outside, NamesFacts DEF PhaseInv, CallInv
<1>5. /\ host'.at = "sync" /\ ~host'.py /\ host'.call = NoCall /\ host'.target = t /\ host'.valid /\ ~host'.changed
      /\ host'.merged = host.merged /\ host'.votes = host.votes
      /\ (\A n \in host'.todo : n \in Names /\ <<n, t>> \in Interests(reg))
  BY <1>3, <1>4 DEF Host
<1>6. \A n \in host'.todo : reg[n] # Absent
  BY <1>5 DEF Interests, Running
<1>7. QuarantineInv'
  BY <1>1, <1>3, QuarantineKept
<1>8. PhaseInv'
  BY <1>3, <1>4, <1>5, <1>6, <1>7, PhaseNow DEF PyPresent, TodoPresent, Idle
<1>9. VotesInv'
  BY <1>1, <1>5, VotesKept
<1>10. PolicyInv'
  BY <1>1, <1>2, <1>3, <1>4, <1>5, PolicyKept, SameReg
<1>11. InterestInv'
  BY <1>1, <1>3, <1>4, <1>5, InterestKept, SameReg
<1>12. BpInv' /\ HookInv' /\ TrapInv'
  BY <1>1, <1>3, BpKept, HookKept, TrapKept, SameReg, ShrinksSame
<1> QED
  BY <1>2, <1>3, <1>4, <1>5, <1>6, <1>7, <1>8, <1>9, <1>10, <1>11, <1>12 DEF HostInv

\* The next plugin is called: only where the host thread is changes.
LEMMA Calls_First ==
  ASSUME HostInv, TypeOK', host.at \in {"sync", "bound"}, ~host.py, host.todo # {},
         host.at = "sync" => host.target # None, host' = CallFirst,
         UNCHANGED <<reg, held, mail, native, bpOwn, hookOwn, traps, pub>>
  PROVE  HostInv'
<1>1. TypeOK /\ PhaseInv /\ VotesInv /\ PolicyInv /\ InterestInv /\ BpInv /\ HookInv /\ TrapInv /\ host \in Host
  BY DEF HostInv, TypeOK
<1>2. /\ host'.at = host.at /\ host'.py /\ host'.key \in host.todo /\ host'.todo = host.todo \ {host'.key}
      /\ host'.call = host.call /\ host'.merged = host.merged /\ host'.votes = host.votes
      /\ host'.target = host.target /\ host'.changed = host.changed /\ host'.valid = host.valid
  <2>1. PICK k \in host.todo : \E h \in Host : h = CallFirst /\ InCall(h, k)
    BY <1>1, CallFirstFacts
  <2>2. InCall(host', k)
    BY <2>1
  <2> QED
    BY <2>2 DEF InCall
<1>3. reg[Staged] = Absent /\ held = Absent /\ host.call = NoCall
  BY <1>1, Outside DEF PhaseInv, CallInv
<1>4. QuarantineInv'
  BY <1>1, QuarantineKept
<1>5. \A n \in host.todo : n \in Keys /\ reg[n] # Absent
  BY <1>1, HostFields, NamesFacts DEF PhaseInv, TodoPresent
<1>6. PyPresent' /\ TodoPresent'
  BY <1>2, <1>5 DEF PyPresent, TodoPresent
<1>7. /\ host.target # None => host.at = "sync"
      /\ host.target = None => host.valid
  BY <1>1 DEF PhaseInv, CallInv
<1>8. PhaseInv'
  BY <1>2, <1>3, <1>4, <1>6, <1>7, PhaseNow DEF Idle
<1>9. VotesInv'
  BY <1>1, <1>2, VotesKept
<1>10. PolicyInv' /\ InterestInv'
  BY <1>1, <1>2, PolicyKept, InterestKept, SameReg
<1>11. BpInv' /\ HookInv' /\ TrapInv'
  BY <1>1, BpKept, HookKept, TrapKept, SameReg, ShrinksSame
<1> QED
  BY <1>8, <1>9, <1>10, <1>11 DEF HostInv

LEMMA Inv_DecideCall == ASSUME HostInv, DecideCall PROVE HostInv'
<1>1. TypeOK /\ PhaseInv /\ VotesInv /\ PolicyInv /\ InterestInv /\ BpInv /\ HookInv /\ TrapInv
  BY DEF HostInv
<1>2. TypeOK'
  BY <1>1, Type_DecideCall
<1>3. HostInv'
  BY <1>2, Calls_First DEF DecideCall
<1> QED
  BY <1>2, <1>3 DEF HostInv

LEMMA Inv_BoundCall == ASSUME HostInv, BoundCall PROVE HostInv'
<1>1. TypeOK /\ PhaseInv /\ VotesInv /\ PolicyInv /\ InterestInv /\ BpInv /\ HookInv /\ TrapInv
  BY DEF HostInv
<1>2. TypeOK'
  BY <1>1, Type_BoundCall
<1>3. HostInv'
  BY <1>2, Calls_First DEF BoundCall
<1> QED
  BY <1>2, <1>3 DEF HostInv

LEMMA Inv_DecideEnd == ASSUME HostInv, DecideEnd PROVE HostInv'
<1>1. TypeOK /\ PhaseInv /\ VotesInv /\ PolicyInv /\ InterestInv /\ BpInv /\ HookInv /\ TrapInv
  BY DEF HostInv
<1>2. TypeOK'
  BY <1>1, Type_DecideEnd
<1>3. /\ host.at = "sync" /\ ~host.py /\ host.target # None /\ host.todo = {} /\ pub \in Published /\ reg \in Registry
      /\ host' = [AtMail EXCEPT !.at = "sync"] /\ UNCHANGED <<reg, held, mail, native, bpOwn, hookOwn, traps>>
  BY <1>1 DEF DecideEnd, TypeOK, Registry
<1>4. /\ host'.at = "sync" /\ ~host'.py /\ host'.todo = {} /\ host'.call = NoCall
      /\ host'.merged = None /\ host'.votes = {} /\ host'.target = None /\ host'.valid
  BY <1>3 DEF AtMail
<1> DEFINE shown == IF host.changed THEN publish_interests(reg, pub) ELSE pub
<1>5. \E flushed \in BOOLEAN : pub' = IF host.valid THEN shown ELSE refresh(reg, shown, flushed)
  <2>1. PICK flushed \in Flushes : pub' = IF host.valid THEN shown ELSE refresh(reg, shown, flushed)
    BY DEF DecideEnd
  <2> QED
    BY <2>1, FlushesType
<1>6. /\ shown \in Published /\ shown.policy = pub.policy /\ shown.refused = pub.refused
      /\ (host.changed => shown.interests = Interests(reg)) /\ (~host.changed => shown.interests = pub.interests)
  <2>1. CASE host.changed
    <3>1. shown = publish_interests(reg, pub)
      BY <2>1
    <3> QED
      BY <1>3, <2>1, <3>1, InterestsFacts DEF Registry
  <2>2. CASE ~host.changed
    BY <1>3, <2>2
  <2> QED
    BY <2>1, <2>2
<1> HIDE DEF shown
<1>7. reg[Staged] = Absent /\ held = Absent
  BY <1>1, <1>3, Outside
<1>8. QuarantineInv'
  BY <1>1, <1>3, QuarantineKept
<1>9. PhaseInv'
  BY <1>3, <1>4, <1>7, <1>8, PhaseNow DEF PyPresent, TodoPresent, Idle
<1>10. VotesInv'
  BY <1>4, VotesReset
<1>11. PolicyInv' /\ pub'.interests = shown.interests
  <2>1. Disjoint(reg) /\ (host.valid => Current(reg, pub))
    BY <1>1, <1>3 DEF PolicyInv
  <2>2. CASE host.valid
    <3>1. pub' = shown
      BY <1>5, <2>2
    <3>2. Current(reg', pub')
      BY <1>3, <1>6, <2>1, <2>2, <3>1 DEF Current
    <3> QED
      BY <1>3, <1>4, <2>1, <3>1, <3>2 DEF PolicyInv
  <2>3. CASE ~host.valid
    <3>1. PICK flushed \in BOOLEAN : pub' = refresh(reg', shown, flushed)
      BY <1>3, <1>5, <2>3
    <3>2. Disjoint(reg')
      BY <1>3, <2>1
    <3> QED
      BY <1>2, <1>4, <1>6, <3>1, <3>2, PolicyRefreshed
  <2> QED
    BY <2>2, <2>3
<1>12. InterestInv'
  <2>1. CASE host.changed
    BY <1>3, <1>6, <1>9, <1>11, <2>1, InterestsPublished
  <2>2. CASE ~host.changed
    BY <1>1, <1>3, <1>6, <1>11, <2>2, InterestKept, SameReg
  <2> QED
    BY <2>1, <2>2
<1>13. BpInv' /\ HookInv' /\ TrapInv'
  BY <1>1, <1>3, BpKept, HookKept, TrapKept, SameReg, ShrinksSame
<1> QED
  BY <1>2, <1>3, <1>4, <1>5, <1>6, <1>7, <1>8, <1>9, <1>10, <1>11, <1>12, <1>13 DEF HostInv

LEMMA Inv_TickCut == ASSUME HostInv, TickCut PROVE HostInv'
<1>1. TypeOK /\ PhaseInv /\ VotesInv /\ PolicyInv /\ InterestInv /\ BpInv /\ HookInv /\ TrapInv
  BY DEF HostInv
<1>2. TypeOK'
  BY <1>1, Type_TickCut
<1>3. host.at = "connected" /\ host' = AtMail /\ UNCHANGED <<reg, held, mail, native, bpOwn, hookOwn, traps, pub>>
  BY DEF TickCut
<1>4. /\ host'.at = "mail" /\ ~host'.py /\ host'.todo = {} /\ host'.call = NoCall
      /\ host'.merged = None /\ host'.votes = {} /\ host'.target = None /\ host'.valid
  BY <1>3, AtMailType
<1>5. host.target = None /\ host.valid /\ reg[Staged] = Absent /\ held = Absent
  BY <1>1, <1>3, Outside DEF PhaseInv, CallInv
<1>6. QuarantineInv'
  BY <1>1, <1>3, QuarantineKept
<1>7. PhaseInv'
  BY <1>3, <1>4, <1>5, <1>6, PhaseNow DEF PyPresent, TodoPresent
<1>8. VotesInv'
  BY <1>4, VotesReset
<1>9. PolicyInv'
  BY <1>1, <1>2, <1>3, <1>4, <1>5, PolicyKept, SameReg
<1>10. InterestInv'
  BY <1>1, <1>3, <1>4, <1>5, InterestKept, SameReg
<1>11. BpInv' /\ HookInv' /\ TrapInv'
  BY <1>1, <1>3, BpKept, HookKept, TrapKept, SameReg, ShrinksSame
<1> QED
  BY <1>2, <1>3, <1>4, <1>5, <1>6, <1>7, <1>8, <1>9, <1>10, <1>11 DEF HostInv

LEMMA Inv_DecideReturn == ASSUME HostInv, NEW failed \in BOOLEAN, NEW once \in BOOLEAN, DecideReturn(failed, once) PROVE HostInv'
<1>1. TypeOK /\ PhaseInv /\ VotesInv /\ PolicyInv /\ InterestInv /\ BpInv /\ HookInv /\ TrapInv
  BY DEF HostInv
<1>2. TypeOK'
  BY <1>1, Type_DecideReturn
<1> DEFINE t == host.target
           gone == once /\ Me.decisions[t] > 0
           p == [Me EXCEPT !.state = IF failed THEN "error" ELSE @,
                           !.decisions[t] = IF gone THEN @ - 1 ELSE @]
<1>3. UNCHANGED <<held, mail, native, bpOwn, traps, pub>> /\ host \in Host /\ hookOwn \in Leases(Addrs)
  BY <1>1 DEF DecideReturn, TypeOK
<1>4. /\ host.at = "sync" /\ host.py
      /\ host.key \in Keys /\ Me \in Plugin /\ t \in Targets /\ Me.decisions[t] \in Nat
      /\ SetMe(p) /\ p \in Plugin
      /\ p.state = (IF failed THEN "error" ELSE Me.state) /\ p.quarantined = Me.quarantined
      /\ p.policy = Me.policy /\ p.bps = Me.bps /\ p.traps = Me.traps /\ p.events = Me.events
      /\ (\A x \in Targets : p.decisions[x] = IF x = t /\ gone THEN Me.decisions[x] - 1 ELSE Me.decisions[x])
      /\ hookOwn' = (IF gone /\ t \in Addrs THEN release_or_queue(hookOwn, t) ELSE hookOwn)
      /\ host' = [host EXCEPT !.py = FALSE, !.key = None,
                              !.changed = @ \/ failed \/ gone, !.valid = @ /\ ~failed]
  BY <1>1, DecideReturnFacts
<1>5. gone \in BOOLEAN /\ (gone => Me.decisions[t] > 0)
  OBVIOUS
<1> HIDE DEF t, gone, p
<1>6. t = host.target /\ host.call = NoCall /\ reg[Staged] = Absent /\ held = Absent /\ t # None
  BY <1>1, <1>4, Outside, NamesFacts DEF PhaseInv, CallInv, t
<1>7. /\ host'.at = "sync" /\ ~host'.py /\ host'.todo = host.todo /\ host'.call = host.call
      /\ host'.merged = host.merged /\ host'.votes = host.votes /\ host'.target = host.target
      /\ (host'.changed <=> host.changed \/ failed \/ gone) /\ (host'.valid <=> host.valid /\ ~failed)
  BY <1>3, <1>4 DEF Host
<1>8. /\ reg'[host.key] = p /\ (\A k \in Keys : k # host.key => reg'[k] = reg[k])
      /\ reg \in Registry /\ reg' \in Registry /\ reg[host.key] = Me /\ p # Absent /\ Me # Absent
  BY <1>1, <1>4, SetMeType, NamesFacts DEF TypeOK, Registry, Me
<1>9. PhaseInv'
  <2>1. \A n \in host.todo : n \in Keys /\ reg'[n] # Absent
    BY <1>1, <1>3, <1>8, HostFields, NamesFacts DEF PhaseInv, TodoPresent
  <2>2. PyPresent' /\ TodoPresent'
    BY <1>7, <2>1 DEF PyPresent, TodoPresent
  <2>3. QuarantineInv'
    <3>1. \A k \in Keys : k # host.key => reg'[k] = reg[k]
      BY <1>8
    <3>2. p.quarantined => p.state \in {"error", "replacing"}
      BY <1>1, <1>4, <1>8 DEF PhaseInv, QuarantineInv
    <3> QED
      BY <1>1, <1>8, <3>1, <3>2, QuarantineKept
  <2>4. reg'[Staged] = Absent
    BY <1>6, <1>8, NamesFacts
  <2> QED
    BY <1>3, <1>6, <1>7, <2>2, <2>3, <2>4, PhaseNow DEF Idle
<1>10. VotesInv'
  BY <1>1, <1>7, VotesKept
<1>11. SamePolicies(reg, reg') /\ SameBps(reg, reg') /\ KeepTraps(reg, reg') /\ (~failed => SameStates(reg, reg'))
  BY <1>1, <1>4, SetFacts
<1>12. ~gone => SameDecisions(reg, reg') /\ SameHooks(reg, reg')
  <2> SUFFICES ASSUME ~gone PROVE SameDecisions(reg, reg') /\ SameHooks(reg, reg')
    OBVIOUS
  <2>1. p.decisions \in [Targets -> Nat] /\ Me.decisions \in [Targets -> Nat]
    BY <1>4, PluginFields
  <2>2. p.decisions = Me.decisions
    BY <1>4, <2>1
  <2> QED
    BY <1>1, <1>4, <2>2, SetFacts
<1>13. PolicyInv'
  <2>1. Disjoint(reg) /\ (host.valid => Current(reg, pub))
    BY <1>1, <1>4 DEF PolicyInv
  <2>2. \A k \in Running(reg') : k \in Running(reg) /\ reg'[k].policy = reg[k].policy
    BY <1>4, <1>8 DEF Running
  <2>3. Disjoint(reg')
    BY <1>8, <2>1, <2>2, DisjointShrinks
  <2>4. CASE ~failed
    BY <1>1, <1>2, <1>3, <1>4, <1>7, <1>11, <2>4, PolicyKept
  <2>5. CASE failed
    BY <1>7, <2>3, <2>5 DEF PolicyInv
  <2> QED
    BY <2>4, <2>5
<1>14. InterestInv'
  <2>1. CASE ~failed /\ ~gone
    BY <1>1, <1>3, <1>4, <1>7, <1>11, <1>12, <2>1, InterestKept
  <2>2. CASE failed \/ gone
    BY <1>1, <1>3, <1>6, <1>7, <2>2 DEF InterestInv
  <2> QED
    BY <2>1, <2>2
<1>15. BpInv' /\ TrapInv'
  BY <1>1, <1>3, <1>11, BpKept, TrapKept, ShrinksSame
<1>16. HookInv'
  <2>1. CASE ~gone
    BY <1>1, <1>3, <1>4, <1>12, <2>1, HookKept
  <2>2. CASE gone
    <3>1. Me.events \in [Addrs -> Nat] /\ Me.decisions \in [Targets -> Nat] /\ Addrs \subseteq Targets
      BY <1>4, PluginFields, NamesFacts
    <3>2. \A b \in Addrs : b # t => HookOf(p, b) = HookOf(Me, b)
      BY <1>4, <1>8, <3>1 DEF HookOf
    <3>3. t \in Addrs => HookOf(Me, t) = HookOf(p, t) + 1
      <4> SUFFICES ASSUME t \in Addrs PROVE HookOf(Me, t) = HookOf(p, t) + 1
        OBVIOUS
      <4>1. Me.events[t] \in Nat /\ Me.decisions[t] \in Nat /\ p.decisions[t] = Me.decisions[t] - 1 /\ p.events = Me.events
        BY <1>4, <2>2, <3>1
      <4>2. HookOf(Me, t) = Me.events[t] + Me.decisions[t] /\ HookOf(p, t) = p.events[t] + p.decisions[t]
        BY <1>8 DEF HookOf
      <4> QED
        BY <4>1, <4>2
    <3>4. CASE t \in Addrs
      BY <1>2, <1>3, <1>4, <2>2, <3>2, <3>3, <3>4, HookLoses
    <3>5. CASE t \notin Addrs
      <4>1. SameHooks(reg, reg')
        BY <1>1, <1>4, <3>2, <3>5, SetHooks
      <4> QED
        BY <1>1, <1>3, <1>4, <3>5, <4>1, HookKept
    <3> QED
      BY <3>4, <3>5
  <2> QED
    BY <1>5, <2>1, <2>2
<1> QED
  BY <1>2, <1>3, <1>4, <1>5, <1>6, <1>7, <1>8, <1>9, <1>10, <1>11, <1>12, <1>13, <1>14, <1>15, <1>16 DEF HostInv

\* A plugin that fails publishes the policies of the others; its interests stay
\* until it is quarantined.
LEMMA MeFails ==
  ASSUME HostInv, TypeOK', host.key \in Keys, Me \in Plugin, NEW p \in Plugin, SetMe(p),
         p.state = "error", p.quarantined = Me.quarantined, p.policy = Me.policy,
         p.decisions = Me.decisions, NEW flushed \in BOOLEAN, pub' = refresh(reg', pub, flushed),
         host.at # "commit", host'.at # "commit", host.target = None
  PROVE  PolicyInv' /\ InterestInv'
<1>1. TypeOK /\ PhaseInv /\ PolicyInv /\ InterestInv /\ pub \in Published
  BY DEF HostInv, TypeOK
<1>2. /\ reg'[host.key] = p /\ (\A k \in Keys : k # host.key => reg'[k] = reg[k])
      /\ reg \in Registry /\ reg' \in Registry /\ reg[host.key] = Me /\ p # Absent /\ Me # Absent
  BY <1>1, SetMeType, NamesFacts DEF TypeOK, Registry, Me
<1>3. \A k \in Running(reg') : k \in Running(reg) /\ k # host.key /\ reg'[k].policy = reg[k].policy
  BY <1>2 DEF Running
<1>4. Disjoint(reg')
  BY <1>1, <1>2, <1>3, DisjointShrinks DEF PolicyInv
<1>5. PolicyInv' /\ pub'.interests = pub.interests
  BY <1>1, <1>4, PolicyRefreshed
<1>6. ASSUME Failed(reg') = {} PROVE pub'.interests = Interests(reg')
  <2>1. p.quarantined
    BY <1>2, <1>6 DEF Failed
  <2>2. Me.state \in {"error", "replacing"}
    BY <1>1, <1>2, <2>1 DEF PhaseInv, QuarantineInv
  <2>3. \A k \in Keys : k \in Failed(reg) => k \in Failed(reg')
    BY <1>2, <2>1 DEF Failed
  <2>4. Failed(reg) = {}
    BY <1>6, <2>3 DEF Failed
  <2>5. Running(reg') = Running(reg)
    BY <1>2, <2>2 DEF Running
  <2>6. \A k \in Running(reg) : reg'[k] = reg[k]
    BY <1>2, <2>2 DEF Running
  <2>7. Interests(reg') = Interests(reg)
    BY <2>5, <2>6 DEF Interests
  <2>8. pub.interests = Interests(reg)
    BY <1>1, <2>4 DEF InterestInv
  <2> QED
    BY <1>5, <2>7, <2>8
<1>7. \A u \in pub'.interests : u[1] # Staged
  BY <1>1, <1>5 DEF InterestInv
<1> QED
  BY <1>5, <1>6, <1>7 DEF InterestInv

\* A callback of the connected phase has returned.
LEMMA MeReturns ==
  ASSUME HostInv, TypeOK', host.at \in {"bound", "events"}, host.py, host.key \in Keys, Me \in Plugin,
         NEW p \in Plugin, SetMe(p), p.quarantined = Me.quarantined, p.state \in {"error", Me.state},
         held' = held, host'.at \in {"bound", "events"}, ~host'.py, host'.call = NoCall,
         host'.target = host.target, host'.valid = host.valid,
         host'.todo \in {host.todo, {n \in Names : reg[n] # Absent}}
  PROVE  PhaseInv'
<1>1. TypeOK /\ PhaseInv /\ host \in Host
  BY DEF HostInv, TypeOK
<1>2. /\ reg'[host.key] = p /\ (\A k \in Keys : k # host.key => reg'[k] = reg[k])
      /\ reg[host.key] = Me /\ p # Absent /\ Me # Absent
  BY <1>1, SetMeType, NamesFacts DEF TypeOK, Registry, Me
<1>3. reg[Staged] = Absent /\ held = Absent
  BY <1>1, Outside
<1>4. host.target = None /\ host.valid
  BY <1>1 DEF PhaseInv, CallInv
<1>5. \A n \in host'.todo : n \in Keys /\ reg[n] # Absent
  BY <1>1, HostFields, NamesFacts DEF PhaseInv, TodoPresent
<1>6. PyPresent' /\ TodoPresent'
  BY <1>2, <1>5 DEF PyPresent, TodoPresent
<1>7. p.quarantined => p.state \in {"error", "replacing"}
  BY <1>1, <1>2 DEF PhaseInv, QuarantineInv
<1>8. QuarantineInv'
  BY <1>1, <1>2, <1>7, QuarantineKept
<1>9. reg'[Staged] = Absent
  BY <1>2, <1>3, NamesFacts
<1> QED
  BY <1>3, <1>4, <1>6, <1>8, <1>9, PhaseNow DEF Idle

\* One more decision, merged and counted.
LEMMA VotesMerged ==
  ASSUME VotesInv, host \in Host, NEW action \in Actions,
         host'.merged = merge_action(host.merged, action), host'.votes = host.votes \cup {action}
  PROVE  VotesInv'
<1>1. host.merged \in Actions \cup {None} /\ host.votes \in SUBSET Actions
  BY HostFields
<1>2. merge_action(host.merged, action) \in Actions
  BY <1>1 DEF merge_action, Actions, None
<1>3. CASE host.merged = None
  BY <1>1, <1>3 DEF VotesInv, merge_action, Actions, None
<1>4. CASE host.merged = "stay"
  BY <1>1, <1>4 DEF VotesInv, merge_action, Actions, None
<1>5. CASE host.merged = "resume"
  BY <1>1, <1>5 DEF VotesInv, merge_action, Actions, None
<1>6. CASE host.merged = "step_into"
  BY <1>1, <1>6 DEF VotesInv, merge_action, Actions, None
<1>7. CASE host.merged = "step_over"
  BY <1>1, <1>7 DEF VotesInv, merge_action, Actions, None
<1> QED
  BY <1>1, <1>3, <1>4, <1>5, <1>6, <1>7 DEF Actions

LEMMA Inv_Connected == ASSUME HostInv, Connected PROVE HostInv'
<1>1. TypeOK /\ PhaseInv /\ VotesInv /\ PolicyInv /\ InterestInv /\ BpInv /\ HookInv /\ TrapInv
  BY DEF HostInv
<1>2. TypeOK'
  BY <1>1, Type_Connected
<1>3. /\ host.at = "connected" /\ native' = NativeWithout(bpOwn.queue) /\ native \in Native /\ bpOwn \in Leases(Ids)
      /\ bpOwn' = [bpOwn EXCEPT !.queue = {i \in @ : native.bps[i] = None}]
      /\ UNCHANGED <<reg, held, mail, hookOwn, traps, pub>>
  BY <1>1 DEF Connected, TypeOK
<1>4. PICK h \in Host :
            /\ host' = EventsNext(h)
            /\ h.at = "bound" /\ ~h.py /\ h.batch = <<>> /\ h.call = NoCall
            /\ h.target = None /\ h.valid
            /\ h.todo \in SUBSET Names /\ \A n \in h.todo : reg[n] # Absent
            /\ \/ h.merged = None /\ h.votes = {}
               \/ h.merged = "stay" /\ h.votes = {"stay"}
  BY <1>1, ConnectedFacts
<1>5. /\ host'.at \in {"bound", "events"} /\ ~host'.py /\ host'.call = NoCall /\ host'.target = None /\ host'.valid
      /\ host'.merged = h.merged /\ host'.votes = h.votes
      /\ host'.todo \in {h.todo, {n \in Names : reg[n] # Absent}}
  BY <1>4, EventsNextFacts
<1>6. host.target = None /\ host.valid /\ reg[Staged] = Absent /\ held = Absent
  BY <1>1, <1>3, Outside DEF PhaseInv, CallInv
<1>7. \A n \in host'.todo : reg[n] # Absent
  BY <1>4, <1>5
<1>8. QuarantineInv'
  BY <1>1, <1>3, QuarantineKept
<1>9. PhaseInv'
  BY <1>3, <1>5, <1>6, <1>7, <1>8, PhaseNow DEF PyPresent, TodoPresent, Idle
<1>10. VotesInv'
  BY <1>4, <1>5 DEF VotesInv, None
<1>11. PolicyInv' /\ InterestInv'
  BY <1>1, <1>2, <1>3, <1>5, <1>6, PolicyKept, InterestKept, SameReg
<1>12. BpInv'
  <2>1. /\ native'.nextId = native.nextId /\ native'.dbgBps = native.dbgBps \ bpOwn.queue
        /\ \A i \in Ids : native'.bps[i] = IF i \in bpOwn.queue THEN None ELSE native.bps[i]
    BY <1>3, NativeWithoutFacts
  <2>2. bpOwn'.lease = bpOwn.lease
    BY <1>3 DEF Leases
  <2> QED
    BY <1>1, <1>3, <2>1, <2>2, BpMoved
<1>13. HookInv' /\ TrapInv'
  <2>1. native'.hooks = native.hooks /\ native'.dbgHooks = native.dbgHooks
    BY <1>3, NativeWithoutFacts
  <2> QED
    BY <1>1, <1>3, <2>1, HookKept, TrapKept, SameReg, ShrinksSame
<1> QED
  BY <1>2, <1>3, <1>4, <1>5, <1>6, <1>7, <1>8, <1>9, <1>10, <1>11, <1>12, <1>13 DEF HostInv

LEMMA Inv_BoundReturn == ASSUME HostInv, NEW action \in Actions, NEW failed \in BOOLEAN, NEW once \in BOOLEAN,
         BoundReturn(action, failed, once) PROVE HostInv'
<1>1. TypeOK /\ PhaseInv /\ VotesInv /\ PolicyInv /\ InterestInv /\ BpInv /\ HookInv /\ TrapInv
  BY DEF HostInv
<1>2. TypeOK'
  BY <1>1, Type_BoundReturn
<1> DEFINE gone == once /\ host.id \in Me.bps
<1>3. UNCHANGED <<held, mail, native, hookOwn, traps>> /\ host \in Host
  BY <1>1 DEF BoundReturn, TypeOK
<1>4. PICK p \in Plugin :
         /\ SetMe(p)
         /\ p.state = (IF failed THEN "error" ELSE Me.state) /\ p.quarantined = Me.quarantined
         /\ p.bps = (IF gone THEN Me.bps \ {host.id} ELSE Me.bps)
         /\ p.policy = Me.policy /\ p.traps = Me.traps /\ p.events = Me.events
         /\ p.decisions = Me.decisions
  BY <1>1, BoundReturnFacts
<1>5. /\ host.at = "bound" /\ host.py /\ host.call = NoCall
      /\ host.key \in Keys /\ Me \in Plugin
      /\ bpOwn' = (IF gone THEN release_or_queue(bpOwn, host.id) ELSE bpOwn)
  BY <1>1, BoundReturnFacts
<1>6. PICK h \in Host :
      /\ host' = EventsNext(h)
      /\ h.at = "bound" /\ ~h.py /\ h.call = NoCall /\ h.todo = host.todo
      /\ h.target = host.target /\ h.valid = host.valid /\ h.changed = host.changed
      /\ h.merged = merge_action(host.merged, action) /\ h.votes = host.votes \cup {action}
  BY <1>1, BoundReturnFacts
<1>7. \E flushed \in BOOLEAN : pub' = IF failed THEN refresh(reg', pub, flushed) ELSE pub
  <2>1. PICK flushed \in BOOLEAN :
             /\ pub' = IF failed THEN refresh(reg', pub, flushed) ELSE pub
             /\ used' = IF failed THEN Spend(flushed) ELSE used
    BY <1>1, BoundReturnFacts
  <2> QED
    BY <2>1
<1>8. gone \in BOOLEAN /\ (gone => host.id \in Me.bps)
  OBVIOUS
<1> HIDE DEF gone
<1>9. /\ host'.at \in {"bound", "events"} /\ ~host'.py /\ host'.call = NoCall
      /\ host'.target = host.target /\ host'.valid = host.valid /\ host'.changed = host.changed
      /\ host'.todo \in {host.todo, {n \in Names : reg[n] # Absent}}
      /\ host'.merged = merge_action(host.merged, action) /\ host'.votes = host.votes \cup {action}
  BY <1>4, <1>5, <1>6, <1>7, EventsNextFacts
<1>10. PhaseInv'
  BY <1>2, <1>3, <1>4, <1>5, <1>6, <1>7, <1>9, MeReturns
<1>11. VotesInv'
  BY <1>1, <1>3, <1>9, VotesMerged
<1>12. host.target = None /\ host.valid
  BY <1>1, <1>4, <1>5, <1>6, <1>7 DEF PhaseInv, CallInv
<1>13. /\ SamePolicies(reg, reg') /\ SameDecisions(reg, reg') /\ SameHooks(reg, reg') /\ KeepTraps(reg, reg')
       /\ (~failed => SameStates(reg, reg')) /\ (~gone => SameBps(reg, reg'))
  BY <1>1, <1>4, <1>5, <1>6, <1>7, SetFacts
<1>14. PolicyInv' /\ InterestInv'
  <2>1. CASE failed
    <3>1. PICK flushed \in BOOLEAN : pub' = refresh(reg', pub, flushed)
      BY <1>4, <1>5, <1>6, <1>7, <2>1
    <3>2. p.state = "error"
      BY <1>4, <1>5, <1>6, <1>7, <2>1
    <3> QED
      BY <1>2, <1>4, <1>5, <1>6, <1>7, <1>9, <1>12, <3>1, <3>2, MeFails
  <2>2. CASE ~failed
    <3>1. pub' = pub
      BY <1>4, <1>5, <1>6, <1>7, <2>2
    <3> QED
      BY <1>1, <1>2, <1>4, <1>5, <1>6, <1>7, <1>9, <1>12, <1>13, <2>2, <3>1, PolicyKept, InterestKept
  <2> QED
    BY <2>1, <2>2
<1>15. BpInv'
  <2>1. CASE gone
    <3>1. host.id \in Ids
      BY <1>4, <1>5, <1>6, <1>7, <1>8, <2>1, PluginFields
    <3> QED
      BY <1>2, <1>3, <1>4, <1>5, <1>6, <1>7, <1>8, <2>1, <3>1, BpLoses
  <2>2. CASE ~gone
    BY <1>1, <1>3, <1>4, <1>5, <1>6, <1>7, <1>13, <2>2, BpKept
  <2> QED
    BY <1>8, <2>1, <2>2
<1>16. HookInv' /\ TrapInv'
  BY <1>1, <1>3, <1>13, HookKept, TrapKept, ShrinksSame
<1> QED
  BY <1>2, <1>3, <1>4, <1>5, <1>6, <1>7, <1>8, <1>9, <1>10, <1>11, <1>12, <1>13, <1>14, <1>15, <1>16 DEF HostInv

LEMMA Inv_DispatchCall == ASSUME HostInv, DispatchCall PROVE HostInv'
<1>1. TypeOK /\ PhaseInv /\ VotesInv /\ PolicyInv /\ InterestInv /\ BpInv /\ HookInv /\ TrapInv
  BY DEF HostInv
<1>2. TypeOK'
  BY <1>1, Type_DispatchCall
<1>3. /\ host.at = "events" /\ ~host.py /\ host \in Host
      /\ UNCHANGED <<reg, held, mail, native, bpOwn, hookOwn, traps, pub>>
  BY <1>1 DEF DispatchCall, TypeOK
<1>4. PICK n \in host.todo \cap Running(reg) :
        host' = [host EXCEPT !.py = TRUE, !.key = n, !.todo = @ \cap After(n)]
  BY DEF DispatchCall
<1>5. /\ host'.at = "events" /\ host'.py /\ host'.key = n /\ host'.todo = host.todo \cap After(n)
      /\ host'.call = host.call /\ host'.merged = host.merged /\ host'.votes = host.votes
      /\ host'.target = host.target /\ host'.changed = host.changed /\ host'.valid = host.valid
  BY <1>3, <1>4 DEF Host
<1>6. n \notin After(n)
  BY HostAssumption DEF After
<1>7. reg[Staged] = Absent /\ held = Absent /\ host.call = NoCall /\ host.target = None /\ host.valid
  BY <1>1, <1>3, Outside DEF PhaseInv, CallInv
<1>8. \A m \in host.todo : m \in Keys /\ reg[m] # Absent
  BY <1>1, <1>3, HostFields, NamesFacts DEF PhaseInv, TodoPresent
<1>9. PyPresent' /\ TodoPresent'
  BY <1>3, <1>4, <1>5, <1>6, <1>8 DEF PyPresent, TodoPresent
<1>10. QuarantineInv'
  BY <1>1, <1>3, QuarantineKept
<1>11. PhaseInv'
  BY <1>3, <1>5, <1>7, <1>9, <1>10, PhaseNow DEF Idle
<1>12. VotesInv'
  BY <1>1, <1>5, VotesKept
<1>13. PolicyInv' /\ InterestInv'
  BY <1>1, <1>2, <1>3, <1>5, <1>7, PolicyKept, InterestKept, SameReg
<1>14. BpInv' /\ HookInv' /\ TrapInv'
  BY <1>1, <1>3, BpKept, HookKept, TrapKept, SameReg, ShrinksSame
<1> QED
  BY <1>2, <1>3, <1>4, <1>5, <1>6, <1>7, <1>8, <1>9, <1>10, <1>11, <1>12, <1>13, <1>14 DEF HostInv

LEMMA ReleaseAllOthers ==
  ASSUME NEW P, NEW o \in Leases(P), NEW Q \in SUBSET P, NEW times \in [Q -> Nat], NEW p \in P \ Q,
         NEW r, r = release_all(o, times)
  PROVE  r.lease[p] = o.lease[p] /\ o.queue \subseteq r.queue
  BY ReleaseAllFacts

\* The once-only handlers of the addresses in once are gone.
LEMMA HooksLose ==
  ASSUME HostInv, TypeOK', held' = held, host.key \in Keys, Me \in Plugin, NEW p \in Plugin, SetMe(p),
         NEW once \in SUBSET Addrs, hookOwn' = release_all(hookOwn, [a \in once |-> 1]),
         \A a \in once : HookOf(Me, a) = HookOf(p, a) + 1,
         \A b \in Addrs \ once : HookOf(p, b) = HookOf(Me, b),
         native' = native, mail' = mail
  PROVE  HookInv'
<1> SUFFICES ASSUME NEW b \in Addrs PROVE HookAt(b)'
  BY HookInvFrom
<1> DEFINE c == Total(HookCounts(reg, held, b))
           d == Total(HookCounts(reg', held', b))
           ones == [a \in once |-> 1]
<1>1. TypeOK /\ HookAt(b) /\ hookOwn \in Leases(Addrs)
  BY HookInvIs DEF HostInv, TypeOK
<1>2. /\ c \in Nat /\ d \in Nat
      /\ d + HookOf(Me, b) = c + HookOf(p, b) /\ HookOf(Me, b) <= c
  BY <1>1, HookCountSet
<1>3. HookOf(Me, b) \in Nat /\ HookOf(p, b) \in Nat
  BY HookOfType
<1>4. Point(hookOwn, b, b \in native.hooks, b \in native.dbgHooks, b \in mail.late.hooks, c)
  BY <1>1 DEF HookAt
<1>5. /\ ones \in [once -> Nat] /\ (b \in once => ones[b] = 1)
      /\ hookOwn' = release_all(hookOwn, ones)
  OBVIOUS
<1> HIDE DEF c, d, ones
<1>6. CASE b \in once
  <2>1. d = c - 1 /\ c > 0 /\ ones[b] <= c
    BY <1>2, <1>3, <1>5, <1>6
  <2> DEFINE present == b \in native.hooks
             dbg == b \in native.dbgHooks
             late == b \in mail.late.hooks
  <2>2. present \in BOOLEAN /\ dbg \in BOOLEAN /\ late \in BOOLEAN
    OBVIOUS
  <2>3. Point(hookOwn, b, present, dbg, late, c)
    BY <1>4
  <2> HIDE DEF present, dbg, late
  <2>4. Point(release_all(hookOwn, ones), b, present, dbg, late, c - ones[b])
    BY <1>1, <1>2, <1>5, <1>6, <2>1, <2>2, <2>3, PointReleaseAll
  <2>5. Point(hookOwn', b, b \in native'.hooks, b \in native'.dbgHooks, b \in mail'.late.hooks, d)
    BY <1>5, <1>6, <2>1, <2>4 DEF present, dbg, late
  <2> QED
    BY <2>5 DEF HookAt, d
<1>7. CASE b \notin once
  <2>1. d = c
    BY <1>2, <1>3, <1>7
  <2>2. b \in Addrs \ once
    BY <1>7
  <2>4. hookOwn'.lease[b] = hookOwn.lease[b] /\ hookOwn.queue \subseteq hookOwn'.queue
    BY <1>1, <1>5, <2>2, ReleaseAllOthers
  <2>3. Point(hookOwn', b, b \in native'.hooks, b \in native'.dbgHooks, b \in mail'.late.hooks, d)
    BY <1>4, <2>1, <2>4 DEF Point
  <2> QED
    BY <2>3 DEF HookAt, d
<1> QED
  BY <1>6, <1>7

LEMMA Inv_DispatchReturn == ASSUME HostInv, NEW failed \in BOOLEAN, NEW once \in SUBSET Addrs,
         DispatchReturn(failed, once) PROVE HostInv'
<1>1. TypeOK /\ PhaseInv /\ VotesInv /\ PolicyInv /\ InterestInv /\ BpInv /\ HookInv /\ TrapInv
  BY DEF HostInv
<1>2. TypeOK'
  BY <1>1, Type_DispatchReturn
<1>3. UNCHANGED <<held, mail, native, bpOwn, traps>> /\ host \in Host
  BY <1>1 DEF DispatchReturn, TypeOK
<1>4. PICK p \in Plugin : Dispatched(p, failed, once)
  BY <1>1, DispatchReturnFacts
<1>5. /\ SetMe(p)
      /\ p.state = (IF failed THEN "error" ELSE Me.state) /\ p.quarantined = Me.quarantined
      /\ p.bps = Me.bps /\ p.policy = Me.policy /\ p.traps = Me.traps
      /\ (\A a \in Addrs : p.events[a] = IF a \in once THEN Me.events[a] - 1 ELSE Me.events[a])
      /\ p.decisions = Me.decisions
  BY <1>4 DEF Dispatched
<1>6. /\ host.at = "events" /\ host.py /\ host.call = NoCall
      /\ host.key \in Keys /\ Me \in Plugin
      /\ (\A a \in once : Me.events[a] > 0)
      /\ hookOwn' = release_all(hookOwn, [a \in once |-> 1])
      /\ host' = [host EXCEPT !.py = FALSE, !.key = None]
  BY <1>1, DispatchReturnFacts
<1>7. \E flushed \in BOOLEAN : pub' = IF failed THEN refresh(reg', pub, flushed) ELSE pub
  <2>1. PICK flushed \in BOOLEAN :
             /\ pub' = IF failed THEN refresh(reg', pub, flushed) ELSE pub
             /\ used' = IF failed THEN Spend(flushed) ELSE used
    BY <1>1, DispatchReturnFacts
  <2> QED
    BY <2>1
<1>8. /\ host'.at = "events" /\ ~host'.py /\ host'.call = NoCall
      /\ host'.target = host.target /\ host'.valid = host.valid /\ host'.changed = host.changed
      /\ host'.todo = host.todo /\ host'.merged = host.merged /\ host'.votes = host.votes
  BY <1>3, <1>6 DEF Host
<1>9. PhaseInv'
  BY <1>2, <1>3, <1>5, <1>6, <1>8, MeReturns
<1>10. VotesInv'
  BY <1>1, <1>8, VotesKept
<1>11. host.target = None /\ host.valid
  BY <1>1, <1>6 DEF PhaseInv, CallInv
<1>12. /\ SamePolicies(reg, reg') /\ SameDecisions(reg, reg') /\ SameBps(reg, reg') /\ KeepTraps(reg, reg')
       /\ (~failed => SameStates(reg, reg'))
  BY <1>1, <1>5, <1>6, SetFacts
<1>13. PolicyInv' /\ InterestInv'
  <2>1. CASE failed
    <3>1. PICK flushed \in BOOLEAN : pub' = refresh(reg', pub, flushed)
      BY <1>7, <2>1
    <3>2. p.state = "error"
      BY <1>5, <2>1
    <3> QED
      BY <1>2, <1>5, <1>6, <1>8, <1>11, <3>1, <3>2, MeFails
  <2>2. CASE ~failed
    <3>1. pub' = pub
      BY <1>7, <2>2
    <3> QED
      BY <1>1, <1>2, <1>6, <1>8, <1>11, <1>12, <2>2, <3>1, PolicyKept, InterestKept
  <2> QED
    BY <2>1, <2>2
<1>14. BpInv' /\ TrapInv'
  BY <1>1, <1>3, <1>12, BpKept, TrapKept, ShrinksSame
<1>15. HookInv'
  <2>1. /\ Me.events \in [Addrs -> Nat] /\ Me.decisions \in [Targets -> Nat] /\ Addrs \subseteq Targets
        /\ Me # Absent /\ p # Absent
    BY <1>5, <1>6, PluginFields, NamesFacts
  <2>2. ASSUME NEW a \in Addrs PROVE HookOf(Me, a) = Me.events[a] + Me.decisions[a] /\ HookOf(p, a) = p.events[a] + Me.decisions[a]
    BY <1>5, <2>1 DEF HookOf
  <2>3. ASSUME NEW a \in once PROVE HookOf(Me, a) = HookOf(p, a) + 1
    <3>1. a \in Addrs /\ Me.events[a] \in Nat /\ Me.decisions[a] \in Nat /\ p.events[a] = Me.events[a] - 1
      BY <1>5, <2>1
    <3> QED
      BY <2>2, <3>1
  <2>4. ASSUME NEW a \in Addrs \ once PROVE HookOf(p, a) = HookOf(Me, a)
    <3>1. p.events[a] = Me.events[a]
      BY <1>5
    <3> QED
      BY <2>2, <3>1
  <2> QED
    BY <1>2, <1>3, <1>5, <1>6, <2>3, <2>4, HooksLose
<1> QED
  BY <1>2, <1>3, <1>4, <1>5, <1>6, <1>7, <1>8, <1>9, <1>10, <1>11, <1>12, <1>13, <1>14, <1>15 DEF HostInv

LEMMA Inv_apply_stop_action == ASSUME HostInv, apply_stop_action PROVE HostInv'
<1>1. TypeOK /\ PhaseInv /\ VotesInv /\ PolicyInv /\ InterestInv /\ BpInv /\ HookInv /\ TrapInv
  BY DEF HostInv
<1>2. TypeOK'
  BY <1>1, Type_apply_stop_action
<1>3. /\ host.at = "apply" /\ UNCHANGED <<reg, held, traps, pub>> /\ host \in Host /\ native \in Native
      /\ bpOwn \in Leases(Ids) /\ hookOwn \in Leases(Addrs)
  BY <1>1 DEF apply_stop_action, TypeOK
<1>4. ~host.py /\ host.target = None /\ host.valid /\ host.call = NoCall /\ reg[Staged] = Absent /\ held = Absent
  BY <1>1, <1>3, Outside DEF PhaseInv, CallInv, Idle
<1>5. /\ host'.at \in {"mail", "act"} /\ ~host'.py /\ host'.call = NoCall /\ host'.target = None /\ host'.valid
      /\ host'.todo \in {{}, host.todo}
      /\ (host'.merged = None /\ host'.votes = {}) \/ (host'.merged = host.merged /\ host'.votes = host.votes)
  <2>1. CASE host' = AtMail
    BY <2>1, AtMailType
  <2>2. CASE host' = [host EXCEPT !.at = "act"]
    BY <1>3, <1>4, <2>2 DEF Host
  <2> QED
    BY <1>1, <2>1, <2>2, ApplyFacts
<1>6. QuarantineInv'
  BY <1>1, <1>3, QuarantineKept
<1>7. PhaseInv'
  <2>1. \A n \in host'.todo : reg[n] # Absent
    BY <1>1, <1>5 DEF PhaseInv, TodoPresent
  <2>2. PyPresent' /\ TodoPresent'
    BY <1>3, <1>5, <2>1 DEF PyPresent, TodoPresent
  <2> QED
    BY <1>3, <1>4, <1>5, <1>6, <2>2, PhaseNow
<1>8. VotesInv'
  BY <1>1, <1>5, VotesKept, VotesReset
<1>9. PolicyInv' /\ InterestInv'
  BY <1>1, <1>2, <1>3, <1>4, <1>5, PolicyKept, InterestKept, SameReg
<1>10. BpInv' /\ HookInv'
  <2>1. bpOwn'.lease = bpOwn.lease /\ bpOwn'.queue = {}
    BY <1>1, <1>3, ApplyFacts, TakeFacts
  <2>2. CASE /\ mail.waiting
             /\ mail' \in Mail /\ mail'.cmds = mail.cmds /\ mail'.waiting = mail.waiting
             /\ mail'.late.bps = mail.late.bps \cup bpOwn.queue
             /\ mail'.late.hooks = mail.late.hooks \cup hookOwn.queue
             /\ UNCHANGED <<native, hookOwn>>
    <3>1. BpInv'
      BY <1>1, <1>3, <2>1, <2>2, BpMoved
    <3>2. HookInv'
      BY <1>1, <1>3, <2>2, HookMoved
    <3> QED
      BY <3>1, <3>2
  <2>3. CASE /\ ~mail.waiting /\ native' = Without(bpOwn.queue, hookOwn.queue)
             /\ hookOwn' = take_removals(hookOwn) /\ mail' = mail
    <3>1. /\ \A i \in Ids : native'.bps[i] = IF i \in bpOwn.queue THEN None ELSE native.bps[i]
          /\ native'.dbgBps = native.dbgBps \ bpOwn.queue /\ native'.hooks = native.hooks \ hookOwn.queue
          /\ native'.dbgHooks = native.dbgHooks \ hookOwn.queue /\ native'.nextId = native.nextId
      BY <1>3, <2>3, WithoutFacts
    <3>2. hookOwn'.lease = hookOwn.lease /\ hookOwn'.queue = {}
      BY <1>3, <2>3, TakeFacts
    <3>3. BpInv'
      BY <1>1, <1>3, <2>1, <2>3, <3>1, BpMoved
    <3>4. HookInv'
      BY <1>1, <1>3, <2>3, <3>1, <3>2, HookMoved
    <3> QED
      BY <3>3, <3>4
  <2> QED
    BY <1>1, <2>2, <2>3, ApplyFacts
<1>11. TrapInv'
  BY <1>1, <1>3, TrapKept, SameReg, ShrinksSame
<1> QED
  BY <1>2, <1>3, <1>4, <1>5, <1>6, <1>7, <1>8, <1>9, <1>10, <1>11 DEF HostInv

LEMMA Inv_Act == ASSUME HostInv, Act PROVE HostInv'
<1>1. TypeOK /\ PhaseInv /\ VotesInv /\ PolicyInv /\ InterestInv /\ BpInv /\ HookInv /\ TrapInv
  BY DEF HostInv
<1>2. TypeOK'
  BY <1>1, Type_Act
<1>3. /\ host.at = "act" /\ host' = AtMail /\ UNCHANGED <<reg, held, mail, native, bpOwn, hookOwn, pub>>
  BY DEF Act
<1>4. /\ host'.at = "mail" /\ ~host'.py /\ host'.todo = {} /\ host'.call = NoCall
      /\ host'.merged = None /\ host'.votes = {} /\ host'.target = None /\ host'.valid
  BY <1>3, AtMailType
<1>5. host.target = None /\ host.valid /\ reg[Staged] = Absent /\ held = Absent
  BY <1>1, <1>3, Outside DEF PhaseInv, CallInv
<1>6. QuarantineInv'
  BY <1>1, <1>3, QuarantineKept
<1>7. PhaseInv'
  BY <1>3, <1>4, <1>5, <1>6, PhaseNow DEF PyPresent, TodoPresent
<1>8. VotesInv'
  BY <1>4, VotesReset
<1>9. PolicyInv' /\ InterestInv'
  BY <1>1, <1>2, <1>3, <1>4, <1>5, PolicyKept, InterestKept, SameReg
<1>10. BpInv' /\ HookInv'
  BY <1>1, <1>3, BpKept, HookKept, SameReg
<1>11. Shrinks(traps, traps', {})
  <2>1. traps \in Traps
    BY <1>1 DEF TypeOK
  <2>2. traps' = traps \/ traps' = trap_on_resume(traps)
    BY DEF Act, Resumed
  <2> QED
    BY <2>1, <2>2, ShrinksSame, TrapMoveFacts
<1>12. TrapInv'
  BY <1>1, <1>3, <1>11, TrapKept, SameReg
<1> QED
  BY <1>2, <1>3, <1>4, <1>5, <1>6, <1>7, <1>8, <1>9, <1>10, <1>11, <1>12 DEF HostInv

-----------------------------------------------------------------------------
(* Every behaviour                                                         *)

LEMMA TotalNone ==
  ASSUME NEW D
  PROVE  Total([x \in D |-> 0]) = 0
<1> DEFINE f == [x \in D |-> 0]
<1>1. \A x \in D : {x} \X (1..f[x]) = {}
  OBVIOUS
<1>2. UNION {{x} \X (1..f[x]) : x \in DOMAIN f} = {}
  BY <1>1
<1> QED
  BY <1>2, FS_EmptySet DEF Total

LEMMA Inv_Init ==
  ASSUME Init
  PROVE  HostInv
<1>1. TypeOK
  BY Type_Init
<1>2. /\ \A k \in Keys : reg[k] = Absent
      /\ held = Absent /\ host = AtMail /\ traps = EmptyTraps /\ Staged \in Keys
      /\ bpOwn = EmptyLeases(Ids) /\ hookOwn = EmptyLeases(Addrs)
      /\ native.bps = [i \in Ids |-> None] /\ native.hooks = {}
      /\ pub.interests = {} /\ \A k \in PolicyKinds : pub.policy[k] = {}
  BY NamesFacts DEF Init
<1>3. /\ host.at = "mail" /\ ~host.py /\ host.batch = <<>> /\ host.todo = {}
      /\ host.call = NoCall /\ host.merged = None /\ host.votes = {}
      /\ host.target = None /\ host.valid /\ ~host.changed
  BY <1>2, AtMailType
<1>4. PhaseInv
  BY <1>2, <1>3 DEF PhaseInv, PyPresent, TodoPresent, StageInv, CallInv, QuarantineInv, Idle
<1>5. VotesInv
  BY <1>3 DEF VotesInv
<1>6. Running(reg) = {}
  BY <1>2 DEF Running
<1>7. ASSUME NEW k \in PolicyKinds
      PROVE  DOMAIN (Specs(reg)[k]) = {}
  BY <1>6 DEF Specs
<1>8. PolicyInv
  <2>1. \A k \in PolicyKinds : ~Overlap(Specs(reg)[k]) /\ Merged(Specs(reg)[k]) = {}
    BY <1>7 DEF Overlap, Merged
  <2>2. Ranged \subseteq PolicyKinds
    BY DEF Ranged, PolicyKinds
  <2> QED
    BY <1>2, <1>3, <2>1, <2>2 DEF PolicyInv, Disjoint, Current
<1>9. InterestInv
  <2>1. Interests(reg) = {}
    BY <1>6 DEF Interests
  <2> QED
    BY <1>2, <2>1 DEF InterestInv
<1>10. /\ \A i \in Ids : bpOwn.lease[i] = NoLease
       /\ \A a \in Addrs : hookOwn.lease[a] = NoLease
       /\ NoLease.n = 0
  BY <1>2 DEF EmptyLeases, NoLease
<1>11. \A k \in Keys \cup {"held"} : Holders[k] = Absent
  BY <1>2 DEF Holders
<1>12. BpInv
  <2>1. ASSUME NEW i \in Ids PROVE Total(BpSubscriptions(i)) = 0
    <3>1. BpSubscriptions(i) = [k \in Keys \cup {"held"} |-> 0]
      BY <1>11 DEF BpSubscriptions, Holders
    <3> QED
      BY <3>1, TotalNone
  <2> QED
    BY <1>2, <1>10, <2>1 DEF BpInv, Point
<1>13. HookInv
  <2>1. ASSUME NEW a \in Addrs PROVE Total(HookSubscriptions(a)) = 0
    <3>1. HookSubscriptions(a) = [k \in Keys \cup {"held"} |-> 0]
      BY <1>11 DEF HookSubscriptions, Holders
    <3> QED
      BY <3>1, TotalNone
  <2> QED
    BY <1>2, <1>10, <2>1 DEF HookInv, Point
<1>14. TrapInv
  BY <1>2 DEF TrapInv, EmptyTraps, ActiveTraps, EmptySlot
<1> QED
  BY <1>1, <1>4, <1>5, <1>8, <1>9, <1>12, <1>13, <1>14 DEF HostInv

LEMMA Inv_Policies ==
  ASSUME HostInv, \/ pb_instrumentation_set \/ pb_memory_translation_set
                  \/ pb_code_fetch_set \/ pb_xed_decode_set
                  \/ pb_instrumentation_clear \/ pb_memory_translation_clear
                  \/ pb_code_fetch_clear \/ pb_xed_decode_clear
  PROVE  HostInv'
<1>1. \E kind \in PolicyKinds : \E spec \in SpecsOf(kind) \cup {NoSpec} : PolicyCall(kind, spec)
  BY DEF PolicyKinds, PolicyClear, pb_instrumentation_set, pb_memory_translation_set,
         pb_code_fetch_set, pb_xed_decode_set, pb_instrumentation_clear,
         pb_memory_translation_clear, pb_code_fetch_clear, pb_xed_decode_clear
<1>2. \A kind \in PolicyKinds : SpecsOf(kind) \subseteq Specifications
  BY DEF Specifications
<1> QED
  BY <1>1, <1>2, Inv_PolicyCall

LEMMA Inv_PythonCalls ==
  ASSUME HostInv, PythonCalls
  PROVE  HostInv'
  BY Inv_AskExisting, Inv_pb_breakpoint, Inv_pb_on_event, Inv_pb_intercept_hook, Inv_SecondRequestFails,
     Inv_pb_breakpoint_remove, Inv_pb_off_event, Inv_pb_intercept, Inv_pb_unintercept,
     Inv_pb_execution_trap, Inv_pb_execution_trap_remove, Inv_Policies, Inv_pb_resume
  DEF PythonCalls

LEMMA Inv_HostSteps ==
  ASSUME HostInv, HostSteps
  PROVE  HostInv'
  BY Inv_cmd_load, Inv_cmd_unload, Inv_retire_plugin, Inv_BeginTick, Inv_ExecBegin, Inv_ExecFails,
     Inv_ExecLoads, Inv_ReplaceRejected, Inv_ReplaceAccepted, Inv_ReplaceCommit, Inv_ExecEnds,
     Inv_DecideBegin, Inv_DecideCall, Inv_DecideReturn, Inv_DecideEnd, Inv_SyncEnds, Inv_TickCut,
     Inv_Connected, Inv_BoundCall, Inv_BoundReturn, Inv_DispatchCall, Inv_DispatchReturn,
     Inv_DispatchEnds, Inv_apply_stop_action, Inv_Act
  DEF HostSteps

LEMMA Inv_Others ==
  ASSUME HostInv, Others
  PROVE  HostInv'
<1>1. UnloadAll \in Commands /\ \A n \in Names : Load(n) \in Commands /\ Unload(n) \in Commands
  BY DEF Commands, Load, Unload, UnloadAll
<1>2. ASSUME NEW a \in Addrs, BreakpointHit(a) PROVE HostInv'
  BY <1>2, Inv_StopsAt DEF BreakpointHit
<1>3. ASSUME TrapStop PROVE HostInv'
  BY <1>3, Inv_StopsAt DEF TrapStop
<1> QED
  BY <1>1, <1>2, <1>3, Inv_send_command, Inv_SendTimesOut, Inv_ServeLate, Inv_handle_bp_set,
     Inv_handle_hook_set, Inv_handle_hook_remove, Inv_handle_bp_remove, Inv_handle_resume, Inv_TrapClaim
  DEF Others

LEMMA Inv_Step ==
  ASSUME HostInv, [Next]_vars
  PROVE  HostInv'
<1>1. CASE UNCHANGED vars
  <2>1. UNCHANGED <<reg, held, pending, host, mail, native, bpOwn, hookOwn, traps, pub, stop, used>>
    BY <1>1 DEF vars
  <2>2. TypeOK'
    BY <2>1 DEF HostInv, TypeOK
  <2>3. TypeOK /\ PhaseInv /\ VotesInv /\ PolicyInv /\ InterestInv /\ BpInv /\ HookInv /\ TrapInv
    BY DEF HostInv
  <2>4. SamePlace
    BY <2>1, SamePlaceSame
  <2>5. PhaseInv' /\ VotesInv' /\ PolicyInv' /\ InterestInv'
    BY <2>1, <2>2, <2>4, Kept, SameReg
  <2>6. BpInv' /\ HookInv' /\ TrapInv'
    BY <2>1, <2>3, BpKept, HookKept, TrapKept, SameReg, ShrinksSame
  <2> QED
    BY <2>2, <2>5, <2>6 DEF HostInv
<1>2. CASE Next
  BY <1>2, Inv_PythonCalls, Inv_HostSteps, Inv_Others DEF Next
<1> QED
  BY <1>1, <1>2

\* The invariant holds throughout: the phases of the host thread, the votes on a
\* stop, what is published and every lease, in one induction because each part
\* needs the phases and the types of the others.  (run_host and the pb.* calls.)
THEOREM HostInvariant == Spec => []HostInv
<1>1. Init => HostInv
  BY Inv_Init
<1>2. HostInv /\ [Next]_vars => HostInv'
  BY Inv_Step
<1> QED
  BY <1>1, <1>2, PTL DEF Spec

\* Every variable of the host keeps its type: the registry holds plugins under
\* public names and the private key, leases count naturals, and whatever Python,
\* the debugger and the application do, the published policies are built from
\* specifications that plugins set.
THEOREM HostTypeCorrect == Spec => []TypeOK
<1>1. HostInv => TypeOK
  BY DEF HostInv
<1> QED
  BY <1>1, HostInvariant, PTL

LEMMA InvImpliesOwnership ==
  ASSUME HostInv
  PROVE  OwnershipExact
<1>1. TypeOK /\ BpInv /\ HookInv /\ TrapInv
  BY DEF HostInv
<1>2. \A i \in Ids : Point(bpOwn, i, native.bps[i] # None, i \in native.dbgBps,
                           i \in mail.late.bps, Total(BpSubscriptions(i)))
  BY <1>1 DEF BpInv
<1>3. \A i \in Ids : /\ bpOwn.lease[i].n = Total(BpSubscriptions(i))
                     /\ \/ native.bps[i] = None
                        \/ i \in native.dbgBps \cup bpOwn.queue \cup mail.late.bps
                        \/ bpOwn.lease[i].n > 0
  BY <1>2 DEF Point
<1>4. \A a \in Addrs : Point(hookOwn, a, a \in native.hooks, a \in native.dbgHooks,
                             a \in mail.late.hooks, Total(HookSubscriptions(a)))
  BY <1>1 DEF HookInv
<1>5. \A a \in Addrs : /\ hookOwn.lease[a].n = Total(HookSubscriptions(a))
                       /\ a \in native.hooks =>
                             \/ a \in native.dbgHooks \cup hookOwn.queue \cup mail.late.hooks
                             \/ hookOwn.lease[a].n > 0
  BY <1>4 DEF Point
<1>6. native.hooks \subseteq Addrs
  BY <1>1 DEF TypeOK, Native
<1>7. ActiveTraps(traps) \subseteq UNION {p.traps : p \in Plugins}
  BY <1>1 DEF TrapInv
<1> QED
  BY <1>3, <1>5, <1>6, <1>7 DEF OwnershipExact

\* For any plugins, addresses and bounds, whatever the callbacks, the debugger
\* and a waiting command do in any order: every lease counts exactly the
\* subscriptions on its point, no native point that the scripts created outlives
\* its last subscription other than on its way out, and a live trap has an owner.
\* (acquire_native, release_native, release_native_ownership,
\* drain_runtime_ownership, apply_pending_removals.)
THEOREM HostOwnershipExact == Spec => []OwnershipExact
<1>1. HostInv => OwnershipExact
  BY InvImpliesOwnership
<1> QED
  BY <1>1, HostInvariant, PTL

LEMMA InvImpliesPolicy ==
  ASSUME HostInv
  PROVE  PolicyCurrent
<1> SUFFICES ASSUME host.at # "commit", host.target = None
             PROVE  /\ Current(reg, pub)
                    /\ Failed(reg) = {} => pub.interests = Interests(reg)
                    /\ \A u \in pub.interests : u[1] # Staged
  BY DEF PolicyCurrent, Current
<1>1. host.valid
  BY DEF HostInv, PhaseInv, CallInv
<1> QED
  BY <1>1 DEF HostInv, PolicyInv, InterestInv

\* For any specifications: outside the collection of a decision and the commit
\* of a replacement, Pin executes the merged policies of the running plugins,
\* with the decoder's the only exception when Pin refused its flush, and the
\* published interests are theirs; a rejected replacement, a failed pb.* call and
\* a plugin that raised leave nothing behind.  (publish_checked and its rollback,
\* refresh_best_effort, publish_interests.)
THEOREM HostPolicyCurrent == Spec => []PolicyCurrent
<1>1. HostInv => PolicyCurrent
  BY InvImpliesPolicy
<1> QED
  BY <1>1, HostInvariant, PTL

\* What a call from Python changes of the host is its second request.
LEMMA PythonStays ==
  ASSUME HostInv, PythonCalls
  PROVE  host'.at = host.at /\ host.at # "act"
<1>1. host \in Host
  BY DEF HostInv, TypeOK
<1>2. ASSUME ~host.py, host.call = NoCall PROVE FALSE
  <2>1. host.call.op = "none" /\ ~Calling
    BY <1>2 DEF Calling, NoCall, None
  <2>2. ~pb_breakpoint /\ ~pb_on_event /\ ~pb_intercept_hook /\ ~SecondRequestFails
    BY <1>2, <2>1 DEF pb_breakpoint, pb_on_event, pb_intercept_hook, SecondRequestFails
  <2>3. \A op, a : ~AskExisting(op, a)
    BY <2>1 DEF AskExisting
  <2>4. \A kind, spec : ~PolicyCall(kind, spec)
    BY <2>1 DEF PolicyCall
  <2>5. /\ ~pb_instrumentation_set /\ ~pb_memory_translation_set /\ ~pb_code_fetch_set /\ ~pb_xed_decode_set
        /\ ~pb_instrumentation_clear /\ ~pb_memory_translation_clear /\ ~pb_code_fetch_clear
        /\ ~pb_xed_decode_clear
    BY <2>4 DEF pb_instrumentation_set, pb_memory_translation_set, pb_code_fetch_set, pb_xed_decode_set,
         PolicyClear, pb_instrumentation_clear, pb_memory_translation_clear, pb_code_fetch_clear,
         pb_xed_decode_clear
  <2>6. ~pb_intercept /\ ~pb_resume /\ \A oneShot : ~pb_execution_trap(oneShot)
    BY <2>1 DEF pb_intercept, pb_resume, pb_execution_trap
  <2> QED
    BY <2>1, <2>2, <2>3, <2>5, <2>6 DEF PythonCalls
<1>3. host.at # "act"
  BY <1>2 DEF HostInv, PhaseInv, CallInv, Idle
<1>4. \/ host' = host
      \/ CallEnds
      \/ \E op, a : AskExisting(op, a)
  BY DEF PythonCalls, pb_breakpoint, pb_on_event, pb_intercept_hook, SecondRequestFails,
         pb_breakpoint_remove, pb_off_event, pb_intercept, pb_unintercept, pb_execution_trap,
         pb_execution_trap_remove, pb_resume, PolicyCall, PolicyClear,
         pb_instrumentation_set, pb_memory_translation_set, pb_code_fetch_set, pb_xed_decode_set,
         pb_instrumentation_clear, pb_memory_translation_clear, pb_code_fetch_clear,
         pb_xed_decode_clear
<1>5. host'.at = host.at
  BY <1>1, <1>4 DEF CallEnds, AskExisting, Host
<1> QED
  BY <1>3, <1>5

LEMMA OthersStay == ASSUME Others PROVE host' = host
  BY DEF Others, send_command, SendTimesOut, ServeLate, External, handle_bp_set, handle_hook_set,
       handle_hook_remove, BreakpointHit, StopsAt, handle_bp_remove, handle_resume, TrapClaim, TrapStop

\* Only apply_stop_action enters the act phase.
LEMMA OnlyApplyActs ==
  ASSUME HostInv, [Next]_vars, host.at # "act", host'.at = "act"
  PROVE  apply_stop_action
<1>1. host \in Host
  BY DEF HostInv, TypeOK
<1>2. HostSteps
  BY PythonStays, OthersStay DEF Next, vars
<1>3. ~cmd_load /\ ~cmd_unload /\ ~retire_plugin /\ ~BeginTick
  BY <1>1, AtMailType DEF cmd_load, cmd_unload, retire_plugin, BeginTick, Host, CallPlugin
<1>4. ~ExecBegin /\ ~ExecFails /\ ~ExecLoads /\ ~ReplaceRejected
  BY <1>1 DEF ExecBegin, ExecFails, ExecLoads, ReplaceRejected, Host, ExecDone
<1>5. ~ReplaceAccepted /\ ~ReplaceCommit /\ ~ExecEnds
  BY <1>1 DEF ReplaceAccepted, ReplaceCommit, ExecEnds, Host, ExecDone
<1>6. ~DecideCall /\ ~DecideEnd /\ ~SyncEnds /\ \A t : ~DecideBegin(t)
  BY <1>1, AtMailType DEF DecideBegin, DecideCall, DecideEnd, SyncEnds, Host, CallFirst, CallPlugin
<1>7. ASSUME NEW failed, NEW once, DecideReturn(failed, once) PROVE FALSE
  BY <1>1, <1>7 DEF DecideReturn, Host
<1>8. ~TickCut /\ ~BoundCall /\ ~DispatchCall /\ ~DispatchEnds
  BY <1>1, AtMailType DEF TickCut, BoundCall, DispatchCall, DispatchEnds, Host, CallFirst, CallPlugin
<1>9. ~Connected
  <2>1. AtMail \in Host
    BY AtMailType
  <2>2. \A h : (DOMAIN h = DOMAIN AtMail /\ h.at = "bound") => EventsNext(h).at # "act"
    BY <2>1 DEF EventsNext, Host
  <2> QED
    BY <2>1, <2>2 DEF Connected, Host
<1>10. ASSUME NEW action, NEW failed, NEW once, BoundReturn(action, failed, once) PROVE FALSE
  <2>1. \A h : (DOMAIN h = DOMAIN host /\ h.at = "bound") => EventsNext(h).at # "act"
    BY <1>1 DEF EventsNext, Host
  <2> QED
    BY <1>1, <1>10, <2>1 DEF BoundReturn, Host
<1>11. ASSUME NEW failed, NEW once, DispatchReturn(failed, once) PROVE FALSE
  BY <1>1, <1>11 DEF DispatchReturn, Host
<1>12. ~Act
  BY DEF Act
<1> QED
  BY <1>2, <1>3, <1>4, <1>5, <1>6, <1>7, <1>8, <1>9, <1>10, <1>11, <1>12 DEF HostSteps

\* Between the comparison and the request the host does nothing else, nobody else
\* is served, and a stop that is on stays.
LEMMA ActStays ==
  ASSUME HostInv, [Next]_vars, host.at = "act", host'.at = "act", stop.on
  PROVE  host' = host /\ stop' = stop
<1>1. stop \in Stop
  BY DEF HostInv, TypeOK
<1>2. CASE UNCHANGED vars
  BY <1>2 DEF vars
<1>3. CASE Next
  <2>1. ~HostSteps
    <3>1. ~Act
      BY AtMailType DEF Act
    <3>2. ~host.py
      BY DEF HostInv, PhaseInv, CallInv, Idle
    <3> QED
      BY <3>1, <3>2
      DEF HostSteps, cmd_load, cmd_unload, retire_plugin, BeginTick, ExecBegin, ExecFails, ExecLoads,
          ReplaceRejected, ReplaceAccepted, ReplaceCommit, ExecEnds, DecideBegin, DecideCall,
          DecideReturn, DecideEnd, SyncEnds, TickCut, Connected, BoundCall, BoundReturn, DispatchCall,
          DispatchReturn, DispatchEnds, apply_stop_action
  <2>2. Others
    BY <1>3, <2>1, PythonStays DEF Next
  <2>3. ~handle_resume /\ \A a : ~StopsAt(a)
    BY DEF handle_resume, External, HostServed, StopsAt
  <2>4. stop' = stop
    BY <2>2, <2>3 DEF Others, send_command, SendTimesOut, ServeLate, External, handle_bp_set, handle_hook_set,
       handle_hook_remove, BreakpointHit, handle_bp_remove, TrapClaim, TrapStop
  <2> QED
    BY <2>2, <2>4, OthersStay
<1> QED
  BY <1>2, <1>3

\* Between the comparison and the request: the votes agreed, and the stop is the
\* one they were about.
ActInv == host.at = "act" => Agreed /\ stop.on /\ stop.gen = host.gen

LEMMA ActStep ==
  ASSUME HostInv, ActInv, [Next]_vars
  PROVE  ActInv'
<1> SUFFICES ASSUME host'.at = "act"
             PROVE  Agreed' /\ stop'.on /\ stop'.gen = host'.gen
  BY DEF ActInv
<1>1. CASE host.at = "act"
  <2>1. host' = host /\ stop' = stop
    BY <1>1, ActStays DEF ActInv
  <2>2. Agreed'
    BY <1>1, <2>1 DEF ActInv, Agreed
  <2> QED
    BY <1>1, <2>1, <2>2 DEF ActInv
<1>2. CASE host.at # "act"
  <2>1. apply_stop_action /\ host \in Host
    BY <1>2, OnlyApplyActs DEF HostInv, TypeOK
  <2>2. host' # AtMail
    BY AtMailType
  <2>3. /\ host' = [host EXCEPT !.at = "act"] /\ SameStop
        /\ host.merged \notin {None, "stay"} /\ stop' = stop
    BY <2>1, <2>2 DEF apply_stop_action
  <2>4. host'.merged = host.merged /\ host'.votes = host.votes /\ host'.gen = host.gen
    BY <2>1, <2>3 DEF Host
  <2>5. Agreed
    BY <2>3 DEF HostInv, VotesInv, Agreed
  <2>6. Agreed'
    BY <2>4, <2>5 DEF Agreed
  <2> QED
    BY <2>3, <2>4, <2>6 DEF SameStop
<1> QED
  BY <1>1, <1>2

\* For any number of handlers, stops and requests of the debugger, in any order,
\* with any answers and errors: the host lets the program go on only when the
\* merge of every answer is an action that nobody's stay, error or different step
\* forbids, and from the very stop they answered to.  The comparison and the
\* request are two steps; that nobody resumes in between is the server's reading
\* of one connection at a time.  (merge_action, dispatch_bound_breakpoints,
\* apply_stop_action, serve_client.)
THEOREM HostStayWins == Spec => StayWins
<1>1. Init => ActInv
  BY AtMailType DEF Init, ActInv
<1>2. ActInv /\ HostInv /\ [Next]_vars => ActInv'
  BY ActStep
<1> DEFINE A == HostLeavesStop => Agreed /\ stop.gen = host.gen
<1>3. ActInv => [A]_vars
  BY DEF ActInv, HostLeavesStop
<1>4. StayWins <=> [][A]_vars
  BY DEF StayWins
<1> HIDE DEF A
<1> QED
  BY <1>1, <1>2, <1>3, <1>4, HostInvariant, PTL DEF Spec
=============================================================================
