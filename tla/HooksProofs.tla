---------------------------- MODULE HooksProofs -----------------------------
(***************************************************************************)
(* Promises of the native hooks and engines, for any number of threads,    *)
(* writers and functions and for every workload: a reader never searches a *)
(* freed snapshot, an instruction that is executed again with a changed    *)
(* context is not acted on twice, the code cache follows the published     *)
(* sets, flags, policies and captures agree, and a reported return is of   *)
(* an activation whose entry was reported.                                 *)
(***************************************************************************)
EXTENDS Hooks, FiniteSetTheorems, SequenceTheorems, WellFoundedInduction, TLAPS

-----------------------------------------------------------------------------
(* The inductive invariant.                                                *)

CallRecs ==
  [call : {"hook", "return", "exec"}, fn : Addresses \cup {0},
   callback : BOOLEAN, guarded : BOOLEAN]

FrameRecs == [fn : Addresses, level : Nat \ {0}, stale : BOOLEAN]

ActivationRecs == [fn : Entries, reported : SUBSET Addresses]

Reports ==
  {None} \cup [fn : Addresses \cup {0}, stale : BOOLEAN,
               reported : SUBSET Addresses]

ThreadRecs ==
  [pc : {"run", "fetch", "jit", "calls"}, stack : Seq(ActivationRecs),
   frames : Seq(FrameRecs), at : Addresses \cup {0}, todo : Seq(CallRecs),
   snap : Nat, guard : Addresses \cup {0}, hits : Nat, returns : Nat,
   last : Reports]

\* What on_ins inserts at a: the hook's call comes first and minds the guard,
\* an entry is tracked and a return reported at different instructions.
Inserted(a, calls) ==
  /\ calls \in Seq(CallRecs)
  /\ \A i \in DOMAIN calls :
       /\ calls[i].call = "hook" =>
            i = 1 /\ calls[i].guarded /\ (a \in Rets => calls[i].fn = 0)
       /\ calls[i].call = "return" => a \in Rets /\ calls[i].fn # 0

\* The frames of a thread are those of nested activations.
Nested(frames) ==
  \A i, j \in DOMAIN frames : i < j => frames[i].level < frames[j].level

\* The hook's call of the instruction at hand is still to come.
HookAhead(th) ==
  \/ th.pc \in {"fetch", "jit"}
  \/ th.pc = "calls" /\ th.todo # <<>> /\ Head(th.todo).call = "hook"

\* One execution of an instruction: a hit that was acted on is either behind,
\* or its replay carries the guard; a return that was reported took its frame.
ActsOnce(th) ==
  /\ th.hits <= 1
  /\ th.returns <= 1
  /\ th.hits = 1 /\ HookAhead(th) => th.guard = th.at
  /\ th.returns = 1 /\ th.pc # "run" =>
       /\ th.at \in Rets
       /\ \A i \in DOMAIN th.frames : th.frames[i].level < Len(th.stack)

ThreadOK(th) ==
  /\ th \in ThreadRecs
  /\ th.pc # "run" => th.at \in Addresses
  /\ th.pc = "calls" => Inserted(th.at, th.todo)
  /\ Nested(th.frames)
  /\ ActsOnce(th)

ThreadsOK ==
  /\ thread = [t \in Threads |-> thread[t]]
  /\ \A t \in Threads : ThreadOK(thread[t])

CodeOK ==
  /\ code = [a \in Addresses |-> code[a]]
  /\ \A a \in Addresses : code[a] # None => Inserted(a, code[a])

SetsOK ==
  /\ hooks \subseteq Addresses
  /\ functions \subseteq Addresses
  /\ DOMAIN workload = {"ops", "edits", "moves", "calls"}
  /\ workload.calls \in [Threads -> SUBSET Entries]
  /\ \A o \in workload.ops : o.op \in HookOps => o.arg \subseteq Addresses

\* Enough guards are counted for the threads that carry one.
GuardsCounted ==
  /\ guards \in Nat
  /\ Cardinality({t \in Threads : thread[t].guard # 0}) <= guards

\* Snapshots are numbered; the current one is the newest, and what is retired
\* or freed is older.
CellOK ==
  /\ cell \in [cur : Nat \ {0}, contents : Seq(SUBSET Addresses), retired : SUBSET (Nat \ {0}),
               freed : SUBSET (Nat \ {0}), readers : SUBSET Threads]
  /\ cell.cur = Len(cell.contents)
  /\ \A n \in cell.retired \cup cell.freed : n < cell.cur

\* A writer inside the master's lock.
Inside(x) == x.pc \in {"reclaim", "free", "functions"}

\* One writer is inside, and the snapshot it is about to retire is not the
\* current one.
WritersOK ==
  /\ writer = [w \in Writers |-> writer[w]]
  /\ \A w \in Writers :
       /\ DOMAIN writer[w] = {"pc", "op", "arg", "flush", "old", "seen"}
       /\ Inside(writer[w]) => lock = w
       /\ writer[w].pc = "reclaim" => writer[w].old \in Nat /\ writer[w].old < cell.cur

\* Who searches a snapshot is announced, its snapshot is not freed, and a writer
\* that found nobody announced is not going to free it.
ReadersOK ==
  /\ \A t \in Threads :
       thread[t].pc = "jit" => t \in cell.readers /\ thread[t].snap \notin cell.freed
  /\ \A w \in Writers, t \in Threads :
       writer[w].pc = "free" /\ thread[t].pc = "jit" => thread[t].snap \notin cell.retired

HooksInv ==
  /\ ThreadsOK /\ CodeOK /\ SetsOK /\ GuardsCounted
  /\ CellOK /\ WritersOK /\ ReadersOK

-----------------------------------------------------------------------------
(* Addresses.                                                              *)

LEMMA AddressFacts ==
  /\ Entries \subseteq Addresses
  /\ Rets \subseteq Addresses
  /\ Addresses \subseteq Nat \ {0}
  /\ \A f \in Entries : RetOf[f] \in Rets
BY HooksAssumption DEF Addresses, Rets

\* One thread's step: the others keep their records.
LEMMA OneThread ==
  ASSUME ThreadsOK, NEW t \in Threads, NEW th, ThreadOK(th), Sets(t, th)
  PROVE  ThreadsOK' /\ thread'[t] = th
         /\ \A u \in Threads : u # t => thread'[u] = thread[u]
BY DEF ThreadsOK, Sets

\* The thread at the start of an instruction: nothing has been reported.
LEMMA StartsOK ==
  ASSUME NEW th, ThreadOK(th), NEW a \in Addresses,
         NEW s \in Seq(ActivationRecs)
  PROVE  ThreadOK([th EXCEPT !.pc = "fetch", !.at = a, !.stack = s,
                             !.hits = 0, !.returns = 0, !.last = None])
<1> DEFINE r == [th EXCEPT !.pc = "fetch", !.at = a, !.stack = s,
                           !.hits = 0, !.returns = 0, !.last = None]
<1>1. th \in ThreadRecs
  BY DEF ThreadOK
<1>2. /\ r.pc = "fetch" /\ r.at = a /\ r.stack = s /\ r.hits = 0
      /\ r.returns = 0 /\ r.frames = th.frames
  BY <1>1 DEF ThreadRecs
<1>3. r \in ThreadRecs
  BY <1>1 DEF ThreadRecs, Reports
<1> HIDE DEF r
<1>4. Nested(r.frames)
  BY <1>2, Zenon DEF ThreadOK
<1>5. ActsOnce(r)
  BY <1>2 DEF ActsOnce
<1>6. r.pc # "calls"
  BY <1>2
<1>7. r.at \in Addresses
  BY <1>2
<1>8. ThreadOK(r)
  BY <1>3, <1>4, <1>5, <1>6, <1>7, Zenon DEF ThreadOK
<1> QED
  BY <1>8 DEF r

\* The first n elements of a sequence.
LEMMA Prefixes ==
  ASSUME NEW S, NEW s \in Seq(S), NEW n \in Int, n <= Len(s)
  PROVE  /\ SubSeq(s, 1, n) \in Seq(S)
         /\ \A i \in DOMAIN SubSeq(s, 1, n) : i \in DOMAIN s /\ SubSeq(s, 1, n)[i] = s[i] /\ i <= n
<1>1. Len(s) \in Nat
  BY LenProperties
<1>2. CASE n <= 0
  <2>1. SubSeq(s, 1, n) = <<>>
    BY <1>2, SubSeqProperties
  <2> QED
    BY <2>1, EmptySeq
<1>3. CASE n > 0
  BY <1>1, <1>3, LenProperties, SubSeqProperties
<1> QED
  BY <1>2, <1>3

LEMMA NestedPrefix ==
  ASSUME NEW s \in Seq(FrameRecs), Nested(s), NEW n \in Int, n <= Len(s)
  PROVE  Nested(SubSeq(s, 1, n)) /\ SubSeq(s, 1, n) \in Seq(FrameRecs)
BY Prefixes DEF Nested

\* A call that has run leaves no hook's call behind it.
LEMMA TailInserted ==
  ASSUME NEW a, NEW calls, Inserted(a, calls), calls # <<>>
  PROVE  /\ Inserted(a, Tail(calls))
         /\ Tail(calls) # <<>> => Head(Tail(calls)).call # "hook"
         /\ Head(calls) \in CallRecs
         /\ Head(calls).call = "hook" => Head(calls).guarded /\ (a \in Rets => Head(calls).fn = 0)
         /\ Head(calls).call = "return" => a \in Rets /\ Head(calls).fn # 0
<1>1. calls \in Seq(CallRecs)
  BY DEF Inserted
<1>2. Len(calls) \in Nat /\ Len(calls) > 0 /\ DOMAIN calls = 1..Len(calls)
  BY <1>1, EmptySeq, LenProperties
<1>3. Head(calls) = calls[1] /\ 1 \in DOMAIN calls /\ calls[1] \in CallRecs
  BY <1>1, <1>2, ElementOfSeq
<1>4. /\ Tail(calls) \in Seq(CallRecs)
      /\ \A i \in DOMAIN Tail(calls) : Tail(calls)[i] = calls[i + 1] /\ i + 1 \in DOMAIN calls /\ i \in Nat \ {0}
      /\ Tail(calls) # <<>> => 1 \in DOMAIN Tail(calls) /\ Head(Tail(calls)) = Tail(calls)[1]
  BY <1>1, <1>2, HeadTailProperties, EmptySeq, LenProperties
<1>5. \A i \in DOMAIN Tail(calls) :
        /\ Tail(calls)[i].call # "hook"
        /\ Tail(calls)[i].call = "return" => a \in Rets /\ Tail(calls)[i].fn # 0
  BY <1>4 DEF Inserted
<1> QED
  BY <1>3, <1>4, <1>5 DEF Inserted

-----------------------------------------------------------------------------
(* Tracking an entry.                                                      *)

LEMMA LeastNat ==
  ASSUME NEW S, S \subseteq Nat, S # {}
  PROVE  \E x \in S : \A y \in S : x <= y
<1>1. PICK x \in S : \A y \in S : ~(<<y, x>> \in OpToRel(<, Nat))
  BY NatLessThanWellFounded, WFMin
<1>2. SUFFICES ASSUME NEW y \in S PROVE x <= y
  BY <1>1
<1>3. x \in Nat /\ y \in Nat
  BY <1>1
<1>4. ~(y < x)
  BY <1>1, <1>3 DEF OpToRel
<1> QED
  BY <1>3, <1>4

LEMMA FrameLevels ==
  ASSUME NEW frames \in Seq(FrameRecs)
  PROVE  /\ Len(frames) \in Nat /\ DOMAIN frames = 1..Len(frames)
         /\ \A i \in 1..Len(frames) : frames[i] \in FrameRecs /\ frames[i].level \in Nat \ {0}
<1>1. Len(frames) \in Nat /\ DOMAIN frames = 1..Len(frames)
  BY LenProperties
<1>2. \A i \in 1..Len(frames) : frames[i] \in FrameRecs
  BY ElementOfSeq
<1>3. \A x \in FrameRecs : x.level \in Nat \ {0}
  BY DEF FrameRecs
<1> QED
  BY <1>1, <1>2, <1>3

\* The frames that are popped off the end leave those of outer activations.
LEMMA KeptFrames ==
  ASSUME NEW t \in Threads, ThreadOK(thread[t])
  PROVE  /\ Kept(t) \in 0..Len(thread[t].frames)
         /\ Kept(t) > 0 => thread[t].frames[Kept(t)].level < Depth(t)
<1> DEFINE frames == thread[t].frames
           Over == {n \in 0..Len(frames) :
                      \A i \in (n + 1)..Len(frames) : frames[i].level >= Depth(t)}
<1>1. frames \in Seq(FrameRecs) /\ thread[t].stack \in Seq(ActivationRecs)
  BY DEF ThreadOK, ThreadRecs
<1>2. Len(frames) \in Nat /\ Depth(t) \in Nat /\ DOMAIN frames = 1..Len(frames)
  BY <1>1, LenProperties DEF Depth
<1>3. \A i \in 1..Len(frames) : frames[i].level \in Nat
  BY <1>1, FrameLevels
<1> HIDE DEF frames
<1>4. Over \subseteq Nat /\ Len(frames) \in Over
  BY <1>2
<1> HIDE DEF Over
<1>5. PICK n \in Over : \A m \in Over : n <= m
  BY <1>4, LeastNat
<1> USE DEF Over
<1>6. n > 0 => frames[n].level < Depth(t)
  <2>1. SUFFICES ASSUME n > 0, ~(frames[n].level < Depth(t)) PROVE FALSE
    OBVIOUS
  <2>2. n - 1 \in 0..Len(frames) /\ n \in 1..Len(frames)
    BY <1>2, <1>5, <2>1
  <2>3. frames[n].level >= Depth(t)
    BY <1>2, <1>3, <2>1, <2>2
  <2>4. \A i \in ((n - 1) + 1)..Len(frames) : i = n \/ i \in (n + 1)..Len(frames)
    BY <1>2, <2>2
  <2>5. n - 1 \in Over
    BY <1>5, <2>2, <2>3, <2>4
  <2> QED
    BY <1>5, <2>2, <2>5, SMTT(60)
<1> DEFINE Stops(k) ==
             /\ k > 0 => frames[k].level < Depth(t)
             /\ \A i \in (k + 1)..Len(frames) : frames[i].level >= Depth(t)
<1>7. n \in 0..Len(frames) /\ Stops(n)
  BY <1>5, <1>6
<1>8. Kept(t) = CHOOSE k \in 0..Len(frames) : Stops(k)
  BY DEF Kept, frames
<1> HIDE DEF Stops
<1>9. Kept(t) \in 0..Len(frames) /\ Stops(Kept(t))
  BY <1>7, <1>8, Zenon
<1> QED
  BY <1>9 DEF frames, Stops

LEMMA TrackedFrames ==
  ASSUME NEW t \in Threads, ThreadOK(thread[t]), NEW f \in Addresses, Depth(t) > 0
  PROVE  Tracked(t, f) \in Seq(FrameRecs) /\ Nested(Tracked(t, f))
<1> DEFINE frames == thread[t].frames
           live == SubSeq(frames, 1, Kept(t))
           new == [fn |-> f, level |-> Depth(t), stale |-> f \notin functions]
<1>1. frames \in Seq(FrameRecs) /\ thread[t].stack \in Seq(ActivationRecs) /\ Nested(frames)
  BY DEF ThreadOK, ThreadRecs
<1>2. Len(frames) \in Nat /\ Depth(t) \in Nat \ {0} /\ DOMAIN frames = 1..Len(frames)
  BY <1>1, LenProperties DEF Depth
<1>3. Kept(t) \in 0..Len(frames) /\ (Kept(t) > 0 => frames[Kept(t)].level < Depth(t))
  BY KeptFrames
<1>4. new \in FrameRecs /\ new.level = Depth(t)
  BY <1>2 DEF FrameRecs
<1>5. \A i \in 1..Len(frames) : frames[i].level \in Nat
  BY <1>1, FrameLevels
<1>6. \A i \in 1..Len(frames) : i <= Kept(t) => frames[i].level < Depth(t)
  <2> SUFFICES ASSUME NEW i \in 1..Len(frames), i <= Kept(t)
               PROVE  frames[i].level < Depth(t)
    OBVIOUS
  <2>1. Kept(t) \in 1..Len(frames)
    BY <1>2, <1>3
  <2>2. i = Kept(t) \/ frames[i].level < frames[Kept(t)].level
    BY <1>1, <1>2, <2>1, SMTT(30) DEF Nested
  <2>3. frames[Kept(t)].level < Depth(t)
    BY <1>3, <2>1
  <2>4. frames[i].level \in Nat /\ frames[Kept(t)].level \in Nat
    BY <1>5, <2>1
  <2> QED
    BY <1>2, <2>2, <2>3, <2>4
<1>7. live \in Seq(FrameRecs) /\ Nested(live)
      /\ \A i \in DOMAIN live : live[i] = frames[i] /\ i \in 1..Len(frames) /\ i <= Kept(t)
  <2>1. Kept(t) \in Int /\ Kept(t) <= Len(frames)
    BY <1>2, <1>3
  <2> QED
    BY <1>1, <1>2, <2>1, Prefixes, NestedPrefix
<1>8. Tracked(t, f) = IF Len(live) = FrameCap THEN live ELSE Append(live, new)
  BY DEF Tracked
<1> HIDE DEF live, frames, new
<1>9. DOMAIN live = 1..Len(live) /\ Len(live) \in Nat
  BY <1>7, LenProperties
<1>10. /\ Append(live, new) \in Seq(FrameRecs)
       /\ Len(Append(live, new)) = Len(live) + 1
       /\ \A i \in 1..Len(live) : Append(live, new)[i] = live[i]
       /\ Append(live, new)[Len(live) + 1] = new
  BY <1>4, <1>7, AppendProperties
<1>11. \A i \in 1..Len(live) : live[i].level < Depth(t)
  BY <1>6, <1>7, <1>9
<1>12. DOMAIN Append(live, new) = 1..(Len(live) + 1)
  BY <1>10, LenProperties
<1>13. \A i, j \in 1..(Len(live) + 1) : i < j =>
         i \in 1..Len(live) /\ (j \in 1..Len(live) \/ j = Len(live) + 1)
  BY <1>9
<1>14. Nested(Append(live, new))
  BY <1>4, <1>7, <1>9, <1>10, <1>11, <1>12, <1>13 DEF Nested
<1> QED
  BY <1>7, <1>8, <1>10, <1>14

-----------------------------------------------------------------------------
(* What is compiled.                                                       *)

LEMMA GreatestNat ==
  ASSUME NEW S, S \subseteq Nat, S # {}, NEW m \in Nat, \A y \in S : y <= m
  PROVE  Max(S) \in S /\ \A y \in S : y <= Max(S)
<1> DEFINE D == {n \in 0..m : m - n \in S}
<1>1. PICK y \in S : y <= m
  OBVIOUS
<1>2. m - y \in D /\ D \subseteq Nat
  BY <1>1
<1> HIDE DEF D
<1>3. PICK n \in D : \A k \in D : n <= k
  BY <1>2, LeastNat
<1> USE DEF D
<1>4. m - n \in S /\ n \in Nat
  BY <1>3
<1>5. \A x \in S : m - n >= x
  <2> SUFFICES ASSUME NEW x \in S PROVE m - n >= x
    OBVIOUS
  <2>1. m - x \in 0..m /\ x \in Nat /\ m - (m - x) = x
    OBVIOUS
  <2>2. m - x \in D
    BY <2>1
  <2> QED
    BY <1>3, <1>4, <2>1, <2>2
<1>6. Max(S) \in S /\ \A z \in S : Max(S) >= z
  BY <1>4, <1>5 DEF Max
<1>7. \A z \in S : z \in Nat
  OBVIOUS
<1> QED
  BY <1>6, <1>7

LEMMA OwnerKnown ==
  ASSUME functions \subseteq Addresses, NEW a \in Addresses
  PROVE  Owner(a) \in Addresses \cup {0}
<1> DEFINE below == {f \in functions : f <= a}
<1>1. below \subseteq Nat /\ a \in Nat /\ \A y \in below : y <= a
  BY AddressFacts
<1>2. below # {} => Max(below) \in below
  <2> HIDE DEF below
  <2> QED
    BY <1>1, GreatestNat
<1>3. Owner(a) \in {0, IF below = {} THEN 0 ELSE Max(below)}
  BY DEF Owner
<1> QED
  BY <1>2, <1>3

LEMMA OneCall ==
  ASSUME NEW x \in CallRecs
  PROVE  <<x>> \in Seq(CallRecs) /\ Len(<<x>>) = 1 /\ <<x>>[1] = x
OBVIOUS

LEMMA CompiledInserted ==
  ASSUME functions \subseteq Addresses, NEW a \in Addresses, NEW hooked \in BOOLEAN
  PROVE  Inserted(a, Compiled(a, hooked))
<1> DEFINE H == HookCalls(a, hooked)
           R == ReturnCalls(a)
           C == CaptureCalls(a)
<1>1. /\ H \in Seq(CallRecs) /\ Len(H) \in {0, 1}
      /\ Len(H) = 1 => H[1].call = "hook" /\ H[1].guarded /\ (a \in Rets => H[1].fn = 0)
  <2> DEFINE x == [call |-> "hook", fn |-> IF a \notin Rets /\ a \in functions THEN a ELSE 0,
                   callback |-> a \in rules \/ <<a, a \in Rets>> \in interests, guarded |-> TRUE]
  <2>1. H = IF ~hooked THEN <<>> ELSE <<x>>
    BY DEF HookCalls
  <2>2. x \in CallRecs /\ x.call = "hook" /\ x.guarded /\ (a \in Rets => x.fn = 0)
    BY DEF CallRecs
  <2> HIDE DEF H, x
  <2> QED
    BY <2>1, <2>2, OneCall, EmptySeq
<1>2. /\ R \in Seq(CallRecs) /\ Len(R) \in {0, 1}
      /\ Len(R) = 1 => R[1].call = "return" /\ a \in Rets /\ R[1].fn # 0
  <2> DEFINE owner == IF a \in Rets THEN Owner(a) ELSE 0
             decides == <<owner, TRUE>> \in interests
             x == [call |-> "return", fn |-> owner, callback |-> decides,
                   guarded |-> decides \/ owner \notin signatures]
  <2>1. R = IF owner = 0 THEN <<>> ELSE <<x>>
    BY DEF ReturnCalls
  <2>2. owner \in Addresses \cup {0} /\ (owner # 0 => a \in Rets)
    BY OwnerKnown
  <2> HIDE DEF owner
  <2>3. x \in CallRecs /\ x.call = "return" /\ x.fn = owner
    BY <2>2 DEF CallRecs
  <2> HIDE DEF R, x
  <2> QED
    BY <2>1, <2>2, <2>3, OneCall, EmptySeq
<1>3. /\ C \in Seq(CallRecs) /\ Len(C) \in {0, 1}
      /\ Len(C) = 1 => C[1].call = "exec"
  <2> DEFINE x == [call |-> "exec", fn |-> 0, callback |-> FALSE, guarded |-> FALSE]
  <2>1. C = <<x>> \/ C = <<>>
    BY DEF CaptureCalls
  <2>2. x \in CallRecs /\ x.call = "exec"
    BY DEF CallRecs
  <2> HIDE DEF C, x
  <2> QED
    BY <2>1, <2>2, OneCall, EmptySeq
<1>4. Compiled(a, hooked) = (H \o R) \o C
  BY DEF Compiled
<1> HIDE DEF H, R, C
<1>5. /\ H \o R \in Seq(CallRecs) /\ Len(H \o R) = Len(H) + Len(R)
      /\ \A i \in 1..(Len(H) + Len(R)) : (H \o R)[i] = IF i <= Len(H) THEN H[i] ELSE R[i - Len(H)]
  BY <1>1, <1>2, ConcatProperties
<1>6. \A i \in 1..Len(H \o R) :
        /\ (H \o R)[i].call \in {"hook", "return"}
        /\ (H \o R)[i].call = "hook" => i = 1 /\ (H \o R)[i].guarded /\ (a \in Rets => (H \o R)[i].fn = 0)
        /\ (H \o R)[i].call = "return" => a \in Rets /\ (H \o R)[i].fn # 0
  BY <1>1, <1>2, <1>5
<1> DEFINE HR == H \o R
<1>7. HR \in Seq(CallRecs) /\ Len(HR) \in Nat
  BY <1>5, LenProperties
<1>8. \A i \in 1..Len(HR) :
        /\ HR[i].call = "hook" => i = 1 /\ HR[i].guarded /\ (a \in Rets => HR[i].fn = 0)
        /\ HR[i].call = "return" => a \in Rets /\ HR[i].fn # 0
  BY <1>6
<1> HIDE DEF HR
<1>9. /\ HR \o C \in Seq(CallRecs) /\ Len(HR \o C) = Len(HR) + Len(C)
      /\ \A i \in 1..(Len(HR) + Len(C)) : (HR \o C)[i] = IF i <= Len(HR) THEN HR[i] ELSE C[i - Len(HR)]
  BY <1>3, <1>7, ConcatProperties
<1>10. DOMAIN (HR \o C) = 1..(Len(HR) + Len(C))
  BY <1>9, LenProperties
<1>11. \A i \in 1..(Len(HR) + Len(C)) :
         (i <= Len(HR) /\ i \in 1..Len(HR)) \/ (~(i <= Len(HR)) /\ i - Len(HR) = 1 /\ Len(C) = 1)
  <2>1. \A n \in Nat, m \in {0, 1} : \A i \in 1..(n + m) :
          (i <= n /\ i \in 1..n) \/ (~(i <= n) /\ i - n = 1 /\ m = 1)
    OBVIOUS
  <2> QED
    BY <1>3, <1>7, <2>1
<1>12. Inserted(a, HR \o C)
  BY <1>3, <1>7, <1>8, <1>9, <1>10, <1>11 DEF Inserted
<1> QED
  BY <1>4, <1>12 DEF HR

-----------------------------------------------------------------------------
(* Steps of a thread.                                                      *)

\* The instruction is run again under a guard.
LEMMA ReplayedOK ==
  ASSUME NEW th, ThreadOK(th), th.pc = "calls"
  PROVE  ThreadOK([th EXCEPT !.pc = "fetch", !.guard = th.at])
<1> DEFINE r == [th EXCEPT !.pc = "fetch", !.guard = th.at]
<1>1. th \in ThreadRecs
  BY DEF ThreadOK
<1>2. /\ r.pc = "fetch" /\ r.at = th.at /\ r.stack = th.stack /\ r.hits = th.hits
      /\ r.returns = th.returns /\ r.frames = th.frames /\ r.guard = th.at
  BY <1>1 DEF ThreadRecs
<1>3. r \in ThreadRecs
  BY <1>1 DEF ThreadRecs
<1> HIDE DEF r
<1>4. Nested(r.frames)
  BY <1>2, Zenon DEF ThreadOK
<1>5. ActsOnce(r)
  BY <1>2 DEF ActsOnce, ThreadOK
<1>6. r.pc # "calls"
  BY <1>2
<1>7. r.at \in Addresses
  BY <1>2 DEF ThreadOK
<1>8. ThreadOK(r)
  BY <1>3, <1>4, <1>5, <1>6, <1>7, Zenon DEF ThreadOK
<1> QED
  BY <1>8 DEF r

\* Pin refuses: the calls that are left go on.
LEMMA RefusedOK ==
  ASSUME NEW th, ThreadOK(th), th.pc = "calls", ~HookAhead(th)
  PROVE  ThreadOK([th EXCEPT !.guard = 0])
<1> DEFINE r == [th EXCEPT !.guard = 0]
<1>1. th \in ThreadRecs
  BY DEF ThreadOK
<1>2. /\ r.pc = "calls" /\ r.at = th.at /\ r.stack = th.stack /\ r.hits = th.hits
      /\ r.returns = th.returns /\ r.frames = th.frames /\ r.todo = th.todo
  BY <1>1 DEF ThreadRecs
<1>3. r \in ThreadRecs
  BY <1>1 DEF ThreadRecs
<1> HIDE DEF r
<1>4. Nested(r.frames) /\ Inserted(r.at, r.todo) /\ r.at \in Addresses
  BY <1>2, Zenon DEF ThreadOK
<1>5. ~HookAhead(r)
  BY <1>2 DEF HookAhead
<1>6. ActsOnce(r)
  BY <1>2, <1>5 DEF ActsOnce, ThreadOK
<1>8. ThreadOK(r)
  BY <1>3, <1>4, <1>6, Zenon DEF ThreadOK
<1> QED
  BY <1>8 DEF r

\* A call that only passes, with or without taking the guard.
LEMMA PassedOK ==
  ASSUME NEW th, ThreadOK(th), th.pc = "calls", th.todo # <<>>, NEW g \in {0, th.guard}
  PROVE  ThreadOK([th EXCEPT !.guard = g, !.todo = Tail(@)])
<1> DEFINE r == [th EXCEPT !.guard = g, !.todo = Tail(@)]
<1>1. th \in ThreadRecs
  BY DEF ThreadOK
<1>2. /\ r.pc = "calls" /\ r.at = th.at /\ r.stack = th.stack /\ r.hits = th.hits
      /\ r.returns = th.returns /\ r.frames = th.frames /\ r.todo = Tail(th.todo)
  BY <1>1 DEF ThreadRecs
<1>3. Inserted(th.at, th.todo) /\ th.at \in Addresses
  BY DEF ThreadOK
<1>4. Inserted(r.at, r.todo) /\ ~HookAhead(r)
  BY <1>2, <1>3, TailInserted DEF HookAhead
<1>5. r \in ThreadRecs
  BY <1>1, <1>2, <1>4 DEF ThreadRecs, Inserted
<1> HIDE DEF r
<1>6. Nested(r.frames) /\ r.at \in Addresses
  BY <1>2, Zenon DEF ThreadOK
<1>7. ActsOnce(r)
  BY <1>2, <1>4 DEF ActsOnce, ThreadOK
<1>8. ThreadOK(r)
  BY <1>4, <1>5, <1>6, <1>7, Zenon DEF ThreadOK
<1> QED
  BY <1>8 DEF r

\* Marking frames as stale leaves their levels.
Remarked(frames, out) ==
  /\ out \in Seq(FrameRecs)
  /\ DOMAIN out = DOMAIN frames
  /\ \A i \in DOMAIN frames : out[i].level = frames[i].level

LEMMA MarkedFrames ==
  ASSUME NEW frames \in Seq(FrameRecs), NEW mark \in [DOMAIN frames -> BOOLEAN]
  PROVE  Remarked(frames, [i \in DOMAIN frames |-> [frames[i] EXCEPT !.stale = mark[i]]])
<1> DEFINE out == [i \in DOMAIN frames |-> [frames[i] EXCEPT !.stale = mark[i]]]
<1>1. Len(frames) \in Nat /\ DOMAIN frames = 1..Len(frames)
  BY FrameLevels
<1>2. \A i \in DOMAIN frames : frames[i] \in FrameRecs
  BY FrameLevels
<1>3. \A x \in FrameRecs : \A b \in BOOLEAN :
        [x EXCEPT !.stale = b] \in FrameRecs /\ [x EXCEPT !.stale = b].level = x.level
  BY DEF FrameRecs
<1>4. \A i \in DOMAIN frames : out[i] \in FrameRecs /\ out[i].level = frames[i].level
  BY <1>2, <1>3
<1>5. out \in Seq(FrameRecs)
  BY <1>1, <1>4, IsASeq
<1> QED
  BY <1>4, <1>5 DEF Remarked

LEMMA RemarkedNested ==
  ASSUME NEW frames, Nested(frames), NEW out, Remarked(frames, out)
  PROVE  Nested(out)
BY DEF Nested, Remarked

\* Marking as the actions write it.
LEMMA MarkedRemarks ==
  ASSUME NEW frames \in Seq(FrameRecs), NEW S
  PROVE  Remarked(frames, Marked(frames, S))
<1> DEFINE mark == [i \in DOMAIN frames |-> frames[i].stale \/ i \in S]
<1>1. mark \in [DOMAIN frames -> BOOLEAN]
  OBVIOUS
<1>2. Marked(frames, S) = [i \in DOMAIN frames |-> [frames[i] EXCEPT !.stale = mark[i]]]
  BY DEF Marked
<1> HIDE DEF mark
<1> QED
  BY <1>1, <1>2, MarkedFrames

\* Any thread keeps its promise when frames are marked.
LEMMA MarkedOK ==
  ASSUME NEW th, ThreadOK(th), NEW out, Remarked(th.frames, out)
  PROVE  ThreadOK([th EXCEPT !.frames = out])
<1> DEFINE r == [th EXCEPT !.frames = out]
<1>1. th \in ThreadRecs
  BY DEF ThreadOK
<1>2. /\ r.pc = th.pc /\ r.at = th.at /\ r.stack = th.stack /\ r.hits = th.hits
      /\ r.returns = th.returns /\ r.frames = out /\ r.todo = th.todo /\ r.guard = th.guard
  BY <1>1 DEF ThreadRecs
<1>3. r \in ThreadRecs
  BY <1>1 DEF ThreadRecs, Remarked
<1> HIDE DEF r
<1>4. Nested(r.frames)
  BY <1>2, RemarkedNested DEF ThreadOK
<1>5. HookAhead(r) <=> HookAhead(th)
  BY <1>2 DEF HookAhead
<1>6. ActsOnce(th)
  BY DEF ThreadOK
<1>7. ActsOnce(r)
  BY <1>2, <1>5, <1>6 DEF ActsOnce, Remarked
<1>8. ThreadOK(r)
  <2>1. r.pc # "run" => r.at \in Addresses
    BY <1>2, Zenon DEF ThreadOK
  <2>2. r.pc = "calls" => Inserted(r.at, r.todo)
    BY <1>2, Zenon DEF ThreadOK
  <2> QED
    BY <1>3, <1>4, <1>7, <2>1, <2>2, Zenon DEF ThreadOK
<1> QED
  BY <1>8 DEF r

\* The compiled calls begin: the frames are marked.
LEMMA FetchedOK ==
  ASSUME NEW th, ThreadOK(th), th.pc = "fetch", NEW calls, Inserted(th.at, calls),
         NEW out, Remarked(th.frames, out)
  PROVE  ThreadOK([th EXCEPT !.pc = "calls", !.todo = calls, !.frames = out])
<1> DEFINE r == [th EXCEPT !.pc = "calls", !.todo = calls, !.frames = out]
<1>1. th \in ThreadRecs
  BY DEF ThreadOK
<1>2. /\ r.pc = "calls" /\ r.at = th.at /\ r.stack = th.stack /\ r.hits = th.hits
      /\ r.returns = th.returns /\ r.frames = out /\ r.todo = calls /\ r.guard = th.guard
  BY <1>1 DEF ThreadRecs
<1>3. r \in ThreadRecs
  BY <1>1 DEF ThreadRecs, Remarked, Inserted
<1> HIDE DEF r
<1>4. Nested(r.frames)
  BY <1>2, RemarkedNested DEF ThreadOK
<1>5. HookAhead(th) /\ ActsOnce(th)
  BY DEF HookAhead, ThreadOK
<1>6. ActsOnce(r)
  BY <1>2, <1>5 DEF ActsOnce, Remarked
<1>7. r.at \in Addresses /\ Inserted(r.at, r.todo)
  BY <1>2 DEF ThreadOK
<1>8. ThreadOK(r)
  BY <1>3, <1>4, <1>6, <1>7, Zenon DEF ThreadOK
<1> QED
  BY <1>8 DEF r

\* A thread in the compiler.
LEMMA JitOK ==
  ASSUME NEW th, ThreadOK(th), th.pc \in {"fetch", "jit"},
         NEW p \in {"fetch", "jit"}, NEW n \in Nat
  PROVE  ThreadOK([th EXCEPT !.pc = p, !.snap = n])
<1> DEFINE r == [th EXCEPT !.pc = p, !.snap = n]
<1>1. th \in ThreadRecs
  BY DEF ThreadOK
<1>2. /\ r.pc = p /\ r.at = th.at /\ r.stack = th.stack /\ r.hits = th.hits
      /\ r.returns = th.returns /\ r.frames = th.frames /\ r.guard = th.guard
  BY <1>1 DEF ThreadRecs
<1>3. r \in ThreadRecs
  BY <1>1 DEF ThreadRecs
<1> HIDE DEF r
<1>4. Nested(r.frames) /\ r.at \in Addresses
  BY <1>2 DEF ThreadOK
<1>5. HookAhead(th) /\ ActsOnce(th)
  BY DEF HookAhead, ThreadOK
<1>6. ActsOnce(r)
  BY <1>2, <1>5 DEF ActsOnce
<1>7. r.pc # "calls"
  BY <1>2
<1>8. ThreadOK(r)
  BY <1>3, <1>4, <1>6, <1>7, Zenon DEF ThreadOK
<1> QED
  BY <1>8 DEF r

\* A thread that is back in application code.
LEMMA RunsOK ==
  ASSUME NEW th \in ThreadRecs, th.pc = "run", Nested(th.frames),
         th.hits <= 1, th.returns <= 1
  PROVE  ThreadOK(th)
BY DEF ThreadOK, ActsOnce, HookAhead

LEMMA NewThreadOK ==
  ThreadOK(NewThread) /\ NewThread.pc = "run" /\ NewThread.guard = 0
<1>1. /\ NewThread.pc = "run" /\ NewThread.guard = 0 /\ NewThread.frames = <<>>
      /\ NewThread.hits = 0 /\ NewThread.returns = 0
  BY DEF NewThread
<1>2. NewThread \in ThreadRecs
  BY EmptySeq DEF NewThread, ThreadRecs, Reports
<1>3. Nested(NewThread.frames)
  BY <1>1 DEF Nested
<1> QED
  BY <1>1, <1>2, <1>3, RunsOK

-----------------------------------------------------------------------------
(* The analysis calls.                                                     *)

\* A thread that carries a guard finds one counted.
LEMMA GuardFound ==
  ASSUME GuardsCounted, NEW t \in Threads, thread[t].guard # 0
  PROVE  guards > 0
<1> DEFINE G == {u \in Threads : thread[u].guard # 0}
<1>1. IsFiniteSet(G) /\ t \in G
  BY HooksAssumption, FS_Subset
<1>2. Cardinality(G) \in Nat /\ Cardinality(G) # 0
  BY <1>1, FS_CardinalityType, FS_EmptySet
<1>3. Cardinality(G) <= guards /\ guards \in Nat
  BY DEF GuardsCounted
<1> HIDE DEF G
<1> QED
  BY <1>2, <1>3

\* The call at hand of a thread.
LEMMA CallAtHand ==
  ASSUME NEW t \in Threads, ThreadOK(thread[t]), thread[t].pc = "calls", thread[t].todo # <<>>
  PROVE  /\ Inserted(thread[t].at, Tail(thread[t].todo))
         /\ Tail(thread[t].todo) # <<>> => Head(Tail(thread[t].todo)).call # "hook"
         /\ Call(t) \in CallRecs
         /\ Call(t).call = "hook" => Call(t).guarded /\ (thread[t].at \in Rets => Call(t).fn = 0)
         /\ Call(t).call = "return" => thread[t].at \in Rets /\ Call(t).fn # 0
         /\ thread[t].at \in Addresses /\ thread[t].at # 0
<1>1. Inserted(thread[t].at, thread[t].todo) /\ thread[t].at \in Addresses
  BY DEF ThreadOK
<1> QED
  BY <1>1, TailInserted, AddressFacts DEF Call

\* A hook that acts has not acted before: the guard of a replay would have
\* been found.
LEMMA FirstHit ==
  ASSUME GuardsCounted, NEW t \in Threads, ThreadOK(thread[t]), Running(t, "hook"), ~Guarded(t)
  PROVE  thread[t].hits = 0
<1>1. thread[t].pc = "calls" /\ thread[t].todo # <<>> /\ Call(t).call = "hook"
  BY DEF Running, Call
<1>2. Call(t).guarded /\ thread[t].at # 0
  BY <1>1, CallAtHand
<1>3. HookAhead(thread[t])
  BY <1>1 DEF HookAhead, Call
<1>4. thread[t].guard # thread[t].at
  BY <1>2, GuardFound DEF Guarded
<1>5. thread[t].hits \in Nat
  BY DEF ThreadOK, ThreadRecs
<1>6. thread[t].hits <= 1 /\ thread[t].hits # 1
  BY <1>3, <1>4 DEF ThreadOK, ActsOnce
<1> QED
  BY <1>5, <1>6

\* on_hook_monitor.
LEMMA HitOK ==
  ASSUME GuardsCounted, NEW t \in Threads, ThreadOK(thread[t]), Running(t, "hook"), ~Guarded(t)
  PROVE  ThreadOK(Hit(t)) /\ Hit(t).pc = "calls" /\ ~HookAhead(Hit(t)) /\ Hit(t).guard = thread[t].guard
<1> DEFINE th == thread[t]
           f == Call(t).fn
           entered == f # 0 /\ Depth(t) > 0
           F == IF entered THEN Tracked(t, f) ELSE th.frames
           S == IF entered THEN Reported(th.stack, f) ELSE th.stack
           D == Tail(th.todo)
           r == [th EXCEPT !.todo = D, !.hits = @ + 1, !.frames = F, !.stack = S]
<1>1. th.pc = "calls" /\ th.todo # <<>> /\ Call(t).call = "hook" /\ th \in ThreadRecs /\ ActsOnce(th)
  BY DEF Running, Call, ThreadOK
<1>2. th.hits = 0
  BY FirstHit
<1>3. /\ Inserted(th.at, D) /\ (D # <<>> => Head(D).call # "hook")
      /\ Call(t) \in CallRecs /\ (th.at \in Rets => f = 0) /\ th.at \in Addresses
  BY <1>1, CallAtHand
<1>4. f \in Addresses \cup {0}
  BY <1>3 DEF CallRecs
<1>5. F \in Seq(FrameRecs) /\ Nested(F)
  BY <1>1, <1>4, TrackedFrames DEF ThreadOK, ThreadRecs
<1>6. S \in Seq(ActivationRecs)
  <2>1. th.stack \in Seq(ActivationRecs)
    BY <1>1 DEF ThreadRecs
  <2>2. CASE ~entered
    BY <2>1, <2>2
  <2>3. CASE entered
    <3> DEFINE d == Depth(t)
    <3>1. d \in Nat /\ d = Len(th.stack) /\ d > 0
      BY <2>1, <2>3, LenProperties DEF Depth
    <3>2. d \in 1..Len(th.stack)
      BY <3>1
    <3>3. th.stack[d] \in ActivationRecs
      BY <2>1, <3>2, ElementOfSeq
    <3>4. [th.stack[d] EXCEPT !.reported = @ \cup {f}] \in ActivationRecs
      BY <1>4, <2>3, <3>3 DEF ActivationRecs
    <3>5. S = [th.stack EXCEPT ![d] = [th.stack[d] EXCEPT !.reported = @ \cup {f}]]
      BY <2>3, <3>1 DEF Reported
    <3> HIDE DEF d, S
    <3> QED
      BY <2>1, <3>2, <3>4, <3>5, ExceptSeq
  <2> QED
    BY <2>2, <2>3
<1>7. th.at \in Rets => F = th.frames /\ S = th.stack
  BY <1>3
<1>8. Hit(t) = r
  BY DEF Hit
<1> HIDE DEF F, S, D, f
<1>9. D \in Seq(CallRecs)
  BY <1>3 DEF Inserted
<1>16. r = [th EXCEPT !.todo = D, !.hits = 1, !.frames = F, !.stack = S]
  <2>1. th.hits + 1 = 1
    BY <1>2
  <2> QED
    BY <2>1
<1> HIDE DEF r
<1>10. /\ r.pc = "calls" /\ r.at = th.at /\ r.stack = S /\ r.hits = 1
       /\ r.returns = th.returns /\ r.frames = F /\ r.todo = D /\ r.guard = th.guard
  BY <1>1, <1>16 DEF ThreadRecs
<1>11. r \in ThreadRecs
  <2>1. [th EXCEPT !.todo = D, !.hits = 1, !.frames = F, !.stack = S] \in ThreadRecs
    BY <1>1, <1>5, <1>6, <1>9 DEF ThreadRecs
  <2> QED
    BY <1>16, <2>1
<1>12. ~HookAhead(r)
  BY <1>3, <1>10 DEF HookAhead
<1>13. ActsOnce(r)
  BY <1>1, <1>7, <1>10, <1>12 DEF ActsOnce
<1>14. Nested(r.frames) /\ Inserted(r.at, r.todo) /\ r.at \in Addresses
  BY <1>3, <1>5, <1>10
<1>15. ThreadOK(r)
  BY <1>11, <1>13, <1>14, Zenon DEF ThreadOK
<1> QED
  BY <1>8, <1>10, <1>12, <1>15

LEMMA CancelledFrames ==
  ASSUME NEW frames \in Seq(FrameRecs), Nested(frames), NEW f
  PROVE  Cancelled(frames, f) \in Seq(FrameRecs) /\ Nested(Cancelled(frames, f))
<1>1. Len(frames) - 1 \in Int /\ Len(frames) - 1 <= Len(frames)
  BY FrameLevels
<1> QED
  BY <1>1, NestedPrefix DEF Cancelled

\* The hooked instruction is left without being executed.
LEMMA LeavesOK ==
  ASSUME GuardsCounted, NEW t \in Threads, ThreadOK(thread[t]), Running(t, "hook"), ~Guarded(t)
  PROVE  /\ ThreadOK(Leaves(t)) /\ ThreadOK(ReturnsAtOnce(t))
         /\ Leaves(t).guard = thread[t].guard /\ ReturnsAtOnce(t).guard = thread[t].guard
         /\ Leaves(t).pc = "run" /\ ReturnsAtOnce(t).pc = "run"
<1> DEFINE h == Hit(t)
           F == IF Call(t).fn # 0 THEN Cancelled(h.frames, Call(t).fn) ELSE h.frames
           r == [h EXCEPT !.pc = "run", !.todo = <<>>, !.frames = F]
           S == SubSeq(r.stack, 1, Depth(t) - 1)
           G == LeftBehind(t, r.frames)
           q == [r EXCEPT !.stack = S, !.frames = G]
<1>1. h \in ThreadRecs /\ Nested(h.frames) /\ ActsOnce(h) /\ h.guard = thread[t].guard
  BY HitOK DEF ThreadOK
<1>2. h.frames \in Seq(FrameRecs) /\ h.stack \in Seq(ActivationRecs)
  BY <1>1 DEF ThreadRecs
<1>3. F \in Seq(FrameRecs) /\ Nested(F)
  BY <1>1, <1>2, CancelledFrames
<1>4. Leaves(t) = r /\ ReturnsAtOnce(t) = q
  BY DEF Leaves, ReturnsAtOnce
<1>5. Depth(t) - 1 <= Len(h.stack) /\ Depth(t) - 1 \in Int
  <2> DEFINE d == Depth(t)
             s == thread[t].stack
  <2>1. thread[t] \in ThreadRecs /\ s \in Seq(ActivationRecs)
    BY DEF ThreadOK, ThreadRecs
  <2>2. d = Len(s) /\ d \in Nat
    BY <2>1, LenProperties DEF Depth
  <2>3. h.stack = s \/ h.stack = Reported(s, Call(t).fn)
    BY <2>1 DEF Hit, ThreadRecs
  <2>4. Len(h.stack) = d
    BY <2>1, <2>2, <2>3, <1>2, LenProperties DEF Reported
  <2> HIDE DEF d
  <2> QED
    BY <2>2, <2>4 DEF d
<1> HIDE DEF h, F
<1>6. /\ r.pc = "run" /\ r.frames = F /\ r.hits = h.hits /\ r.returns = h.returns
      /\ r.guard = h.guard /\ r.stack = h.stack
  BY <1>1 DEF ThreadRecs
<1>7. r \in ThreadRecs
  BY <1>1, <1>3, EmptySeq DEF ThreadRecs
<1>8. S \in Seq(ActivationRecs)
  BY <1>2, <1>5, <1>6, Prefixes
<1>13. G \in Seq(FrameRecs) /\ Nested(G)
  <2>1. r.frames \in Seq(FrameRecs) /\ Nested(r.frames)
    BY <1>3, <1>6
  <2> HIDE DEF r
  <2>2. Remarked(r.frames, G)
    BY <2>1, MarkedRemarks DEF LeftBehind
  <2> QED
    BY <2>1, <2>2, RemarkedNested DEF Remarked
<1> HIDE DEF r, S, G
<1>9. /\ q.pc = "run" /\ q.frames = G /\ q.hits = h.hits /\ q.returns = h.returns
      /\ q.guard = h.guard
  BY <1>6, <1>7 DEF ThreadRecs
<1>10. q \in ThreadRecs
  BY <1>7, <1>8, <1>13 DEF ThreadRecs
<1> HIDE DEF q
<1>11. h.hits <= 1 /\ h.returns <= 1
  BY <1>1 DEF ActsOnce
<1>12. ThreadOK(r) /\ ThreadOK(q)
  BY <1>3, <1>6, <1>7, <1>9, <1>10, <1>11, <1>13, RunsOK
<1> QED
  BY <1>1, <1>4, <1>6, <1>9, <1>12

\* handle_function_return_context: the frame of the return is taken.
LEMMA ReturnedOK ==
  ASSUME NEW t \in Threads, ThreadOK(thread[t]), Running(t, "return"),
         FrameMatches(t, Call(t).fn),
         NEW last \in Reports,
         NEW r, r = [thread[t] EXCEPT !.todo = Tail(@), !.returns = @ + 1,
                                      !.frames = SubSeq(@, 1, Len(@) - 1), !.last = last]
  PROVE  ThreadOK(r) /\ r.pc = "calls" /\ ~HookAhead(r) /\ r.guard = thread[t].guard
<1> DEFINE th == thread[t]
           frames == th.frames
           F == SubSeq(frames, 1, Len(frames) - 1)
           D == Tail(th.todo)
<1>1. th.pc = "calls" /\ th.todo # <<>> /\ Call(t).call = "return" /\ th \in ThreadRecs /\ ActsOnce(th)
      /\ frames \in Seq(FrameRecs) /\ Nested(frames)
  BY DEF Running, Call, ThreadOK, ThreadRecs
<1>2. /\ Inserted(th.at, D) /\ (D # <<>> => Head(D).call # "hook")
      /\ th.at \in Rets /\ th.at \in Addresses
  BY <1>1, CallAtHand
<1>3. Len(frames) \in Nat \ {0} /\ DOMAIN frames = 1..Len(frames)
  BY <1>1, FrameLevels, EmptySeq DEF FrameMatches
<1>4. frames[Len(frames)].level = Len(th.stack)
  BY DEF FrameMatches, Depth
<1>5. th.returns = 0
  <2>1. th.returns \in Nat /\ th.returns <= 1
    BY <1>1 DEF ThreadRecs, ActsOnce
  <2>2. Len(th.stack) \in Nat
    BY <1>1, LenProperties DEF ThreadRecs
  <2>3. ~(frames[Len(frames)].level < Len(th.stack))
    BY <1>4, <2>2
  <2>4. Len(frames) \in DOMAIN frames
    BY <1>3
  <2>5. th.returns # 1
    BY <1>1, <2>3, <2>4 DEF ActsOnce
  <2> QED
    BY <2>1, <2>5
<1>6. F \in Seq(FrameRecs) /\ Nested(F)
      /\ \A i \in DOMAIN F : i \in DOMAIN frames /\ F[i] = frames[i] /\ i <= Len(frames) - 1
  <2>1. Len(frames) - 1 \in Int /\ Len(frames) - 1 <= Len(frames)
    BY <1>3
  <2> QED
    BY <1>1, <2>1, Prefixes, NestedPrefix
<1>7. \A i \in DOMAIN F : F[i].level < Len(th.stack)
  <2> SUFFICES ASSUME NEW i \in DOMAIN F PROVE F[i].level < Len(th.stack)
    OBVIOUS
  <2>1. i \in DOMAIN frames /\ Len(frames) \in DOMAIN frames /\ i < Len(frames)
    BY <1>3, <1>6
  <2>2. frames[i].level < frames[Len(frames)].level
    BY <1>1, <2>1 DEF Nested
  <2> QED
    BY <1>4, <1>6, <2>2
<1> HIDE DEF F, D
<1>8. D \in Seq(CallRecs)
  BY <1>2 DEF Inserted
<1>9. r = [th EXCEPT !.todo = D, !.returns = 1, !.frames = F, !.last = last]
  <2>1. th.returns + 1 = 1
    BY <1>5
  <2> QED
    BY <2>1 DEF F, D
<1>10. /\ r.pc = "calls" /\ r.at = th.at /\ r.stack = th.stack /\ r.hits = th.hits
       /\ r.returns = 1 /\ r.frames = F /\ r.todo = D /\ r.guard = th.guard
  BY <1>1, <1>5, <1>9 DEF ThreadRecs
<1>11. r \in ThreadRecs
  <2>1. [th EXCEPT !.todo = D, !.returns = 1, !.frames = F, !.last = last] \in ThreadRecs
    BY <1>1, <1>6, <1>8 DEF ThreadRecs
  <2> QED
    BY <1>9, <2>1
<1>12. ~HookAhead(r)
  BY <1>2, <1>10 DEF HookAhead
<1>16. th.hits <= 1
  BY <1>1 DEF ActsOnce
<1>13. ActsOnce(r)
  <2>1. r.hits <= 1 /\ r.returns <= 1
    BY <1>10, <1>16
  <2>2. r.at \in Rets /\ \A i \in DOMAIN r.frames : r.frames[i].level < Len(r.stack)
    BY <1>2, <1>7, <1>10, Zenon
  <2> QED
    BY <1>12, <2>1, <2>2, Zenon DEF ActsOnce
<1>14. Nested(r.frames) /\ Inserted(r.at, r.todo) /\ r.at \in Addresses
  BY <1>2, <1>6, <1>10
<1>15. ThreadOK(r)
  BY <1>11, <1>13, <1>14, Zenon DEF ThreadOK
<1> QED
  BY <1>10, <1>12, <1>15

-----------------------------------------------------------------------------
(* Guards are counted.                                                     *)

LEMMA GuardsKept ==
  ASSUME GuardsCounted, NEW t \in Threads,
         \A u \in Threads : u # t => thread'[u] = thread[u],
         thread'[t].guard \in {0, thread[t].guard}, guards' = guards
  PROVE  GuardsCounted'
<1> DEFINE G == {u \in Threads : thread[u].guard # 0}
<1>1. IsFiniteSet(G) /\ G' \subseteq G
  BY HooksAssumption, FS_Subset
<1>2. Cardinality(G) \in Nat /\ Cardinality(G') \in Nat /\ Cardinality(G') <= Cardinality(G)
  BY <1>1, FS_Subset, FS_CardinalityType
<1>3. Cardinality(G) <= guards /\ guards \in Nat
  BY DEF GuardsCounted
<1> HIDE DEF G
<1>4. Cardinality(G') <= guards'
  BY <1>2, <1>3
<1> QED
  BY <1>3, <1>4 DEF GuardsCounted, G

LEMMA GuardsTaken ==
  ASSUME GuardsCounted, NEW t \in Threads,
         \A u \in Threads : u # t => thread'[u] = thread[u], guards' = guards + 1
  PROVE  GuardsCounted'
<1> DEFINE G == {u \in Threads : thread[u].guard # 0}
<1>1. IsFiniteSet(G) /\ G' \subseteq G \cup {t}
  BY HooksAssumption, FS_Subset
<1>2. IsFiniteSet(G \cup {t})
      /\ Cardinality(G \cup {t}) = IF t \in G THEN Cardinality(G) ELSE Cardinality(G) + 1
  BY <1>1, FS_AddElement
<1>3. Cardinality(G) \in Nat /\ Cardinality(G') \in Nat /\ Cardinality(G') <= Cardinality(G \cup {t})
  BY <1>1, <1>2, FS_Subset, FS_CardinalityType
<1>4. Cardinality(G) <= guards /\ guards \in Nat
  BY DEF GuardsCounted
<1> HIDE DEF G
<1>5. Cardinality(G') <= guards' /\ guards' \in Nat
  BY <1>2, <1>3, <1>4
<1> QED
  BY <1>5 DEF GuardsCounted, G

LEMMA GuardsGiven ==
  ASSUME GuardsCounted, NEW t \in Threads,
         \A u \in Threads : u # t => thread'[u] = thread[u],
         thread[t].guard # 0, thread'[t].guard = 0, guards' = guards - 1
  PROVE  GuardsCounted'
<1> DEFINE G == {u \in Threads : thread[u].guard # 0}
<1>1. IsFiniteSet(G) /\ G' = G \ {t} /\ t \in G
  BY HooksAssumption, FS_Subset
<1>2. Cardinality(G') = Cardinality(G) - 1 /\ Cardinality(G') \in Nat /\ Cardinality(G) \in Nat
  BY <1>1, FS_RemoveElement, FS_CardinalityType
<1>3. Cardinality(G) <= guards /\ guards \in Nat
  BY DEF GuardsCounted
<1> HIDE DEF G
<1>4. Cardinality(G') <= guards' /\ guards' \in Nat
  BY <1>2, <1>3
<1> QED
  BY <1>4 DEF GuardsCounted, G

-----------------------------------------------------------------------------
(* One thread's step preserves the invariant.                              *)

\* What a thread's step does to the guards.
GuardsMove(t, th) ==
  \/ guards' = guards /\ th.guard \in {0, thread[t].guard}
  \/ guards' = guards + 1
  \/ guards' = guards - 1 /\ thread[t].guard # 0 /\ th.guard = 0

LEMMA ThreadMoves ==
  ASSUME HooksInv, NEW t \in Threads, NEW th, ThreadOK(th), Sets(t, th), GuardsMove(t, th),
         OnlyThread
  PROVE  /\ ThreadsOK' /\ SetsOK' /\ GuardsCounted'
         /\ thread'[t] = th /\ \A u \in Threads : u # t => thread'[u] = thread[u]
<1>1. ThreadsOK' /\ thread'[t] = th /\ \A u \in Threads : u # t => thread'[u] = thread[u]
  BY OneThread DEF HooksInv
<1>2. GuardsCounted'
  BY <1>1, GuardsKept, GuardsTaken, GuardsGiven DEF GuardsMove, HooksInv
<1>3. SetsOK'
  BY DEF HooksInv, SetsOK, OnlyThread, sets
<1> QED
  BY <1>1, <1>2, <1>3

\* A step of a thread outside the compiler: what is published and compiled
\* stays, and who is compiling goes on.
Outside(t) ==
  /\ UNCHANGED <<sets, lock, engine, writer, cell, code>>
  /\ thread'[t].pc # "jit"
  /\ \A u \in Threads : u # t => thread'[u] = thread[u]

LEMMA ThreadGoesOn ==
  ASSUME HooksInv, NEW t \in Threads, NEW th, ThreadOK(th), th.pc # "jit",
         Sets(t, th), GuardsMove(t, th), UNCHANGED <<cell, code>>, OnlyThread
  PROVE  HooksInv' /\ Outside(t)
<1>1. /\ ThreadsOK' /\ SetsOK' /\ GuardsCounted' /\ thread'[t] = th
      /\ \A u \in Threads : u # t => thread'[u] = thread[u]
  BY ThreadMoves
<1>2. CodeOK' /\ WritersOK'
  BY DEF HooksInv, CodeOK, WritersOK, OnlyThread
<1>3. CellOK'
  BY DEF HooksInv, CellOK
<1>4. ReadersOK'
  BY <1>1 DEF HooksInv, ReadersOK, OnlyThread
<1>5. Outside(t)
  BY <1>1 DEF Outside, OnlyThread
<1> QED
  BY <1>1, <1>2, <1>3, <1>4, <1>5 DEF HooksInv

LEMMA StartsStep ==
  ASSUME HooksInv, NEW t \in Threads, NEW a \in Addresses, NEW s \in Seq(ActivationRecs),
         Starts(t, a, s)
  PROVE  HooksInv' /\ Outside(t)
<1> DEFINE r == [thread[t] EXCEPT !.pc = "fetch", !.at = a, !.stack = s,
                                  !.hits = 0, !.returns = 0, !.last = None]
<1>1. ThreadOK(thread[t]) /\ thread[t] \in ThreadRecs
  BY DEF HooksInv, ThreadsOK, ThreadOK
<1>2. ThreadOK(r)
  BY <1>1, StartsOK
<1>3. r.pc = "fetch" /\ r.guard = thread[t].guard
  BY <1>1 DEF ThreadRecs
<1>4. Sets(t, r) /\ UNCHANGED <<cell, code, guards>> /\ OnlyThread
  BY DEF Starts
<1> HIDE DEF r
<1>5. GuardsMove(t, r)
  BY <1>3, <1>4 DEF GuardsMove
<1> QED
  BY <1>2, <1>3, <1>4, <1>5, ThreadGoesOn

\* A call, a tail call and a return instruction.
LEMMA ApplicationStep ==
  ASSUME HooksInv, NEW t \in Threads, CallFunction(t) \/ TailCall(t) \/ ReturnInstruction(t)
  PROVE  HooksInv' /\ Outside(t)
<1> DEFINE s == thread[t].stack
<1>1. s \in Seq(ActivationRecs)
  BY DEF HooksInv, ThreadsOK, ThreadOK, ThreadRecs
<1>2. \A f \in workload.calls[t] : f \in Entries /\ f \in Addresses
  BY AddressFacts DEF HooksInv, SetsOK
<1>3. CASE CallFunction(t)
  <2>1. PICK f \in workload.calls[t] : Starts(t, f, Append(s, [fn |-> f, reported |-> {}]))
    BY <1>3 DEF CallFunction
  <2>2. [fn |-> f, reported |-> {}] \in ActivationRecs
    BY <1>2 DEF ActivationRecs
  <2>3. Append(s, [fn |-> f, reported |-> {}]) \in Seq(ActivationRecs)
    BY <1>1, <2>2, AppendProperties
  <2> QED
    BY <1>2, <2>1, <2>3, StartsStep
<1>4. Depth(t) = Len(s) /\ Depth(t) \in Nat
  BY <1>1, LenProperties DEF Depth
<1>5. \A i \in 1..Len(s) : s[i] \in ActivationRecs
  BY <1>1, ElementOfSeq
<1>6. CASE TailCall(t)
  <2>1. PICK f \in workload.calls[t] : Depth(t) > 0 /\ Starts(t, f, [s EXCEPT ![Depth(t)].fn = f])
    BY <1>6 DEF TailCall
  <2>2. Depth(t) \in 1..Len(s)
    BY <1>4, <2>1
  <2>3. [s[Depth(t)] EXCEPT !.fn = f] \in ActivationRecs
    BY <1>2, <1>5, <2>2 DEF ActivationRecs
  <2>4. [s EXCEPT ![Depth(t)] = [s[Depth(t)] EXCEPT !.fn = f]] \in Seq(ActivationRecs)
    BY <1>1, <2>2, <2>3, ExceptSeq
  <2>5. [s EXCEPT ![Depth(t)].fn = f] \in Seq(ActivationRecs)
    BY <2>4
  <2> QED
    BY <1>2, <2>1, <2>5, StartsStep
<1>7. CASE ReturnInstruction(t)
  <2>1. Depth(t) > 0 /\ Starts(t, RetOf[Top(t).fn], s)
    BY <1>7 DEF ReturnInstruction
  <2>2. s[Depth(t)] \in ActivationRecs
    BY <1>4, <1>5, <2>1
  <2>3. Top(t).fn \in Entries
    BY <2>2 DEF Top, ActivationRecs
  <2>4. RetOf[Top(t).fn] \in Addresses
    BY <2>3, AddressFacts
  <2> QED
    BY <1>1, <2>1, <2>4, StartsStep
<1> QED
  BY <1>3, <1>6, <1>7

\* How activations end, and the instruction itself.
LEMMA LeavingStep ==
  ASSUME HooksInv, NEW t \in Threads, Unwind(t) \/ ThreadRestarts(t) \/ Execute(t)
  PROVE  HooksInv' /\ Outside(t)
<1> DEFINE th == thread[t]
           S == SubSeq(th.stack, 1, Depth(t) - 1)
<1>1. ThreadOK(th) /\ th \in ThreadRecs /\ th.hits <= 1 /\ th.returns <= 1 /\ Nested(th.frames)
  BY DEF HooksInv, ThreadsOK, ThreadOK, ActsOnce
<1>2. th.stack \in Seq(ActivationRecs) /\ th.frames \in Seq(FrameRecs)
  BY <1>1 DEF ThreadRecs
<1>3. Depth(t) - 1 \in Int /\ Depth(t) - 1 <= Len(th.stack)
  BY <1>2, LenProperties DEF Depth
<1>4. S \in Seq(ActivationRecs)
  BY <1>2, <1>3, Prefixes
<1>5. CASE Unwind(t)
  <2> DEFINE F == Marked(th.frames, {i \in DOMAIN th.frames : th.frames[i].level = Depth(t)})
             r == [th EXCEPT !.stack = S, !.frames = F]
  <2>1. Sets(t, r) /\ UNCHANGED <<cell, code, guards>> /\ OnlyThread /\ th.pc = "run"
    BY <1>5 DEF Unwind, LeftBehind
  <2>2. Remarked(th.frames, F)
    BY <1>2, MarkedRemarks
  <2>3. F \in Seq(FrameRecs) /\ Nested(F)
    BY <1>1, <2>2, RemarkedNested DEF Remarked
  <2> HIDE DEF F, S
  <2>4. /\ r.pc = "run" /\ r.hits = th.hits /\ r.returns = th.returns /\ r.frames = F
        /\ r.guard = th.guard
    BY <1>1, <2>1 DEF ThreadRecs
  <2>5. r \in ThreadRecs
    BY <1>1, <1>4, <2>3 DEF ThreadRecs
  <2> HIDE DEF r
  <2>6. ThreadOK(r)
    BY <1>1, <2>3, <2>4, <2>5, RunsOK
  <2>7. GuardsMove(t, r)
    BY <2>1, <2>4 DEF GuardsMove
  <2> QED
    BY <2>1, <2>4, <2>6, <2>7, ThreadGoesOn
<1>6. CASE ThreadRestarts(t)
  <2>1. Sets(t, NewThread) /\ UNCHANGED <<cell, code, guards>> /\ OnlyThread
    BY <1>6 DEF ThreadRestarts
  <2>2. ThreadOK(NewThread) /\ NewThread.pc = "run" /\ NewThread.guard = 0
    BY NewThreadOK
  <2>3. GuardsMove(t, NewThread)
    BY <2>1, <2>2 DEF GuardsMove
  <2> QED
    BY <2>1, <2>2, <2>3, ThreadGoesOn
<1>7. CASE Execute(t)
  <2> DEFINE T == IF th.at \in Rets THEN S ELSE th.stack
             r == [th EXCEPT !.pc = "run", !.stack = T]
  <2>1. Sets(t, r) /\ UNCHANGED <<cell, code, guards>> /\ OnlyThread
    BY <1>7 DEF Execute
  <2>2. T \in Seq(ActivationRecs)
    BY <1>2, <1>4
  <2> HIDE DEF T, S
  <2>4. /\ r.pc = "run" /\ r.hits = th.hits /\ r.returns = th.returns /\ r.frames = th.frames
        /\ r.guard = th.guard
    BY <1>1 DEF ThreadRecs
  <2>5. r \in ThreadRecs
    BY <1>1, <2>2 DEF ThreadRecs
  <2> HIDE DEF r
  <2>6. ThreadOK(r)
    BY <1>1, <2>4, <2>5, RunsOK
  <2>7. GuardsMove(t, r)
    BY <2>1, <2>4 DEF GuardsMove
  <2> QED
    BY <2>1, <2>4, <2>6, <2>7, ThreadGoesOn
<1> QED
  BY <1>5, <1>6, <1>7

LEMMA FetchStep ==
  ASSUME HooksInv, NEW t \in Threads, Fetch(t)
  PROVE  HooksInv' /\ Outside(t)
<1> DEFINE th == thread[t]
           calls == code[th.at]
<1>1. ThreadOK(th) /\ th \in ThreadRecs /\ th.pc = "fetch" /\ th.at \in Addresses
  BY DEF HooksInv, ThreadsOK, ThreadOK, Fetch
<1>2. th.frames \in Seq(FrameRecs)
  BY <1>1 DEF ThreadRecs
<1>3. Inserted(th.at, calls)
  BY <1>1 DEF HooksInv, CodeOK, Fetch
<1>4. PICK M : /\ Sets(t, [th EXCEPT !.pc = "calls", !.todo = calls, !.frames = Marked(th.frames, M)])
               /\ UNCHANGED <<cell, code, guards>> /\ OnlyThread
  BY DEF Fetch
<1> DEFINE F == Marked(th.frames, M)
           r == [th EXCEPT !.pc = "calls", !.todo = calls, !.frames = F]
<1>5. Remarked(th.frames, F)
  BY <1>2, MarkedRemarks
<1> HIDE DEF F, calls
<1>6. ThreadOK(r)
  BY <1>1, <1>3, <1>5, FetchedOK
<1>7. r.pc = "calls" /\ r.guard = th.guard
  BY <1>1 DEF ThreadRecs
<1>8. Sets(t, r) /\ UNCHANGED <<cell, code, guards>> /\ OnlyThread
  BY <1>4 DEF F, calls
<1> HIDE DEF r
<1>9. GuardsMove(t, r)
  BY <1>7, <1>8 DEF GuardsMove
<1> QED
  BY <1>6, <1>7, <1>8, <1>9, ThreadGoesOn

\* The reader announces itself, with nothing loaded yet.
LEMMA JitBeginStep ==
  ASSUME HooksInv, NEW t \in Threads, JitBegin(t)
  PROVE  HooksInv'
<1> DEFINE th == thread[t]
           r == [th EXCEPT !.pc = "jit", !.snap = 0]
<1>1. ThreadOK(th) /\ th \in ThreadRecs /\ th.pc = "fetch"
  BY DEF HooksInv, ThreadsOK, ThreadOK, JitBegin
<1>2. /\ Sets(t, r) /\ cell' = [cell EXCEPT !.readers = @ \cup {t}]
      /\ UNCHANGED <<code, guards>> /\ OnlyThread
  BY DEF JitBegin
<1>3. ThreadOK(r)
  BY <1>1, JitOK
<1>4. r.pc = "jit" /\ r.guard = th.guard /\ r.snap = 0
  BY <1>1 DEF ThreadRecs
<1> HIDE DEF r
<1>5. GuardsMove(t, r)
  BY <1>2, <1>4 DEF GuardsMove
<1>6. /\ ThreadsOK' /\ SetsOK' /\ GuardsCounted' /\ thread'[t] = r
      /\ \A u \in Threads : u # t => thread'[u] = thread[u]
  BY <1>2, <1>3, <1>5, ThreadMoves
<1>7. /\ cell'.cur = cell.cur /\ cell'.contents = cell.contents /\ cell'.retired = cell.retired
      /\ cell'.freed = cell.freed /\ cell'.readers = cell.readers \cup {t} /\ CellOK'
  BY <1>2 DEF HooksInv, CellOK
<1>8. CodeOK' /\ WritersOK' /\ UNCHANGED writer
  BY <1>2, <1>7 DEF HooksInv, CodeOK, WritersOK, OnlyThread
<1>9. 0 \notin cell.freed /\ 0 \notin cell.retired
  BY DEF HooksInv, CellOK
<1>10. ReadersOK'
  BY <1>4, <1>6, <1>7, <1>8, <1>9 DEF HooksInv, ReadersOK
<1> QED
  BY <1>6, <1>7, <1>8, <1>10 DEF HooksInv

\* The announced reader loads the current snapshot, which nobody has retired.
LEMMA LoadSnapshotStep ==
  ASSUME HooksInv, NEW t \in Threads, LoadSnapshot(t)
  PROVE  HooksInv'
<1> DEFINE th == thread[t]
           r == [th EXCEPT !.pc = "jit", !.snap = cell.cur]
<1>1. ThreadOK(th) /\ th \in ThreadRecs /\ th.pc = "jit" /\ cell.cur \in Nat
  BY DEF HooksInv, ThreadsOK, ThreadOK, LoadSnapshot, CellOK
<1>2. Sets(t, r) /\ UNCHANGED <<cell, code, guards>> /\ OnlyThread
  <2>1. [th EXCEPT !.snap = cell.cur] = r
    BY <1>1 DEF ThreadRecs
  <2> QED
    BY <2>1 DEF LoadSnapshot
<1>3. ThreadOK(r)
  BY <1>1, JitOK
<1>4. r.pc = "jit" /\ r.guard = th.guard /\ r.snap = cell.cur
  BY <1>1 DEF ThreadRecs
<1> HIDE DEF r
<1>5. GuardsMove(t, r)
  BY <1>2, <1>4 DEF GuardsMove
<1>6. /\ ThreadsOK' /\ SetsOK' /\ GuardsCounted' /\ thread'[t] = r
      /\ \A u \in Threads : u # t => thread'[u] = thread[u]
  BY <1>2, <1>3, <1>5, ThreadMoves
<1>7. CodeOK' /\ WritersOK' /\ CellOK' /\ UNCHANGED writer
  BY <1>2 DEF HooksInv, CodeOK, WritersOK, CellOK, OnlyThread
<1>8. cell.cur \notin cell.freed /\ cell.cur \notin cell.retired
  BY <1>1 DEF HooksInv, CellOK
<1>9. ReadersOK'
  BY <1>1, <1>2, <1>4, <1>6, <1>7, <1>8 DEF HooksInv, ReadersOK
<1> QED
  BY <1>6, <1>7, <1>9 DEF HooksInv

LEMMA JitEndStep ==
  ASSUME HooksInv, NEW t \in Threads, JitEnd(t)
  PROVE  HooksInv'
<1> DEFINE th == thread[t]
           r == [th EXCEPT !.pc = "fetch", !.snap = 0]
           C == Compiled(th.at, th.at \in cell.contents[th.snap])
<1>1. ThreadOK(th) /\ th \in ThreadRecs /\ th.pc = "jit" /\ th.at \in Addresses
  BY DEF HooksInv, ThreadsOK, ThreadOK, JitEnd
<1>2. /\ Sets(t, r) /\ cell' = [cell EXCEPT !.readers = @ \ {t}]
      /\ code' = [code EXCEPT ![th.at] = C] /\ UNCHANGED guards /\ OnlyThread
  BY DEF JitEnd
<1>3. ThreadOK(r)
  BY <1>1, JitOK
<1>4. r.pc = "fetch" /\ r.guard = th.guard
  BY <1>1 DEF ThreadRecs
<1>5. Inserted(th.at, C)
  <2>1. functions \subseteq Addresses
    BY DEF HooksInv, SetsOK
  <2>2. (th.at \in cell.contents[th.snap]) \in BOOLEAN
    OBVIOUS
  <2> QED
    BY <1>1, <2>1, <2>2, CompiledInserted
<1> HIDE DEF r, C
<1>6. GuardsMove(t, r)
  BY <1>2, <1>4 DEF GuardsMove
<1>7. /\ ThreadsOK' /\ SetsOK' /\ GuardsCounted' /\ thread'[t] = r
      /\ \A u \in Threads : u # t => thread'[u] = thread[u]
  BY <1>2, <1>3, <1>6, ThreadMoves
<1>8. /\ cell'.cur = cell.cur /\ cell'.contents = cell.contents /\ cell'.retired = cell.retired
      /\ cell'.freed = cell.freed /\ cell'.readers = cell.readers \ {t} /\ CellOK'
  BY <1>2 DEF HooksInv, CellOK
<1>9. CodeOK'
  BY <1>1, <1>2, <1>5 DEF HooksInv, CodeOK
<1>10. WritersOK' /\ UNCHANGED writer
  BY <1>2, <1>8 DEF HooksInv, WritersOK, OnlyThread
<1>11. ReadersOK'
  BY <1>4, <1>7, <1>8, <1>10 DEF HooksInv, ReadersOK
<1> QED
  BY <1>7, <1>8, <1>9, <1>10, <1>11 DEF HooksInv

\* A call that passes.
LEMMA PassStep ==
  ASSUME HooksInv, NEW t \in Threads, thread[t].pc = "calls", thread[t].todo # <<>>,
         Sets(t, [thread[t] EXCEPT !.todo = Tail(@)]), UNCHANGED guards, OnlyCall
  PROVE  HooksInv' /\ Outside(t)
<1> DEFINE th == thread[t]
           r == [th EXCEPT !.guard = th.guard, !.todo = Tail(@)]
           q == [th EXCEPT !.todo = Tail(@)]
<1>1. ThreadOK(th) /\ th \in ThreadRecs
  BY DEF HooksInv, ThreadsOK, ThreadOK
<1>2. ThreadOK(r)
  BY <1>1, PassedOK
<1>3. r = q
  <2>1. [th EXCEPT !.guard = th.guard] = th
    BY <1>1 DEF ThreadRecs
  <2> QED
    BY <2>1
<1>4. q.pc = "calls" /\ q.guard = th.guard
  BY <1>1 DEF ThreadRecs
<1>5. ThreadOK(q)
  BY <1>2, <1>3
<1>6. Sets(t, q)
  OBVIOUS
<1> HIDE DEF q, r
<1>7. GuardsMove(t, q)
  BY <1>4 DEF GuardsMove
<1> QED
  BY <1>4, <1>5, <1>6, <1>7, ThreadGoesOn DEF OnlyCall

LEMMA TakeGuardStep ==
  ASSUME HooksInv, NEW t \in Threads, TakeGuard(t)
  PROVE  HooksInv' /\ Outside(t)
<1> DEFINE th == thread[t]
           p == [th EXCEPT !.guard = 0, !.todo = Tail(@)]
           G == IF Call(t).call = "return" THEN LeftBehind(t, th.frames) ELSE th.frames
           r == [p EXCEPT !.frames = G]
<1>1. /\ ThreadOK(th) /\ th \in ThreadRecs /\ th.pc = "calls" /\ th.todo # <<>>
      /\ th.guard = th.at /\ guards' = guards - 1
  BY DEF HooksInv, ThreadsOK, ThreadOK, TakeGuard, Guarded
<1>2. th.guard # 0
  BY <1>1, CallAtHand
<1>3. ThreadOK(p)
  BY <1>1, PassedOK
<1>4. p \in ThreadRecs /\ p.pc = "calls" /\ p.guard = 0 /\ p.frames = th.frames
  BY <1>1, <1>3 DEF ThreadRecs, ThreadOK
<1>5. Remarked(p.frames, G)
  <2>1. th.frames \in Seq(FrameRecs)
    BY <1>1 DEF ThreadRecs
  <2>2. Remarked(th.frames, LeftBehind(t, th.frames))
    BY <2>1, MarkedRemarks DEF LeftBehind
  <2>3. Remarked(th.frames, th.frames)
    BY <2>1 DEF Remarked
  <2> QED
    BY <1>4, <2>2, <2>3
<1>6. Sets(t, r) /\ UNCHANGED <<cell, code>> /\ OnlyThread
  BY DEF TakeGuard, OnlyCall
<1> HIDE DEF p, G
<1>7. ThreadOK(r)
  BY <1>3, <1>5, MarkedOK
<1>8. r.pc = "calls" /\ r.guard = 0
  BY <1>4 DEF ThreadRecs
<1> HIDE DEF r
<1>9. GuardsMove(t, r)
  BY <1>1, <1>2, <1>8 DEF GuardsMove
<1> QED
  BY <1>6, <1>7, <1>8, <1>9, ThreadGoesOn

\* A changed context is executed again, or refused.
LEMMA ReplayStep ==
  ASSUME HooksInv, NEW t \in Threads, NEW th, ThreadOK(th), th.pc = "calls", ~HookAhead(th),
         Replay(t, th), OnlyCall
  PROVE  HooksInv' /\ Outside(t)
<1>1. th \in ThreadRecs
  BY DEF ThreadOK
<1>2. CASE Sets(t, [th EXCEPT !.pc = "fetch", !.guard = th.at]) /\ guards' = guards + 1
  <2> DEFINE r == [th EXCEPT !.pc = "fetch", !.guard = th.at]
  <2>1. ThreadOK(r)
    BY ReplayedOK
  <2>2. r.pc = "fetch"
    BY <1>1 DEF ThreadRecs
  <2>3. Sets(t, r)
    BY <1>2
  <2> HIDE DEF r
  <2>4. GuardsMove(t, r)
    BY <1>2 DEF GuardsMove
  <2> QED
    BY <2>1, <2>2, <2>3, <2>4, ThreadGoesOn DEF OnlyCall
<1>3. CASE Sets(t, [th EXCEPT !.guard = 0]) /\ guards' = guards
  <2> DEFINE r == [th EXCEPT !.guard = 0]
  <2>1. ThreadOK(r)
    BY RefusedOK
  <2>2. r.pc = "calls" /\ r.guard = 0
    BY <1>1 DEF ThreadRecs
  <2>3. Sets(t, r)
    BY <1>3
  <2> HIDE DEF r
  <2>4. GuardsMove(t, r)
    BY <1>3, <2>2 DEF GuardsMove
  <2> QED
    BY <2>1, <2>2, <2>3, <2>4, ThreadGoesOn DEF OnlyCall
<1> QED
  BY <1>2, <1>3 DEF Replay

LEMMA HookCallStep ==
  ASSUME HooksInv, NEW t \in Threads, HookCall(t)
  PROVE  HooksInv' /\ Outside(t)
<1>1. ThreadOK(thread[t]) /\ GuardsCounted
  BY DEF HooksInv, ThreadsOK
<1>2. Running(t, "hook") /\ ~Guarded(t) /\ OnlyCall
  BY DEF HookCall
<1>3. ThreadOK(Hit(t)) /\ Hit(t).pc = "calls" /\ ~HookAhead(Hit(t)) /\ Hit(t).guard = thread[t].guard
  BY <1>1, <1>2, HitOK
<1>4. /\ ThreadOK(Leaves(t)) /\ ThreadOK(ReturnsAtOnce(t))
      /\ Leaves(t).guard = thread[t].guard /\ ReturnsAtOnce(t).guard = thread[t].guard
      /\ Leaves(t).pc = "run" /\ ReturnsAtOnce(t).pc = "run"
  BY <1>1, <1>2, LeavesOK
<1>5. \/ Replay(t, Hit(t))
      \/ \E th \in {Hit(t), Leaves(t), ReturnsAtOnce(t)} : Sets(t, th) /\ guards' = guards
  BY DEF HookCall
<1>6. CASE Replay(t, Hit(t))
  BY <1>2, <1>3, <1>6, ReplayStep
<1>7. CASE \E th \in {Hit(t), Leaves(t), ReturnsAtOnce(t)} : Sets(t, th) /\ guards' = guards
  <2>1. PICK th \in {Hit(t), Leaves(t), ReturnsAtOnce(t)} : Sets(t, th) /\ guards' = guards
    BY <1>7
  <2>2. ThreadOK(th) /\ th.pc # "jit" /\ th.guard = thread[t].guard
    BY <1>3, <1>4
  <2>3. GuardsMove(t, th)
    BY <2>1, <2>2 DEF GuardsMove
  <2> QED
    BY <1>2, <2>1, <2>2, <2>3, ThreadGoesOn DEF OnlyCall
<1> QED
  BY <1>5, <1>6, <1>7

LEMMA ReturnCallStep ==
  ASSUME HooksInv, NEW t \in Threads, ReturnCall(t)
  PROVE  HooksInv' /\ Outside(t)
<1> DEFINE th == thread[t]
           f == Call(t).fn
           last == [fn |-> f, stale |-> th.frames[Len(th.frames)].stale, reported |-> Top(t).reported]
           r == [th EXCEPT !.todo = Tail(@), !.returns = @ + 1,
                           !.frames = SubSeq(@, 1, Len(@) - 1), !.last = last]
<1>1. ThreadOK(th) /\ th \in ThreadRecs
  BY DEF HooksInv, ThreadsOK, ThreadOK
<1>2. Running(t, "return") /\ OnlyCall
  BY DEF ReturnCall
<1>3. th.pc = "calls" /\ th.todo # <<>>
  BY <1>2 DEF Running
<1>4. \/ Sets(t, [th EXCEPT !.todo = Tail(@)]) /\ UNCHANGED guards
      \/ FrameMatches(t, f) /\ ((Sets(t, r) /\ guards' = guards) \/ Replay(t, r))
  BY DEF ReturnCall
<1>5. CASE Sets(t, [th EXCEPT !.todo = Tail(@)]) /\ UNCHANGED guards
  BY <1>2, <1>3, <1>5, PassStep
<1>6. CASE FrameMatches(t, f) /\ ((Sets(t, r) /\ guards' = guards) \/ Replay(t, r))
  <2>1. last \in Reports
    <3>1. th.frames \in Seq(FrameRecs) /\ th.stack \in Seq(ActivationRecs)
      BY <1>1 DEF ThreadRecs
    <3>2. th.frames # <<>> /\ th.frames[Len(th.frames)].level = Depth(t)
      BY <1>6 DEF FrameMatches
    <3>3. Len(th.frames) \in 1..Len(th.frames)
      BY <3>1, <3>2, EmptySeq
    <3>4. th.frames[Len(th.frames)] \in FrameRecs /\ Depth(t) \in Nat \ {0}
      BY <3>1, <3>2, <3>3, FrameLevels
    <3>5. th.frames[Len(th.frames)].stale \in BOOLEAN
      BY <3>4 DEF FrameRecs
    <3>6. Depth(t) \in 1..Len(th.stack)
      BY <3>4 DEF Depth
    <3>7. Top(t) \in ActivationRecs
      BY <3>1, <3>6, ElementOfSeq DEF Top
    <3>8. Top(t).reported \subseteq Addresses
      BY <3>7 DEF ActivationRecs
    <3>9. Call(t) \in CallRecs
      BY <1>1, <1>3, CallAtHand
    <3>10. f \in Addresses \cup {0}
      BY <3>9 DEF CallRecs
    <3> QED
      BY <3>5, <3>8, <3>10 DEF Reports
  <2> HIDE DEF last
  <2>2. ThreadOK(r) /\ r.pc = "calls" /\ ~HookAhead(r) /\ r.guard = th.guard
    BY <1>1, <1>2, <1>6, <2>1, ReturnedOK
  <2> HIDE DEF r
  <2>3. CASE Replay(t, r)
    BY <1>2, <2>2, <2>3, ReplayStep
  <2>4. CASE Sets(t, r) /\ guards' = guards
    <3>1. GuardsMove(t, r)
      BY <2>2, <2>4 DEF GuardsMove
    <3> QED
      BY <1>2, <2>2, <2>4, <3>1, ThreadGoesOn DEF OnlyCall
  <2> QED
    BY <1>6, <2>3, <2>4
<1> QED
  BY <1>4, <1>5, <1>6

\* Every step of a thread but those of the compiler.
LEMMA OutsideStep ==
  ASSUME HooksInv, NEW t \in Threads, ThreadStep(t), ~JitBegin(t), ~LoadSnapshot(t), ~JitEnd(t)
  PROVE  HooksInv' /\ Outside(t)
<1>1. CASE ExecCall(t)
  BY <1>1, PassStep DEF ExecCall, Running
<1> QED
  BY <1>1, FetchStep, ApplicationStep, LeavingStep, TakeGuardStep, HookCallStep, ReturnCallStep
     DEF ThreadStep

LEMMA ThreadStepOK ==
  ASSUME HooksInv, NEW t \in Threads, ThreadStep(t)
  PROVE  HooksInv'
BY JitBeginStep, LoadSnapshotStep, JitEndStep, OutsideStep

-----------------------------------------------------------------------------
(* The writers' steps.                                                     *)

\* An operation of the workload begins.
LEMMA WorkloadKept ==
  ASSUME SetsOK, workload' = workload \/ workload' = [workload EXCEPT !.edits = @ - 1]
  PROVE  /\ DOMAIN workload' = DOMAIN workload
         /\ workload'.ops = workload.ops /\ workload'.calls = workload.calls
BY DEF SetsOK

\* No writer goes on to free what is retired.
NoneFrees == \A w \in Writers : writer'[w].pc = "free" => writer[w].pc = "free"

\* Steps that leave the hook and function sets, the snapshots and the threads.
LEMMA WriterElsewhere ==
  ASSUME HooksInv, UNCHANGED <<hooks, functions, cell, thread, guards>>, CodeOK', WritersOK',
         NoneFrees,
         workload' = workload \/ workload' = [workload EXCEPT !.edits = @ - 1]
  PROVE  HooksInv'
<1>1. SetsOK'
  BY WorkloadKept DEF HooksInv, SetsOK
<1>2. ThreadsOK' /\ GuardsCounted' /\ CellOK' /\ ReadersOK'
  BY DEF HooksInv, ThreadsOK, GuardsCounted, CellOK, ReadersOK, NoneFrees
<1> QED
  BY <1>1, <1>2 DEF HooksInv

\* Code that is thrown away.
LEMMA FlushedCode ==
  ASSUME CodeOK, NEW S, code' = [a \in Addresses |-> IF a \in S THEN None ELSE code[a]]
  PROVE  CodeOK'
BY DEF CodeOK

\* A writer goes on to some other place than inside the lock, or leaves it.
LEMMA WriterGoesOn ==
  ASSUME WritersOK, NEW w \in Writers, UNCHANGED cell, lock' = lock \/ lock = w,
         NEW x, DOMAIN x = {"pc", "op", "arg", "flush", "old", "seen"}, ~Inside(x),
         writer' = [writer EXCEPT ![w] = x]
  PROVE  WritersOK' /\ NoneFrees
<1>1. /\ writer'[w] = x /\ writer' = [v \in Writers |-> writer'[v]]
      /\ \A v \in Writers : v # w => writer'[v] = writer[v]
  BY DEF WritersOK
<1>2. \A v \in Writers : Inside(writer'[v]) => lock' = v
  BY <1>1 DEF WritersOK
<1> QED
  BY <1>1, <1>2 DEF WritersOK, Inside, NoneFrees

LEMMA WriterIdle ==
  ASSUME WritersOK, NEW w \in Writers, UNCHANGED <<cell, lock>>,
         writer' = [writer EXCEPT ![w] = IdleWriter] \/ writer' = writer
  PROVE  WritersOK' /\ NoneFrees
<1>1. DOMAIN IdleWriter = {"pc", "op", "arg", "flush", "old", "seen"} /\ ~Inside(IdleWriter)
  BY DEF IdleWriter, Inside
<1>2. CASE writer' = writer
  BY <1>2 DEF WritersOK, NoneFrees
<1> QED
  BY <1>1, <1>2, WriterGoesOn

\* The places outside the master's lock.
Elsewhere(p) == p \notin {"reclaim", "free", "functions"}

LEMMA Elsewheres ==
  \A p \in {"unsign", "flush", "refresh", "flags", "publish", "policy_flush", "toggle"} : Elsewhere(p)
BY DEF Elsewhere

\* Steps that set a few fields of the writer.
LEMMA WriterFields ==
  ASSUME WritersOK, NEW w \in Writers, UNCHANGED cell, lock' = lock \/ lock = w,
         NEW p, Elsewhere(p),
         \/ writer' = [writer EXCEPT ![w].pc = p]
         \/ \E a : writer' = [writer EXCEPT ![w].pc = p, ![w].flush = a]
         \/ \E a : writer' = [writer EXCEPT ![w].pc = p, ![w].seen = a]
         \/ \E a : writer' = [writer EXCEPT ![w].flush = a, ![w].pc = p]
  PROVE  WritersOK' /\ NoneFrees
<1> DEFINE Fields == {"pc", "op", "arg", "flush", "old", "seen"}
<1>1. DOMAIN writer[w] = Fields /\ writer = [v \in Writers |-> writer[v]]
  BY DEF WritersOK
<1>2. \E x : DOMAIN x = Fields /\ x.pc = p /\ writer' = [writer EXCEPT ![w] = x]
  <2>1. CASE writer' = [writer EXCEPT ![w].pc = p]
    <3> WITNESS [writer[w] EXCEPT !.pc = p]
    <3> QED BY <1>1, <2>1
  <2>2. CASE \E a : writer' = [writer EXCEPT ![w].pc = p, ![w].flush = a]
    <3>1. PICK a : writer' = [writer EXCEPT ![w].pc = p, ![w].flush = a]
      BY <2>2
    <3> WITNESS [writer[w] EXCEPT !.pc = p, !.flush = a]
    <3> QED BY <1>1, <3>1
  <2>3. CASE \E a : writer' = [writer EXCEPT ![w].pc = p, ![w].seen = a]
    <3>1. PICK a : writer' = [writer EXCEPT ![w].pc = p, ![w].seen = a]
      BY <2>3
    <3> WITNESS [writer[w] EXCEPT !.pc = p, !.seen = a]
    <3> QED BY <1>1, <3>1
  <2>4. CASE \E a : writer' = [writer EXCEPT ![w].flush = a, ![w].pc = p]
    <3>1. PICK a : writer' = [writer EXCEPT ![w].flush = a, ![w].pc = p]
      BY <2>4
    <3> WITNESS [writer[w] EXCEPT !.flush = a, !.pc = p]
    <3> QED BY <1>1, <3>1
  <2> QED
    BY <2>1, <2>2, <2>3, <2>4
<1>3. \A x : x.pc = p => ~Inside(x)
  BY DEF Inside, Elsewhere
<1> QED
  BY <1>2, <1>3, WriterGoesOn

\* Steps that also note what they were asked.
LEMMA WriterAsked ==
  ASSUME WritersOK, NEW w \in Writers, UNCHANGED <<cell, lock>>,
         NEW p, Elsewhere(p), NEW a, NEW b, NEW c,
         \/ writer' = [writer EXCEPT ![w].pc = p, ![w].arg = a, ![w].seen = b, ![w].flush = c]
         \/ writer' = [writer EXCEPT ![w].pc = p, ![w].arg = a, ![w].old = b, ![w].seen = c]
  PROVE  WritersOK' /\ NoneFrees
<1> DEFINE Fields == {"pc", "op", "arg", "flush", "old", "seen"}
<1>1. DOMAIN writer[w] = Fields /\ writer = [v \in Writers |-> writer[v]]
  BY DEF WritersOK
<1>2. \E x : DOMAIN x = Fields /\ x.pc = p /\ writer' = [writer EXCEPT ![w] = x]
  <2>1. CASE writer' = [writer EXCEPT ![w].pc = p, ![w].arg = a, ![w].seen = b, ![w].flush = c]
    <3> WITNESS [writer[w] EXCEPT !.pc = p, !.arg = a, !.seen = b, !.flush = c]
    <3> QED BY <1>1, <2>1
  <2>2. CASE writer' = [writer EXCEPT ![w].pc = p, ![w].arg = a, ![w].old = b, ![w].seen = c]
    <3> WITNESS [writer[w] EXCEPT !.pc = p, !.arg = a, !.old = b, !.seen = c]
    <3> QED BY <1>1, <2>2
  <2> QED
    BY <2>1, <2>2
<1>3. \A x : x.pc = p => ~Inside(x)
  BY DEF Inside, Elsewhere
<1> QED
  BY <1>2, <1>3, WriterGoesOn

\* The steps of a writer that change no hook set.
LEMMA PlainWriterStep ==
  ASSUME HooksInv, NEW w \in Writers,
         \/ DropSignatures(w) \/ SetSignature(w) \/ SetRule(w) \/ ClearRules(w)
         \/ PublishInterests(w) \/ RefreshCallbacks(w) \/ SetPolicies(w) \/ StoreFlags(w)
         \/ PublishPolicy(w) \/ SetEngine(w)
  PROVE  HooksInv'
<1>1. /\ UNCHANGED <<hooks, functions, cell, lock, thread, guards, code>>
      /\ workload' = workload \/ workload' = [workload EXCEPT !.edits = @ - 1]
  BY DEF DropSignatures, SetSignature, SetRule, ClearRules, PublishInterests, RefreshCallbacks,
         SetPolicies, StoreFlags, PublishPolicy, SetEngine, Begins, sets
<1>2. CodeOK'
  BY <1>1 DEF HooksInv, CodeOK
<1>3. WritersOK
  BY DEF HooksInv
<1>4. WritersOK' /\ NoneFrees
  <2>1. CASE SetSignature(w)
    BY <1>1, <1>3, <2>1, WriterIdle DEF SetSignature
  <2>2. CASE DropSignatures(w) \/ StoreFlags(w) \/ PublishPolicy(w)
    <3>1. PICK p \in {"flush", "publish", "policy_flush"} : writer' = [writer EXCEPT ![w].pc = p]
      BY <2>2 DEF DropSignatures, StoreFlags, PublishPolicy, Moves
    <3> QED
      BY <1>1, <1>3, <3>1, Elsewheres, WriterFields
  <2>3. CASE SetRule(w) \/ ClearRules(w) \/ RefreshCallbacks(w)
    <3>1. \E a : writer' = [writer EXCEPT ![w].pc = "flush", ![w].flush = a]
      BY <2>3 DEF SetRule, ClearRules, RefreshCallbacks
    <3> QED
      BY <1>1, <1>3, <3>1, Elsewheres, WriterFields
  <2>4. CASE PublishInterests(w)
    <3>1. \E a : writer' = [writer EXCEPT ![w].pc = "refresh", ![w].seen = a]
      BY <2>4 DEF PublishInterests
    <3> QED
      BY <1>1, <1>3, <3>1, Elsewheres, WriterFields
  <2>5. CASE SetPolicies(w)
    <3>1. PICK rows :
            writer' = [writer EXCEPT ![w].pc = "flags", ![w].arg = rows,
                         ![w].seen = engine.global \cup KindsOf(rows),
                         ![w].flush = IF rows = {} THEN Ranges(engine.policy) ELSE Ranges(rows)]
      BY <2>5, Zenon DEF SetPolicies
    <3> QED
      BY <1>1, <1>3, <3>1, Elsewheres, WriterAsked
  <2>6. CASE SetEngine(w)
    <3>1. PICK e :
            writer' = [writer EXCEPT ![w].pc = "toggle", ![w].arg = e, ![w].old = engine.global,
                         ![w].seen = e.kind \in KindsOf(engine.policy)]
      BY <2>6, Zenon DEF SetEngine
    <3> QED
      BY <1>1, <1>3, <3>1, Elsewheres, WriterAsked
  <2> QED
    BY <2>1, <2>2, <2>3, <2>4, <2>5, <2>6
<1> QED
  BY <1>1, <1>2, <1>4, WriterElsewhere

\* The steps that throw code away.
LEMMA FlushingStep ==
  ASSUME HooksInv, NEW w \in Writers, Flush(w) \/ PolicyFlush(w) \/ EngineFlush(w)
  PROVE  HooksInv'
<1>1. /\ UNCHANGED <<hooks, functions, cell, lock, thread, guards, workload>>
      /\ writer' = [writer EXCEPT ![w] = IdleWriter]
  BY DEF Flush, PolicyFlush, EngineFlush, sets
<1>2. WritersOK' /\ NoneFrees
  BY <1>1, WriterIdle DEF HooksInv
<1>3. \/ code' = [a \in Addresses |-> IF a \in writer[w].flush THEN None ELSE code[a]]
      \/ code' = [a \in Addresses |-> None] \/ code' = code
  BY DEF Flush, PolicyFlush, EngineFlush
<1>4. CodeOK'
  BY <1>3, FlushedCode DEF HooksInv, CodeOK
<1> QED
  BY <1>1, <1>2, <1>4, WriterElsewhere

\* A new snapshot is published; the one before it is to be retired.
LEMMA EditHooksStep ==
  ASSUME HooksInv, NEW w \in Writers, EditHooks(w)
  PROVE  HooksInv'
<1>1. /\ UNCHANGED <<functions, code, thread, guards>>
      /\ workload' = [workload EXCEPT !.edits = @ - 1]
      /\ \A v \in Writers : ~Inside(writer[v])
  BY HooksAssumption DEF EditHooks, Begins, HooksInv, WritersOK
<1>2. PICK o \in workload.ops :
        /\ o.op \in HookOps
        /\ LET new == Edited(o.op, o.arg)
           IN  IF new = hooks /\ o.op = "set" THEN UNCHANGED <<hooks, cell, lock, writer>>
               ELSE /\ hooks' = new /\ lock' = w
                    /\ cell' = IF new = hooks THEN cell
                               ELSE [cell EXCEPT !.contents = Append(@, new),
                                                 !.cur = Len(cell.contents) + 1]
                    /\ writer' = [writer EXCEPT ![w] =
                         [pc |-> "reclaim", op |-> o.op, arg |-> o.arg, flush |-> hooks,
                          old |-> IF new = hooks THEN 0 ELSE cell.cur, seen |-> new \ hooks]]
  BY DEF EditHooks
<1> DEFINE new == Edited(o.op, o.arg)
<1>3. new \subseteq Addresses
  BY <1>2 DEF HooksInv, SetsOK, Edited, Incoming, HookOps
<1>4. CASE UNCHANGED <<hooks, cell, lock, writer>>
  BY <1>1, <1>4, WriterElsewhere DEF HooksInv, CodeOK, WritersOK, NoneFrees
<1>5. CASE ~UNCHANGED <<hooks, cell, lock, writer>>
  <2>1. /\ hooks' = new /\ lock' = w
        /\ cell' = IF new = hooks THEN cell
                   ELSE [cell EXCEPT !.contents = Append(@, new), !.cur = Len(cell.contents) + 1]
        /\ writer' = [writer EXCEPT ![w] =
             [pc |-> "reclaim", op |-> o.op, arg |-> o.arg, flush |-> hooks,
              old |-> IF new = hooks THEN 0 ELSE cell.cur, seen |-> new \ hooks]]
    BY <1>2, <1>5
  <2> HIDE DEF new
  <2>2. /\ cell.cur \in Nat \ {0} /\ cell.cur = Len(cell.contents) /\ cell.contents \in Seq(SUBSET Addresses)
        /\ \A n \in cell.retired \cup cell.freed : n \in Nat /\ n < cell.cur
        /\ CellOK
    BY DEF HooksInv, CellOK
  <2>3. /\ Append(cell.contents, new) \in Seq(SUBSET Addresses)
        /\ Len(Append(cell.contents, new)) = cell.cur + 1
    BY <1>3, <2>2, AppendProperties
  <2>4. CASE new # hooks
    <3>1. cell' = [cell EXCEPT !.contents = Append(cell.contents, new), !.cur = cell.cur + 1]
      BY <2>1, <2>2, <2>4
    <3>2. /\ cell'.cur = cell.cur + 1 /\ cell'.contents = Append(cell.contents, new)
          /\ cell'.retired = cell.retired /\ cell'.freed = cell.freed /\ cell'.readers = cell.readers
      BY <2>2, <3>1 DEF CellOK
    <3>3. cell' \in [cur : Nat \ {0}, contents : Seq(SUBSET Addresses), retired : SUBSET (Nat \ {0}),
                     freed : SUBSET (Nat \ {0}), readers : SUBSET Threads]
      <4>1. \A n \in Nat \ {0} :
              [cell EXCEPT !.contents = Append(cell.contents, new), !.cur = n]
                \in [cur : Nat \ {0}, contents : Seq(SUBSET Addresses), retired : SUBSET (Nat \ {0}),
                     freed : SUBSET (Nat \ {0}), readers : SUBSET Threads]
        BY <2>2, <2>3 DEF CellOK
      <4>2. cell.cur + 1 \in Nat \ {0}
        BY <2>2
      <4> QED
        BY <3>1, <4>1, <4>2
    <3>4. CellOK'
      BY <2>2, <2>3, <3>2, <3>3 DEF CellOK
    <3>5. \A v \in Writers : v # w => writer'[v] = writer[v]
      BY <2>1 DEF HooksInv, WritersOK
    <3>6. /\ DOMAIN writer'[w] = {"pc", "op", "arg", "flush", "old", "seen"}
          /\ writer'[w].old = cell.cur /\ writer'[w].pc = "reclaim"
          /\ writer' = [v \in Writers |-> writer'[v]]
      BY <2>1, <2>4 DEF HooksInv, WritersOK
    <3>7. \A n \in Nat : n <= cell.cur => n < cell'.cur
      BY <2>2, <3>2
    <3>8. WritersOK'
      <4>1. \A v \in Writers :
              /\ DOMAIN writer'[v] = {"pc", "op", "arg", "flush", "old", "seen"}
              /\ writer'[v].pc = "reclaim" => writer'[v].old \in Nat /\ writer'[v].old <= cell.cur
        BY <2>2, <3>5, <3>6 DEF HooksInv, WritersOK
      <4>2. \A v \in Writers : Inside(writer'[v]) => lock' = v
        BY <1>1, <2>1, <3>5
      <4> QED
        BY <3>6, <3>7, <4>1, <4>2 DEF WritersOK
    <3>9. SetsOK'
      BY <1>1, <1>3, <2>1, WorkloadKept DEF HooksInv, SetsOK
    <3>10. ThreadsOK' /\ GuardsCounted' /\ CodeOK'
      BY <1>1 DEF HooksInv, ThreadsOK, GuardsCounted, CodeOK
    <3>11. ReadersOK'
      BY <1>1, <3>2, <3>5, <3>6 DEF HooksInv, ReadersOK, Inside
    <3> QED
      BY <3>4, <3>8, <3>9, <3>10, <3>11 DEF HooksInv
  <2>5. CASE new = hooks
    <3>1. UNCHANGED <<hooks, cell>>
      BY <2>1, <2>5
    <3>2. CodeOK'
      BY <1>1 DEF HooksInv, CodeOK
    <3>3. /\ DOMAIN writer'[w] = {"pc", "op", "arg", "flush", "old", "seen"}
          /\ writer'[w].old = 0 /\ writer'[w].pc = "reclaim"
          /\ writer' = [v \in Writers |-> writer'[v]]
          /\ \A v \in Writers : v # w => writer'[v] = writer[v]
      BY <2>1, <2>5 DEF HooksInv, WritersOK
    <3>4. WritersOK' /\ NoneFrees
      <4>1. \A v \in Writers : Inside(writer'[v]) => lock' = v
        BY <1>1, <2>1, <3>3
      <4> QED
        BY <2>2, <3>1, <3>3, <4>1 DEF HooksInv, WritersOK, NoneFrees
    <3> QED
      BY <1>1, <3>1, <3>2, <3>4, WriterElsewhere
  <2> QED
    BY <2>4, <2>5
<1> QED
  BY <1>4, <1>5

\* The old snapshot is retired; the writer goes on to free only when nobody is
\* announced.
LEMMA ReclaimStep ==
  ASSUME HooksInv, NEW w \in Writers, Reclaim(w)
  PROVE  HooksInv'
<1> DEFINE R == cell.retired \cup ({writer[w].old} \ {0})
           p == IF cell.readers = {} /\ writer[w].old # 0 THEN "free" ELSE "functions"
<1>1. /\ UNCHANGED <<hooks, functions, lock, code, thread, guards, workload>>
      /\ writer[w].pc = "reclaim"
      /\ writer' = [writer EXCEPT ![w].pc = p]
      /\ cell' = [cell EXCEPT !.retired = R]
  BY DEF Reclaim, Moves, sets
<1>2. CellOK /\ WritersOK
  BY DEF HooksInv
<1>3. R \subseteq Nat \ {0} /\ \A n \in R : n < cell.cur
  BY <1>1, <1>2 DEF CellOK, WritersOK
<1>4. p \in {"free", "functions"} /\ (p = "free" => cell.readers = {})
  OBVIOUS
<1> HIDE DEF R, p
<1>5. /\ CellOK' /\ cell'.cur = cell.cur /\ cell'.readers = cell.readers
      /\ cell'.freed = cell.freed
  BY <1>1, <1>2, <1>3 DEF CellOK
<1>6. /\ writer'[w].pc = p /\ \A v \in Writers : v # w => writer'[v] = writer[v]
      /\ writer' = [v \in Writers |-> writer'[v]]
      /\ DOMAIN writer'[w] = {"pc", "op", "arg", "flush", "old", "seen"}
  BY <1>1, <1>2 DEF WritersOK
<1>7. lock = w /\ \A v \in Writers : v # w => ~Inside(writer[v])
  BY <1>1, <1>2 DEF WritersOK, Inside
<1>8. WritersOK'
  BY <1>1, <1>2, <1>4, <1>5, <1>6, <1>7 DEF WritersOK, Inside
<1>9. ReadersOK'
  <2>1. \A t \in Threads : thread'[t].pc = "jit" => t \in cell'.readers /\ thread'[t].snap \notin cell'.freed
    BY <1>1, <1>5 DEF HooksInv, ReadersOK
  <2>2. \A v \in Writers : writer'[v].pc = "free" => cell'.readers = {}
    BY <1>4, <1>5, <1>6, <1>7 DEF Inside
  <2> QED
    BY <2>1, <2>2 DEF ReadersOK
<1>10. ThreadsOK' /\ GuardsCounted' /\ CodeOK' /\ SetsOK'
  BY <1>1 DEF HooksInv, ThreadsOK, GuardsCounted, CodeOK, SetsOK
<1> QED
  BY <1>5, <1>8, <1>9, <1>10 DEF HooksInv

\* What is retired is freed: readers that announced themselves since the test
\* have loaded a newer snapshot, or none yet.
LEMMA FreeRetiredStep ==
  ASSUME HooksInv, NEW w \in Writers, FreeRetired(w)
  PROVE  HooksInv'
<1>1. /\ UNCHANGED <<hooks, functions, lock, code, thread, guards, workload>>
      /\ writer[w].pc = "free"
      /\ writer' = [writer EXCEPT ![w].pc = "functions"]
      /\ cell' = [cell EXCEPT !.freed = @ \cup cell.retired, !.retired = {}]
  BY DEF FreeRetired, Moves, sets
<1>2. CellOK /\ WritersOK
  BY DEF HooksInv
<1>3. /\ CellOK' /\ cell'.cur = cell.cur /\ cell'.readers = cell.readers
      /\ cell'.freed = cell.freed \cup cell.retired
  BY <1>1, <1>2 DEF CellOK
<1>4. /\ writer'[w].pc = "functions" /\ \A v \in Writers : v # w => writer'[v] = writer[v]
      /\ writer' = [v \in Writers |-> writer'[v]]
      /\ DOMAIN writer'[w] = {"pc", "op", "arg", "flush", "old", "seen"}
  BY <1>1, <1>2 DEF WritersOK
<1>5. lock = w /\ \A v \in Writers : v # w => ~Inside(writer[v])
  BY <1>1, <1>2 DEF WritersOK, Inside
<1>6. WritersOK'
  BY <1>1, <1>2, <1>3, <1>4, <1>5 DEF WritersOK, Inside
<1>7. ReadersOK'
  <2>1. \A t \in Threads :
          thread'[t].pc = "jit" => t \in cell'.readers /\ thread'[t].snap \notin cell'.freed
    BY <1>1, <1>3 DEF HooksInv, ReadersOK
  <2>2. \A v \in Writers : writer'[v].pc # "free"
    BY <1>4, <1>5 DEF Inside
  <2> QED
    BY <2>1, <2>2 DEF ReadersOK
<1>8. ThreadsOK' /\ GuardsCounted' /\ CodeOK' /\ SetsOK'
  BY <1>1 DEF HooksInv, ThreadsOK, GuardsCounted, CodeOK, SetsOK
<1> QED
  BY <1>3, <1>6, <1>7, <1>8 DEF HooksInv

\* The function set follows; frames of functions that go are marked.
LEMMA EditFunctionsStep ==
  ASSUME HooksInv, NEW w \in Writers, EditFunctions(w)
  PROVE  HooksInv'
<1>1. UNCHANGED <<hooks, cell, code, guards, workload>>
  BY DEF EditFunctions
<1>2. PICK gone, new, x, p :
        /\ functions' = (functions \cup new) \ gone /\ new \subseteq hooks
        /\ thread' = Unlogged(gone)
        /\ Elsewhere(p) /\ writer' = [writer EXCEPT ![w].flush = x, ![w].pc = p]
  <2> DEFINE o == writer[w]
             new == IF o.op = "set_batch" THEN Incoming(o.arg \cap hooks, functions) ELSE {}
             gone == CASE o.op = "remove" -> functions \cap o.arg
                       [] o.op = "clear" -> functions
                       [] OTHER -> {}
             p == IF o.op \in {"remove", "clear"} THEN "unsign" ELSE "flush"
             x == FlushSet(o.op, o.arg, o.flush, o.seen, gone, new)
  <2>1. /\ functions' = (functions \cup new) \ gone
        /\ thread' = Unlogged(gone)
        /\ writer' = [writer EXCEPT ![w].flush = x, ![w].pc = p]
    BY DEF EditFunctions
  <2>2. new \subseteq hooks /\ Elsewhere(p)
    BY Elsewheres DEF Incoming
  <2> HIDE DEF new, gone, p, x
  <2> QED
    BY <2>1, <2>2
<1>3. \A t \in Threads : ThreadOK(thread'[t])
                         /\ thread'[t].guard = thread[t].guard /\ thread'[t].pc = thread[t].pc
                         /\ thread'[t].snap = thread[t].snap
  <2> SUFFICES ASSUME NEW t \in Threads
               PROVE  ThreadOK(thread'[t])
                      /\ thread'[t].guard = thread[t].guard /\ thread'[t].pc = thread[t].pc
                      /\ thread'[t].snap = thread[t].snap
    OBVIOUS
  <2> DEFINE th == thread[t]
             F == Marked(th.frames, {i \in DOMAIN th.frames : th.frames[i].fn \in gone})
  <2>1. thread'[t] = [th EXCEPT !.frames = F]
    BY <1>2 DEF Unlogged
  <2>2. ThreadOK(th) /\ th \in ThreadRecs
    BY DEF HooksInv, ThreadsOK, ThreadOK
  <2>3. th.frames \in Seq(FrameRecs)
    BY <2>2 DEF ThreadRecs
  <2>4. Remarked(th.frames, F)
    BY <2>3, MarkedRemarks
  <2> HIDE DEF F
  <2>5. ThreadOK([th EXCEPT !.frames = F])
    BY <2>2, <2>4, MarkedOK
  <2> QED
    BY <2>1, <2>2, <2>5 DEF ThreadRecs
<1>4. thread' = [t \in Threads |-> thread'[t]]
  BY <1>2 DEF Unlogged
<1>5. ThreadsOK'
  BY <1>3, <1>4 DEF ThreadsOK
<1>6. GuardsCounted'
  <2>1. {t \in Threads : thread'[t].guard # 0} = {t \in Threads : thread[t].guard # 0}
    BY <1>3
  <2> QED
    BY <1>1, <2>1 DEF GuardsCounted, HooksInv
<1>7. SetsOK'
  BY <1>1, <1>2 DEF HooksInv, SetsOK
<1>8. CodeOK' /\ CellOK'
  BY <1>1 DEF HooksInv, CodeOK, CellOK
<1>9. WritersOK' /\ NoneFrees
  <2>1. lock = w
    BY DEF EditFunctions, HooksInv, WritersOK, Inside
  <2> QED
    BY <1>1, <1>2, <2>1, WriterFields DEF HooksInv
<1>10. ReadersOK'
  BY <1>1, <1>3, <1>9 DEF HooksInv, ReadersOK, NoneFrees
<1> QED
  BY <1>5, <1>6, <1>7, <1>8, <1>9, <1>10 DEF HooksInv

-----------------------------------------------------------------------------
(* The theorems.                                                           *)

LEMMA HooksInit == Init => HooksInv
<1> SUFFICES ASSUME Init PROVE HooksInv
  OBVIOUS
<1>1. ThreadsOK
  BY NewThreadOK DEF Init, ThreadsOK
<1>2. CodeOK
  BY DEF Init, CodeOK
<1>3. SetsOK
  <2>1. PICK x \in Workloads : workload = x
    BY DEF Init
  <2>2. /\ DOMAIN x = {"ops", "edits", "moves", "calls"}
        /\ x.calls \in [Threads -> SUBSET Entries]
        /\ \A o \in x.ops : o.op \in HookOps => o.arg \subseteq Addresses
    BY HooksAssumption DEF HookOps
  <2> QED
    BY <2>1, <2>2 DEF Init, SetsOK
<1>4. GuardsCounted
  <2>1. {t \in Threads : thread[t].guard # 0} = {}
    BY NewThreadOK DEF Init
  <2>2. Cardinality({}) = 0
    BY FS_EmptySet
  <2> QED
    BY <2>1, <2>2, SMTT(60) DEF Init, GuardsCounted
<1>5. CellOK
  <2>1. <<{}>> \in Seq(SUBSET Addresses) /\ Len(<<{}>>) = 1
    OBVIOUS
  <2> QED
    BY <2>1 DEF Init, CellOK
<1>6. WritersOK
  BY DEF Init, WritersOK, IdleWriter, Inside
<1>7. ReadersOK
  BY NewThreadOK DEF Init, ReadersOK
<1> QED
  BY <1>1, <1>2, <1>3, <1>4, <1>5, <1>6, <1>7 DEF HooksInv

LEMMA HooksNext == HooksInv /\ [Next]_vars => HooksInv'
<1> SUFFICES ASSUME HooksInv, [Next]_vars PROVE HooksInv'
  OBVIOUS
<1>1. CASE \E w \in Writers : WriterStep(w)
  BY <1>1, EditHooksStep, ReclaimStep, FreeRetiredStep, EditFunctionsStep, PlainWriterStep, FlushingStep
     DEF WriterStep
<1>2. CASE \E t \in Threads : ThreadStep(t)
  BY <1>2, ThreadStepOK
<1>3. CASE EmitRoutineSnapshot
  <2>1. UNCHANGED <<hooks, functions, cell, lock, thread, guards, code, writer, workload>>
    BY <1>3 DEF EmitRoutineSnapshot, sets
  <2> QED
    BY <2>1, WriterElsewhere DEF HooksInv, CodeOK, WritersOK, NoneFrees
<1>4. CASE UNCHANGED vars
  <2>1. UNCHANGED <<hooks, functions, cell, lock, thread, guards, code, writer, workload>>
    BY <1>4 DEF vars, sets
  <2> QED
    BY <2>1, WriterElsewhere DEF HooksInv, CodeOK, WritersOK, NoneFrees
<1> QED
  BY <1>1, <1>2, <1>3, <1>4 DEF Next

LEMMA HooksAlways == Spec => []HooksInv
BY HooksInit, HooksNext, PTL DEF Spec

\* A reader announces itself in one step, loads the pointer in the next and
\* searches in a third; a writer swaps the pointer, retires the old snapshot and
\* looks for announced readers, and frees, in three steps too.  Whatever the
\* numbers of threads, writers and edits and however these steps interleave, no
\* snapshot is searched after it was freed (hooks.rs:284-339): who is announced
\* after the test can only load a snapshot newer than those being freed.
THEOREM SnapshotsAlive == Spec => []SnapshotAlive
<1>1. HooksInv => SnapshotAlive
  BY DEF HooksInv, ReadersOK, SnapshotAlive
<1> QED
  BY <1>1, HooksAlways, PTL

\* However often a changed context is executed again, and whatever is hooked,
\* unhooked or compiled anew in between, an instruction's hit and its return
\* are each acted on at most once: the replay's guard, or the frame that is
\* gone, stops the second (hooks.rs:1038-1089, 1168-1185).
THEOREM ReplaysActOnce == Spec => []ActedOnce
<1>1. HooksInv => ActedOnce
  BY DEF HooksInv, ThreadsOK, ThreadOK, ActsOnce, ActedOnce
<1> QED
  BY <1>1, HooksAlways, PTL
-----------------------------------------------------------------------------
(* Code that follows the sets.                                             *)

\* The function EditFunctions is going to take out, and those it puts in.
Gone(x, F) ==
  CASE x.op = "remove" -> F \cap x.arg
    [] x.op = "clear" -> F
    [] OTHER -> {}

Fresh(x, H, F) == IF x.op = "set_batch" THEN Incoming(x.arg \cap H, F) ELSE {}

\* The code a writer is going to throw away, whatever the others do, when H is
\* the hook set and F the function set.
FlushOf(x, H, F) ==
  CASE x.pc \in {"reclaim", "free", "functions"} ->
         FlushSet(x.op, x.arg, x.flush, x.seen, Gone(x, F), Fresh(x, H, F))
    [] x.pc \in {"unsign", "flush"} -> x.flush
    [] OTHER -> {}

Doomed(a) == \E w \in Writers : a \in FlushOf(writer[w], hooks, functions)

\* A writer has published an interest and not yet looked which code it touches.
Refreshing(i) == \E w \in Writers : writer[w].pc = "refresh" /\ i \in writer[w].seen

\* What a writer inside the master's lock did to the hook set.
Edits(x, H, F) ==
  /\ x.op \in HookOps /\ x.arg \subseteq Addresses
  /\ F \subseteq x.flush
  /\ x.op \in {"set", "set_batch", "set_plain_batch"} => H = x.flush \cup x.seen
  /\ x.op = "remove" => H = x.flush \ x.arg
  /\ x.op = "clear" => H = {}

Locked ==
  /\ \A w \in Writers : Inside(writer[w]) => lock = w /\ Edits(writer[w], hooks, functions)
  /\ lock = None => functions \subseteq hooks
  /\ lock # None => lock \in Writers /\ Inside(writer[lock])

\* A snapshot that was loaded is the hook set, or the difference is doomed.
SnapshotsCurrent ==
  /\ cell.contents[cell.cur] = hooks
  /\ \A t \in Threads : thread[t].pc = "jit" /\ thread[t].snap # 0 =>
       /\ thread[t].snap \in 1..Len(cell.contents)
       /\ \/ thread[t].at \in hooks <=> thread[t].at \in cell.contents[thread[t].snap]
          \/ Doomed(thread[t].at)

\* The calls in the code cache: a hook's report, its callback, a return's.
HookSeen(a) == Has(a, "hook") <=> a \in hooks

CallbackSeen(a) ==
  a \in hooks /\ (a \in rules \/ <<a, a \in Rets>> \in interests) =>
    \/ \E i \in DOMAIN code[a] : code[a][i].call = "hook" /\ code[a][i].callback
    \/ Refreshing(<<a, a \in Rets>>)

ReturnSeen(a) ==
  a \in Rets /\ Owner(a) # 0 /\ a <= Owner(a) + Window =>
    \E i \in DOMAIN code[a] :
      /\ code[a][i].call = "return" /\ code[a][i].fn = Owner(a)
      /\ <<Owner(a), TRUE>> \in interests => code[a][i].callback \/ Refreshing(<<Owner(a), TRUE>>)

CodeFollows ==
  \A a \in Addresses :
    code[a] # None => Doomed(a) \/ (HookSeen(a) /\ CallbackSeen(a) /\ ReturnSeen(a))

CurrentInv == Locked /\ SnapshotsCurrent /\ CodeFollows

\* The owner of a return instruction is the function nearest before it.
Nearest(F, a) ==
  LET below == {f \in F : f <= a} IN IF below = {} THEN 0 ELSE Max(below)

LEMMA NearestIs ==
  ASSUME NEW F, F \subseteq Addresses, NEW a \in Addresses
  PROVE  /\ Nearest(F, a) # 0 =>
              /\ Nearest(F, a) \in F /\ Nearest(F, a) <= a
              /\ \A f \in F : f <= a => f <= Nearest(F, a)
         /\ \A m \in F : m <= a /\ (\A f \in F : f <= a => f <= m) => Nearest(F, a) = m
<1> DEFINE below == {f \in F : f <= a}
<1>1. F \subseteq Nat /\ a \in Nat /\ below \subseteq Nat /\ \A f \in below : f <= a
  BY AddressFacts
<1>2. below # {} => Max(below) \in below /\ \A f \in below : f <= Max(below)
  <2> HIDE DEF below
  <2> QED
    BY <1>1, GreatestNat
<1>3. Nearest(F, a) = IF below = {} THEN 0 ELSE Max(below)
  BY DEF Nearest
<1>4. ASSUME NEW m \in F, m <= a, \A f \in F : f <= a => f <= m
      PROVE  Nearest(F, a) = m
  <2>1. m \in below
    BY <1>4
  <2>2. Max(below) \in F /\ Max(below) <= a /\ m <= Max(below)
    <3>1. Max(below) \in below /\ m <= Max(below)
      <4> HIDE DEF below
      <4> QED
        BY <1>2, <2>1
    <3>2. \A z \in below : z \in F /\ z <= a
      OBVIOUS
    <3> QED
      BY <3>1, <3>2
  <2>3. Max(below) <= m
    BY <1>4, <2>2
  <2> HIDE DEF below
  <2>4. \A n \in Nat : n <= m /\ m <= n => n = m
    BY <1>1
  <2>5. Max(below) \in Nat
    BY <1>1, <2>2
  <2> QED
    BY <1>3, <2>1, <2>2, <2>3, <2>4, <2>5
<1> QED
  BY <1>2, <1>3, <1>4

LEMMA OwnerNearest ==
  ASSUME NEW a \in Addresses, functions \subseteq Addresses, functions' \subseteq Addresses
  PROVE  /\ Owner(a) # 0 => Owner(a) = Nearest(functions, a)
         /\ Nearest(functions, a) # 0 /\ a <= Nearest(functions, a) + Window
              => Owner(a) = Nearest(functions, a)
         /\ Owner(a)' # 0 => Owner(a)' = Nearest(functions', a)
<1>1. a \in Nat /\ Window \in Nat
  BY AddressFacts, HooksAssumption
<1>2. \A n \in Nat : a <= n + Window => a - n <= Window
  BY <1>1
<1>3. Nearest(functions, a) \in Nat
  <2>1. Nearest(functions, a) # 0 => Nearest(functions, a) \in functions
    BY NearestIs
  <2>2. functions \subseteq Nat
    BY AddressFacts
  <2>3. CASE Nearest(functions, a) = 0
    BY <2>3
  <2>4. CASE Nearest(functions, a) # 0
    BY <2>1, <2>2, <2>4
  <2> QED
    BY <2>3, <2>4
<1> DEFINE n == Nearest(functions, a)
           inside(r, k) == r # None /\ r[1] <= k /\ k < r[2]
<1>4. Owner(a) = IF n # 0 /\ (inside(Routine[a], n) \/ a - n <= Window) THEN n ELSE 0
  BY DEF Owner, Nearest
<1>5. Owner(a)' \in {0, Nearest(functions', a)}
  BY DEF Owner, Nearest
<1>6. n # 0 /\ a <= n + Window => a - n <= Window
  BY <1>2, <1>3
<1> HIDE DEF n, inside
<1>7. Owner(a) # 0 => Owner(a) = n
  BY <1>4
<1>8. n # 0 /\ a <= n + Window => Owner(a) = n
  BY <1>4, <1>6
<1> QED
  BY <1>5, <1>7, <1>8 DEF n

\* An edit of the function set changes the owner of a return near a function
\* only where the editing writer throws the code away.
LEMMA OwnerShift ==
  ASSUME NEW a \in Addresses, NEW x, functions \subseteq Addresses, functions' \subseteq Addresses,
         Inside(x), x.op \in HookOps, x.arg \subseteq Addresses,
         functions' = (functions \cup Fresh(x, hooks, functions)) \ Gone(x, functions),
         Owner(a)' # 0, a <= Owner(a)' + Window, a \notin FlushOf(x, hooks, functions)
  PROVE  Owner(a)' = Owner(a)
<1> DEFINE n == Nearest(functions', a)
           m == Nearest(functions, a)
           G == Gone(x, functions)
           N == Fresh(x, hooks, functions)
<1>1. a \in Nat /\ Window \in Nat /\ functions \subseteq Nat \ {0} /\ functions' \subseteq Nat \ {0}
  BY AddressFacts, HooksAssumption
<1>2. Owner(a)' = n /\ n # 0
  BY OwnerNearest
<1>3. /\ n \in functions' /\ n <= a /\ \A f \in functions' : f <= a => f <= n
      /\ \A k \in functions : k <= a /\ (\A f \in functions : f <= a => f <= k) => m = k
  <2>1. /\ n # 0 => n \in functions' /\ n <= a /\ \A f \in functions' : f <= a => f <= n
    BY NearestIs
  <2>2. \A k \in functions : k <= a /\ (\A f \in functions : f <= a => f <= k) => m = k
    BY NearestIs
  <2> QED
    BY <1>2, <2>1, <2>2
<1>4. m # 0 /\ a <= m + Window => Owner(a) = m
  BY OwnerNearest
<1>5. a <= n + Window
  BY <1>2
<1> HIDE DEF n, m
<1>6. CASE x.op = "set_batch"
  <2>1. G = {} /\ functions' = functions \cup N
    BY <1>6 DEF Gone
  <2>2. FlushOf(x, hooks, functions) = WindowOf(x.seen \cup N)
    BY <1>6 DEF FlushOf, FlushSet, Inside
  <2>3. n \notin N
    BY <1>3, <1>5, <2>2 DEF WindowOf
  <2>4. n \in functions
    BY <1>3, <2>1, <2>3
  <2>5. m = n
    BY <1>3, <2>1, <2>4
  <2> QED
    BY <1>2, <1>4, <1>5, <2>5
<1>7. CASE x.op = "remove"
  <2>1. N = {} /\ G = functions \cap x.arg /\ functions' = functions \ x.arg
    BY <1>7 DEF Gone, Fresh
  <2>2. FlushOf(x, hooks, functions) = IF G # {} THEN WindowOf(x.arg) ELSE x.arg \cap x.flush
    BY <1>7 DEF FlushOf, FlushSet, Inside
  <2>3. n \in functions /\ n <= a
    BY <1>3, <2>1
  <2>4. m # 0 /\ m \in functions /\ m <= a /\ n <= m
    <3>1. PICK k \in functions : k <= a /\ \A f \in functions : f <= a => f <= k
      <4> DEFINE S == {f \in functions : f <= a}
      <4>1. S \subseteq Nat /\ S # {} /\ \A f \in S : f <= a
        BY <1>1, <2>3
      <4> HIDE DEF S
      <4>2. Max(S) \in S /\ \A f \in S : f <= Max(S)
        BY <1>1, <4>1, GreatestNat
      <4> QED
        BY <4>2 DEF S
    <3>2. m = k
      BY <1>3, <3>1
    <3> QED
      BY <1>1, <2>3, <3>1, <3>2
  <2>5. a <= m + Window
    BY <1>1, <1>5, <2>3, <2>4
  <2>6. m \notin x.arg
    BY <2>1, <2>2, <2>4, <2>5 DEF WindowOf
  <2>7. m \in functions'
    BY <2>1, <2>4, <2>6
  <2>8. m <= n
    BY <1>3, <2>4, <2>7
  <2>9. m = n
    BY <1>1, <2>3, <2>4, <2>8
  <2> QED
    BY <1>2, <1>4, <1>5, <2>9
<1>8. CASE x.op = "clear"
  <2>1. functions' = {}
    BY <1>8 DEF Gone, Fresh
  <2> QED
    BY <1>3, <2>1
<1>9. CASE x.op \in {"set", "set_plain_batch"}
  <2>1. functions' = functions
    BY <1>9 DEF Gone, Fresh
  <2>2. m = n
    BY <2>1 DEF n, m
  <2> QED
    BY <1>2, <1>4, <1>5, <2>2
<1> QED
  BY <1>6, <1>7, <1>8, <1>9 DEF HookOps

\* Three lists one behind the other have the elements of each, and no others.
LEMMA ThreeParts ==
  ASSUME NEW A \in Seq(CallRecs), NEW B \in Seq(CallRecs), NEW C \in Seq(CallRecs)
  PROVE  LET Q == (A \o B) \o C
         IN  /\ \A i \in DOMAIN A : \E k \in DOMAIN Q : Q[k] = A[i]
             /\ \A i \in DOMAIN B : \E k \in DOMAIN Q : Q[k] = B[i]
             /\ \A i \in DOMAIN C : \E k \in DOMAIN Q : Q[k] = C[i]
             /\ \A k \in DOMAIN Q : \/ \E i \in DOMAIN A : Q[k] = A[i]
                                    \/ \E i \in DOMAIN B : Q[k] = B[i]
                                    \/ \E i \in DOMAIN C : Q[k] = C[i]
<1> DEFINE P == A \o B
           Q == P \o C
<1>1. /\ P \in Seq(CallRecs) /\ Len(P) = Len(A) + Len(B)
      /\ \A i \in 1..(Len(A) + Len(B)) : P[i] = IF i <= Len(A) THEN A[i] ELSE B[i - Len(A)]
  BY ConcatProperties
<1> HIDE DEF P
<1>2. /\ Q \in Seq(CallRecs) /\ Len(Q) = Len(P) + Len(C)
      /\ \A i \in 1..(Len(P) + Len(C)) : Q[i] = IF i <= Len(P) THEN P[i] ELSE C[i - Len(P)]
  <2>1. P \in Seq(CallRecs)
    BY <1>1
  <2> QED
    BY <2>1, ConcatProperties
<1> HIDE DEF Q
<1>3. /\ DOMAIN A = 1..Len(A) /\ DOMAIN B = 1..Len(B) /\ DOMAIN C = 1..Len(C)
      /\ DOMAIN Q = 1..Len(Q) /\ Len(A) \in Nat /\ Len(B) \in Nat /\ Len(C) \in Nat
  BY <1>2, LenProperties
<1>4. \A i \in DOMAIN A : i \in DOMAIN Q /\ Q[i] = A[i]
  BY <1>1, <1>2, <1>3
<1>5. \A i \in DOMAIN B : i + Len(A) \in DOMAIN Q /\ Q[i + Len(A)] = B[i]
  <2> SUFFICES ASSUME NEW i \in DOMAIN B
               PROVE  i + Len(A) \in DOMAIN Q /\ Q[i + Len(A)] = B[i]
    OBVIOUS
  <2>1. /\ i + Len(A) \in 1..(Len(A) + Len(B)) /\ ~(i + Len(A) <= Len(A)) /\ (i + Len(A)) - Len(A) = i
        /\ i + Len(A) \in 1..(Len(P) + Len(C)) /\ i + Len(A) <= Len(P)
    BY <1>1, <1>3
  <2> QED
    BY <1>1, <1>2, <1>3, <2>1
<1>6. \A i \in DOMAIN C : i + Len(P) \in DOMAIN Q /\ Q[i + Len(P)] = C[i]
  <2> SUFFICES ASSUME NEW i \in DOMAIN C
               PROVE  i + Len(P) \in DOMAIN Q /\ Q[i + Len(P)] = C[i]
    OBVIOUS
  <2>1. /\ i + Len(P) \in 1..(Len(P) + Len(C)) /\ ~(i + Len(P) <= Len(P)) /\ (i + Len(P)) - Len(P) = i
    BY <1>1, <1>3
  <2> QED
    BY <1>2, <1>3, <2>1
<1>7. \A k \in DOMAIN Q : \/ \E i \in DOMAIN A : Q[k] = A[i]
                          \/ \E i \in DOMAIN B : Q[k] = B[i]
                          \/ \E i \in DOMAIN C : Q[k] = C[i]
  <2> SUFFICES ASSUME NEW k \in DOMAIN Q
               PROVE  \/ \E i \in DOMAIN A : Q[k] = A[i]
                      \/ \E i \in DOMAIN B : Q[k] = B[i]
                      \/ \E i \in DOMAIN C : Q[k] = C[i]
    OBVIOUS
  <2>1. CASE k <= Len(A)
    BY <1>1, <1>2, <1>3, <2>1
  <2>2. CASE ~(k <= Len(A)) /\ k <= Len(P)
    <3>1. k - Len(A) \in DOMAIN B /\ Q[k] = B[k - Len(A)]
      BY <1>1, <1>2, <1>3, <2>2
    <3> QED
      BY <3>1
  <2>3. CASE ~(k <= Len(P))
    <3>1. k - Len(P) \in DOMAIN C /\ Q[k] = C[k - Len(P)]
      BY <1>1, <1>2, <1>3, <2>3
    <3> QED
      BY <3>1
  <2> QED
    BY <2>1, <2>2, <2>3
<1> QED
  BY <1>4, <1>5, <1>6, <1>7 DEF Q, P

\* What the code compiled for an instruction says of its hook, callback, return
\* and capture calls when S is the hook set searched.
CompiledWell(calls, a, S) ==
  /\ (\E i \in DOMAIN calls : calls[i].call = "hook") <=> a \in S
  /\ a \in S /\ (a \in rules \/ <<a, a \in Rets>> \in interests) =>
       \E i \in DOMAIN calls : calls[i].call = "hook" /\ calls[i].callback
  /\ a \in Rets /\ Owner(a) # 0 =>
       \E i \in DOMAIN calls :
         /\ calls[i].call = "return" /\ calls[i].fn = Owner(a)
         /\ <<Owner(a), TRUE>> \in interests => calls[i].callback
  /\ "exec" \in engine.enabled /\ Wants(a, "exec") =>
       \E i \in DOMAIN calls : calls[i].call = "exec"

\* What is compiled says what the sets say.
LEMMA CompiledSays ==
  ASSUME functions \subseteq Addresses, NEW a \in Addresses, NEW S,
         NEW calls, calls = Compiled(a, a \in S)
  PROVE  CompiledWell(calls, a, S)
<1> SUFFICES
       /\ (\E i \in DOMAIN calls : calls[i].call = "hook") <=> a \in S
       /\ a \in S /\ (a \in rules \/ <<a, a \in Rets>> \in interests) =>
            \E i \in DOMAIN calls : calls[i].call = "hook" /\ calls[i].callback
       /\ a \in Rets /\ Owner(a) # 0 =>
            \E i \in DOMAIN calls :
              /\ calls[i].call = "return" /\ calls[i].fn = Owner(a)
              /\ <<Owner(a), TRUE>> \in interests => calls[i].callback
       /\ "exec" \in engine.enabled /\ Wants(a, "exec") =>
            \E i \in DOMAIN calls : calls[i].call = "exec"
  BY DEF CompiledWell
<1> DEFINE hooked == a \in S
<1>0. hooked \in BOOLEAN /\ calls = Compiled(a, hooked)
  OBVIOUS
<1> HIDE DEF hooked
<1> DEFINE H == HookCalls(a, hooked)
           R == ReturnCalls(a)
           C == CaptureCalls(a)
<1>1. /\ H \in Seq(CallRecs) /\ (\A i \in DOMAIN H : H[i].call = "hook")
      /\ hooked => 1 \in DOMAIN H
      /\ ~hooked => DOMAIN H = {}
      /\ a \in rules \/ <<a, a \in Rets>> \in interests => \A i \in DOMAIN H : H[i].callback
  <2> DEFINE x == [call |-> "hook", fn |-> IF a \notin Rets /\ a \in functions THEN a ELSE 0,
                   callback |-> a \in rules \/ <<a, a \in Rets>> \in interests, guarded |-> TRUE]
  <2>1. H = IF ~hooked THEN <<>> ELSE <<x>>
    BY <1>0 DEF HookCalls
  <2>2. /\ x \in CallRecs /\ x.call = "hook"
        /\ x.callback = (a \in rules \/ <<a, a \in Rets>> \in interests)
    BY DEF CallRecs
  <2> HIDE DEF H, x
  <2>3. CASE ~hooked
    BY <2>1, <2>3, EmptySeq
  <2>4. CASE hooked
    <3>1. H = <<x>> /\ H \in Seq(CallRecs) /\ DOMAIN H = {1} /\ H[1] = x
      BY <2>1, <2>2, <2>4
    <3> QED
      BY <2>2, <2>4, <3>1
  <2> QED
    BY <2>3, <2>4
<1>2. /\ R \in Seq(CallRecs) /\ (\A i \in DOMAIN R : R[i].call = "return")
      /\ a \in Rets /\ Owner(a) # 0 =>
           /\ 1 \in DOMAIN R /\ R[1].fn = Owner(a)
           /\ <<Owner(a), TRUE>> \in interests => R[1].callback
  <2> DEFINE owner == IF a \in Rets THEN Owner(a) ELSE 0
             decides == <<owner, TRUE>> \in interests
             x == [call |-> "return", fn |-> owner, callback |-> decides,
                   guarded |-> decides \/ owner \notin signatures]
  <2>1. R = IF owner = 0 THEN <<>> ELSE <<x>>
    BY DEF ReturnCalls
  <2>2. owner \in Addresses \cup {0} /\ (a \in Rets => owner = Owner(a))
    BY OwnerKnown
  <2> HIDE DEF owner
  <2>3. x \in CallRecs /\ x.call = "return" /\ x.fn = owner /\ x.callback = (<<owner, TRUE>> \in interests)
    BY <2>2 DEF CallRecs
  <2> HIDE DEF R, x
  <2>4. CASE owner = 0
    BY <2>1, <2>2, <2>4, EmptySeq
  <2>5. CASE owner # 0
    <3>1. R = <<x>> /\ R \in Seq(CallRecs) /\ DOMAIN R = {1} /\ R[1] = x
      BY <2>1, <2>3, <2>5
    <3> QED
      BY <2>2, <2>3, <3>1
  <2> QED
    BY <2>4, <2>5
<1>3. /\ C \in Seq(CallRecs) /\ (\A i \in DOMAIN C : C[i].call = "exec")
      /\ "exec" \in engine.enabled /\ Wants(a, "exec") => 1 \in DOMAIN C
  <2> DEFINE x == [call |-> "exec", fn |-> 0, callback |-> FALSE, guarded |-> FALSE]
             P == "exec" \in engine.enabled /\ Wants(a, "exec")
  <2>1. C = IF P THEN <<x>> ELSE <<>>
    BY DEF CaptureCalls
  <2>2. x \in CallRecs /\ x.call = "exec"
    BY DEF CallRecs
  <2> HIDE DEF C, x, P
  <2>3. CASE ~P
    BY <2>1, <2>3, EmptySeq DEF P
  <2>4. CASE P
    <3>1. C = <<x>> /\ C \in Seq(CallRecs) /\ DOMAIN C = {1} /\ C[1] = x
      BY <2>1, <2>2, <2>4
    <3> QED
      BY <2>2, <3>1
  <2> QED
    BY <2>3, <2>4
<1>4. calls = (H \o R) \o C
  BY <1>0 DEF Compiled
<1> HIDE DEF H, R, C
<1>5. /\ \A i \in DOMAIN H : \E k \in DOMAIN calls : calls[k] = H[i]
      /\ \A i \in DOMAIN R : \E k \in DOMAIN calls : calls[k] = R[i]
      /\ \A i \in DOMAIN C : \E k \in DOMAIN calls : calls[k] = C[i]
      /\ \A k \in DOMAIN calls : \/ \E i \in DOMAIN H : calls[k] = H[i]
                                 \/ \E i \in DOMAIN R : calls[k] = R[i]
                                 \/ \E i \in DOMAIN C : calls[k] = C[i]
  <2> DEFINE Q == (H \o R) \o C
  <2>1. H \in Seq(CallRecs) /\ R \in Seq(CallRecs) /\ C \in Seq(CallRecs)
    BY <1>1, <1>2, <1>3
  <2>2. /\ \A i \in DOMAIN H : \E k \in DOMAIN Q : Q[k] = H[i]
        /\ \A i \in DOMAIN R : \E k \in DOMAIN Q : Q[k] = R[i]
        /\ \A i \in DOMAIN C : \E k \in DOMAIN Q : Q[k] = C[i]
        /\ \A k \in DOMAIN Q : \/ \E i \in DOMAIN H : Q[k] = H[i]
                               \/ \E i \in DOMAIN R : Q[k] = R[i]
                               \/ \E i \in DOMAIN C : Q[k] = C[i]
    BY <2>1, ThreeParts, ZenonT(60)
  <2>3. calls = Q
    BY <1>4
  <2> HIDE DEF Q
  <2> QED
    BY <2>2, <2>3, SMT
<1>6. (\E i \in DOMAIN calls : calls[i].call = "hook") <=> hooked
  <2>1. CASE hooked
    <3>1. PICK k \in DOMAIN calls : calls[k] = H[1]
      BY <1>1, <1>5, <2>1
    <3> QED
      BY <1>1, <2>1, <3>1
  <2>2. CASE ~hooked
    <3>1. \A k \in DOMAIN calls : \/ \E i \in DOMAIN R : calls[k] = R[i]
                                 \/ \E i \in DOMAIN C : calls[k] = C[i]
      BY <1>1, <1>5, <2>2
    <3>2. \A k \in DOMAIN calls : calls[k].call \in {"return", "exec"}
      BY <1>2, <1>3, <3>1
    <3> QED
      BY <2>2, <3>2
  <2> QED
    BY <2>1, <2>2
<1>7. ASSUME hooked, a \in rules \/ <<a, a \in Rets>> \in interests
      PROVE  \E i \in DOMAIN calls : calls[i].call = "hook" /\ calls[i].callback
  <2>1. PICK k \in DOMAIN calls : calls[k] = H[1]
    BY <1>1, <1>5, <1>7
  <2> QED
    BY <1>1, <1>7, <2>1
<1>8. ASSUME a \in Rets, Owner(a) # 0
      PROVE  \E i \in DOMAIN calls :
                /\ calls[i].call = "return" /\ calls[i].fn = Owner(a)
                /\ <<Owner(a), TRUE>> \in interests => calls[i].callback
  <2>1. PICK k \in DOMAIN calls : calls[k] = R[1]
    BY <1>2, <1>5, <1>8
  <2> QED
    BY <1>2, <1>8, <2>1
<1>9. ASSUME "exec" \in engine.enabled, Wants(a, "exec")
      PROVE  \E i \in DOMAIN calls : calls[i].call = "exec"
  BY <1>3, <1>5, <1>9
<1> QED
  BY <1>6, <1>7, <1>8, <1>9 DEF hooked

-----------------------------------------------------------------------------
(* The steps.                                                              *)

\* Steps that leave the sets: code stays as it is or goes.
LEMMA Follows ==
  ASSUME CodeFollows, UNCHANGED <<hooks, functions, rules, interests>>,
         \A a \in Addresses :
           code'[a] # None => code'[a] = code[a] /\ (Doomed(a) => Doomed(a)'),
         \A i : Refreshing(i) => Refreshing(i)'
  PROVE  CodeFollows'
<1> SUFFICES ASSUME NEW a \in Addresses, code'[a] # None, ~Doomed(a)'
             PROVE  HookSeen(a)' /\ CallbackSeen(a)' /\ ReturnSeen(a)'
  BY DEF CodeFollows
<1>1. code'[a] = code[a] /\ HookSeen(a) /\ CallbackSeen(a) /\ ReturnSeen(a)
  BY DEF CodeFollows
<1>2. Owner(a)' = Owner(a)
  BY DEF Owner
<1>3. HookSeen(a)'
  BY <1>1 DEF HookSeen, Has
<1>4. CallbackSeen(a)'
  <2>1. Refreshing(<<a, a \in Rets>>) => Refreshing(<<a, a \in Rets>>)'
    OBVIOUS
  <2> QED
    BY <1>1, <2>1 DEF CallbackSeen
<1>5. ReturnSeen(a)'
  <2>1. Refreshing(<<Owner(a), TRUE>>) => Refreshing(<<Owner(a), TRUE>>)'
    BY <1>2 DEF Refreshing
  <2>2. ASSUME a \in Rets, Owner(a) # 0, a <= Owner(a) + Window
        PROVE  \E i \in DOMAIN code'[a] :
                 /\ code'[a][i].call = "return" /\ code'[a][i].fn = Owner(a)
                 /\ <<Owner(a), TRUE>> \in interests' => code'[a][i].callback \/ Refreshing(<<Owner(a), TRUE>>)'
    BY <1>1, <2>1, <2>2 DEF ReturnSeen
  <2> QED
    BY <1>2, <2>2 DEF ReturnSeen
<1> QED
  BY <1>3, <1>4, <1>5

LEMMA SnapshotsFollow ==
  ASSUME SnapshotsCurrent, UNCHANGED hooks, cell'.contents = cell.contents, cell'.cur = cell.cur,
         \A t \in Threads : thread'[t].pc = "jit" =>
           /\ thread[t].pc = "jit" /\ thread'[t].at = thread[t].at /\ thread'[t].snap = thread[t].snap
           /\ Doomed(thread[t].at) => Doomed(thread[t].at)'
  PROVE  SnapshotsCurrent'
<1>1. cell'.contents[cell'.cur] = hooks'
  BY DEF SnapshotsCurrent
<1>2. ASSUME NEW t \in Threads, thread'[t].pc = "jit", thread'[t].snap # 0
      PROVE  /\ thread'[t].snap \in 1..Len(cell'.contents)
             /\ \/ thread'[t].at \in hooks' <=> thread'[t].at \in cell'.contents[thread'[t].snap]
                \/ Doomed(thread[t].at)'
  BY <1>2 DEF SnapshotsCurrent
<1> QED
  BY <1>1, <1>2 DEF SnapshotsCurrent

\* One writer's step: what the others throw away stays.
LEMMA OthersFlush ==
  ASSUME NEW w \in Writers, \A v \in Writers : v # w => writer'[v] = writer[v],
         \/ UNCHANGED <<hooks, functions>>
         \/ \A v \in Writers : v # w => ~Inside(writer[v])
  PROVE  \A v \in Writers : v # w =>
           FlushOf(writer'[v], hooks', functions') = FlushOf(writer[v], hooks, functions)
<1> SUFFICES ASSUME NEW v \in Writers, v # w
             PROVE  FlushOf(writer'[v], hooks', functions') = FlushOf(writer[v], hooks, functions)
  OBVIOUS
<1>1. CASE UNCHANGED <<hooks, functions>>
  BY <1>1
<1>2. CASE ~Inside(writer[v])
  BY <1>2 DEF FlushOf, Inside
<1> QED
  BY <1>1, <1>2

LEMMA DoomKept ==
  ASSUME NEW w \in Writers, NEW a,
         \A v \in Writers : v # w =>
           FlushOf(writer'[v], hooks', functions') = FlushOf(writer[v], hooks, functions),
         a \in FlushOf(writer[w], hooks, functions) => a \in FlushOf(writer'[w], hooks', functions')
  PROVE  Doomed(a) => Doomed(a)'
BY DEF Doomed

LEMMA RefreshKept ==
  ASSUME NEW w \in Writers, \A v \in Writers : v # w => writer'[v] = writer[v],
         writer[w].pc # "refresh"
  PROVE  \A i : Refreshing(i) => Refreshing(i)'
BY DEF Refreshing

\* A writer goes on, and what it is going to throw away does not become less.
LEMMA WriterFollows ==
  ASSUME HooksInv, CurrentInv, NEW w \in Writers,
         \A v \in Writers : v # w => writer'[v] = writer[v],
         UNCHANGED <<hooks, functions, rules, interests, lock, code>>,
         writer[w].pc # "refresh",
         FlushOf(writer[w], hooks, functions) \subseteq FlushOf(writer'[w], hooks, functions),
         Inside(writer[w]) <=> Inside(writer'[w]),
         Inside(writer[w]) => Edits(writer'[w], hooks, functions),
         cell'.contents = cell.contents, cell'.cur = cell.cur, UNCHANGED thread
  PROVE  CurrentInv'
<1>1. \A v \in Writers : v # w =>
        FlushOf(writer'[v], hooks', functions') = FlushOf(writer[v], hooks, functions)
  BY OthersFlush
<1>2. \A a : Doomed(a) => Doomed(a)'
  BY <1>1, DoomKept
<1>3. \A i : Refreshing(i) => Refreshing(i)'
  BY RefreshKept
<1>4. CodeFollows'
  BY <1>2, <1>3, Follows DEF CurrentInv
<1>5. SnapshotsCurrent'
  <2>1. SnapshotsCurrent
    BY DEF CurrentInv
  <2> QED
    BY <1>2, <2>1, SnapshotsFollow
<1>6. Locked'
  BY DEF CurrentInv, Locked
<1> QED
  BY <1>4, <1>5, <1>6 DEF CurrentInv

\* What the steps do to the writer's own record.
LEMMA WriterSet ==
  ASSUME HooksInv, NEW w \in Writers, NEW x, writer' = [writer EXCEPT ![w] = x]
  PROVE  writer'[w] = x /\ \A v \in Writers : v # w => writer'[v] = writer[v]
BY DEF HooksInv, WritersOK

\* A hook that is added or removed is in the code thrown away.
LEMMA DeltaFlushed ==
  ASSUME NEW x, NEW H, NEW F, NEW a \in Addresses, Inside(x), Edits(x, H, F),
         x.seen = H \ x.flush, ~(a \in x.flush <=> a \in H)
  PROVE  a \in FlushOf(x, H, F)
<1>1. a <= a /\ a <= a + Window
  BY AddressFacts, HooksAssumption
<1>2. \A S : a \in S => a \in WindowOf(S)
  BY <1>1 DEF WindowOf
<1>3. FlushOf(x, H, F) = FlushSet(x.op, x.arg, x.flush, x.seen, Gone(x, F), Fresh(x, H, F))
  BY DEF FlushOf, Inside
<1>4. CASE x.op \in {"set", "set_batch", "set_plain_batch"}
  <2>1. a \in x.seen
    BY <1>4 DEF Edits
  <2>2. a \in WindowOf(x.seen \cup Fresh(x, H, F))
    BY <1>2, <2>1
  <2> QED
    BY <1>3, <1>4, <2>1, <2>2 DEF FlushSet
<1>5. CASE x.op = "remove"
  <2>1. a \in x.flush /\ a \in x.arg
    BY <1>5 DEF Edits
  <2>2. a \in WindowOf(x.arg)
    BY <1>2, <2>1
  <2> QED
    BY <1>3, <1>5, <2>1, <2>2 DEF FlushSet
<1>6. CASE x.op = "clear"
  <2>1. a \in x.flush
    BY <1>6 DEF Edits
  <2>2. a \in WindowOf(x.flush)
    BY <1>2, <2>1
  <2> QED
    BY <1>3, <1>6, <2>1, <2>2 DEF FlushSet
<1> QED
  BY <1>4, <1>5, <1>6 DEF Edits, HookOps

\* The hook set changes under the lock: the difference is doomed at once.
LEMMA EditHooksFollows ==
  ASSUME HooksInv, CurrentInv, NEW w \in Writers, EditHooks(w)
  PROVE  CurrentInv'
<1>1. /\ UNCHANGED <<functions, rules, interests, code, thread>>
      /\ lock = None /\ writer[w].pc = "idle"
  BY DEF EditHooks, Begins
<1>2. PICK o \in workload.ops :
        /\ o.op \in HookOps
        /\ LET new == Edited(o.op, o.arg)
           IN  IF new = hooks /\ o.op = "set" THEN UNCHANGED <<hooks, cell, lock, writer>>
               ELSE /\ hooks' = new /\ lock' = w
                    /\ cell' = IF new = hooks THEN cell
                               ELSE [cell EXCEPT !.contents = Append(@, new),
                                                 !.cur = Len(cell.contents) + 1]
                    /\ writer' = [writer EXCEPT ![w] =
                         [pc |-> "reclaim", op |-> o.op, arg |-> o.arg, flush |-> hooks,
                          old |-> IF new = hooks THEN 0 ELSE cell.cur, seen |-> new \ hooks]]
  BY DEF EditHooks
<1> DEFINE new == Edited(o.op, o.arg)
           x == [pc |-> "reclaim", op |-> o.op, arg |-> o.arg, flush |-> hooks,
                 old |-> IF new = hooks THEN 0 ELSE cell.cur, seen |-> new \ hooks]
<1>3. CASE UNCHANGED <<hooks, cell, lock, writer>>
  BY <1>1, <1>3, WriterFollows DEF CurrentInv, Locked, Inside
<1>4. CASE ~UNCHANGED <<hooks, cell, lock, writer>>
  <2>1. /\ hooks' = new /\ lock' = w /\ writer' = [writer EXCEPT ![w] = x]
        /\ cell' = IF new = hooks THEN cell
                   ELSE [cell EXCEPT !.contents = Append(@, new), !.cur = Len(cell.contents) + 1]
    BY <1>2, <1>4
  <2>2. /\ o.arg \subseteq Addresses /\ functions \subseteq hooks /\ o.op \in HookOps
    BY <1>1, <1>2 DEF HooksInv, SetsOK, CurrentInv, Locked
  <2>3. /\ o.op \in {"set", "set_batch", "set_plain_batch"} => new = hooks \cup (new \ hooks)
        /\ o.op = "remove" => new = hooks \ o.arg
        /\ o.op = "clear" => new = {}
    BY <2>2 DEF Edited
  <2> HIDE DEF new
  <2>4. /\ x.pc = "reclaim" /\ x.op = o.op /\ x.arg = o.arg /\ x.flush = hooks /\ x.seen = new \ hooks
    OBVIOUS
  <2> HIDE DEF x
  <2>5. writer'[w] = x /\ \A v \in Writers : v # w => writer'[v] = writer[v]
    BY <2>1, WriterSet
  <2>6. Inside(x) /\ Edits(x, new, functions)
    BY <2>2, <2>3, <2>4 DEF Inside, Edits
  <2>7. \A v \in Writers : ~Inside(writer[v])
    BY <1>1, HooksAssumption DEF CurrentInv, Locked
  <2>8. Locked'
    BY <1>1, <2>1, <2>5, <2>6, <2>7, HooksAssumption DEF Locked
  <2>9. FlushOf(writer[w], hooks, functions) = {}
    BY <1>1 DEF FlushOf
  <2>10. \A a : Doomed(a) => Doomed(a)'
    <3>1. \A v \in Writers : v # w =>
            FlushOf(writer'[v], hooks', functions') = FlushOf(writer[v], hooks, functions)
      BY <2>5, <2>7, OthersFlush
    <3> QED
      BY <2>9, <3>1, DoomKept
  <2>11. \A i : Refreshing(i) => Refreshing(i)'
    BY <1>1, <2>5, RefreshKept
  <2>12. \A a \in Addresses : ~(a \in hooks <=> a \in hooks') => Doomed(a)'
    <3> SUFFICES ASSUME NEW a \in Addresses, ~(a \in hooks <=> a \in hooks')
                 PROVE  Doomed(a)'
      OBVIOUS
    <3>1. a \in FlushOf(x, new, functions)
      BY <2>1, <2>4, <2>6, DeltaFlushed
    <3> QED
      BY <1>1, <2>1, <2>5, <3>1 DEF Doomed
  <2>13. /\ cell'.contents[cell'.cur] = new
         /\ Len(cell.contents) \in Nat /\ Len(cell.contents) <= Len(cell'.contents)
         /\ Len(cell'.contents) \in Nat
         /\ \A n \in 1..Len(cell.contents) : cell'.contents[n] = cell.contents[n]
    <3>1. cell.contents \in Seq(SUBSET Addresses) /\ Len(cell.contents) \in Nat
      BY LenProperties DEF HooksInv, CellOK
    <3>2. CASE new = hooks
      BY <2>1, <3>1, <3>2 DEF CurrentInv, SnapshotsCurrent
    <3>3. CASE new # hooks
      <4> DEFINE D == Append(cell.contents, new)
      <4>1. new \in SUBSET Addresses
        BY <2>2, <2>3 DEF HooksInv, SetsOK, HookOps, new, Edited, Incoming
      <4>2. /\ Len(D) = Len(cell.contents) + 1
            /\ \A n \in 1..Len(cell.contents) : D[n] = cell.contents[n]
            /\ D[Len(cell.contents) + 1] = new
        BY <3>1, <4>1, AppendProperties
      <4> HIDE DEF D
      <4>3. cell'.contents = D /\ cell'.cur = Len(cell.contents) + 1
        BY <2>1, <3>3 DEF HooksInv, CellOK, D
      <4> QED
        BY <3>1, <4>2, <4>3
    <3> QED
      BY <3>2, <3>3
  <2>14. SnapshotsCurrent'
    <3> SUFFICES ASSUME NEW t \in Threads, thread'[t].pc = "jit", thread'[t].snap # 0
                 PROVE  /\ thread'[t].snap \in 1..Len(cell'.contents)
                        /\ \/ thread'[t].at \in hooks' <=> thread'[t].at \in cell'.contents[thread'[t].snap]
                           \/ Doomed(thread[t].at)'
      BY <2>1, <2>13 DEF SnapshotsCurrent
    <3>1. thread'[t] = thread[t] /\ thread[t].at \in Addresses
      BY <1>1 DEF HooksInv, ThreadsOK, ThreadOK
    <3>2. /\ thread[t].snap \in 1..Len(cell.contents)
          /\ \/ thread[t].at \in hooks <=> thread[t].at \in cell.contents[thread[t].snap]
             \/ Doomed(thread[t].at)
      BY <3>1 DEF CurrentInv, SnapshotsCurrent
    <3>3. Doomed(thread[t].at) \/ ~(thread[t].at \in hooks <=> thread[t].at \in hooks')
            => Doomed(thread[t].at)'
      <4> DEFINE b == thread[t].at
      <4>1. b' = b
        BY <3>1
      <4>2. Doomed(b) \/ ~(b \in hooks <=> b \in hooks') => \E v \in Writers : b \in FlushOf(writer'[v], hooks', functions')
        BY <2>10, <2>12, <3>1 DEF Doomed
      <4> QED
        BY <4>1, <4>2 DEF Doomed
    <3>4. thread[t].snap \in 1..Len(cell'.contents)
      BY <2>13, <3>2
    <3>5. cell'.contents[thread[t].snap] = cell.contents[thread[t].snap]
      BY <2>13, <3>2
    <3> QED
      BY <3>1, <3>2, <3>3, <3>4, <3>5
  <2>15. CodeFollows'
    <3> SUFFICES ASSUME NEW a \in Addresses, code'[a] # None, ~Doomed(a)'
                 PROVE  HookSeen(a)' /\ CallbackSeen(a)' /\ ReturnSeen(a)'
      BY DEF CodeFollows
    <3>1. /\ code'[a] = code[a] /\ (a \in hooks <=> a \in hooks')
          /\ HookSeen(a) /\ CallbackSeen(a) /\ ReturnSeen(a)
      BY <1>1, <2>10, <2>12 DEF CurrentInv, CodeFollows
    <3>2. Owner(a)' = Owner(a)
      BY <1>1 DEF Owner
    <3>3. HookSeen(a)'
      BY <3>1 DEF HookSeen, Has
    <3>4. CallbackSeen(a)'
      <4>1. Refreshing(<<a, a \in Rets>>) => Refreshing(<<a, a \in Rets>>)'
        BY <2>11
      <4> QED
        BY <1>1, <3>1, <4>1 DEF CallbackSeen
    <3>5. ReturnSeen(a)'
      <4>1. Refreshing(<<Owner(a), TRUE>>) => Refreshing(<<Owner(a), TRUE>>)'
        BY <2>11, <3>2 DEF Refreshing
      <4>2. ASSUME a \in Rets, Owner(a) # 0, a <= Owner(a) + Window
            PROVE  \E i \in DOMAIN code'[a] :
                     /\ code'[a][i].call = "return" /\ code'[a][i].fn = Owner(a)
                     /\ <<Owner(a), TRUE>> \in interests' => code'[a][i].callback \/ Refreshing(<<Owner(a), TRUE>>)'
        BY <1>1, <3>1, <4>1, <4>2 DEF ReturnSeen
      <4> QED
        BY <3>2, <4>2 DEF ReturnSeen
    <3> QED
      BY <3>3, <3>4, <3>5
  <2> QED
    BY <2>8, <2>14, <2>15 DEF CurrentInv
<1> QED
  BY <1>3, <1>4

\* Reclaiming leaves what is published and what is to be thrown away.
LEMMA ReclaimFollows ==
  ASSUME HooksInv, CurrentInv, NEW w \in Writers, Reclaim(w) \/ FreeRetired(w)
  PROVE  CurrentInv'
<1>1. /\ UNCHANGED <<hooks, functions, rules, interests, lock, code, thread>>
      /\ writer[w].pc \in {"reclaim", "free"}
      /\ \E p \in {"free", "functions"} : writer' = [writer EXCEPT ![w].pc = p]
  BY DEF Reclaim, FreeRetired, Moves, sets
<1>2. cell'.contents = cell.contents /\ cell'.cur = cell.cur
  BY DEF Reclaim, FreeRetired, HooksInv, CellOK
<1>3. PICK p \in {"free", "functions"} : writer' = [writer EXCEPT ![w].pc = p]
  BY <1>1
<1> DEFINE x == [writer[w] EXCEPT !.pc = p]
<1>4. writer'[w] = x /\ \A v \in Writers : v # w => writer'[v] = writer[v]
  <2>1. writer' = [writer EXCEPT ![w] = x]
    BY <1>3
  <2> QED
    BY <2>1, WriterSet
<1>5. /\ x.pc = p /\ x.op = writer[w].op /\ x.arg = writer[w].arg
      /\ x.flush = writer[w].flush /\ x.seen = writer[w].seen
  BY DEF HooksInv, WritersOK
<1> HIDE DEF x
<1>6. FlushOf(x, hooks, functions) = FlushOf(writer[w], hooks, functions)
  BY <1>1, <1>5 DEF FlushOf, Gone, Fresh
<1>7. Inside(x) /\ Inside(writer[w])
  BY <1>1, <1>5 DEF Inside
<1>8. Edits(x, hooks, functions)
  <2>1. Edits(writer[w], hooks, functions)
    BY <1>7 DEF CurrentInv, Locked
  <2> QED
    BY <1>5, <2>1 DEF Edits
<1>9. writer[w].pc # "refresh"
  BY <1>1
<1> QED
  BY <1>1, <1>2, <1>4, <1>6, <1>7, <1>8, <1>9, WriterFollows

\* The function set changes: the owner of a return changes only in code that
\* the same writer throws away.
LEMMA EditFunctionsFollows ==
  ASSUME HooksInv, HooksInv', CurrentInv, NEW w \in Writers, EditFunctions(w)
  PROVE  CurrentInv'
<1> DEFINE x == writer[w]
           G == Gone(x, functions)
           N == Fresh(x, hooks, functions)
           f == FlushSet(x.op, x.arg, x.flush, x.seen, G, N)
           p == IF x.op \in {"remove", "clear"} THEN "unsign" ELSE "flush"
           y == [x EXCEPT !.flush = f, !.pc = p]
<1>1. /\ UNCHANGED <<hooks, rules, interests, cell, code>>
      /\ x.pc = "functions" /\ lock' = None
  BY DEF EditFunctions
<1>2. /\ functions' = (functions \cup N) \ G
      /\ thread' = Unlogged(G)
      /\ writer' = [writer EXCEPT ![w].flush = f, ![w].pc = p]
  BY DEF EditFunctions, Gone, Fresh
<1>3. writer' = [writer EXCEPT ![w] = y]
  BY <1>2
<1>4. writer'[w] = y /\ \A v \in Writers : v # w => writer'[v] = writer[v]
  BY <1>3, WriterSet
<1>5. y.pc = p /\ y.flush = f
  BY DEF HooksInv, WritersOK
<1>6. Inside(x) /\ lock = w /\ Edits(x, hooks, functions)
  <2>1. Inside(x)
    BY <1>1 DEF Inside
  <2> QED
    BY <2>1 DEF CurrentInv, Locked
<1>7. \A v \in Writers : v # w => ~Inside(writer[v])
  BY <1>6 DEF CurrentInv, Locked
<1>8. ~Inside(y) /\ FlushOf(y, hooks', functions') = FlushOf(x, hooks, functions)
  <2>1. FlushOf(x, hooks, functions) = f
    BY <1>6 DEF FlushOf, Inside
  <2>2. p \in {"unsign", "flush"}
    OBVIOUS
  <2> HIDE DEF f, p, y, x
  <2> QED
    BY <1>5, <2>1, <2>2 DEF FlushOf, Inside
<1>9. functions' \subseteq hooks'
  <2>1. N \subseteq hooks
    BY DEF Fresh, Incoming
  <2>2. x.op \in {"set", "set_batch", "set_plain_batch"} => functions \subseteq hooks
    BY <1>6 DEF Edits
  <2>3. x.op = "remove" => N = {} /\ G = functions \cap x.arg /\ functions \subseteq x.flush /\ hooks = x.flush \ x.arg
    BY <1>6 DEF Edits, Gone, Fresh
  <2>4. x.op = "clear" => N = {} /\ G = functions
    BY DEF Gone, Fresh
  <2>5. x.op \in HookOps
    BY <1>6 DEF Edits
  <2> HIDE DEF N, G, x
  <2> QED
    BY <1>1, <1>2, <2>1, <2>2, <2>3, <2>4, <2>5 DEF HookOps
<1> HIDE DEF y, f, p
<1>10. Locked'
  <2>1. \A v \in Writers : ~Inside(writer'[v])
    BY <1>4, <1>7, <1>8
  <2> QED
    BY <1>1, <1>9, <2>1 DEF Locked
<1>11. \A a : Doomed(a) => Doomed(a)'
  <2>1. \A v \in Writers : v # w =>
          FlushOf(writer'[v], hooks', functions') = FlushOf(writer[v], hooks, functions)
    BY <1>4, <1>7, OthersFlush
  <2> QED
    BY <1>4, <1>8, <2>1, DoomKept
<1>12. \A i : Refreshing(i) => Refreshing(i)'
  BY <1>1, <1>4, RefreshKept
<1>13. SnapshotsCurrent'
  <2>1. \A t \in Threads : /\ thread'[t].pc = thread[t].pc /\ thread'[t].at = thread[t].at
                           /\ thread'[t].snap = thread[t].snap
    BY <1>2 DEF Unlogged, HooksInv, ThreadsOK, ThreadOK, ThreadRecs
  <2>2. \A t \in Threads : Doomed(thread[t].at) => Doomed(thread[t].at)'
    <3> SUFFICES ASSUME NEW t \in Threads, Doomed(thread[t].at)
                 PROVE  Doomed(thread[t].at)'
      OBVIOUS
    <3>1. \E v \in Writers : thread[t].at \in FlushOf(writer'[v], hooks', functions')
      BY <1>11 DEF Doomed
    <3> QED
      BY <2>1, <3>1 DEF Doomed
  <2>3. SnapshotsCurrent
    BY DEF CurrentInv
  <2> QED
    BY <1>1, <2>1, <2>2, <2>3, SnapshotsFollow
<1>14. CodeFollows'
  <2> SUFFICES ASSUME NEW a \in Addresses, code'[a] # None, ~Doomed(a)'
               PROVE  HookSeen(a)' /\ CallbackSeen(a)' /\ ReturnSeen(a)'
    BY DEF CodeFollows
  <2>1. code'[a] = code[a] /\ HookSeen(a) /\ CallbackSeen(a) /\ ReturnSeen(a)
    BY <1>1, <1>11 DEF CurrentInv, CodeFollows
  <2>2. HookSeen(a)'
    BY <1>1, <2>1 DEF HookSeen, Has
  <2>3. CallbackSeen(a)'
    <3>1. Refreshing(<<a, a \in Rets>>) => Refreshing(<<a, a \in Rets>>)'
      BY <1>12
    <3> QED
      BY <1>1, <2>1, <3>1 DEF CallbackSeen
  <2>4. ReturnSeen(a)'
    <3> SUFFICES ASSUME a \in Rets, Owner(a)' # 0, a <= Owner(a)' + Window
                 PROVE  \E i \in DOMAIN code'[a] :
                          /\ code'[a][i].call = "return" /\ code'[a][i].fn = Owner(a)'
                          /\ <<Owner(a)', TRUE>> \in interests' => code'[a][i].callback \/ Refreshing(<<Owner(a), TRUE>>)'
      BY DEF ReturnSeen
    <3>1. a \notin FlushOf(x, hooks, functions)
      BY <1>4, <1>8 DEF Doomed
    <3>2. functions \subseteq Addresses /\ functions' \subseteq Addresses
      BY DEF HooksInv, SetsOK
    <3>3. x.op \in HookOps /\ x.arg \subseteq Addresses
      BY <1>6 DEF Edits
    <3>4. Owner(a)' = Owner(a)
      <4> HIDE DEF x
      <4> QED
        BY <1>2, <1>6, <3>1, <3>2, <3>3, OwnerShift
    <3>5. Refreshing(<<Owner(a), TRUE>>) => Refreshing(<<Owner(a), TRUE>>)'
      BY <1>12, <3>4 DEF Refreshing
    <3> QED
      BY <1>1, <2>1, <3>4, <3>5 DEF ReturnSeen
  <2> QED
    BY <2>2, <2>3, <2>4
<1> QED
  BY <1>10, <1>13, <1>14 DEF CurrentInv

\* Steps of a writer that publish nothing the code follows.
LEMMA PlainFollows ==
  ASSUME HooksInv, CurrentInv, NEW w \in Writers,
         \/ DropSignatures(w) \/ SetSignature(w)
         \/ SetPolicies(w) \/ StoreFlags(w) \/ PublishPolicy(w) \/ SetEngine(w)
  PROVE  CurrentInv'
<1>1. UNCHANGED <<hooks, functions, rules, interests, lock, code, cell, thread>>
  BY DEF DropSignatures, SetSignature, SetPolicies, StoreFlags, PublishPolicy, SetEngine, sets
<1>2. /\ \A v \in Writers : v # w => writer'[v] = writer[v]
      /\ \/ writer' = writer /\ writer[w].pc = "idle"
         \/ writer[w].pc = "unsign" /\ writer'[w].pc = "flush" /\ writer'[w].flush = writer[w].flush
         \/ writer[w].pc \in {"idle", "flags", "publish"}
              /\ writer'[w].pc \in {"flags", "publish", "policy_flush", "toggle"}
  <2>1. writer = [v \in Writers |-> writer[v]] /\ DOMAIN writer[w] = {"pc", "op", "arg", "flush", "old", "seen"}
    BY DEF HooksInv, WritersOK
  <2>2. CASE SetSignature(w)
    BY <2>2 DEF SetSignature, Begins
  <2>3. CASE DropSignatures(w)
    BY <2>1, <2>3 DEF DropSignatures, Moves
  <2>4. CASE StoreFlags(w) \/ PublishPolicy(w)
    BY <2>1, <2>4 DEF StoreFlags, PublishPolicy, Moves
  <2>5. CASE SetPolicies(w)
    <3>1. PICK r, s, u : writer' = [writer EXCEPT ![w].pc = "flags", ![w].arg = r, ![w].seen = s, ![w].flush = u]
      BY <2>5, Zenon DEF SetPolicies
    <3> QED
      BY <2>1, <2>5, <3>1 DEF SetPolicies, Begins
  <2>6. CASE SetEngine(w)
    <3>1. PICK e : writer' = [writer EXCEPT ![w].pc = "toggle", ![w].arg = e, ![w].old = engine.global,
                                ![w].seen = e.kind \in KindsOf(engine.policy)]
      BY <2>6, Zenon DEF SetEngine
    <3> QED
      BY <2>1, <2>6, <3>1 DEF SetEngine, Begins
  <2> QED
    BY <2>2, <2>3, <2>4, <2>5, <2>6
<1>3. /\ writer[w].pc # "refresh" /\ ~Inside(writer[w]) /\ ~Inside(writer'[w])
      /\ FlushOf(writer[w], hooks, functions) \subseteq FlushOf(writer'[w], hooks, functions)
  BY <1>2 DEF Inside, FlushOf
<1> QED
  BY <1>1, <1>2, <1>3, WriterFollows

\* Rules and interests: what is added is doomed, or about to be looked up.
LEMMA PublishedFollows ==
  ASSUME HooksInv, CurrentInv, NEW w \in Writers, writer[w].pc = "idle",
         \A v \in Writers : v # w => writer'[v] = writer[v],
         UNCHANGED <<hooks, functions, lock, code, cell, thread>>, ~Inside(writer'[w]),
         \A a \in Addresses : a \in rules' /\ a \notin rules => a \in FlushOf(writer'[w], hooks, functions),
         \A i \in interests' : i \in interests \/ (writer'[w].pc = "refresh" /\ i \in writer'[w].seen)
  PROVE  CurrentInv'
<1>1. FlushOf(writer[w], hooks, functions) = {} /\ ~Inside(writer[w]) /\ writer[w].pc # "refresh"
  BY DEF FlushOf, Inside
<1>2. \A a : Doomed(a) => Doomed(a)'
  <2>1. \A v \in Writers : v # w =>
          FlushOf(writer'[v], hooks', functions') = FlushOf(writer[v], hooks, functions)
    BY OthersFlush
  <2> QED
    BY <1>1, <2>1, DoomKept
<1>3. \A i : Refreshing(i) \/ (i \in interests' /\ i \notin interests) => Refreshing(i)'
  <2>1. \A i : Refreshing(i) => Refreshing(i)'
    BY <1>1, RefreshKept
  <2> QED
    BY <2>1 DEF Refreshing
<1>4. Locked'
  BY <1>1 DEF CurrentInv, Locked
<1>5. SnapshotsCurrent'
  <2>1. SnapshotsCurrent
    BY DEF CurrentInv
  <2> QED
    BY <1>2, <2>1, SnapshotsFollow
<1>6. CodeFollows'
  <2> SUFFICES ASSUME NEW a \in Addresses, code'[a] # None, ~Doomed(a)'
               PROVE  HookSeen(a)' /\ CallbackSeen(a)' /\ ReturnSeen(a)'
    BY DEF CodeFollows
  <2>1. code'[a] = code[a] /\ HookSeen(a) /\ CallbackSeen(a) /\ ReturnSeen(a)
    BY <1>2 DEF CurrentInv, CodeFollows
  <2>2. a \in rules' => a \in rules
    BY DEF Doomed
  <2>3. Owner(a)' = Owner(a)
    BY DEF Owner
  <2>4. HookSeen(a)'
    BY <2>1 DEF HookSeen, Has
  <2>5. CallbackSeen(a)'
    <3> DEFINE i == <<a, a \in Rets>>
    <3>1. Refreshing(i) \/ (i \in interests' /\ i \notin interests) => Refreshing(i)'
      BY <1>3
    <3> QED
      BY <2>1, <2>2, <3>1 DEF CallbackSeen
  <2>6. ReturnSeen(a)'
    <3> DEFINE i == <<Owner(a), TRUE>>
    <3>1. Refreshing(i) \/ (i \in interests' /\ i \notin interests) => \E v \in Writers : writer'[v].pc = "refresh" /\ i \in writer'[v].seen
      BY <1>3 DEF Refreshing
    <3>2. Refreshing(i) \/ (i \in interests' /\ i \notin interests) => Refreshing(i)'
      BY <2>3, <3>1 DEF Refreshing
    <3>3. ASSUME a \in Rets, Owner(a) # 0, a <= Owner(a) + Window
          PROVE  \E k \in DOMAIN code'[a] :
                   /\ code'[a][k].call = "return" /\ code'[a][k].fn = Owner(a)
                   /\ <<Owner(a), TRUE>> \in interests' => code'[a][k].callback \/ Refreshing(<<Owner(a), TRUE>>)'
      BY <2>1, <3>2, <3>3 DEF ReturnSeen
    <3> QED
      BY <2>3, <3>3 DEF ReturnSeen
  <2> QED
    BY <2>4, <2>5, <2>6
<1> QED
  BY <1>4, <1>5, <1>6 DEF CurrentInv

LEMMA RulesFollow ==
  ASSUME HooksInv, CurrentInv, NEW w \in Writers,
         SetRule(w) \/ ClearRules(w) \/ PublishInterests(w)
  PROVE  CurrentInv'
<1>1. /\ UNCHANGED <<hooks, functions, lock, code, cell, thread>>
      /\ writer[w].pc = "idle"
  BY DEF SetRule, ClearRules, PublishInterests, Begins
<1>2. writer = [v \in Writers |-> writer[v]] /\ DOMAIN writer[w] = {"pc", "op", "arg", "flush", "old", "seen"}
  BY DEF HooksInv, WritersOK
<1>3. CASE SetRule(w) \/ ClearRules(w)
  <2>1. PICK S : /\ writer' = [writer EXCEPT ![w].pc = "flush", ![w].flush = S]
                 /\ rules' \ rules \subseteq S /\ interests' = interests
    BY <1>3 DEF SetRule, ClearRules
  <2>2. /\ \A v \in Writers : v # w => writer'[v] = writer[v]
        /\ writer'[w].pc = "flush" /\ writer'[w].flush = S
    BY <1>2, <2>1
  <2>3. FlushOf(writer'[w], hooks, functions) = S /\ ~Inside(writer'[w])
    BY <2>2 DEF FlushOf, Inside
  <2>4. \A a \in Addresses : a \in rules' /\ a \notin rules => a \in FlushOf(writer'[w], hooks, functions)
    BY <2>1, <2>3
  <2> QED
    BY <1>1, <2>1, <2>2, <2>3, <2>4, PublishedFollows
<1>4. CASE PublishInterests(w)
  <2>1. /\ writer' = [writer EXCEPT ![w].pc = "refresh", ![w].seen = interests' \ interests]
        /\ rules' = rules
    BY <1>4 DEF PublishInterests
  <2>2. /\ \A v \in Writers : v # w => writer'[v] = writer[v]
        /\ writer'[w].pc = "refresh" /\ writer'[w].seen = interests' \ interests
    BY <1>2, <2>1
  <2>3. ~Inside(writer'[w])
    BY <2>2 DEF Inside
  <2> QED
    BY <1>1, <2>1, <2>2, <2>3, PublishedFollows
<1> QED
  BY <1>3, <1>4

\* A function that is logged and not hooked is being removed, and its code is
\* doomed.
LEMMA UnhookedDoomed ==
  ASSUME HooksInv, CurrentInv, NEW a \in Addresses, NEW f \in functions, f \notin hooks,
         f <= a, a <= f + Window
  PROVE  Doomed(a)
<1>1. lock \in Writers /\ Inside(writer[lock]) /\ Edits(writer[lock], hooks, functions)
  BY DEF CurrentInv, Locked
<1> DEFINE x == writer[lock]
<1>2. f \in x.flush /\ x.op \in {"remove", "clear"}
  BY <1>1 DEF Edits, HookOps
<1>3. FlushOf(x, hooks, functions) = FlushSet(x.op, x.arg, x.flush, x.seen, Gone(x, functions), Fresh(x, hooks, functions))
  BY <1>1 DEF FlushOf, Inside
<1>4. \A S : f \in S => a \in WindowOf(S)
  BY DEF WindowOf
<1>5. CASE x.op = "remove"
  <2>1. f \in x.arg
    BY <1>1, <1>2, <1>5 DEF Edits
  <2>2. Gone(x, functions) # {}
    BY <1>5, <2>1 DEF Gone
  <2>3. FlushOf(x, hooks, functions) = WindowOf(x.arg)
    BY <1>3, <1>5, <2>2 DEF FlushSet
  <2> QED
    BY <1>1, <1>4, <2>1, <2>3 DEF Doomed
<1>6. CASE x.op = "clear"
  <2>1. FlushOf(x, hooks, functions) = WindowOf(x.flush)
    BY <1>3, <1>6 DEF FlushSet
  <2> QED
    BY <1>1, <1>2, <1>4, <2>1 DEF Doomed
<1> QED
  BY <1>2, <1>5, <1>6

\* The writer that published an interest looks which code it touches.
LEMMA RefreshFollows ==
  ASSUME HooksInv, CurrentInv, NEW w \in Writers, RefreshCallbacks(w)
  PROVE  CurrentInv'
<1> DEFINE seen == writer[w].seen
           points == {i \in seen : i[1] \in hooks}
           wide == {i \in points : i[2] /\ i[1] \in functions}
           S == WindowOf({i[1] : i \in wide}) \cup {i[1] : i \in points \ wide}
<1>1. /\ UNCHANGED <<hooks, functions, rules, interests, lock, code, cell, thread>>
      /\ writer[w].pc = "refresh"
      /\ writer' = [writer EXCEPT ![w].pc = "flush", ![w].flush = S]
  BY DEF RefreshCallbacks, sets
<1>2. writer = [v \in Writers |-> writer[v]] /\ DOMAIN writer[w] = {"pc", "op", "arg", "flush", "old", "seen"}
  BY DEF HooksInv, WritersOK
<1>3. \A a \in Addresses : \A b \in BOOLEAN : <<a, b>> \in seen /\ a \in hooks => a \in S
  <2> SUFFICES ASSUME NEW a \in Addresses, NEW b \in BOOLEAN, <<a, b>> \in seen, a \in hooks
               PROVE  a \in S
    OBVIOUS
  <2> DEFINE i == <<a, b>>
  <2>1. i \in points /\ i[1] = a
    OBVIOUS
  <2>2. a \in WindowOf({a})
    BY AddressFacts, HooksAssumption DEF WindowOf
  <2>3. CASE i \in wide
    <3>1. a \in {k[1] : k \in wide}
      BY <2>1, <2>3
    <3>2. a \in WindowOf({k[1] : k \in wide})
      BY <2>2, <3>1 DEF WindowOf
    <3> QED
      BY <3>2
  <2>4. CASE i \notin wide
    BY <2>1, <2>4
  <2> QED
    BY <2>3, <2>4
<1>4. \A a \in Addresses : \A f \in functions :
        <<f, TRUE>> \in seen /\ f \in hooks /\ f <= a /\ a <= f + Window => a \in S
  <2> SUFFICES ASSUME NEW a \in Addresses, NEW f \in functions, <<f, TRUE>> \in seen, f \in hooks,
                      f <= a, a <= f + Window
               PROVE  a \in S
    OBVIOUS
  <2>1. <<f, TRUE>> \in wide /\ <<f, TRUE>>[1] = f
    OBVIOUS
  <2>2. f \in {k[1] : k \in wide}
    BY <2>1
  <2> QED
    BY <2>2 DEF WindowOf
<1> HIDE DEF S, wide, points
<1>5. /\ \A v \in Writers : v # w => writer'[v] = writer[v]
      /\ writer'[w].pc = "flush" /\ writer'[w].flush = S
  BY <1>1, <1>2
<1>6. /\ FlushOf(writer'[w], hooks, functions) = S /\ ~Inside(writer'[w]) /\ ~Inside(writer[w])
      /\ FlushOf(writer[w], hooks, functions) = {}
  BY <1>1, <1>5 DEF FlushOf, Inside
<1>7. \A a : Doomed(a) \/ a \in S => Doomed(a)'
  <2>1. \A v \in Writers : v # w =>
          FlushOf(writer'[v], hooks', functions') = FlushOf(writer[v], hooks, functions)
    BY <1>1, <1>5, OthersFlush
  <2>2. \A a : Doomed(a) => Doomed(a)'
    BY <1>6, <2>1, DoomKept
  <2>3. \A a : a \in S => Doomed(a)'
    BY <1>1, <1>6 DEF Doomed
  <2> QED
    BY <2>2, <2>3
<1>8. \A i : Refreshing(i) /\ i \notin seen => Refreshing(i)'
  BY <1>5 DEF Refreshing
<1>9. Locked'
  BY <1>1, <1>5, <1>6 DEF CurrentInv, Locked
<1>10. SnapshotsCurrent'
  <2>1. SnapshotsCurrent
    BY DEF CurrentInv
  <2> QED
    BY <1>1, <1>7, <2>1, SnapshotsFollow
<1>11. CodeFollows'
  <2> SUFFICES ASSUME NEW a \in Addresses, code'[a] # None, ~Doomed(a)'
               PROVE  HookSeen(a)' /\ CallbackSeen(a)' /\ ReturnSeen(a)'
    BY DEF CodeFollows
  <2>1. /\ code'[a] = code[a] /\ HookSeen(a) /\ CallbackSeen(a) /\ ReturnSeen(a)
        /\ ~Doomed(a) /\ a \notin S
    BY <1>1, <1>7 DEF CurrentInv, CodeFollows
  <2>2. HookSeen(a)'
    BY <1>1, <2>1 DEF HookSeen, Has
  <2>3. CallbackSeen(a)'
    <3> DEFINE i == <<a, a \in Rets>>
    <3>1. a \in hooks => i \notin seen
      <4>1. a \in hooks => <<a, TRUE>> \notin seen /\ <<a, FALSE>> \notin seen
        BY <1>3, <2>1
      <4>2. i = <<a, TRUE>> \/ i = <<a, FALSE>>
        <5>1. (a \in Rets) = TRUE \/ (a \in Rets) = FALSE
          OBVIOUS
        <5> QED
          BY <5>1, Zenon
      <4> QED
        BY <4>1, <4>2
    <3>2. a \in hooks /\ Refreshing(i) => Refreshing(i)'
      BY <1>8, <3>1
    <3> QED
      BY <1>1, <2>1, <3>2 DEF CallbackSeen
  <2>4. ReturnSeen(a)'
    <3> SUFFICES ASSUME a \in Rets, Owner(a) # 0, a <= Owner(a) + Window
                 PROVE  \E i \in DOMAIN code'[a] :
                          /\ code'[a][i].call = "return" /\ code'[a][i].fn = Owner(a)
                          /\ <<Owner(a), TRUE>> \in interests' => code'[a][i].callback \/ Refreshing(<<Owner(a), TRUE>>)'
      <4>1. Owner(a)' = Owner(a)
        BY <1>1 DEF Owner
      <4> QED
        BY <4>1 DEF ReturnSeen
    <3> DEFINE f == Owner(a)
    <3>1. f \in functions /\ f <= a
      <4>1. functions \subseteq Addresses /\ functions' \subseteq Addresses
        BY <1>1 DEF HooksInv, SetsOK
      <4>2. f = Nearest(functions, a)
        BY <4>1, OwnerNearest
      <4> QED
        BY <4>1, <4>2, NearestIs
    <3>2. f \in hooks
      BY <2>1, <3>1, UnhookedDoomed
    <3>3. <<f, TRUE>> \notin seen
      BY <1>4, <2>1, <3>1, <3>2
    <3>4. Refreshing(<<f, TRUE>>) => \E v \in Writers : writer'[v].pc = "refresh" /\ <<f, TRUE>> \in writer'[v].seen
      BY <1>8, <3>3 DEF Refreshing
    <3>5. Owner(a)' = f
      BY <1>1 DEF Owner
    <3>6. Refreshing(<<Owner(a), TRUE>>) => Refreshing(<<Owner(a), TRUE>>)'
      BY <3>4, <3>5 DEF Refreshing
    <3> QED
      BY <1>1, <2>1, <3>6 DEF ReturnSeen
  <2> QED
    BY <2>2, <2>3, <2>4
<1> QED
  BY <1>9, <1>10, <1>11 DEF CurrentInv

\* Code is thrown away while nobody compiles.
LEMMA FlushFollows ==
  ASSUME HooksInv, CurrentInv, NEW w \in Writers, Flush(w) \/ PolicyFlush(w) \/ EngineFlush(w)
  PROVE  CurrentInv'
<1>1. /\ UNCHANGED <<hooks, functions, rules, interests, lock, cell, thread>>
      /\ \A t \in Threads : thread[t].pc # "jit"
      /\ writer' = [writer EXCEPT ![w] = IdleWriter]
      /\ writer[w].pc \in {"flush", "policy_flush", "toggle"}
  BY DEF Flush, PolicyFlush, EngineFlush, sets
<1>2. writer'[w] = IdleWriter /\ \A v \in Writers : v # w => writer'[v] = writer[v]
  BY <1>1, WriterSet
<1>3. /\ ~Inside(writer[w]) /\ ~Inside(writer'[w]) /\ writer[w].pc # "refresh"
      /\ FlushOf(writer[w], hooks, functions) = IF writer[w].pc = "flush" THEN writer[w].flush ELSE {}
  BY <1>1, <1>2 DEF Inside, FlushOf, IdleWriter
<1>4. \A a \in Addresses : code'[a] # None =>
        code'[a] = code[a] /\ a \notin FlushOf(writer[w], hooks, functions)
  <2>1. CASE Flush(w)
    BY <1>3, <2>1 DEF Flush
  <2>2. CASE PolicyFlush(w)
    BY <1>3, <2>2 DEF PolicyFlush
  <2>3. CASE EngineFlush(w)
    BY <1>3, <2>3 DEF EngineFlush
  <2> QED
    BY <2>1, <2>2, <2>3
<1>5. \A a \in Addresses : code'[a] # None => (Doomed(a) => Doomed(a)')
  <2>1. \A v \in Writers : v # w =>
          FlushOf(writer'[v], hooks', functions') = FlushOf(writer[v], hooks, functions)
    BY <1>1, <1>2, OthersFlush
  <2> QED
    BY <1>4, <2>1, DoomKept
<1>6. \A i : Refreshing(i) => Refreshing(i)'
  BY <1>2, <1>3, RefreshKept
<1>7. CodeFollows'
  BY <1>1, <1>4, <1>5, <1>6, Follows DEF CurrentInv
<1>8. SnapshotsCurrent'
  <2>1. SnapshotsCurrent
    BY DEF CurrentInv
  <2> QED
    BY <1>1, <2>1, SnapshotsFollow
<1>9. Locked'
  BY <1>1, <1>2, <1>3 DEF CurrentInv, Locked
<1> QED
  BY <1>7, <1>8, <1>9 DEF CurrentInv

LEMMA OutsideFollows ==
  ASSUME HooksInv, CurrentInv, NEW t \in Threads, Outside(t)
  PROVE  CurrentInv'
<1>1. UNCHANGED <<hooks, functions, rules, interests, lock, writer, cell, code>>
  BY DEF Outside, sets
<1>2. \A a : Doomed(a) => Doomed(a)'
  BY <1>1 DEF Doomed
<1>3. \A i : Refreshing(i) => Refreshing(i)'
  BY <1>1 DEF Refreshing
<1>4. CodeFollows'
  BY <1>1, <1>2, <1>3, Follows DEF CurrentInv
<1>5. SnapshotsCurrent'
  <2>1. \A u \in Threads : thread'[u].pc = "jit" => thread'[u] = thread[u]
    BY DEF Outside
  <2>2. \A u \in Threads : thread'[u].pc = "jit" => (Doomed(thread[u].at) => Doomed(thread[u].at)')
    BY <1>1, <2>1 DEF Doomed
  <2>3. SnapshotsCurrent
    BY DEF CurrentInv
  <2> QED
    BY <1>1, <2>1, <2>2, <2>3, SnapshotsFollow
<1>6. Locked'
  BY <1>1 DEF CurrentInv, Locked
<1> QED
  BY <1>4, <1>5, <1>6 DEF CurrentInv

\* The compiler has loaded nothing, or the current snapshot.
LEMMA CompilerFollows ==
  ASSUME HooksInv, CurrentInv, NEW t \in Threads,
         UNCHANGED <<hooks, functions, rules, interests, lock, writer, code>>,
         cell'.contents = cell.contents, cell'.cur = cell.cur,
         thread'[t].snap \in {0, cell.cur},
         \A u \in Threads : u # t => thread'[u] = thread[u]
  PROVE  CurrentInv'
<1>1. \A a : Doomed(a) => Doomed(a)'
  BY DEF Doomed
<1>2. \A i : Refreshing(i) => Refreshing(i)'
  BY DEF Refreshing
<1>3. CodeFollows'
  BY <1>1, <1>2, Follows DEF CurrentInv
<1>4. SnapshotsCurrent'
  <2>1. cell'.contents[cell'.cur] = hooks'
    BY DEF CurrentInv, SnapshotsCurrent
  <2>2. cell.cur \in 1..Len(cell.contents)
    BY DEF HooksInv, CellOK
  <2>3. ASSUME NEW u \in Threads, thread'[u].pc = "jit", thread'[u].snap # 0
        PROVE  /\ thread'[u].snap \in 1..Len(cell'.contents)
               /\ \/ thread'[u].at \in hooks' <=> thread'[u].at \in cell'.contents[thread'[u].snap]
                  \/ Doomed(thread[u].at)' /\ thread'[u] = thread[u]
    <3>1. CASE u = t
      <4>1. thread'[u].snap = cell.cur
        BY <2>3, <3>1
      <4> QED
        BY <2>1, <2>2, <4>1
    <3>2. CASE u # t
      <4>1. thread'[u] = thread[u]
        BY <3>2
      <4>2. Doomed(thread[u].at) => Doomed(thread[u].at)'
        BY <4>1 DEF Doomed
      <4> QED
        BY <2>3, <4>1, <4>2 DEF CurrentInv, SnapshotsCurrent
    <3> QED
      BY <3>1, <3>2
  <2> QED
    BY <2>1, <2>3 DEF SnapshotsCurrent
<1>5. Locked'
  BY DEF CurrentInv, Locked
<1> QED
  BY <1>3, <1>4, <1>5 DEF CurrentInv

\* The compiler announces itself ...
LEMMA JitBeginFollows ==
  ASSUME HooksInv, CurrentInv, NEW t \in Threads, JitBegin(t)
  PROVE  CurrentInv'
<1> DEFINE r == [thread[t] EXCEPT !.pc = "jit", !.snap = 0]
<1>1. /\ UNCHANGED <<hooks, functions, rules, interests, lock, writer, code>>
      /\ cell' = [cell EXCEPT !.readers = @ \cup {t}] /\ Sets(t, r)
  BY DEF JitBegin, OnlyThread, sets
<1>2. cell'.contents = cell.contents /\ cell'.cur = cell.cur
  BY <1>1 DEF HooksInv, CellOK
<1>3. /\ thread'[t] = r /\ r.snap = 0
      /\ \A u \in Threads : u # t => thread'[u] = thread[u]
  BY <1>1 DEF Sets, HooksInv, ThreadsOK, ThreadOK, ThreadRecs
<1> HIDE DEF r
<1> QED
  BY <1>1, <1>2, <1>3, CompilerFollows

\* ... takes the current snapshot ...
LEMMA LoadSnapshotFollows ==
  ASSUME HooksInv, CurrentInv, NEW t \in Threads, LoadSnapshot(t)
  PROVE  CurrentInv'
<1> DEFINE r == [thread[t] EXCEPT !.snap = cell.cur]
<1>1. /\ UNCHANGED <<hooks, functions, rules, interests, lock, writer, code, cell>>
      /\ Sets(t, r)
  BY DEF LoadSnapshot, OnlyThread, sets
<1>2. /\ thread'[t] = r /\ r.snap = cell.cur
      /\ \A u \in Threads : u # t => thread'[u] = thread[u]
  BY <1>1 DEF Sets, HooksInv, ThreadsOK, ThreadOK, ThreadRecs
<1> HIDE DEF r
<1> QED
  BY <1>1, <1>2, CompilerFollows

\* ... and what it inserts follows the sets, or is doomed with the snapshot.
LEMMA JitEndFollows ==
  ASSUME HooksInv, CurrentInv, NEW t \in Threads, JitEnd(t)
  PROVE  CurrentInv'
<1> DEFINE b == thread[t].at
           hooked == b \in cell.contents[thread[t].snap]
           r == [thread[t] EXCEPT !.pc = "fetch", !.snap = 0]
           calls == Compiled(b, hooked)
<1>1. /\ UNCHANGED <<hooks, functions, rules, interests, lock, writer>>
      /\ cell' = [cell EXCEPT !.readers = @ \ {t}] /\ Sets(t, r)
      /\ code' = [code EXCEPT ![b] = calls] /\ thread[t].pc = "jit" /\ thread[t].snap # 0
  BY DEF JitEnd, OnlyThread, sets
<1>2. cell'.contents = cell.contents /\ cell'.cur = cell.cur
  BY <1>1 DEF HooksInv, CellOK
<1>3. /\ thread'[t] = r /\ r.pc = "fetch"
      /\ \A u \in Threads : u # t => thread'[u] = thread[u]
  BY <1>1 DEF Sets, HooksInv, ThreadsOK, ThreadOK, ThreadRecs
<1>4. b \in Addresses /\ functions \subseteq Addresses /\ hooked \in BOOLEAN
  BY <1>1 DEF HooksInv, ThreadsOK, ThreadOK, SetsOK
<1>5. code'[b] = calls /\ \A a \in Addresses : a # b => code'[a] = code[a]
  BY <1>1, <1>4 DEF HooksInv, CodeOK
<1>6. (b \in hooks <=> hooked) \/ Doomed(b)
  BY <1>1 DEF CurrentInv, SnapshotsCurrent
<1>7. /\ (\E i \in DOMAIN calls : calls[i].call = "hook") <=> hooked
      /\ hooked /\ (b \in rules \/ <<b, b \in Rets>> \in interests) =>
           \E i \in DOMAIN calls : calls[i].call = "hook" /\ calls[i].callback
      /\ b \in Rets /\ Owner(b) # 0 =>
           \E i \in DOMAIN calls :
             /\ calls[i].call = "return" /\ calls[i].fn = Owner(b)
             /\ <<Owner(b), TRUE>> \in interests => calls[i].callback
  <2> DEFINE S == cell.contents[thread[t].snap]
  <2>1. calls = Compiled(b, b \in S)
    OBVIOUS
  <2> HIDE DEF b, S, calls
  <2>2. CompiledWell(calls, b, S)
    BY <1>4, <2>1, CompiledSays
  <2> QED
    BY <2>2 DEF S, CompiledWell
<1> HIDE DEF r, calls, hooked
<1>8. \A a : Doomed(a) => Doomed(a)'
  BY <1>1 DEF Doomed
<1>9. \A i : Refreshing(i) => Refreshing(i)'
  BY <1>1 DEF Refreshing
<1>10. SnapshotsCurrent'
  <2>1. \A u \in Threads : thread'[u].pc = "jit" => thread'[u] = thread[u]
    BY <1>3
  <2>2. \A u \in Threads : thread'[u].pc = "jit" => (Doomed(thread[u].at) => Doomed(thread[u].at)')
    BY <1>1, <2>1 DEF Doomed
  <2>3. SnapshotsCurrent
    BY DEF CurrentInv
  <2> QED
    BY <1>1, <1>2, <2>1, <2>2, <2>3, SnapshotsFollow
<1>11. Locked'
  BY <1>1 DEF CurrentInv, Locked
<1>12. CodeFollows'
  <2> SUFFICES ASSUME NEW a \in Addresses, code'[a] # None, ~Doomed(a)'
               PROVE  HookSeen(a)' /\ CallbackSeen(a)' /\ ReturnSeen(a)'
    BY DEF CodeFollows
  <2>1. Owner(a)' = Owner(a)
    BY <1>1 DEF Owner
  <2>2. ~Doomed(a)
    BY <1>8
  <2>3. CASE a # b
    <3>1. code'[a] = code[a] /\ HookSeen(a) /\ CallbackSeen(a) /\ ReturnSeen(a)
      BY <1>5, <2>2, <2>3 DEF CurrentInv, CodeFollows
    <3>2. HookSeen(a)'
      BY <1>1, <3>1 DEF HookSeen, Has
    <3>3. CallbackSeen(a)'
      <4>1. Refreshing(<<a, a \in Rets>>) => Refreshing(<<a, a \in Rets>>)'
        BY <1>9
      <4> QED
        BY <1>1, <3>1, <4>1 DEF CallbackSeen
    <3>4. ReturnSeen(a)'
      <4>1. Refreshing(<<Owner(a), TRUE>>) => Refreshing(<<Owner(a), TRUE>>)'
        BY <1>9, <2>1 DEF Refreshing
      <4>2. ASSUME a \in Rets, Owner(a) # 0, a <= Owner(a) + Window
            PROVE  \E i \in DOMAIN code'[a] :
                     /\ code'[a][i].call = "return" /\ code'[a][i].fn = Owner(a)
                     /\ <<Owner(a), TRUE>> \in interests' => code'[a][i].callback \/ Refreshing(<<Owner(a), TRUE>>)'
        BY <1>1, <3>1, <4>1, <4>2 DEF ReturnSeen
      <4> QED
        BY <2>1, <4>2 DEF ReturnSeen
    <3> QED
      BY <3>2, <3>3, <3>4
  <2>4. CASE a = b
    <3> HIDE DEF b
    <3>1. code'[a] = calls /\ (a \in hooks <=> hooked)
      BY <1>5, <1>6, <2>2, <2>4
    <3>2. HookSeen(a)'
      BY <1>1, <1>7, <3>1 DEF HookSeen, Has
    <3>3. CallbackSeen(a)'
      BY <1>1, <1>7, <2>4, <3>1 DEF CallbackSeen
    <3>4. ReturnSeen(a)'
      BY <1>1, <1>7, <2>1, <2>4, <3>1 DEF ReturnSeen
    <3> QED
      BY <3>2, <3>3, <3>4
  <2> QED
    BY <2>3, <2>4
<1> QED
  BY <1>10, <1>11, <1>12 DEF CurrentInv

LEMMA CurrentInit == Init => CurrentInv
<1> SUFFICES ASSUME Init PROVE CurrentInv
  OBVIOUS
<1>1. Locked
  BY DEF Init, Locked, Inside, IdleWriter
<1>2. SnapshotsCurrent
  <2>1. <<{}>>[1] = {}
    OBVIOUS
  <2>2. \A t \in Threads : thread[t].pc = "run"
    BY NewThreadOK DEF Init
  <2> QED
    BY <2>1, <2>2 DEF Init, SnapshotsCurrent
<1>3. CodeFollows
  BY DEF Init, CodeFollows
<1> QED
  BY <1>1, <1>2, <1>3 DEF CurrentInv

LEMMA CurrentNext == HooksInv /\ HooksInv' /\ CurrentInv /\ [Next]_vars => CurrentInv'
<1> SUFFICES ASSUME HooksInv, HooksInv', CurrentInv, [Next]_vars PROVE CurrentInv'
  OBVIOUS
<1>1. CASE \E w \in Writers : WriterStep(w)
  BY <1>1, EditHooksFollows, ReclaimFollows, EditFunctionsFollows, PlainFollows, RulesFollow,
     RefreshFollows, FlushFollows DEF WriterStep
<1>2. CASE \E t \in Threads : ThreadStep(t)
  BY <1>2, JitBeginFollows, LoadSnapshotFollows, JitEndFollows, OutsideStep, OutsideFollows
<1>3. CASE EmitRoutineSnapshot \/ UNCHANGED vars
  <2>1. UNCHANGED <<hooks, functions, rules, interests, lock, writer, cell, code, thread>>
    BY <1>3 DEF EmitRoutineSnapshot, vars, sets
  <2>2. Locked'
    BY <2>1 DEF CurrentInv, Locked
  <2>3. \A a : Doomed(a) => Doomed(a)'
    BY <2>1 DEF Doomed
  <2>4. \A i : Refreshing(i) => Refreshing(i)'
    BY <2>1 DEF Refreshing
  <2>5. CodeFollows'
    BY <2>1, <2>3, <2>4, Follows DEF CurrentInv
  <2>6. SnapshotsCurrent'
    <3>1. SnapshotsCurrent
      BY DEF CurrentInv
    <3> QED
      BY <2>1, <2>3, <3>1, SnapshotsFollow
  <2> QED
    BY <2>2, <2>5, <2>6 DEF CurrentInv
<1> QED
  BY <1>1, <1>2, <1>3 DEF Next

\* When nobody is between a change and its flush, the code cache does what the
\* published sets say, for any number of writers and threads and for any layout
\* of functions and routines: a compilation that was under way when a set
\* changed ends before the flush that follows the change (hooks.rs:526-757).
THEOREM CodeFollowsSets == Spec => []CodeCurrent
<1>1. CurrentInv => CodeCurrent
  <2> SUFFICES ASSUME CurrentInv, Quiet, NEW a \in Addresses, code[a] # None
               PROVE  /\ Has(a, "hook") <=> a \in hooks
                      /\ a \in hooks /\ (a \in rules \/ <<a, a \in Rets>> \in interests)
                           => \E i \in DOMAIN code[a] : code[a][i].call = "hook" /\ code[a][i].callback
                      /\ a \in Rets /\ Owner(a) # 0 /\ a <= Owner(a) + Window
                           => \E i \in DOMAIN code[a] :
                                /\ code[a][i].call = "return" /\ code[a][i].fn = Owner(a)
                                /\ <<Owner(a), TRUE>> \in interests => code[a][i].callback
    BY DEF CodeCurrent
  <2>1. \A w \in Writers : writer[w].pc = "idle"
    BY DEF Quiet
  <2>2. ~Doomed(a)
    BY <2>1 DEF Doomed, FlushOf
  <2>3. \A i : ~Refreshing(i)
    BY <2>1 DEF Refreshing
  <2>4. HookSeen(a) /\ CallbackSeen(a) /\ ReturnSeen(a)
    BY <2>2 DEF CurrentInv, CodeFollows
  <2> QED
    BY <2>3, <2>4 DEF HookSeen, CallbackSeen, ReturnSeen
<1> QED
  BY <1>1, HooksAlways, CurrentInit, CurrentNext, PTL DEF Spec

-----------------------------------------------------------------------------
(* The engines.                                                            *)

\* Requests for an engine name a kind with a flag.
EngineOps ==
  \A o \in workload.ops : o.op = "engine" => o.arg.kind \in Kinds /\ o.arg.on \in BOOLEAN

EngineFields ==
  DOMAIN engine = {"global", "enabled", "policy", "generation", "current", "snapshot",
                   "raced", "failed"}

\* Between the global mask and the flags, or between the flags and the policy.
Engaged(x) == x.pc \in {"flags", "publish", "toggle"}

OneEngaged ==
  \A v, w \in Writers : Engaged(writer[v]) /\ Engaged(writer[w]) => v = w

\* The mask a request leaves, and whether it differs from the one before.
Toggled(x) == IF x.arg.on THEN x.old \cup {x.arg.kind} ELSE x.old \ {x.arg.kind}

Changes(x) == (x.arg.kind \in x.old) # x.arg.on

\* The flags that a mask and policies ask for.
Flags(global, rows) == (global \cup KindsOf(rows)) \cap Kinds

\* How far a writer inside the engines has come.
Stands(x, e) ==
  /\ x.pc = "flags" => x.seen = e.global \cup KindsOf(x.arg)
  /\ x.pc = "publish" => e.enabled = Flags(e.global, x.arg)
  /\ x.pc = "toggle" =>
       /\ x.arg.kind \in Kinds /\ x.arg.on \in BOOLEAN /\ e.global = Toggled(x)
       /\ x.seen = (x.arg.kind \in KindsOf(e.policy))
       /\ e.enabled = Flags(x.old, e.policy)

\* With nobody between flags and policy, the flags are what is asked for.
FlagsSettled ==
  (\A w \in Writers : writer[w].pc \notin {"publish", "toggle"})
    => engine.enabled = Flags(engine.global, engine.policy)

\* The ranges of a policy on its way are thrown away after it is published.
RangesCovered ==
  \A w \in Writers : writer[w].pc \in {"flags", "publish"} =>
    \A r \in writer[w].arg : r.range \subseteq writer[w].flush

\* A writer inside the engines is going to throw the code at a away.
Recaptured(x, a) ==
  \/ x.pc \in {"publish", "policy_flush"} /\ a \in x.flush
  \/ x.pc = "toggle" /\ Changes(x)

\* The code at a must capture its execution; a policy about to be replaced does
\* not count.
Due(a) ==
  \/ "exec" \in engine.global
  \/ /\ \A w \in Writers : writer[w].pc # "publish"
     /\ Wants(a, "exec")

CodeCaptures ==
  \A a \in Addresses : code[a] # None /\ Due(a) =>
    Has(a, "exec") \/ \E w \in Writers : Recaptured(writer[w], a)

\* A routine replay is owed for the policy in force, or will be asked for again.
SnapshotOwed ==
  ~engine.failed =>
    engine.snapshot \in {0, engine.current} \/ \E w \in Writers : writer[w].pc = "policy_flush"

\* As long as no two were inside the engines at once.
Orderly ==
  OneEngaged /\ (\A w \in Writers : Stands(writer[w], engine)) /\ FlagsSettled

EngineInv ==
  /\ EngineOps /\ EngineFields /\ RangesCovered /\ SnapshotOwed
  /\ ~engine.raced => Orderly
  /\ ~engine.raced /\ ~engine.failed => CodeCaptures

\* A writer that is not inside the engines and has no flush of theirs to do.
Away(x) == x.pc \notin {"flags", "publish", "policy_flush", "toggle"}

\* Due and the flushes to come, when engines and the writers inside them stay.
LEMMA SameDue ==
  ASSUME UNCHANGED engine, NEW a,
         \A v \in Writers : writer'[v] = writer[v] \/ (Away(writer[v]) /\ Away(writer'[v]))
  PROVE  /\ Due(a)' <=> Due(a)
         /\ \A v \in Writers : Recaptured(writer'[v], a) <=> Recaptured(writer[v], a)
<1>1. \A v \in Writers : writer'[v].pc = "publish" <=> writer[v].pc = "publish"
  BY DEF Away
<1>2. Wants(a, "exec")' <=> Wants(a, "exec")
  BY DEF Wants
<1>3. Due(a)' <=> Due(a)
  BY <1>1, <1>2 DEF Due
<1>4. ASSUME NEW v \in Writers PROVE Recaptured(writer'[v], a) <=> Recaptured(writer[v], a)
  <2>1. CASE writer'[v] = writer[v]
    BY <2>1
  <2>2. CASE Away(writer[v]) /\ Away(writer'[v])
    BY <2>2 DEF Away, Recaptured
  <2> QED
    BY <1>4, <2>1, <2>2
<1> QED
  BY <1>3, <1>4

\* Steps outside the engines.
LEMMA ElsewhereSettles ==
  ASSUME EngineInv, UNCHANGED engine, workload'.ops = workload.ops,
         \A v \in Writers : writer'[v] = writer[v] \/ (Away(writer[v]) /\ Away(writer'[v])),
         \A a \in Addresses : code'[a] # None =>
           \/ code'[a] = code[a]
           \/ ~engine.raced /\ ~engine.failed /\ Due(a) =>
                Has(a, "exec")' \/ \E w \in Writers : Recaptured(writer[w], a)
  PROVE  EngineInv'
<1>1. EngineOps' /\ EngineFields'
  BY DEF EngineInv, EngineOps, EngineFields
<1>2. RangesCovered'
  <2> SUFFICES ASSUME NEW w \in Writers, writer'[w].pc \in {"flags", "publish"}
               PROVE  \A r \in writer'[w].arg : r.range \subseteq writer'[w].flush
    BY DEF RangesCovered
  <2>1. writer'[w] = writer[w]
    BY DEF Away
  <2> QED
    BY <2>1 DEF EngineInv, RangesCovered
<1>3. SnapshotOwed'
  <2>1. \A v \in Writers : writer[v].pc = "policy_flush" => writer'[v].pc = "policy_flush"
    BY DEF Away
  <2> QED
    BY <2>1 DEF EngineInv, SnapshotOwed
<1>4. ASSUME ~engine.raced PROVE Orderly'
  <2>1. OneEngaged /\ (\A w \in Writers : Stands(writer[w], engine)) /\ FlagsSettled
    BY <1>4 DEF EngineInv, Orderly
  <2>2. \A v \in Writers : Engaged(writer'[v]) => writer'[v] = writer[v]
    BY DEF Engaged, Away
  <2>3. OneEngaged'
    BY <2>1, <2>2 DEF OneEngaged
  <2>4. \A w \in Writers : Stands(writer'[w], engine')
    <3> SUFFICES ASSUME NEW w \in Writers PROVE Stands(writer'[w], engine)
      OBVIOUS
    <3>1. CASE Away(writer'[w])
      BY <3>1 DEF Stands, Away
    <3> QED
      BY <2>1, <3>1
  <2>5. FlagsSettled'
    <3>1. \A v \in Writers : writer'[v].pc \in {"publish", "toggle"} <=> writer[v].pc \in {"publish", "toggle"}
      BY DEF Away
    <3> QED
      BY <2>1, <3>1 DEF FlagsSettled
  <2> QED
    BY <2>3, <2>4, <2>5 DEF Orderly
<1>5. ASSUME ~engine.raced, ~engine.failed PROVE CodeCaptures'
  <2> SUFFICES ASSUME NEW a \in Addresses, code'[a] # None, Due(a)'
               PROVE  Has(a, "exec")' \/ \E w \in Writers : Recaptured(writer'[w], a)
    BY DEF CodeCaptures
  <2>1. Due(a) /\ \A v \in Writers : Recaptured(writer'[v], a) <=> Recaptured(writer[v], a)
    BY SameDue
  <2>2. CASE code'[a] = code[a]
    <3>1. Has(a, "exec") \/ \E w \in Writers : Recaptured(writer[w], a)
      BY <1>5, <2>1, <2>2 DEF EngineInv, CodeCaptures
    <3>2. Has(a, "exec") => Has(a, "exec")'
      BY <2>2 DEF Has
    <3> QED
      BY <2>1, <3>1, <3>2
  <2> QED
    BY <1>5, <2>1, <2>2
<1> QED
  BY <1>1, <1>2, <1>3, <1>4, <1>5 DEF EngineInv

\* The writers' steps that concern hooks, rules and interests.
LEMMA HookWritersSettle ==
  ASSUME HooksInv, EngineInv, NEW w \in Writers,
         \/ EditHooks(w) \/ Reclaim(w) \/ FreeRetired(w) \/ EditFunctions(w)
         \/ DropSignatures(w) \/ Flush(w)
         \/ SetSignature(w) \/ SetRule(w) \/ ClearRules(w) \/ PublishInterests(w) \/ RefreshCallbacks(w)
  PROVE  EngineInv'
<1> DEFINE Own(x) == writer' = [writer EXCEPT ![w] = x]
<1>1. /\ UNCHANGED engine
      /\ workload' = workload \/ workload' = [workload EXCEPT !.edits = @ - 1]
  BY DEF EditHooks, Reclaim, FreeRetired, EditFunctions, DropSignatures, Flush, SetSignature, SetRule, ClearRules,
         PublishInterests, RefreshCallbacks, Begins
<1>2. workload'.ops = workload.ops
  BY <1>1, WorkloadKept DEF HooksInv
<1>3. \A a \in Addresses : code'[a] # None => code'[a] = code[a]
  <2>1. CASE Flush(w)
    BY <2>1 DEF Flush
  <2> QED
    BY <2>1 DEF EditHooks, Reclaim, FreeRetired, EditFunctions, DropSignatures, SetSignature, SetRule, ClearRules,
         PublishInterests, RefreshCallbacks
<1>4. /\ writer = [v \in Writers |-> writer[v]]
      /\ DOMAIN writer[w] = {"pc", "op", "arg", "flush", "old", "seen"}
  BY DEF HooksInv, WritersOK
<1>5. /\ \A v \in Writers : v # w => writer'[v] = writer[v]
      /\ writer'[w] = writer[w] \/ (Away(writer[w]) /\ Away(writer'[w]))
  <2>1. CASE EditHooks(w)
    <3>1. writer[w].pc = "idle"
      BY <2>1 DEF EditHooks, Begins
    <3>2. writer' = writer \/ \E x : x.pc = "reclaim" /\ Own(x)
      BY <2>1, Zenon DEF EditHooks
    <3> QED
      BY <1>4, <3>1, <3>2 DEF Away
  <2>2. CASE Reclaim(w) \/ FreeRetired(w) \/ DropSignatures(w)
    <3>1. \E p \in {"free", "functions", "flush"} : writer' = [writer EXCEPT ![w].pc = p]
      BY <2>2 DEF Reclaim, FreeRetired, DropSignatures, Moves
    <3>2. writer[w].pc \in {"reclaim", "free", "unsign"}
      BY <2>2 DEF Reclaim, FreeRetired, DropSignatures
    <3> QED
      BY <1>4, <3>1, <3>2 DEF Away
  <2>3. CASE EditFunctions(w)
    <3>1. /\ writer[w].pc = "functions"
          /\ \E f, p : p \in {"unsign", "flush"} /\ writer' = [writer EXCEPT ![w].flush = f, ![w].pc = p]
      BY <2>3 DEF EditFunctions
    <3> QED
      BY <1>4, <3>1 DEF Away
  <2>4. CASE Flush(w)
    BY <1>4, <2>4 DEF Flush, IdleWriter, Away
  <2>5. CASE SetSignature(w)
    BY <2>5 DEF SetSignature
  <2>6. CASE SetRule(w) \/ ClearRules(w) \/ RefreshCallbacks(w)
    <3>1. writer[w].pc \in {"idle", "refresh"}
      BY <2>6 DEF SetRule, ClearRules, RefreshCallbacks, Begins
    <3>2. \E a : writer' = [writer EXCEPT ![w].pc = "flush", ![w].flush = a]
      BY <2>6 DEF SetRule, ClearRules, RefreshCallbacks
    <3> QED
      BY <1>4, <3>1, <3>2 DEF Away
  <2>7. CASE PublishInterests(w)
    <3>1. writer[w].pc = "idle"
      BY <2>7 DEF PublishInterests, Begins
    <3>2. \E a : writer' = [writer EXCEPT ![w].pc = "refresh", ![w].seen = a]
      BY <2>7 DEF PublishInterests
    <3> QED
      BY <1>4, <3>1, <3>2 DEF Away
  <2> QED
    BY <2>1, <2>2, <2>3, <2>4, <2>5, <2>6, <2>7
<1> QED
  BY <1>1, <1>2, <1>3, <1>5, ElsewhereSettles

\* A compilation captures what is due, or its code is going to be thrown away.
LEMMA CaptureCompiled ==
  ASSUME EngineInv, ~engine.raced, NEW a \in Addresses, Due(a),
         \A w \in Writers : ~Recaptured(writer[w], a)
  PROVE  "exec" \in engine.enabled /\ Wants(a, "exec")
<1>1. OneEngaged /\ (\A w \in Writers : Stands(writer[w], engine)) /\ FlagsSettled
  BY DEF EngineInv, Orderly
<1>2. Wants(a, "exec") /\ "exec" \in engine.global \cup KindsOf(engine.policy) /\ "exec" \in Kinds
  BY HooksAssumption DEF Due, Wants, KindsOf
<1>3. CASE \E w \in Writers : writer[w].pc = "publish"
  <2>1. PICK w \in Writers : writer[w].pc = "publish"
    BY <1>3
  <2>2. "exec" \in engine.global
    BY <2>1 DEF Due
  <2> QED
    BY <1>1, <1>2, <2>1, <2>2 DEF Stands, Flags
<1>4. CASE \E w \in Writers : writer[w].pc = "toggle"
  <2>1. PICK w \in Writers : writer[w].pc = "toggle"
    BY <1>4
  <2>2. engine.global = Toggled(writer[w]) /\ writer[w].arg.on \in BOOLEAN /\ ~Changes(writer[w])
        /\ engine.enabled = Flags(writer[w].old, engine.policy)
    BY <1>1, <2>1 DEF Stands, Recaptured
  <2>3. \A k \in engine.global : k \in writer[w].old
    BY <2>2 DEF Toggled, Changes
  <2> QED
    BY <1>2, <2>2, <2>3 DEF Flags
<1> QED
  BY <1>1, <1>2, <1>3, <1>4 DEF FlagsSettled, Flags

\* The application's threads.
LEMMA ThreadsSettle ==
  ASSUME HooksInv, EngineInv, NEW t \in Threads, ThreadStep(t)
  PROVE  EngineInv'
<1>1. CASE JitEnd(t)
  <2>0. PICK b \in Addresses : b = thread[t].at
    BY <1>1 DEF JitEnd, HooksInv, ThreadsOK, ThreadOK
  <2> DEFINE S == cell.contents[thread[t].snap]
             calls == Compiled(b, b \in S)
  <2>1. /\ UNCHANGED <<engine, writer, workload>>
        /\ code' = [code EXCEPT ![b] = calls]
    BY <1>1, <2>0 DEF JitEnd, OnlyThread
  <2>2. functions \subseteq Addresses
    BY DEF HooksInv, SetsOK
  <2>3. code'[b] = calls /\ \A a \in Addresses : a # b => code'[a] = code[a]
    BY <2>1, <2>2 DEF HooksInv, CodeOK
  <2>4. calls = Compiled(b, b \in S)
    OBVIOUS
  <2> HIDE DEF S, calls
  <2>5. CompiledWell(calls, b, S)
    BY <2>2, <2>4, CompiledSays
  <2>6. "exec" \in engine.enabled /\ Wants(b, "exec") => Has(b, "exec")'
    BY <2>3, <2>5 DEF CompiledWell, Has
  <2>7. ~engine.raced /\ Due(b) => Has(b, "exec")' \/ \E w \in Writers : Recaptured(writer[w], b)
    BY <2>2, <2>6, CaptureCompiled
  <2> QED
    BY <2>1, <2>3, <2>7, ElsewhereSettles
<1>2. CASE ~JitEnd(t)
  <2>1. UNCHANGED <<engine, writer, code>>
    <3>1. CASE JitBegin(t) \/ LoadSnapshot(t)
      BY <3>1 DEF JitBegin, LoadSnapshot, OnlyThread
    <3>2. CASE ~JitBegin(t) /\ ~LoadSnapshot(t)
      BY <1>2, <3>2, OutsideStep DEF Outside
    <3> QED
      BY <3>1, <3>2
  <2>2. UNCHANGED workload
    BY DEF ThreadStep, JitBegin, LoadSnapshot, JitEnd, Fetch, CallFunction, TailCall, ReturnInstruction, Unwind,
           ThreadRestarts, Execute, TakeGuard, HookCall, ReturnCall, ExecCall, Starts, OnlyCall, OnlyThread
  <2> QED
    BY <2>1, <2>2, ElsewhereSettles
<1> QED
  BY <1>1, <1>2

\* set_instrumentation_policies.
LEMMA SetPoliciesSettles ==
  ASSUME HooksInv, EngineInv, NEW w \in Writers, SetPolicies(w)
  PROVE  EngineInv'
<1>1. PICK rows :
        /\ writer' = [writer EXCEPT ![w].pc = "flags", ![w].arg = rows,
                        ![w].seen = engine.global \cup KindsOf(rows),
                        ![w].flush = IF rows = {} THEN Ranges(engine.policy) ELSE Ranges(rows)]
  BY Zenon DEF SetPolicies
<1>2. /\ writer = [v \in Writers |-> writer[v]]
      /\ DOMAIN writer[w] = {"pc", "op", "arg", "flush", "old", "seen"}
  BY DEF HooksInv, WritersOK
<1>3. /\ UNCHANGED code /\ writer[w].pc = "idle"
      /\ engine' = [engine EXCEPT !.raced = @ \/ Overlaps(w)]
      /\ workload' = [workload EXCEPT !.edits = @ - 1]
  BY DEF SetPolicies, Begins
<1>4. /\ \A v \in Writers : v # w => writer'[v] = writer[v]
      /\ writer'[w].pc = "flags" /\ writer'[w].arg = rows
      /\ writer'[w].seen = engine.global \cup KindsOf(rows)
      /\ writer'[w].flush = IF rows = {} THEN Ranges(engine.policy) ELSE Ranges(rows)
  BY <1>1, <1>2
<1>5. /\ EngineFields' /\ engine'.global = engine.global /\ engine'.policy = engine.policy
      /\ engine'.enabled = engine.enabled /\ engine'.snapshot = engine.snapshot
      /\ engine'.current = engine.current /\ engine'.failed = engine.failed
      /\ engine'.raced = (engine.raced \/ Overlaps(w))
  BY <1>3 DEF EngineInv, EngineFields
<1>6. EngineOps'
  BY <1>3, WorkloadKept DEF HooksInv, EngineInv, EngineOps
<1>7. RangesCovered'
  <2>1. \A r \in rows : r.range \subseteq writer'[w].flush
    BY <1>4 DEF Ranges
  <2> QED
    BY <1>4, <2>1 DEF EngineInv, RangesCovered
<1>8. SnapshotOwed'
  BY <1>3, <1>4, <1>5 DEF EngineInv, SnapshotOwed
<1>9. ASSUME ~engine'.raced PROVE Orderly'
  <2>1. /\ OneEngaged /\ (\A v \in Writers : Stands(writer[v], engine)) /\ FlagsSettled
        /\ \A v \in Writers : v # w => ~Engaged(writer[v])
    BY <1>5, <1>9 DEF EngineInv, Orderly, Overlaps, Engaged
  <2>2. OneEngaged'
    BY <1>4, <2>1 DEF OneEngaged
  <2>3. \A v \in Writers : Stands(writer'[v], engine')
    BY <1>4, <1>5, <2>1 DEF Stands, Engaged
  <2>4. FlagsSettled'
    BY <1>3, <1>4, <1>5, <2>1 DEF FlagsSettled
  <2> QED
    BY <2>2, <2>3, <2>4 DEF Orderly
<1>10. ASSUME ~engine'.raced, ~engine'.failed PROVE CodeCaptures'
  <2> SUFFICES ASSUME NEW a \in Addresses, code'[a] # None, Due(a)'
               PROVE  Has(a, "exec")' \/ \E v \in Writers : Recaptured(writer'[v], a)
    BY DEF CodeCaptures
  <2>1. Due(a)
    <3>1. Wants(a, "exec")' => Wants(a, "exec")
      BY <1>5 DEF Wants
    <3> QED
      BY <1>3, <1>4, <1>5, <3>1 DEF Due
  <2>2. Has(a, "exec") \/ \E v \in Writers : Recaptured(writer[v], a)
    BY <1>3, <1>5, <1>10, <2>1 DEF EngineInv, CodeCaptures
  <2>3. ~Recaptured(writer[w], a)
    BY <1>3 DEF Recaptured
  <2>4. Has(a, "exec") => Has(a, "exec")'
    BY <1>3 DEF Has
  <2> QED
    BY <1>4, <2>2, <2>3, <2>4
<1> QED
  BY <1>5, <1>6, <1>7, <1>8, <1>9, <1>10 DEF EngineInv

\* Its flags ...
LEMMA StoreFlagsSettles ==
  ASSUME HooksInv, EngineInv, NEW w \in Writers, StoreFlags(w)
  PROVE  EngineInv'
<1>1. /\ UNCHANGED <<code, workload>> /\ writer[w].pc = "flags"
      /\ engine' = [engine EXCEPT !.enabled = writer[w].seen \cap Kinds]
      /\ writer' = [writer EXCEPT ![w].pc = "publish"]
  BY DEF StoreFlags, Moves
<1>2. /\ \A v \in Writers : v # w => writer'[v] = writer[v]
      /\ writer'[w].pc = "publish" /\ writer'[w].arg = writer[w].arg
      /\ writer'[w].flush = writer[w].flush
  BY <1>1 DEF HooksInv, WritersOK
<1>3. /\ EngineFields' /\ engine'.global = engine.global /\ engine'.policy = engine.policy
      /\ engine'.enabled = writer[w].seen \cap Kinds /\ engine'.snapshot = engine.snapshot
      /\ engine'.current = engine.current /\ engine'.failed = engine.failed
      /\ engine'.raced = engine.raced
  BY <1>1 DEF EngineInv, EngineFields
<1>4. EngineOps' /\ RangesCovered' /\ SnapshotOwed'
  BY <1>1, <1>2, <1>3 DEF EngineInv, EngineOps, RangesCovered, SnapshotOwed
<1>5. ASSUME ~engine'.raced PROVE Orderly'
  <2>1. /\ OneEngaged /\ (\A v \in Writers : Stands(writer[v], engine))
        /\ \A v \in Writers : v # w => ~Engaged(writer[v])
    BY <1>1, <1>3, <1>5 DEF EngineInv, Orderly, OneEngaged, Engaged
  <2>2. OneEngaged'
    BY <1>2, <2>1 DEF OneEngaged
  <2>3. \A v \in Writers : Stands(writer'[v], engine')
    <3>1. writer[w].seen = engine.global \cup KindsOf(writer[w].arg)
      BY <1>1, <2>1 DEF Stands
    <3>2. Stands(writer'[w], engine')
      BY <1>2, <1>3, <3>1 DEF Stands, Flags
    <3>3. \A v \in Writers : v # w => Stands(writer'[v], engine')
      BY <1>2, <2>1 DEF Stands, Engaged
    <3> QED
      BY <3>2, <3>3
  <2>4. FlagsSettled'
    BY <1>2 DEF FlagsSettled
  <2> QED
    BY <2>2, <2>3, <2>4 DEF Orderly
<1>6. ASSUME ~engine'.raced, ~engine'.failed PROVE CodeCaptures'
  <2> SUFFICES ASSUME NEW a \in Addresses, code'[a] # None, Due(a)'
               PROVE  Has(a, "exec")' \/ \E v \in Writers : Recaptured(writer'[v], a)
    BY DEF CodeCaptures
  <2>1. Due(a)
    BY <1>2, <1>3 DEF Due
  <2>2. Has(a, "exec") \/ \E v \in Writers : Recaptured(writer[v], a)
    BY <1>1, <1>3, <1>6, <2>1 DEF EngineInv, CodeCaptures
  <2>3. ~Recaptured(writer[w], a)
    BY <1>1 DEF Recaptured
  <2>4. Has(a, "exec") => Has(a, "exec")'
    BY <1>1 DEF Has
  <2> QED
    BY <1>2, <2>2, <2>3, <2>4
<1> QED
  BY <1>3, <1>4, <1>5, <1>6 DEF EngineInv

\* ... the policy ...
LEMMA PublishPolicySettles ==
  ASSUME HooksInv, EngineInv, NEW w \in Writers, PublishPolicy(w)
  PROVE  EngineInv'
<1>1. /\ UNCHANGED <<code, workload>> /\ writer[w].pc = "publish"
      /\ engine' = [engine EXCEPT !.policy = writer[w].arg, !.generation = @ + 1,
                                  !.current = engine.generation + 1]
      /\ writer' = [writer EXCEPT ![w].pc = "policy_flush"]
  BY DEF PublishPolicy, Moves
<1>2. /\ \A v \in Writers : v # w => writer'[v] = writer[v]
      /\ writer'[w].pc = "policy_flush" /\ writer'[w].flush = writer[w].flush
  BY <1>1 DEF HooksInv, WritersOK
<1>3. /\ EngineFields' /\ engine'.global = engine.global /\ engine'.policy = writer[w].arg
      /\ engine'.enabled = engine.enabled /\ engine'.failed = engine.failed
      /\ engine'.raced = engine.raced
  BY <1>1 DEF EngineInv, EngineFields
<1>4. EngineOps' /\ RangesCovered' /\ SnapshotOwed'
  BY <1>1, <1>2, <1>3 DEF EngineInv, EngineOps, RangesCovered, SnapshotOwed
<1>5. ASSUME ~engine'.raced PROVE Orderly' /\ \A v \in Writers : writer'[v].pc # "publish"
  <2>1. /\ OneEngaged /\ (\A v \in Writers : Stands(writer[v], engine))
        /\ \A v \in Writers : v # w => ~Engaged(writer[v])
    BY <1>1, <1>3, <1>5 DEF EngineInv, Orderly, OneEngaged, Engaged
  <2>2. \A v \in Writers : ~Engaged(writer'[v])
    BY <1>2, <2>1 DEF Engaged
  <2>3. OneEngaged' /\ \A v \in Writers : Stands(writer'[v], engine')
    BY <2>2 DEF OneEngaged, Stands, Engaged
  <2>4. FlagsSettled'
    BY <1>1, <1>3, <2>1 DEF FlagsSettled, Stands
  <2> QED
    BY <2>2, <2>3, <2>4 DEF Orderly, Engaged
<1>6. ASSUME ~engine'.raced, ~engine'.failed PROVE CodeCaptures'
  <2> SUFFICES ASSUME NEW a \in Addresses, code'[a] # None, Due(a)'
               PROVE  Has(a, "exec")' \/ \E v \in Writers : Recaptured(writer'[v], a)
    BY DEF CodeCaptures
  <2>1. CASE a \in writer[w].flush
    BY <1>2, <2>1 DEF Recaptured
  <2>2. CASE a \notin writer[w].flush
    <3>1. \A r \in writer[w].arg : a \notin r.range
      BY <1>1, <2>2 DEF EngineInv, RangesCovered
    <3>2. Due(a)
      BY <1>3, <3>1 DEF Due, Wants
    <3>3. Has(a, "exec") \/ \E v \in Writers : Recaptured(writer[v], a)
      BY <1>1, <1>3, <1>6, <3>2 DEF EngineInv, CodeCaptures
    <3>4. ~Recaptured(writer[w], a)
      BY <1>1, <2>2 DEF Recaptured
    <3>5. Has(a, "exec") => Has(a, "exec")'
      BY <1>1 DEF Has
    <3> QED
      BY <1>2, <3>3, <3>4, <3>5
  <2> QED
    BY <2>1, <2>2
<1> QED
  BY <1>3, <1>4, <1>5, <1>6 DEF EngineInv

\* ... and the code it throws away.
LEMMA PolicyFlushSettles ==
  ASSUME HooksInv, EngineInv, NEW w \in Writers, PolicyFlush(w)
  PROVE  EngineInv'
<1>1. /\ UNCHANGED workload /\ writer[w].pc = "policy_flush"
      /\ writer' = [writer EXCEPT ![w] = IdleWriter]
  BY DEF PolicyFlush
<1>2. writer'[w].pc = "idle" /\ \A v \in Writers : v # w => writer'[v] = writer[v]
  <2>1. writer'[w] = IdleWriter /\ \A v \in Writers : v # w => writer'[v] = writer[v]
    BY <1>1, WriterSet
  <2> QED
    BY <2>1 DEF IdleWriter
<1>3. /\ EngineFields' /\ engine'.global = engine.global /\ engine'.policy = engine.policy
      /\ engine'.enabled = engine.enabled /\ engine'.current = engine.current
      /\ engine'.raced = engine.raced
      /\ ~engine'.failed =>
           /\ ~engine.failed /\ engine'.snapshot \in {0, engine'.current}
           /\ code' = [a \in Addresses |-> IF a \in writer[w].flush THEN None ELSE code[a]]
  <2>1. CASE engine' = [engine EXCEPT !.failed = TRUE]
    BY <2>1 DEF EngineInv, EngineFields
  <2>2. CASE /\ code' = [a \in Addresses |-> IF a \in writer[w].flush THEN None ELSE code[a]]
             /\ engine' = [engine EXCEPT !.snapshot =
                  IF "routine" \in engine.global \cup KindsOf(engine.policy) THEN engine.current ELSE 0]
    BY <2>2 DEF EngineInv, EngineFields
  <2> QED
    BY <2>1, <2>2 DEF PolicyFlush
<1>4. EngineOps' /\ RangesCovered' /\ SnapshotOwed'
  BY <1>1, <1>2, <1>3 DEF EngineInv, EngineOps, RangesCovered, SnapshotOwed
<1>5. ASSUME ~engine'.raced PROVE Orderly'
  <2>1. OneEngaged /\ (\A v \in Writers : Stands(writer[v], engine)) /\ FlagsSettled
    BY <1>3, <1>5 DEF EngineInv, Orderly
  <2>2. OneEngaged'
    BY <1>2, <2>1 DEF OneEngaged, Engaged
  <2>3. \A v \in Writers : Stands(writer'[v], engine')
    BY <1>2, <1>3, <2>1 DEF Stands
  <2>4. FlagsSettled'
    BY <1>1, <1>2, <1>3, <2>1 DEF FlagsSettled
  <2> QED
    BY <2>2, <2>3, <2>4 DEF Orderly
<1>6. ASSUME ~engine'.raced, ~engine'.failed PROVE CodeCaptures'
  <2> SUFFICES ASSUME NEW a \in Addresses, code'[a] # None, Due(a)'
               PROVE  Has(a, "exec")' \/ \E v \in Writers : Recaptured(writer'[v], a)
    BY DEF CodeCaptures
  <2>1. code'[a] = code[a] /\ a \notin writer[w].flush
    BY <1>3, <1>6
  <2>2. Due(a)
    <3>1. Wants(a, "exec")' => Wants(a, "exec")
      BY <1>3 DEF Wants
    <3> QED
      BY <1>1, <1>2, <1>3, <3>1 DEF Due
  <2>3. Has(a, "exec") \/ \E v \in Writers : Recaptured(writer[v], a)
    BY <1>3, <1>6, <2>1, <2>2 DEF EngineInv, CodeCaptures
  <2>4. ~Recaptured(writer[w], a)
    BY <1>1, <2>1 DEF Recaptured
  <2>5. Has(a, "exec") => Has(a, "exec")'
    BY <2>1 DEF Has
  <2> QED
    BY <1>2, <2>3, <2>4, <2>5
<1> QED
  BY <1>3, <1>4, <1>5, <1>6 DEF EngineInv

\* set_engine_enabled: the mask ...
LEMMA SetEngineSettles ==
  ASSUME HooksInv, EngineInv, NEW w \in Writers, SetEngine(w)
  PROVE  EngineInv'
<1>1. PICK e \in Asked(w, "engine") :
        /\ engine' = [engine EXCEPT !.global = IF e.on THEN engine.global \cup {e.kind}
                                               ELSE engine.global \ {e.kind},
                                    !.raced = @ \/ Overlaps(w)]
        /\ writer' = [writer EXCEPT ![w].pc = "toggle", ![w].arg = e, ![w].old = engine.global,
                        ![w].seen = e.kind \in KindsOf(engine.policy)]
  BY Zenon DEF SetEngine
<1>2. e.kind \in Kinds /\ e.on \in BOOLEAN
  BY DEF Asked, EngineInv, EngineOps
<1>3. /\ UNCHANGED code /\ writer[w].pc = "idle"
      /\ workload' = [workload EXCEPT !.edits = @ - 1]
  BY DEF SetEngine, Begins
<1>4. /\ \A v \in Writers : v # w => writer'[v] = writer[v]
      /\ writer'[w].pc = "toggle" /\ writer'[w].arg = e /\ writer'[w].old = engine.global
      /\ writer'[w].seen = (e.kind \in KindsOf(engine.policy))
  BY <1>1 DEF HooksInv, WritersOK
<1>5. /\ EngineFields' /\ engine'.global = Toggled(writer'[w]) /\ engine'.policy = engine.policy
      /\ engine'.enabled = engine.enabled /\ engine'.snapshot = engine.snapshot
      /\ engine'.current = engine.current /\ engine'.failed = engine.failed
      /\ engine'.raced = (engine.raced \/ Overlaps(w))
  BY <1>1, <1>4 DEF EngineInv, EngineFields, Toggled
<1>6. EngineOps'
  BY <1>3, WorkloadKept DEF HooksInv, EngineInv, EngineOps
<1>7. RangesCovered' /\ SnapshotOwed'
  BY <1>3, <1>4, <1>5 DEF EngineInv, RangesCovered, SnapshotOwed
<1>8. ASSUME ~engine'.raced
      PROVE  /\ ~engine.raced /\ OneEngaged /\ (\A v \in Writers : Stands(writer[v], engine)) /\ FlagsSettled
             /\ \A v \in Writers : ~Engaged(writer[v])
  BY <1>3, <1>5, <1>8 DEF EngineInv, Orderly, Overlaps, Engaged
<1>9. ASSUME ~engine'.raced PROVE Orderly'
  <2>1. engine.enabled = Flags(engine.global, engine.policy)
    BY <1>8, <1>9 DEF FlagsSettled, Engaged
  <2>2. OneEngaged'
    BY <1>4, <1>8, <1>9 DEF OneEngaged
  <2>3. Stands(writer'[w], engine')
    BY <1>2, <1>4, <1>5, <2>1 DEF Stands
  <2>4. \A v \in Writers : v # w => Stands(writer'[v], engine')
    BY <1>4, <1>8, <1>9 DEF Stands, Engaged
  <2>5. FlagsSettled'
    BY <1>4 DEF FlagsSettled
  <2> QED
    BY <2>2, <2>3, <2>4, <2>5 DEF Orderly
<1>10. ASSUME ~engine'.raced, ~engine'.failed PROVE CodeCaptures'
  <2> SUFFICES ASSUME NEW a \in Addresses, code'[a] # None, Due(a)', ~Changes(writer'[w])
               PROVE  Has(a, "exec")' \/ \E v \in Writers : Recaptured(writer'[v], a)
    BY <1>4 DEF CodeCaptures, Recaptured
  <2>1. engine'.global = engine.global
    BY <1>2, <1>4, <1>5 DEF Toggled, Changes
  <2>2. Due(a)
    <3>1. Wants(a, "exec")' => Wants(a, "exec")
      BY <1>5, <2>1 DEF Wants
    <3> QED
      BY <1>3, <1>4, <2>1, <3>1 DEF Due
  <2>3. Has(a, "exec") \/ \E v \in Writers : Recaptured(writer[v], a)
    BY <1>3, <1>5, <1>8, <1>10, <2>2 DEF EngineInv, CodeCaptures
  <2>4. ~Recaptured(writer[w], a)
    BY <1>3 DEF Recaptured
  <2>5. Has(a, "exec") => Has(a, "exec")'
    BY <1>3 DEF Has
  <2> QED
    BY <1>4, <2>3, <2>4, <2>5
<1> QED
  BY <1>5, <1>6, <1>7, <1>9, <1>10 DEF EngineInv

\* ... the flag and the flush.
LEMMA EngineFlushSettles ==
  ASSUME HooksInv, EngineInv, NEW w \in Writers, EngineFlush(w)
  PROVE  EngineInv'
<1> DEFINE o == writer[w]
           flag(on) == IF on \/ o.seen THEN engine.enabled \cup {o.arg.kind}
                       ELSE engine.enabled \ {o.arg.kind}
<1>1. /\ UNCHANGED workload /\ o.pc = "toggle"
      /\ writer' = [writer EXCEPT ![w] = IdleWriter]
  BY DEF EngineFlush
<1>2. writer'[w].pc = "idle" /\ \A v \in Writers : v # w => writer'[v] = writer[v]
  <2>1. writer'[w] = IdleWriter /\ \A v \in Writers : v # w => writer'[v] = writer[v]
    BY <1>1, WriterSet
  <2> QED
    BY <2>1 DEF IdleWriter
<1>3. /\ EngineFields' /\ engine'.policy = engine.policy /\ engine'.snapshot = engine.snapshot
      /\ engine'.current = engine.current /\ engine'.raced = engine.raced
      /\ ~engine'.failed => ~engine.failed
      /\ \/ /\ ~Changes(o) /\ engine'.enabled = flag(o.arg.on) /\ engine'.global = engine.global
            /\ UNCHANGED code
         \/ /\ engine'.enabled = flag(o.arg.on) /\ engine'.global = engine.global
            /\ code' = [a \in Addresses |-> None]
         \/ /\ engine'.enabled = flag(o.arg.kind \in o.old) /\ engine'.global = o.old
            /\ engine'.failed
  <2>1. CASE /\ ~Changes(o)
             /\ engine' = [engine EXCEPT !.enabled = flag(o.arg.on)] /\ UNCHANGED code
    BY <2>1 DEF EngineInv, EngineFields
  <2>2. CASE /\ engine' = [engine EXCEPT !.enabled = flag(o.arg.on), !.generation = @ + 1]
             /\ code' = [a \in Addresses |-> None]
    BY <2>2 DEF EngineInv, EngineFields
  <2>3. CASE engine' = [engine EXCEPT !.enabled = flag(o.arg.kind \in o.old), !.global = o.old,
                                      !.generation = @ + 1, !.failed = TRUE]
    BY <2>3 DEF EngineInv, EngineFields
  <2> QED
    BY <2>1, <2>2, <2>3 DEF EngineFlush, Changes
<1>4. EngineOps' /\ RangesCovered' /\ SnapshotOwed'
  BY <1>1, <1>2, <1>3 DEF EngineInv, EngineOps, RangesCovered, SnapshotOwed
<1>5. ASSUME ~engine'.raced PROVE Orderly'
  <2>1. /\ OneEngaged /\ (\A v \in Writers : Stands(writer[v], engine))
        /\ \A v \in Writers : v # w => ~Engaged(writer[v])
    BY <1>1, <1>3, <1>5 DEF EngineInv, Orderly, OneEngaged, Engaged
  <2>2. \A v \in Writers : ~Engaged(writer'[v])
    BY <1>2, <2>1 DEF Engaged
  <2>3. OneEngaged' /\ \A v \in Writers : Stands(writer'[v], engine')
    BY <2>2 DEF OneEngaged, Stands, Engaged
  <2>4. engine'.enabled = Flags(engine'.global, engine'.policy)
    <3>1. /\ o.arg.kind \in Kinds /\ o.arg.on \in BOOLEAN /\ engine.global = Toggled(o)
          /\ o.seen = (o.arg.kind \in KindsOf(engine.policy))
          /\ engine.enabled = Flags(o.old, engine.policy)
      BY <1>1, <2>1 DEF Stands
    <3>2. flag(o.arg.on) = Flags(engine.global, engine.policy)
      BY <3>1 DEF Toggled, Flags
    <3>3. flag(o.arg.kind \in o.old) = Flags(o.old, engine.policy)
      BY <3>1 DEF Flags
    <3> QED
      BY <1>3, <3>2, <3>3
  <2> QED
    BY <2>3, <2>4 DEF Orderly, FlagsSettled
<1>6. ASSUME ~engine'.raced, ~engine'.failed PROVE CodeCaptures'
  <2> SUFFICES ASSUME NEW a \in Addresses, code'[a] # None, Due(a)'
               PROVE  Has(a, "exec")' \/ \E v \in Writers : Recaptured(writer'[v], a)
    BY DEF CodeCaptures
  <2>1. ~Changes(o) /\ engine'.global = engine.global /\ UNCHANGED code
    BY <1>3, <1>6
  <2>2. Due(a)
    <3>1. Wants(a, "exec")' => Wants(a, "exec")
      BY <1>3, <2>1 DEF Wants
    <3> QED
      BY <1>1, <1>2, <2>1, <3>1 DEF Due
  <2>3. Has(a, "exec") \/ \E v \in Writers : Recaptured(writer[v], a)
    BY <1>3, <1>6, <2>1, <2>2 DEF EngineInv, CodeCaptures
  <2>4. ~Recaptured(writer[w], a)
    BY <1>1, <2>1 DEF Recaptured
  <2>5. Has(a, "exec") => Has(a, "exec")'
    BY <2>1 DEF Has
  <2> QED
    BY <1>2, <2>3, <2>4, <2>5
<1> QED
  BY <1>3, <1>4, <1>5, <1>6 DEF EngineInv

LEMMA EngineInit == Init => EngineInv
<1> SUFFICES ASSUME Init PROVE EngineInv
  OBVIOUS
<1>1. /\ engine = [global |-> {}, enabled |-> {}, policy |-> {}, generation |-> 1, current |-> 1,
                   snapshot |-> 0, raced |-> FALSE, failed |-> FALSE]
      /\ \A a \in Addresses : code[a] = None
      /\ \A w \in Writers : writer[w].pc = "idle"
  BY DEF Init, IdleWriter
<1>2. EngineOps
  BY HooksAssumption DEF Init, EngineOps
<1>3. EngineFields /\ RangesCovered /\ SnapshotOwed /\ CodeCaptures
  BY <1>1 DEF EngineFields, RangesCovered, SnapshotOwed, CodeCaptures
<1>4. Orderly
  BY <1>1 DEF Orderly, OneEngaged, Engaged, Stands, FlagsSettled, Flags, KindsOf
<1> QED
  BY <1>2, <1>3, <1>4 DEF EngineInv

LEMMA EngineNext == HooksInv /\ EngineInv /\ [Next]_vars => EngineInv'
<1> SUFFICES ASSUME HooksInv, EngineInv, [Next]_vars PROVE EngineInv'
  OBVIOUS
<1>1. CASE \E w \in Writers : WriterStep(w)
  BY <1>1, HookWritersSettle, SetPoliciesSettles, StoreFlagsSettles, PublishPolicySettles,
     PolicyFlushSettles, SetEngineSettles, EngineFlushSettles DEF WriterStep
<1>2. CASE \E t \in Threads : ThreadStep(t)
  BY <1>2, ThreadsSettle
<1>3. CASE EmitRoutineSnapshot
  <2>1. UNCHANGED <<code, writer, workload>> /\ engine' = [engine EXCEPT !.snapshot = 0]
    BY <1>3 DEF EmitRoutineSnapshot
  <2>2. /\ EngineFields' /\ engine'.global = engine.global /\ engine'.policy = engine.policy
        /\ engine'.enabled = engine.enabled /\ engine'.snapshot = 0
        /\ engine'.failed = engine.failed /\ engine'.raced = engine.raced
    BY <2>1 DEF EngineInv, EngineFields
  <2>3. EngineOps' /\ RangesCovered' /\ SnapshotOwed'
    BY <2>1, <2>2 DEF EngineInv, EngineOps, RangesCovered, SnapshotOwed
  <2>4. Orderly => Orderly'
    BY <2>1, <2>2 DEF Orderly, OneEngaged, Stands, FlagsSettled
  <2>5. CodeCaptures => CodeCaptures'
    BY <2>1, <2>2 DEF CodeCaptures, Due, Wants, Has
  <2> QED
    BY <2>2, <2>3, <2>4, <2>5 DEF EngineInv
<1>4. CASE UNCHANGED vars
  BY <1>4, ElsewhereSettles DEF vars
<1> QED
  BY <1>1, <1>2, <1>3, <1>4 DEF Next

\* As long as no two writers were inside the engines at once and Pin refused
\* nothing, a kind is enabled exactly when someone wants it and what is compiled
\* captures it, for any number of writers, kinds and policies
\* (set_instrumentation_policies and set_engine_enabled, engines.rs).
THEOREM EnginesAgree == Spec => []EnginesSettle
<1>1. EngineInv => EnginesSettle
  <2> SUFFICES ASSUME EngineInv, Quiet, ~engine.raced, ~engine.failed
               PROVE  /\ engine.enabled = (engine.global \cup KindsOf(engine.policy)) \cap Kinds
                      /\ \A a \in Addresses : code[a] # None /\ Wants(a, "exec") => Has(a, "exec")
                      /\ engine.snapshot \in {0, engine.current}
    BY DEF EnginesSettle
  <2>1. \A w \in Writers : writer[w].pc = "idle"
    BY DEF Quiet
  <2>2. engine.enabled = Flags(engine.global, engine.policy)
    BY <2>1 DEF EngineInv, Orderly, FlagsSettled
  <2>3. engine.snapshot \in {0, engine.current}
    BY <2>1 DEF EngineInv, SnapshotOwed
  <2>4. ASSUME NEW a \in Addresses, code[a] # None, Wants(a, "exec") PROVE Has(a, "exec")
    <3>1. Due(a) /\ \A w \in Writers : ~Recaptured(writer[w], a)
      BY <2>1, <2>4 DEF Due, Recaptured
    <3> QED
      BY <2>4, <3>1 DEF EngineInv, CodeCaptures
  <2> QED
    BY <2>2, <2>3, <2>4 DEF Flags
<1> QED
  BY <1>1, HooksAlways, EngineInit, EngineNext, PTL DEF Spec

-----------------------------------------------------------------------------
(* Frames.                                                                 *)

\* A frame that is not stale is of a logged function that was reported in the
\* activation at the frame's level.
FrameTrue(f, stack, F) ==
  ~f.stale => f.level <= Len(stack) /\ f.fn \in stack[f.level].reported /\ f.fn \in F

AllTrue(frames, stack, F) == \A i \in DOMAIN frames : FrameTrue(frames[i], stack, F)

\* The call that reports the return of a frame is still to come.
ReturnAhead(f, todo) ==
  \E c \in DOMAIN todo : todo[c].call = "return" /\ todo[c].fn = f.fn

\* A return instruction that is under way finds the frame of its activation, if
\* that is not stale, on top, and has the call that takes it ahead.
ReturnDue(th) ==
  th.pc = "calls" /\ th.at \in Rets =>
    \A i \in DOMAIN th.frames : ~th.frames[i].stale /\ th.frames[i].level = Len(th.stack) =>
      i = Len(th.frames) /\ ReturnAhead(th.frames[i], th.todo)

ReportPairs(last) == last # None => last.stale \/ last.fn \in last.reported

Paired(th, F) ==
  /\ AllTrue(th.frames, th.stack, F)
  /\ ReturnDue(th)
  /\ ReportPairs(th.last)
  /\ th.pc # "run" => th.stack # <<>>

PairInv == \A t \in Threads : Paired(thread[t], functions)

\* What marking does to each frame.
LEMMA MarkedSays ==
  ASSUME NEW frames \in Seq(FrameRecs), NEW S
  PROVE  /\ DOMAIN Marked(frames, S) = DOMAIN frames /\ Len(Marked(frames, S)) = Len(frames)
         /\ \A i \in DOMAIN frames :
              /\ Marked(frames, S)[i].fn = frames[i].fn
              /\ Marked(frames, S)[i].level = frames[i].level
              /\ ~Marked(frames, S)[i].stale => ~frames[i].stale /\ i \notin S
<1>1. Len(frames) \in Nat /\ DOMAIN frames = 1..Len(frames)
      /\ \A i \in DOMAIN frames : frames[i] \in FrameRecs
  BY FrameLevels
<1>2. \A x \in FrameRecs : \A b \in BOOLEAN :
        [x EXCEPT !.stale = b].fn = x.fn /\ [x EXCEPT !.stale = b].level = x.level
        /\ [x EXCEPT !.stale = b].stale = b
  BY DEF FrameRecs
<1>3. \A i \in DOMAIN frames : Marked(frames, S)[i] = [frames[i] EXCEPT !.stale = frames[i].stale \/ i \in S]
  BY DEF Marked
<1>4. DOMAIN Marked(frames, S) = DOMAIN frames
  BY DEF Marked
<1>5. Remarked(frames, Marked(frames, S))
  BY MarkedRemarks
<1>6. Len(Marked(frames, S)) = Len(frames)
  BY <1>1, <1>5, LenProperties DEF Remarked
<1>7. ASSUME NEW i \in DOMAIN frames
      PROVE  /\ Marked(frames, S)[i].fn = frames[i].fn
             /\ Marked(frames, S)[i].level = frames[i].level
             /\ ~Marked(frames, S)[i].stale => ~frames[i].stale /\ i \notin S
  <2>1. (frames[i].stale \/ i \in S) \in BOOLEAN /\ frames[i] \in FrameRecs
    BY <1>1
  <2> QED
    BY <1>2, <1>3, <2>1
<1> QED
  BY <1>4, <1>6, <1>7

LEMMA MarkedTrue ==
  ASSUME NEW frames \in Seq(FrameRecs), NEW S, NEW stack, NEW F, AllTrue(frames, stack, F)
  PROVE  AllTrue(Marked(frames, S), stack, F)
BY MarkedSays DEF AllTrue, FrameTrue

LEMMA PrefixTrue ==
  ASSUME NEW frames \in Seq(FrameRecs), NEW n \in Int, n <= Len(frames), NEW stack, NEW F,
         AllTrue(frames, stack, F)
  PROVE  AllTrue(SubSeq(frames, 1, n), stack, F)
BY Prefixes DEF AllTrue

LEMMA CancelledTrue ==
  ASSUME NEW frames \in Seq(FrameRecs), NEW f, NEW stack, NEW F, AllTrue(frames, stack, F)
  PROVE  AllTrue(Cancelled(frames, f), stack, F)
<1>1. Len(frames) - 1 \in Int /\ Len(frames) - 1 <= Len(frames)
  BY FrameLevels
<1> QED
  BY <1>1, PrefixTrue DEF Cancelled

\* A stack that has at least what another has.
Covers(out, stack) ==
  /\ Len(stack) <= Len(out) /\ Len(out) \in Nat /\ Len(stack) \in Nat
  /\ \A i \in 1..Len(stack) : stack[i].reported \subseteq out[i].reported

LEMMA CoveredTrue ==
  ASSUME NEW frames \in Seq(FrameRecs), NEW stack, NEW out, Covers(out, stack), NEW F,
         AllTrue(frames, stack, F)
  PROVE  AllTrue(frames, out, F)
<1> SUFFICES ASSUME NEW i \in DOMAIN frames, ~frames[i].stale
             PROVE  frames[i].level <= Len(out) /\ frames[i].fn \in out[frames[i].level].reported
                    /\ frames[i].fn \in F
  BY DEF AllTrue, FrameTrue
<1>1. frames[i].level \in Nat \ {0}
  BY FrameLevels
<1>2. /\ frames[i].level <= Len(stack) /\ frames[i].fn \in stack[frames[i].level].reported
      /\ frames[i].fn \in F
  BY DEF AllTrue, FrameTrue
<1>3. frames[i].level \in 1..Len(stack)
  BY <1>1, <1>2 DEF Covers
<1> QED
  BY <1>1, <1>2, <1>3 DEF Covers

\* No frame that is not stale is of the innermost activation.
NoneOnTop(frames, stack) ==
  \A i \in DOMAIN frames : ~frames[i].stale => frames[i].level # Len(stack)

LEMMA PoppedTrue ==
  ASSUME NEW frames \in Seq(FrameRecs), NEW stack \in Seq(ActivationRecs), NEW F,
         AllTrue(frames, stack, F), NoneOnTop(frames, stack)
  PROVE  AllTrue(frames, SubSeq(stack, 1, Len(stack) - 1), F)
<1> DEFINE out == SubSeq(stack, 1, Len(stack) - 1)
<1> SUFFICES ASSUME NEW i \in DOMAIN frames, ~frames[i].stale
             PROVE  frames[i].level <= Len(out) /\ frames[i].fn \in out[frames[i].level].reported
                    /\ frames[i].fn \in F
  BY DEF AllTrue, FrameTrue
<1>1. frames[i].level \in Nat \ {0}
  BY FrameLevels
<1>2. /\ frames[i].level <= Len(stack) /\ frames[i].fn \in stack[frames[i].level].reported
      /\ frames[i].fn \in F /\ frames[i].level # Len(stack)
  BY DEF AllTrue, FrameTrue, NoneOnTop
<1>3. Len(stack) \in Nat
  BY LenProperties
<1>4. Len(stack) - 1 \in Nat /\ frames[i].level \in 1..(Len(stack) - 1)
  BY <1>1, <1>2, <1>3
<1>5. Len(out) = Len(stack) - 1 /\ \A k \in 1..(Len(stack) - 1) : out[k] = stack[k]
  BY <1>3, <1>4, SubSeqProperties
<1> QED
  BY <1>1, <1>2, <1>4, <1>5

\* Frames of an activation that is left behind.
LEMMA LeftBehindSays ==
  ASSUME NEW frames \in Seq(FrameRecs), NEW t, NEW stack, Depth(t) = Len(stack)
  PROVE  NoneOnTop(LeftBehind(t, frames), stack)
BY MarkedSays DEF LeftBehind, NoneOnTop

\* The calls that are left.
LEMMA AheadInTail ==
  ASSUME NEW todo \in Seq(CallRecs), todo # <<>>, NEW f, ReturnAhead(f, todo),
         Head(todo).call # "return" \/ Head(todo).fn # f.fn
  PROVE  ReturnAhead(f, Tail(todo))
<1>1. PICK c \in DOMAIN todo : todo[c].call = "return" /\ todo[c].fn = f.fn
  BY DEF ReturnAhead
<1>2. Len(todo) \in Nat \ {0} /\ DOMAIN todo = 1..Len(todo) /\ Head(todo) = todo[1]
  BY EmptySeq, LenProperties
<1>3. c # 1
  BY <1>1, <1>2
<1>4. DOMAIN Tail(todo) = 1..(Len(todo) - 1) /\ \A i \in 1..(Len(todo) - 1) : Tail(todo)[i] = todo[i + 1]
  BY <1>2, HeadTailProperties, LenProperties
<1>5. c - 1 \in 1..(Len(todo) - 1) /\ (c - 1) + 1 = c
  BY <1>1, <1>2, <1>3
<1>6. Tail(todo)[c - 1] = todo[c] /\ c - 1 \in DOMAIN Tail(todo)
  BY <1>4, <1>5
<1> QED
  BY <1>1, <1>6 DEF ReturnAhead

\* One thread's step.
LEMMA ThreadSet ==
  ASSUME HooksInv, NEW t \in Threads, NEW r, Sets(t, r)
  PROVE  thread'[t] = r /\ \A u \in Threads : u # t => thread'[u] = thread[u]
BY DEF HooksInv, ThreadsOK, Sets

LEMMA PairsKept ==
  ASSUME HooksInv, PairInv, NEW t \in Threads, NEW r, Sets(t, r), Paired(r, functions), OnlyThread
  PROVE  PairInv'
<1>1. thread'[t] = r /\ \A u \in Threads : u # t => thread'[u] = thread[u]
  BY ThreadSet
<1>2. functions' = functions
  BY DEF OnlyThread, sets
<1> QED
  BY <1>1, <1>2 DEF PairInv

\* A thread that is not running compiled calls has no return to take.
LEMMA PairedElsewhere ==
  ASSUME NEW r, r.pc # "calls", NEW F, AllTrue(r.frames, r.stack, F), ReportPairs(r.last),
         r.pc # "run" => r.stack # <<>>
  PROVE  Paired(r, F)
BY DEF Paired, ReturnDue

\* Types of a thread.
LEMMA ThreadTypes ==
  ASSUME HooksInv, NEW t \in Threads
  PROVE  /\ ThreadOK(thread[t]) /\ thread[t] \in ThreadRecs
         /\ thread[t].frames \in Seq(FrameRecs) /\ thread[t].stack \in Seq(ActivationRecs)
         /\ Depth(t) = Len(thread[t].stack) /\ Depth(t) \in Nat
         /\ Nested(thread[t].frames)
<1>1. ThreadOK(thread[t]) /\ thread[t] \in ThreadRecs /\ Nested(thread[t].frames)
  BY DEF HooksInv, ThreadsOK, ThreadOK
<1>2. thread[t].frames \in Seq(FrameRecs) /\ thread[t].stack \in Seq(ActivationRecs)
  BY <1>1 DEF ThreadRecs
<1> QED
  BY <1>1, <1>2, LenProperties DEF Depth

\* An instruction starts.
LEMMA StartsPairs ==
  ASSUME HooksInv, PairInv, NEW t \in Threads, NEW a, NEW s, Starts(t, a, s),
         Covers(s, thread[t].stack), s # <<>>
  PROVE  PairInv'
<1> DEFINE th == thread[t]
           r == [th EXCEPT !.pc = "fetch", !.at = a, !.stack = s,
                           !.hits = 0, !.returns = 0, !.last = None]
<1>1. th \in ThreadRecs /\ th.frames \in Seq(FrameRecs)
  BY ThreadTypes
<1>2. Sets(t, r) /\ OnlyThread
  BY DEF Starts
<1>3. r.pc = "fetch" /\ r.stack = s /\ r.frames = th.frames /\ r.last = None
  BY <1>1 DEF ThreadRecs
<1> HIDE DEF r
<1>4. AllTrue(th.frames, th.stack, functions)
  BY DEF PairInv, Paired
<1>5. AllTrue(r.frames, r.stack, functions)
  BY <1>1, <1>3, <1>4, CoveredTrue
<1>6. Paired(r, functions)
  BY <1>3, <1>5, PairedElsewhere DEF ReportPairs
<1> QED
  BY <1>2, <1>6, PairsKept

LEMMA ApplicationPairs ==
  ASSUME HooksInv, PairInv, NEW t \in Threads, CallFunction(t) \/ TailCall(t) \/ ReturnInstruction(t)
  PROVE  PairInv'
<1> DEFINE s == thread[t].stack
<1>1. s \in Seq(ActivationRecs) /\ Depth(t) = Len(s) /\ Depth(t) \in Nat
  BY ThreadTypes
<1>2. \A i \in 1..Len(s) : s[i] \in ActivationRecs
  BY <1>1, ElementOfSeq
<1>3. CASE CallFunction(t)
  <2>1. PICK f \in workload.calls[t] : Starts(t, f, Append(s, [fn |-> f, reported |-> {}]))
    BY <1>3 DEF CallFunction
  <2> DEFINE e == [fn |-> f, reported |-> {}]
             o == Append(s, e)
  <2>2. e \in ActivationRecs
    <3>1. f \in Entries
      BY DEF HooksInv, SetsOK
    <3> QED
      BY <3>1 DEF ActivationRecs
  <2> HIDE DEF e
  <2>3. o \in Seq(ActivationRecs) /\ Len(o) = Len(s) + 1 /\ \A i \in 1..Len(s) : o[i] = s[i]
    BY <1>1, <2>2, AppendProperties
  <2>4. Covers(o, s) /\ o # <<>>
    <3>1. Len(s) <= Len(o) /\ Len(o) \in Nat /\ Len(s) \in Nat /\ Len(o) # 0
      BY <1>1, <2>3
    <3> QED
      BY <2>3, <3>1, EmptySeq DEF Covers
  <2>5. Starts(t, f, o)
    BY <2>1 DEF e
  <2> HIDE DEF o
  <2> QED
    BY <2>4, <2>5, StartsPairs
<1>4. CASE TailCall(t)
  <2>1. PICK f : Depth(t) > 0 /\ Starts(t, f, [s EXCEPT ![Depth(t)].fn = f])
    BY <1>4 DEF TailCall
  <2> DEFINE o == [s EXCEPT ![Depth(t)].fn = f]
  <2>2. Depth(t) \in 1..Len(s) /\ DOMAIN s = 1..Len(s)
    BY <1>1, <2>1, LenProperties
  <2>3. DOMAIN o = 1..Len(s) /\ \A i \in 1..Len(s) : o[i].reported = s[i].reported
    <3>1. \A i \in 1..Len(s) : o[i] = IF i = Depth(t) THEN [s[i] EXCEPT !.fn = f] ELSE s[i]
      BY <2>2
    <3>2. \A x \in ActivationRecs : [x EXCEPT !.fn = f].reported = x.reported
      BY DEF ActivationRecs
    <3> QED
      BY <1>2, <2>2, <3>1, <3>2
  <2>4. o \in Seq({o[i] : i \in 1..Len(s)}) /\ Len(o) = Len(s)
    <3>1. o \in [1..Len(s) -> {o[i] : i \in 1..Len(s)}]
      BY <2>2
    <3> HIDE DEF o
    <3>2. o \in Seq({o[i] : i \in 1..Len(s)})
      BY <1>1, <3>1, SeqDef
    <3> QED
      BY <1>1, <2>3, <3>2, LenProperties
  <2> HIDE DEF o
  <2>5. Covers(o, s) /\ o # <<>>
    BY <1>1, <2>1, <2>3, <2>4, EmptySeq DEF Covers
  <2> QED
    BY <2>1, <2>5, StartsPairs DEF o
<1>5. CASE ReturnInstruction(t)
  <2>1. Depth(t) > 0 /\ Starts(t, RetOf[Top(t).fn], s)
    BY <1>5 DEF ReturnInstruction
  <2>2. Covers(s, s) /\ s # <<>>
    BY <1>1, <2>1, EmptySeq DEF Covers
  <2> QED
    BY <2>1, <2>2, StartsPairs
<1> QED
  BY <1>3, <1>4, <1>5

\* How activations end.
LEMMA LeavingPairs ==
  ASSUME HooksInv, PairInv, NEW t \in Threads, Unwind(t) \/ ThreadRestarts(t) \/ Execute(t)
  PROVE  PairInv'
<1> DEFINE th == thread[t]
           S == SubSeq(th.stack, 1, Len(th.stack) - 1)
<1>1. /\ th \in ThreadRecs /\ th.frames \in Seq(FrameRecs) /\ th.stack \in Seq(ActivationRecs)
      /\ Depth(t) = Len(th.stack)
  BY ThreadTypes
<1>2. AllTrue(th.frames, th.stack, functions) /\ ReportPairs(th.last) /\ ReturnDue(th)
  BY DEF PairInv, Paired
<1>3. CASE Unwind(t)
  <2> DEFINE F == LeftBehind(t, th.frames)
             r == [th EXCEPT !.stack = S, !.frames = F]
  <2>1. Sets(t, r) /\ OnlyThread /\ th.pc = "run"
    BY <1>1, <1>3 DEF Unwind
  <2>2. F \in Seq(FrameRecs) /\ NoneOnTop(F, th.stack) /\ AllTrue(F, th.stack, functions)
    <3>1. NoneOnTop(F, th.stack)
      BY <1>1, LeftBehindSays
    <3>2. F \in Seq(FrameRecs)
      BY <1>1, MarkedRemarks DEF LeftBehind, Remarked
    <3>3. AllTrue(F, th.stack, functions)
      BY <1>1, <1>2, MarkedTrue DEF LeftBehind
    <3> QED
      BY <3>1, <3>2, <3>3
  <2> HIDE DEF F, S
  <2>3. r.pc = "run" /\ r.stack = S /\ r.frames = F /\ r.last = th.last
    BY <1>1, <2>1 DEF ThreadRecs
  <2>4. AllTrue(F, S, functions)
    BY <1>1, <2>2, PoppedTrue DEF S
  <2> HIDE DEF r
  <2>5. Paired(r, functions)
    BY <1>2, <2>3, <2>4, PairedElsewhere
  <2> QED
    BY <2>1, <2>5, PairsKept
<1>4. CASE ThreadRestarts(t)
  <2>1. Sets(t, NewThread) /\ OnlyThread
    BY <1>4 DEF ThreadRestarts
  <2>2. Paired(NewThread, functions)
    BY DEF NewThread, Paired, AllTrue, ReturnDue, ReportPairs
  <2> QED
    BY <2>1, <2>2, PairsKept
<1>5. CASE Execute(t)
  <2> DEFINE T == IF th.at \in Rets THEN S ELSE th.stack
             r == [th EXCEPT !.pc = "run", !.stack = T]
  <2>1. Sets(t, r) /\ OnlyThread /\ th.pc = "calls" /\ th.todo = <<>>
    BY <1>1, <1>5 DEF Execute
  <2>2. AllTrue(th.frames, T, functions)
    <3>1. CASE th.at \in Rets
      <4>1. \A f : ~ReturnAhead(f, th.todo)
        BY <2>1 DEF ReturnAhead
      <4>2. NoneOnTop(th.frames, th.stack)
        BY <1>2, <2>1, <3>1, <4>1 DEF ReturnDue, NoneOnTop
      <4> QED
        BY <1>1, <1>2, <3>1, <4>2, PoppedTrue
    <3> QED
      BY <1>2, <3>1
  <2> HIDE DEF T, S
  <2>3. r.pc = "run" /\ r.stack = T /\ r.frames = th.frames /\ r.last = th.last
    BY <1>1 DEF ThreadRecs
  <2> HIDE DEF r
  <2>4. Paired(r, functions)
    BY <1>2, <2>2, <2>3, PairedElsewhere
  <2> QED
    BY <2>1, <2>4, PairsKept
<1> QED
  BY <1>3, <1>4, <1>5

\* The compiler.
LEMMA JitPairs ==
  ASSUME HooksInv, PairInv, NEW t \in Threads, JitBegin(t) \/ LoadSnapshot(t) \/ JitEnd(t)
  PROVE  PairInv'
<1> DEFINE th == thread[t]
           r(p, n) == [th EXCEPT !.pc = p, !.snap = n]
<1>1. th \in ThreadRecs
  BY ThreadTypes
<1>2. OnlyThread /\ th.pc # "run"
  BY DEF JitBegin, LoadSnapshot, JitEnd
<1>3. AllTrue(th.frames, th.stack, functions) /\ ReportPairs(th.last) /\ th.stack # <<>>
  BY <1>2 DEF PairInv, Paired
<1>4. Sets(t, r("jit", 0)) \/ Sets(t, r("jit", cell.cur)) \/ Sets(t, r("fetch", 0))
  <2>1. CASE LoadSnapshot(t)
    <3>1. [th EXCEPT !.snap = cell.cur] = r("jit", cell.cur)
      BY <1>1, <2>1 DEF LoadSnapshot, ThreadRecs
    <3> QED
      BY <2>1, <3>1 DEF LoadSnapshot
  <2>2. CASE JitBegin(t) \/ JitEnd(t)
    BY <2>2 DEF JitBegin, JitEnd
  <2> QED
    BY <2>1, <2>2
<1>5. ASSUME NEW p, NEW n, p \in {"jit", "fetch"} PROVE Paired(r(p, n), functions)
  <2>1. /\ r(p, n).pc = p /\ r(p, n).stack = th.stack /\ r(p, n).frames = th.frames
        /\ r(p, n).last = th.last
    BY <1>1 DEF ThreadRecs
  <2> HIDE DEF r
  <2> QED
    BY <1>3, <1>5, <2>1, PairedElsewhere
<1> HIDE DEF r
<1> QED
  BY <1>2, <1>4, <1>5, PairsKept

\* A return that cannot take the frame of its activation marks it.
LEMMA FetchPairs ==
  ASSUME HooksInv, PairInv, NEW t \in Threads, Fetch(t)
  PROVE  PairInv'
<1> DEFINE th == thread[t]
           calls == code[th.at]
           frames == th.frames
           lost(i) == /\ th.at \in Rets /\ frames[i].level = Len(th.stack)
                      /\ \/ \A c \in DOMAIN calls : calls[c].call # "return" \/ calls[c].fn # frames[i].fn
                         \/ \E j \in DOMAIN frames : j > i /\ frames[j].stale
           M == {i \in DOMAIN frames : lost(i)}
           G == Marked(frames, M)
           r == [th EXCEPT !.pc = "calls", !.todo = calls, !.frames = G]
<1>1. /\ th \in ThreadRecs /\ frames \in Seq(FrameRecs) /\ Nested(frames)
      /\ Len(th.stack) \in Nat
  BY ThreadTypes
<1>2. Sets(t, r) /\ OnlyThread /\ th.pc = "fetch"
  BY DEF Fetch
<1>3. AllTrue(frames, th.stack, functions) /\ ReportPairs(th.last) /\ th.stack # <<>>
  BY <1>2 DEF PairInv, Paired
<1>4. /\ DOMAIN G = DOMAIN frames /\ Len(G) = Len(frames)
      /\ \A i \in DOMAIN frames :
           /\ G[i].fn = frames[i].fn /\ G[i].level = frames[i].level
           /\ ~G[i].stale => ~frames[i].stale /\ i \notin M
  <2> HIDE DEF frames, M
  <2> QED
    BY <1>1, MarkedSays
<1>5. AllTrue(G, th.stack, functions)
  <2> HIDE DEF frames, M
  <2> QED
    BY <1>1, <1>3, MarkedTrue
<1>6. Len(frames) \in Nat /\ DOMAIN frames = 1..Len(frames)
      /\ \A i \in DOMAIN frames : frames[i].level \in Nat
  BY <1>1, FrameLevels
<1>7. ASSUME NEW i \in DOMAIN G, ~G[i].stale, G[i].level = Len(th.stack), th.at \in Rets
      PROVE  i = Len(G) /\ ReturnAhead(G[i], calls)
  <2>1. /\ i \in DOMAIN frames /\ ~frames[i].stale /\ i \notin M /\ frames[i].level = Len(th.stack)
        /\ G[i].fn = frames[i].fn
    BY <1>4, <1>7
  <2>2. /\ \E c \in DOMAIN calls : calls[c].call = "return" /\ calls[c].fn = frames[i].fn
        /\ \A j \in DOMAIN frames : j > i => ~frames[j].stale
    BY <1>7, <2>1
  <2>3. ReturnAhead(G[i], calls)
    BY <2>1, <2>2 DEF ReturnAhead
  <2>4. \A j \in DOMAIN frames : ~(j > i)
    <3> SUFFICES ASSUME NEW j \in DOMAIN frames, j > i PROVE FALSE
      OBVIOUS
    <3>1. frames[j].level <= Len(th.stack)
      BY <1>3, <2>2 DEF AllTrue, FrameTrue
    <3>2. frames[i].level < frames[j].level
      BY <1>1, <1>6, <2>1 DEF Nested
    <3>3. frames[i].level \in Nat /\ frames[j].level \in Nat /\ frames[i].level = Len(th.stack)
      BY <1>6, <2>1
    <3> HIDE DEF frames, th
    <3> QED
      BY <1>1, <3>1, <3>2, <3>3
  <2>5. i = Len(frames)
    <3>1. i \in 1..Len(frames) /\ Len(frames) \in Nat /\ \A j \in 1..Len(frames) : ~(j > i)
      BY <1>6, <2>1, <2>4
    <3> HIDE DEF frames
    <3> QED
      BY <3>1
  <2> QED
    BY <1>4, <2>3, <2>5
<1> HIDE DEF G, calls, M
<1>8. /\ r.pc = "calls" /\ r.stack = th.stack /\ r.frames = G /\ r.todo = calls /\ r.at = th.at
      /\ r.last = th.last
  BY <1>1 DEF ThreadRecs
<1>9. Sets(t, r)
  BY <1>2 DEF G, calls, M
<1> HIDE DEF r
<1>10. Paired(r, functions)
  BY <1>3, <1>5, <1>7, <1>8 DEF Paired, ReturnDue
<1> QED
  BY <1>2, <1>9, <1>10, PairsKept

\* A call has run that took no frame: the others go on.
LEMMA PassedPairs ==
  ASSUME NEW th, th \in ThreadRecs, ThreadOK(th), th.pc = "calls", th.todo # <<>>, NEW F, Paired(th, F),
         NEW r, r.pc = "calls", r.at = th.at, r.stack = th.stack, r.frames = th.frames,
         r.todo = Tail(th.todo), r.last = th.last,
         \A i \in DOMAIN th.frames : ~th.frames[i].stale /\ th.frames[i].level = Len(th.stack)
             /\ i = Len(th.frames) /\ th.at \in Rets
           => Head(th.todo).call # "return" \/ Head(th.todo).fn # th.frames[i].fn
  PROVE  Paired(r, F)
<1>1. th.todo \in Seq(CallRecs)
  BY DEF ThreadRecs
<1>2. ReturnDue(th) /\ AllTrue(th.frames, th.stack, F) /\ ReportPairs(th.last) /\ th.stack # <<>>
  BY DEF Paired
<1>3. ASSUME NEW i \in DOMAIN th.frames, ~th.frames[i].stale, th.frames[i].level = Len(th.stack),
             th.at \in Rets
      PROVE  i = Len(th.frames) /\ ReturnAhead(th.frames[i], Tail(th.todo))
  <2>1. i = Len(th.frames) /\ ReturnAhead(th.frames[i], th.todo)
    BY <1>2, <1>3 DEF ReturnDue
  <2>2. Head(th.todo).call # "return" \/ Head(th.todo).fn # th.frames[i].fn
    BY <1>3, <2>1
  <2> QED
    BY <1>1, <2>1, <2>2, AheadInTail
<1> QED
  BY <1>2, <1>3 DEF Paired, ReturnDue

LEMMA TakeGuardPairs ==
  ASSUME HooksInv, PairInv, NEW t \in Threads, TakeGuard(t)
  PROVE  PairInv'
<1> DEFINE th == thread[t]
           G == IF Call(t).call = "return" THEN LeftBehind(t, th.frames) ELSE th.frames
           r == [th EXCEPT !.guard = 0, !.todo = Tail(@), !.frames = G]
<1>1. /\ ThreadOK(th) /\ th \in ThreadRecs /\ th.frames \in Seq(FrameRecs)
      /\ Depth(t) = Len(th.stack)
  BY ThreadTypes
<1>2. Sets(t, r) /\ OnlyThread /\ th.pc = "calls" /\ th.todo # <<>>
  BY DEF TakeGuard, OnlyCall
<1>3. Paired(th, functions)
  BY DEF PairInv
<1>4. AllTrue(th.frames, th.stack, functions) /\ ReportPairs(th.last) /\ th.stack # <<>>
  BY <1>2, <1>3 DEF Paired
<1> HIDE DEF G
<1>5. /\ r.pc = "calls" /\ r.stack = th.stack /\ r.frames = G /\ r.todo = Tail(th.todo)
      /\ r.at = th.at /\ r.last = th.last
  BY <1>1, <1>2 DEF ThreadRecs
<1>6. Sets(t, r)
  BY <1>2
<1> HIDE DEF r
<1>7. CASE Call(t).call = "return"
  <2>1. G = LeftBehind(t, th.frames)
    BY <1>7 DEF G
  <2>2. NoneOnTop(G, th.stack)
    BY <1>1, <2>1, LeftBehindSays
  <2>3. AllTrue(G, th.stack, functions)
    BY <1>1, <1>4, <2>1, MarkedTrue DEF LeftBehind
  <2>4. Paired(r, functions)
    BY <1>4, <1>5, <2>2, <2>3 DEF Paired, ReturnDue, NoneOnTop
  <2> QED
    BY <1>2, <1>6, <2>4, PairsKept
<1>8. CASE Call(t).call # "return"
  <2>1. G = th.frames /\ Head(th.todo).call # "return"
    BY <1>8 DEF G, Call
  <2>2. Paired(r, functions)
    BY <1>1, <1>2, <1>3, <1>5, <2>1, PassedPairs
  <2> QED
    BY <1>2, <1>6, <2>2, PairsKept
<1> QED
  BY <1>7, <1>8

LEMMA ExecCallPairs ==
  ASSUME HooksInv, PairInv, NEW t \in Threads, ExecCall(t)
  PROVE  PairInv'
<1> DEFINE th == thread[t]
           r == [th EXCEPT !.todo = Tail(@)]
<1>1. ThreadOK(th) /\ th \in ThreadRecs
  BY ThreadTypes
<1>2. Sets(t, r) /\ OnlyThread /\ th.pc = "calls" /\ th.todo # <<>> /\ Head(th.todo).call = "exec"
  BY DEF ExecCall, OnlyCall, Running
<1>3. /\ r.pc = "calls" /\ r.stack = th.stack /\ r.frames = th.frames /\ r.todo = Tail(th.todo)
      /\ r.at = th.at /\ r.last = th.last
  BY <1>1, <1>2 DEF ThreadRecs
<1>4. Sets(t, r) /\ Paired(th, functions)
  BY <1>2 DEF PairInv
<1> HIDE DEF r
<1>5. Paired(r, functions)
  BY <1>1, <1>2, <1>3, <1>4, PassedPairs
<1> QED
  BY <1>2, <1>4, <1>5, PairsKept

\* A changed context is executed again, or refused.
LEMMA ReplayPairs ==
  ASSUME HooksInv, PairInv, NEW t \in Threads, NEW th \in ThreadRecs, th.pc = "calls",
         Paired(th, functions), Replay(t, th), OnlyThread
  PROVE  PairInv'
<1>1. AllTrue(th.frames, th.stack, functions) /\ ReportPairs(th.last) /\ th.stack # <<>> /\ ReturnDue(th)
  BY DEF Paired
<1>2. CASE Sets(t, [th EXCEPT !.pc = "fetch", !.guard = th.at])
  <2> DEFINE r == [th EXCEPT !.pc = "fetch", !.guard = th.at]
  <2>1. r.pc = "fetch" /\ r.stack = th.stack /\ r.frames = th.frames /\ r.last = th.last
    BY DEF ThreadRecs
  <2>2. Sets(t, r)
    BY <1>2
  <2> HIDE DEF r
  <2>3. Paired(r, functions)
    BY <1>1, <2>1, PairedElsewhere
  <2> QED
    BY <2>2, <2>3, PairsKept
<1>3. CASE Sets(t, [th EXCEPT !.guard = 0])
  <2> DEFINE r == [th EXCEPT !.guard = 0]
  <2>1. /\ r.pc = "calls" /\ r.stack = th.stack /\ r.frames = th.frames /\ r.last = th.last
        /\ r.at = th.at /\ r.todo = th.todo
    BY DEF ThreadRecs
  <2>2. Sets(t, r)
    BY <1>3
  <2> HIDE DEF r
  <2>3. Paired(r, functions)
    BY <1>1, <2>1 DEF Paired, ReturnDue
  <2> QED
    BY <2>2, <2>3, PairsKept
<1> QED
  BY <1>2, <1>3 DEF Replay

\* What track_function_entry_stack leaves: frames that were there, and the new one.
LEMMA TrackedSays ==
  ASSUME NEW t \in Threads, ThreadOK(thread[t]), NEW f \in Addresses, Depth(t) > 0,
         NEW i \in DOMAIN Tracked(t, f)
  PROVE  \/ i \in DOMAIN thread[t].frames /\ Tracked(t, f)[i] = thread[t].frames[i]
         \/ Tracked(t, f)[i] = [fn |-> f, level |-> Depth(t), stale |-> f \notin functions]
<1> DEFINE frames == thread[t].frames
           live == SubSeq(frames, 1, Kept(t))
           new == [fn |-> f, level |-> Depth(t), stale |-> f \notin functions]
<1>1. frames \in Seq(FrameRecs) /\ thread[t].stack \in Seq(ActivationRecs)
  BY DEF ThreadOK, ThreadRecs
<1>2. Len(frames) \in Nat /\ Depth(t) \in Nat \ {0} /\ DOMAIN frames = 1..Len(frames)
  BY <1>1, LenProperties DEF Depth
<1>3. Kept(t) \in 0..Len(frames)
  BY KeptFrames
<1>4. new \in FrameRecs
  BY <1>2 DEF FrameRecs
<1>5. live \in Seq(FrameRecs) /\ \A k \in DOMAIN live : live[k] = frames[k] /\ k \in DOMAIN frames
  <2>1. Kept(t) \in Int /\ Kept(t) <= Len(frames)
    BY <1>2, <1>3
  <2> QED
    BY <1>1, <1>2, <2>1, Prefixes
<1>6. Tracked(t, f) = IF Len(live) = FrameCap THEN live ELSE Append(live, new)
  BY DEF Tracked
<1> HIDE DEF live, frames, new
<1>7. /\ DOMAIN live = 1..Len(live) /\ Len(live) \in Nat
      /\ DOMAIN Append(live, new) = 1..(Len(live) + 1)
      /\ \A k \in 1..Len(live) : Append(live, new)[k] = live[k]
      /\ Append(live, new)[Len(live) + 1] = new
  BY <1>4, <1>5, AppendProperties, LenProperties
<1>8. CASE Len(live) = FrameCap
  BY <1>5, <1>6, <1>8 DEF frames
<1>9. CASE Len(live) # FrameCap
  <2>1. i \in 1..Len(live) \/ i = Len(live) + 1
    BY <1>6, <1>7, <1>9
  <2> QED
    BY <1>5, <1>6, <1>7, <1>9, <2>1 DEF frames, new
<1> QED
  BY <1>8, <1>9

\* What a hit reports covers what was reported.
LEMMA ReportedCovers ==
  ASSUME NEW stack \in Seq(ActivationRecs), stack # <<>>, NEW f \in Addresses
  PROVE  /\ Covers(Reported(stack, f), stack) /\ Len(Reported(stack, f)) = Len(stack)
         /\ f \in Reported(stack, f)[Len(stack)].reported
<1> DEFINE n == Len(stack)
           out == Reported(stack, f)
<1>1. n \in Nat /\ n \in 1..n /\ DOMAIN stack = 1..n
  BY EmptySeq, LenProperties
<1>2. \A i \in 1..n : stack[i] \in ActivationRecs
  BY ElementOfSeq
<1>3. \A x \in ActivationRecs :
        /\ [x EXCEPT !.reported = @ \cup {f}] \in ActivationRecs
        /\ [x EXCEPT !.reported = @ \cup {f}].reported = x.reported \cup {f}
  BY DEF ActivationRecs
<1>4. out = [stack EXCEPT ![n] = [stack[n] EXCEPT !.reported = @ \cup {f}]]
  BY DEF Reported
<1>5. out \in Seq(ActivationRecs)
  <2>1. [stack[n] EXCEPT !.reported = @ \cup {f}] \in ActivationRecs
    BY <1>1, <1>2, <1>3
  <2> HIDE DEF n, out
  <2> QED
    BY <1>1, <1>4, <2>1, ExceptSeq DEF n
<1>6. DOMAIN out = 1..n
  BY <1>1, <1>4
<1>7. \A i \in 1..n : out[i] = IF i = n THEN [stack[i] EXCEPT !.reported = @ \cup {f}] ELSE stack[i]
  BY <1>1, <1>4
<1> HIDE DEF out
<1>8. Len(out) = n
  BY <1>1, <1>5, <1>6, LenProperties
<1>9. \A i \in 1..n : stack[i].reported \subseteq out[i].reported
  BY <1>2, <1>3, <1>7
<1>10. f \in out[n].reported
  <2>1. stack[n] \in ActivationRecs /\ out[n] = [stack[n] EXCEPT !.reported = @ \cup {f}]
    BY <1>1, <1>2, <1>7
  <2>2. out[n].reported = stack[n].reported \cup {f}
    BY <1>3, <2>1
  <2> QED
    BY <2>2
<1> QED
  BY <1>1, <1>8, <1>9, <1>10 DEF Covers, out

\* on_hook_monitor: an entry that is tracked is reported in its activation.
LEMMA HitPairs ==
  ASSUME HooksInv, PairInv, NEW t \in Threads, Running(t, "hook"), ~Guarded(t)
  PROVE  /\ Paired(Hit(t), functions) /\ Hit(t) \in ThreadRecs /\ Hit(t).pc = "calls"
         /\ Len(Hit(t).stack) = Depth(t)
<1> DEFINE th == thread[t]
           f == Call(t).fn
           entered == f # 0 /\ Depth(t) > 0
           F == IF entered THEN Tracked(t, f) ELSE th.frames
           S == IF entered THEN Reported(th.stack, f) ELSE th.stack
           r == [th EXCEPT !.todo = Tail(th.todo), !.hits = th.hits + 1, !.frames = F, !.stack = S]
<1>1. /\ ThreadOK(th) /\ th \in ThreadRecs /\ th.frames \in Seq(FrameRecs)
      /\ th.stack \in Seq(ActivationRecs) /\ Depth(t) = Len(th.stack) /\ Depth(t) \in Nat
  BY ThreadTypes
<1>2. th.pc = "calls" /\ th.todo # <<>> /\ Head(th.todo).call = "hook" /\ Call(t) = Head(th.todo)
  BY DEF Running, Call
<1>3. /\ Paired(th, functions) /\ AllTrue(th.frames, th.stack, functions) /\ th.stack # <<>>
      /\ ReportPairs(th.last)
  BY <1>2 DEF PairInv, Paired
<1>4. Call(t) \in CallRecs /\ (th.at \in Rets => f = 0)
  BY <1>1, <1>2, CallAtHand
<1>5. f \in Addresses \cup {0}
  BY <1>4 DEF CallRecs
<1>6. ThreadOK(Hit(t)) /\ Hit(t).pc = "calls"
  BY <1>1, HitOK DEF HooksInv
<1>7. Hit(t) = r
  BY DEF Hit
<1> HIDE DEF F, S, f
<1>8. /\ r.pc = "calls" /\ r.at = th.at /\ r.stack = S /\ r.frames = F
      /\ r.todo = Tail(th.todo) /\ r.last = th.last
  BY <1>1, <1>2 DEF ThreadRecs
<1> HIDE DEF r
<1>9. CASE ~entered
  <2>1. F = th.frames /\ S = th.stack
    BY <1>9 DEF F, S
  <2>2. Paired(r, functions)
    BY <1>1, <1>2, <1>3, <1>8, <2>1, PassedPairs
  <2> QED
    BY <1>1, <1>6, <1>7, <1>8, <2>1, <2>2 DEF ThreadOK
<1>10. CASE entered
  <2>1. F = Tracked(t, f) /\ S = Reported(th.stack, f) /\ f \in Addresses /\ th.at \notin Rets
    BY <1>4, <1>5, <1>10 DEF F, S, f
  <2>2. Covers(S, th.stack) /\ Len(S) = Depth(t) /\ f \in S[Depth(t)].reported
    BY <1>1, <1>3, <2>1, ReportedCovers
  <2>3. AllTrue(th.frames, S, functions)
    BY <1>1, <1>3, <2>2, CoveredTrue
  <2>4. ASSUME NEW i \in DOMAIN F PROVE FrameTrue(F[i], S, functions)
    <3>1. \/ i \in DOMAIN th.frames /\ F[i] = th.frames[i]
          \/ F[i] = [fn |-> f, level |-> Depth(t), stale |-> f \notin functions]
      BY <1>1, <1>10, <2>1, <2>4, TrackedSays
    <3>2. CASE i \in DOMAIN th.frames /\ F[i] = th.frames[i]
      BY <2>3, <3>2 DEF AllTrue
    <3>3. CASE F[i] = [fn |-> f, level |-> Depth(t), stale |-> f \notin functions]
      <4> DEFINE x == [fn |-> f, level |-> Depth(t), stale |-> f \notin functions]
      <4>2. x.fn = f /\ x.level = Depth(t)
        OBVIOUS
      <4>3. x.stale = (f \notin functions)
        BY Zenon
      <4> HIDE DEF x
      <4>4. F[i] = x
        BY <3>3 DEF x
      <4>1. F[i].fn = f /\ F[i].level = Depth(t) /\ (~F[i].stale => f \in functions)
        BY <4>2, <4>3, <4>4
      <4> QED
        BY <1>1, <2>2, <4>1 DEF FrameTrue
    <3> QED
      BY <3>1, <3>2, <3>3
  <2>5. AllTrue(F, S, functions)
    BY <2>4 DEF AllTrue
  <2>6. S # <<>>
    BY <1>1, <1>3, <2>2, EmptySeq
  <2>7. Paired(r, functions)
    BY <1>3, <1>8, <2>1, <2>5, <2>6 DEF Paired, ReturnDue
  <2> QED
    BY <1>6, <1>7, <1>8, <2>2, <2>7 DEF ThreadOK
<1> QED
  BY <1>9, <1>10

LEMMA HookCallPairs ==
  ASSUME HooksInv, PairInv, NEW t \in Threads, HookCall(t)
  PROVE  PairInv'
<1> DEFINE h == Hit(t)
           F == IF Call(t).fn # 0 THEN Cancelled(h.frames, Call(t).fn) ELSE h.frames
           r == [h EXCEPT !.pc = "run", !.todo = <<>>, !.frames = F]
           S == SubSeq(r.stack, 1, Depth(t) - 1)
           G == LeftBehind(t, r.frames)
           q == [r EXCEPT !.stack = S, !.frames = G]
<1>1. Running(t, "hook") /\ ~Guarded(t) /\ OnlyThread
  BY DEF HookCall, OnlyCall
<1>2. Paired(h, functions) /\ h \in ThreadRecs /\ h.pc = "calls" /\ Len(h.stack) = Depth(t)
  BY <1>1, HitPairs
<1>3. /\ AllTrue(h.frames, h.stack, functions) /\ ReportPairs(h.last)
      /\ h.frames \in Seq(FrameRecs) /\ h.stack \in Seq(ActivationRecs)
  BY <1>2 DEF Paired, ThreadRecs
<1>4. \/ Replay(t, h) \/ Sets(t, h) \/ Sets(t, r) \/ Sets(t, q)
  BY DEF HookCall, Leaves, ReturnsAtOnce
<1>5. F \in Seq(FrameRecs) /\ AllTrue(F, h.stack, functions)
  <2>1. Len(h.frames) - 1 \in Int /\ Len(h.frames) - 1 <= Len(h.frames)
    BY <1>3, FrameLevels
  <2>2. Cancelled(h.frames, Call(t).fn) \in Seq(FrameRecs)
    BY <1>3, <2>1, Prefixes DEF Cancelled
  <2>3. AllTrue(Cancelled(h.frames, Call(t).fn), h.stack, functions)
    BY <1>3, CancelledTrue
  <2> QED
    BY <1>3, <2>2, <2>3
<1> HIDE DEF h, F
<1>6. r.pc = "run" /\ r.frames = F /\ r.stack = h.stack /\ r.last = h.last /\ r \in ThreadRecs
  BY <1>2, <1>5, EmptySeq DEF ThreadRecs
<1> HIDE DEF r
<1>7. Paired(r, functions)
  BY <1>3, <1>5, <1>6, PairedElsewhere
<1>8. NoneOnTop(G, h.stack) /\ G \in Seq(FrameRecs) /\ AllTrue(G, h.stack, functions)
  <2>1. r.frames \in Seq(FrameRecs) /\ AllTrue(r.frames, h.stack, functions) /\ Depth(t) = Len(h.stack)
    BY <1>2, <1>5, <1>6
  <2>2. NoneOnTop(G, h.stack)
    BY <2>1, LeftBehindSays
  <2>3. G \in Seq(FrameRecs)
    BY <2>1, MarkedRemarks DEF LeftBehind, Remarked
  <2>4. AllTrue(G, h.stack, functions)
    BY <2>1, MarkedTrue DEF LeftBehind
  <2> QED
    BY <2>2, <2>3, <2>4
<1>9. S = SubSeq(h.stack, 1, Len(h.stack) - 1)
  BY <1>2, <1>6
<1>10. AllTrue(G, S, functions)
  BY <1>3, <1>8, <1>9, PoppedTrue
<1> HIDE DEF G, S
<1>11. q.pc = "run" /\ q.frames = G /\ q.stack = S /\ q.last = h.last
  BY <1>6 DEF ThreadRecs
<1> HIDE DEF q
<1>12. Paired(q, functions)
  BY <1>3, <1>10, <1>11, PairedElsewhere
<1>13. CASE Replay(t, h)
  BY <1>1, <1>2, <1>13, ReplayPairs
<1>14. CASE Sets(t, h) \/ Sets(t, r) \/ Sets(t, q)
  BY <1>1, <1>2, <1>7, <1>12, <1>14, PairsKept
<1> QED
  BY <1>4, <1>13, <1>14

\* on_function_return_monitor: the frame that is taken is of this activation.
LEMMA ReturnCallPairs ==
  ASSUME HooksInv, PairInv, NEW t \in Threads, ReturnCall(t)
  PROVE  PairInv'
<1> DEFINE th == thread[t]
           f == Call(t).fn
           n == Len(th.frames)
           last == [fn |-> f, stale |-> th.frames[n].stale, reported |-> Top(t).reported]
           D == Tail(th.todo)
           F == SubSeq(th.frames, 1, n - 1)
           r == [th EXCEPT !.todo = D, !.returns = @ + 1, !.frames = F, !.last = last]
           p == [th EXCEPT !.todo = D]
<1>1. /\ ThreadOK(th) /\ th \in ThreadRecs /\ th.frames \in Seq(FrameRecs)
      /\ th.stack \in Seq(ActivationRecs) /\ Depth(t) = Len(th.stack) /\ Depth(t) \in Nat
      /\ Nested(th.frames)
  BY ThreadTypes
<1>2. Running(t, "return") /\ ~Guarded(t) /\ OnlyThread
  BY DEF ReturnCall, OnlyCall
<1>3. th.pc = "calls" /\ th.todo # <<>> /\ Call(t) = Head(th.todo) /\ Head(th.todo).call = "return"
  BY <1>2 DEF Running, Call
<1>4. /\ Paired(th, functions) /\ AllTrue(th.frames, th.stack, functions) /\ ReportPairs(th.last)
      /\ ReturnDue(th) /\ th.stack # <<>>
  BY <1>3 DEF PairInv, Paired
<1>5. \/ f \in functions /\ FrameMatches(t, f) /\ (Sets(t, r) \/ Replay(t, r))
      \/ ~(f \in functions /\ FrameMatches(t, f)) /\ Sets(t, p)
  BY DEF ReturnCall
<1>6. n \in Nat /\ DOMAIN th.frames = 1..n
  BY <1>1, FrameLevels
<1>7. CASE f \in functions /\ FrameMatches(t, f) /\ (Sets(t, r) \/ Replay(t, r))
  <2>1. n \in 1..n /\ th.frames[n].fn = f /\ th.frames[n].level = Len(th.stack)
    BY <1>1, <1>6, <1>7, EmptySeq DEF FrameMatches
  <2>2. Top(t) = th.stack[Len(th.stack)]
    BY <1>1 DEF Top
  <2>3. FrameTrue(th.frames[n], th.stack, functions)
    BY <1>4, <1>6, <2>1 DEF AllTrue
  <2>4. last # None => last.stale \/ last.fn \in last.reported
    <3>1. last.stale = th.frames[n].stale /\ last.fn = f /\ last.reported = Top(t).reported
      OBVIOUS
    <3> HIDE DEF last, n
    <3> QED
      BY <2>1, <2>2, <2>3, <3>1 DEF FrameTrue
  <2>5. F \in Seq(FrameRecs) /\ AllTrue(F, th.stack, functions)
        /\ \A i \in DOMAIN F : i \in DOMAIN th.frames /\ F[i] = th.frames[i] /\ i <= n - 1
    <3>1. n - 1 \in Int /\ n - 1 <= Len(th.frames)
      BY <1>6
    <3> QED
      BY <1>1, <1>4, <3>1, PrefixTrue, Prefixes
  <2>6. NoneOnTop(F, th.stack)
    <3> SUFFICES ASSUME NEW i \in DOMAIN F PROVE F[i].level # Len(th.stack)
      BY DEF NoneOnTop
    <3>1. i \in DOMAIN th.frames /\ n \in DOMAIN th.frames /\ i < n
      BY <1>6, <2>1, <2>5
    <3>2. th.frames[i].level < th.frames[n].level
      BY <1>1, <3>1 DEF Nested
    <3>3. th.frames[i].level \in Nat /\ F[i].level = th.frames[i].level
      BY <1>1, <2>5, <3>1, FrameLevels
    <3> HIDE DEF n, F, th
    <3> QED
      BY <1>1, <2>1, <3>2, <3>3
  <2>7. ThreadOK(r)
    <3>1. last \in Reports
      <4>1. th.frames[n] \in FrameRecs
        BY <1>1, <1>6, <2>1, FrameLevels
      <4>2. th.frames[n].stale \in BOOLEAN
        BY <4>1 DEF FrameRecs
      <4>3. Len(th.stack) \in 1..Len(th.stack)
        BY <1>1, <1>4, EmptySeq
      <4>4. Top(t).reported \subseteq Addresses
        <5>1. Top(t) \in ActivationRecs
          BY <1>1, <2>2, <4>3, ElementOfSeq
        <5> QED
          BY <5>1 DEF ActivationRecs
      <4>5. Call(t) \in CallRecs
        BY <1>1, <1>3, CallAtHand
      <4>6. f \in Addresses \cup {0}
        BY <4>5 DEF CallRecs
      <4> QED
        BY <4>2, <4>4, <4>6 DEF Reports
    <3> HIDE DEF last
    <3> QED
      BY <1>1, <1>2, <1>7, <3>1, ReturnedOK
  <2> HIDE DEF last, F, D
  <2>8. /\ r.pc = "calls" /\ r.stack = th.stack /\ r.frames = F /\ r.last = last
    BY <1>1, <1>3 DEF ThreadRecs
  <2>9. r \in ThreadRecs
    BY <2>7 DEF ThreadOK
  <2>10. Sets(t, r) \/ Replay(t, r)
    BY <1>7
  <2> HIDE DEF r
  <2>11. Paired(r, functions)
    BY <1>4, <2>4, <2>5, <2>6, <2>8 DEF Paired, ReturnDue, ReportPairs, NoneOnTop
  <2>12. CASE Sets(t, r)
    BY <1>2, <2>11, <2>12, PairsKept
  <2>13. CASE Replay(t, r)
    BY <1>2, <2>8, <2>9, <2>11, <2>13, ReplayPairs
  <2> QED
    BY <2>10, <2>12, <2>13
<1>8. CASE ~(f \in functions /\ FrameMatches(t, f)) /\ Sets(t, p)
  <2>1. ASSUME NEW i \in DOMAIN th.frames, ~th.frames[i].stale, th.frames[i].level = Len(th.stack),
               i = Len(th.frames)
        PROVE  Head(th.todo).fn # th.frames[i].fn
    <3> SUFFICES ASSUME f = th.frames[i].fn PROVE FALSE
      BY <1>3
    <3>1. f \in functions
      BY <1>4, <2>1 DEF AllTrue, FrameTrue
    <3>2. th.frames # <<>>
      BY <2>1
    <3>3. FrameMatches(t, f)
      BY <1>1, <2>1, <3>2 DEF FrameMatches
    <3> QED
      BY <1>8, <3>1, <3>3
  <2>2. /\ p.pc = "calls" /\ p.stack = th.stack /\ p.frames = th.frames /\ p.todo = Tail(th.todo)
        /\ p.at = th.at /\ p.last = th.last
    BY <1>1, <1>3 DEF ThreadRecs
  <2>3. Sets(t, p)
    BY <1>8
  <2> HIDE DEF p
  <2>4. Paired(p, functions)
    BY <1>1, <1>3, <1>4, <2>1, <2>2, PassedPairs
  <2> QED
    BY <1>2, <2>3, <2>4, PairsKept
<1> QED
  BY <1>5, <1>7, <1>8

\* A function that is no longer logged leaves stale frames behind.
LEMMA EditFunctionsPairs ==
  ASSUME HooksInv, PairInv, NEW w \in Writers, EditFunctions(w)
  PROVE  PairInv'
<1>1. PICK gone, new : functions' = (functions \cup new) \ gone /\ thread' = Unlogged(gone)
  <2> DEFINE o == writer[w]
             new == IF o.op = "set_batch" THEN Incoming(o.arg \cap hooks, functions) ELSE {}
             gone == CASE o.op = "remove" -> functions \cap o.arg
                       [] o.op = "clear" -> functions
                       [] OTHER -> {}
  <2>1. functions' = (functions \cup new) \ gone /\ thread' = Unlogged(gone)
    BY DEF EditFunctions
  <2> HIDE DEF new, gone
  <2> QED
    BY <2>1
<1> SUFFICES ASSUME NEW t \in Threads PROVE Paired(thread'[t], functions')
  BY DEF PairInv
<1> DEFINE th == thread[t]
           S == {i \in DOMAIN th.frames : th.frames[i].fn \in gone}
           G == Marked(th.frames, S)
           r == [th EXCEPT !.frames = G]
<1>2. thread'[t] = r
  BY <1>1 DEF Unlogged
<1>3. th \in ThreadRecs /\ th.frames \in Seq(FrameRecs)
  BY ThreadTypes
<1>4. /\ AllTrue(th.frames, th.stack, functions) /\ ReturnDue(th) /\ ReportPairs(th.last)
      /\ th.pc # "run" => th.stack # <<>>
  BY DEF PairInv, Paired
<1>5. /\ DOMAIN G = DOMAIN th.frames /\ Len(G) = Len(th.frames)
      /\ \A i \in DOMAIN th.frames :
           /\ G[i].fn = th.frames[i].fn /\ G[i].level = th.frames[i].level
           /\ ~G[i].stale => ~th.frames[i].stale /\ th.frames[i].fn \notin gone
  <2>1. \A i \in DOMAIN th.frames : i \notin S => th.frames[i].fn \notin gone
    OBVIOUS
  <2> HIDE DEF S
  <2> QED
    BY <1>3, <2>1, MarkedSays
<1> HIDE DEF G
<1>6. /\ r.pc = th.pc /\ r.stack = th.stack /\ r.frames = G /\ r.todo = th.todo
      /\ r.at = th.at /\ r.last = th.last
  BY <1>3 DEF ThreadRecs
<1> HIDE DEF r
<1>7. AllTrue(G, th.stack, functions')
  BY <1>1, <1>4, <1>5 DEF AllTrue, FrameTrue
<1>8. ReturnDue(r)
  BY <1>4, <1>5, <1>6 DEF ReturnDue, ReturnAhead
<1> QED
  BY <1>2, <1>4, <1>6, <1>7, <1>8 DEF Paired

LEMMA PairInit == Init => PairInv
<1>1. \A F : Paired(NewThread, F)
  BY DEF NewThread, Paired, AllTrue, ReturnDue, ReportPairs
<1> QED
  BY <1>1 DEF Init, PairInv

LEMMA PairNext == HooksInv /\ PairInv /\ [Next]_vars => PairInv'
<1> SUFFICES ASSUME HooksInv, PairInv, [Next]_vars PROVE PairInv'
  OBVIOUS
<1>1. ASSUME UNCHANGED <<thread, functions>> PROVE PairInv'
  BY <1>1 DEF PairInv
<1>2. ASSUME NEW w \in Writers, WriterStep(w) PROVE PairInv'
  <2>1. CASE EditFunctions(w)
    BY <2>1, EditFunctionsPairs
  <2>2. CASE ~EditFunctions(w)
    <3>1. UNCHANGED <<thread, functions>>
      BY <1>2, <2>2 DEF WriterStep, EditHooks, Reclaim, FreeRetired, DropSignatures, Flush, SetSignature, SetRule,
           ClearRules, PublishInterests, RefreshCallbacks, SetPolicies, StoreFlags, PublishPolicy,
           PolicyFlush, SetEngine, EngineFlush, sets
    <3> QED
      BY <1>1, <3>1
  <2> QED
    BY <2>1, <2>2
<1>3. ASSUME NEW t \in Threads, ThreadStep(t) PROVE PairInv'
  BY <1>3, JitPairs, FetchPairs, ApplicationPairs, LeavingPairs, TakeGuardPairs, HookCallPairs,
     ReturnCallPairs, ExecCallPairs DEF ThreadStep
<1>4. CASE EmitRoutineSnapshot \/ UNCHANGED vars
  BY <1>1, <1>4 DEF EmitRoutineSnapshot, vars, sets
<1> QED
  BY <1>2, <1>3, <1>4 DEF Next

\* However threads call, jump, return, unwind and are sent elsewhere by scripts,
\* and whoever changes the hooks meanwhile, a return is reported for an
\* activation whose entry was reported, or its frame outlived an edit or its
\* activation (hooks.rs:970-1026).
THEOREM ReturnsPaired == Spec => []ReturnsPair
<1>1. PairInv => ReturnsPair
  BY DEF PairInv, Paired, ReportPairs, ReturnsPair
<1> QED
  BY <1>1, HooksAlways, PairInit, PairNext, PTL DEF Spec

=============================================================================
