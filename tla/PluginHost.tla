------------------------------ MODULE PluginHost ------------------------------
(***************************************************************************)
(* The scripting host (scripting/host.rs, api.rs, mod.rs and the           *)
(* interceptors): one thread that takes load and unload commands from a    *)
(* mailbox, runs the plugins' Python code and keeps what the plugins own   *)
(* in native execution (breakpoints, hooks, execution traps, decision      *)
(* interests, policies) equal to what the registry says they own.          *)
(*                                                                         *)
(* Three actors share its state.  The host thread is sequential; host.at   *)
(* says which phase of its loop it is in and host.py whether Python is     *)
(* running in it, for the plugin under host.key.  The query server is      *)
(* single threaded: while it waits for the reply to a command it serves    *)
(* nobody, so a call of the host to it fails; otherwise it serves the host *)
(* and the debugger in any order, one connection at a time.  The           *)
(* application hits breakpoints and traps.                                 *)
(*                                                                         *)
(* Callbacks are arbitrary: while Python runs it makes any pb.* calls and  *)
(* returns anything or raises.  A once-only subscription is a choice made  *)
(* when it is called; a thread filter is left out, every subscription      *)
(* matches the thread.  The startup gate is open.                          *)
(***************************************************************************)
EXTENDS Naturals, Sequences, SequencesExt, PluginLeases, NativePolicies, ExecutionTrap

CONSTANTS Absent,       \* no plugin under a key
          Order,        \* the public plugin names, in the order they sort
          Addrs,        \* addresses of breakpoints and hooks
          SpecsOf(_),   \* the specifications a plugin may set, by policy kind
          MaxIds, MaxCommands, MaxCalls, MaxRuns, MaxStops,
          MaxInputs,        \* commands and stops together
          MaxDisturbances   \* requests of the debugger, refused flushes and timeouts

VARIABLES reg,      \* the registry: a plugin or Absent under every key
          held,     \* the replacement exec_one holds while the old one unloads
          pending,  \* compiled plugins, in the order they will run
          host,     \* where the host thread is
          mail,     \* the mailbox, SEND_WAITING, and requests the server read late
          native,   \* the breakpoint table and the hook points, and who set them
          bpOwn,    \* breakpoint leases and queued removals
          hookOwn,  \* hook leases and queued removals
          traps,    \* the execution trap table
          pub,      \* published decision interests and policies
          stop,     \* the breaker's stop: on, its generation, the address hit
          used      \* how much of each bound is used

vars == <<reg, held, pending, host, mail, native, bpOwn, hookOwn, traps, pub, stop, used>>

Names == Range(Order)
Staged == "staged"              \* the private key of a replacement
Keys == Names \cup {Staged}
Ids == 1..MaxIds
Syscalls == "syscalls"          \* an interceptor without a native point
Targets == Addrs \cup {Syscalls}
None == "none"
Actions == {"stay", "resume", "step_into", "step_over"}

\* Names are visited in their order: the first of a set, and those after one.
First(S) == Order[Min({i \in DOMAIN Order : Order[i] \in S})]
After(n) == {m \in Names : \E i, j \in DOMAIN Order : i < j /\ Order[i] = n /\ Order[j] = m}

Specifications == UNION {SpecsOf(k) : k \in PolicyKinds}

Plugin ==
    [state : {"running", "error", "staging", "replacing"}, quarantined : BOOLEAN,
     bps : SUBSET Ids, traps : SUBSET Nat,
     events : [Addrs -> Nat], decisions : [Targets -> Nat],
     policy : [PolicyKinds -> Specifications \cup {NoSpec}], seenGen : Nat]

\* A name appears once in the order; the private key of a replacement (a NUL
\* starts it) and the words for nothing are no names, and no address is one of
\* the words.
ASSUME HostAssumption ==
    /\ Order \in Seq(Names)
    /\ \A i, j \in DOMAIN Order : Order[i] = Order[j] => i = j
    /\ Names \cap {Staged, "held", None} = {}
    /\ Addrs \cap {Syscalls, None} = {}
    /\ Absent \notin Plugin
    /\ \A k \in PolicyKinds : NoSpec \notin SpecsOf(k)
    /\ TrapSlots \subseteq Nat
    /\ MaxIds \in Nat

FreshPlugin(state, gen) ==
    [state |-> state, quarantined |-> FALSE, bps |-> {}, traps |-> {},
     events |-> [a \in Addrs |-> 0], decisions |-> [t \in Targets |-> 0],
     policy |-> [k \in PolicyKinds |-> NoSpec], seenGen |-> gen]

NoCall == [op |-> None, addr |-> None, existed |-> FALSE]

\* batch: compiled plugins to execute, in load order; todo: plugins to call, in
\* the order of their names.
AtMail == [at |-> "mail", py |-> FALSE, key |-> None, batch |-> <<>>, todo |-> {},
           call |-> NoCall, gen |-> 0, id |-> 0, merged |-> None, votes |-> {}, target |-> None,
           changed |-> FALSE, valid |-> TRUE]

Init ==
    /\ reg = [k \in Keys |-> Absent]
    /\ held = Absent
    /\ pending = <<>>
    /\ host = AtMail
    /\ mail = [cmds |-> <<>>, waiting |-> FALSE, late |-> [bps |-> {}, hooks |-> {}]]
    /\ native = [bps |-> [i \in Ids |-> None], hooks |-> {}, nextId |-> 1,
                 dbgBps |-> {}, dbgHooks |-> {}]
    /\ bpOwn = EmptyLeases(Ids)
    /\ hookOwn = EmptyLeases(Addrs)
    /\ traps = EmptyTraps
    /\ pub = [interests |-> {}, policy |-> [k \in PolicyKinds |-> {}], refused |-> FALSE]
    /\ stop = [on |-> FALSE, gen |-> 0, addr |-> None]
    /\ used = [commands |-> 0, calls |-> 0, runs |-> 0, disturbances |-> 0]

-----------------------------------------------------------------------------
(* What is published from the registry                                     *)

Running(r) == {k \in Keys : r[k] # Absent /\ r[k].state = "running"}

Interests(r) == {u \in Running(r) \X Targets : r[u[1]].decisions[u[2]] > 0}

Specs(r) == [k \in PolicyKinds |-> [p \in Running(r) |-> r[p].policy[k]]]

publish_interests(r, p) == [p EXCEPT !.interests = Interests(r)]

\* refused: the decoder kept an older policy because Pin refused the flush.
WithPolicy(r, p, policy) ==
    [p EXCEPT !.policy = policy,
              !.refused = policy["xed_decode"] # Merged(Specs(r)["xed_decode"])]

refresh(r, p, flushed) ==
    WithPolicy(r, p, refresh_best_effort(Specs(r), p.policy, flushed))

Flushes == IF used.disturbances < MaxDisturbances THEN BOOLEAN ELSE {TRUE}

Spend(flushed) == [used EXCEPT !.disturbances = IF flushed THEN @ ELSE @ + 1]

-----------------------------------------------------------------------------
(* Ownership                                                               *)

\* Mutant: several subscriptions of one address give back one lease
HookUsesOnce(p) == [a \in Addrs |-> IF p.events[a] + p.decisions[a] > 0 THEN 1 ELSE 0]

\* Subscriptions of a plugin on every hook address: each holds one lease.
HookUses(p) == [a \in Addrs |-> p.events[a] + p.decisions[a]]

Drained(p) == [FreshPlugin(p.state, p.seenGen) EXCEPT !.quarantined = p.quarantined]

\* A plugin handles a breakpoint at most once.
BpUses(p) == [i \in Ids |-> IF i \in p.bps THEN 1 ELSE 0]

\* release_native_ownership of the plugins under the keys ks.
ReleaseBps(o, ks) ==
    release_all(o, [i \in Ids |-> Total([k \in ks |-> BpUses(reg[k])[i]])])

ReleaseHooks(o, ks) ==
    release_all(o, [a \in Addrs |-> Total([k \in ks |-> HookUses(reg[k])[a]])])

RemoveTraps(t, ks) == trap_remove(t, UNION {reg[k].traps : k \in ks})

Release(ks) ==
    /\ bpOwn' = ReleaseBps(bpOwn, ks)
    /\ hookOwn' = ReleaseHooks(hookOwn, ks)
    /\ traps' = RemoveTraps(traps, ks)

Failed(r) == {k \in Keys : r[k] # Absent /\ r[k].state = "error" /\ ~r[k].quarantined}

\* Runs after every phase that may have executed Python.
quarantine_error_plugins ==
    IF Failed(reg) = {}
    THEN UNCHANGED <<reg, bpOwn, hookOwn, traps, pub, used>>
    ELSE \E flushed \in Flushes :
         LET r == [k \in Keys |-> IF k \in Failed(reg)
                                  THEN [Drained(reg[k]) EXCEPT !.quarantined = TRUE] ELSE reg[k]]
         IN /\ reg' = r
            /\ Release(Failed(reg))
            /\ pub' = refresh(r, publish_interests(r, pub), flushed)
            /\ used' = Spend(flushed)

-----------------------------------------------------------------------------
(* The mailbox                                                             *)

Load(n) == [op |-> "load", name |-> n]
Unload(n) == [op |-> "unload", name |-> n]
UnloadAll == [op |-> "unload", name |-> None]

\* The server is idle, and everything it had not read yet is served.
ServerFree == ~mail.waiting /\ mail.late.bps = {} /\ mail.late.hooks = {}

\* Mutant: the host opens a connection for each request
HostServedBriefly == FALSE

\* The server reads one connection until its client closes it.  The host sends
\* its bp_list and the action that follows on the same one: between the two
\* nobody else is served.
HostServed == host.at = "act"

InputLeft == used.commands + stop.gen < MaxInputs

send_command(cmd) ==
    /\ ServerFree /\ ~HostServed
    /\ used.commands < MaxCommands /\ InputLeft
    /\ mail' = [mail EXCEPT !.cmds = Append(@, cmd), !.waiting = TRUE]
    /\ used' = [used EXCEPT !.commands = @ + 1]
    /\ UNCHANGED <<reg, held, pending, host, native, bpOwn, hookOwn, traps, pub, stop>>

\* The wait gives up after a minute; the command stays in the mailbox, and its
\* reply ends the wait of whichever command waits then.
SendTimesOut ==
    /\ mail.waiting
    /\ used.disturbances < MaxDisturbances
    /\ mail' = [mail EXCEPT !.waiting = FALSE]
    /\ used' = [used EXCEPT !.disturbances = @ + 1]
    /\ UNCHANGED <<reg, held, pending, host, native, bpOwn, hookOwn, traps, pub, stop>>

Replied == [mail EXCEPT !.cmds = Tail(@), !.waiting = FALSE]

\* Compiles the source, which may fail; a newer load of a name replaces the
\* older one, of which there is at most one.
cmd_load ==
    /\ host.at = "mail" /\ mail.cmds # <<>> /\ Head(mail.cmds).op = "load"
    /\ mail' = Replied
    /\ \/ LET n == Head(mail.cmds).name
          IN pending' = Append(RemoveFirst(pending, n), n)
       \/ UNCHANGED pending
    /\ UNCHANGED <<reg, held, host, native, bpOwn, hookOwn, traps, pub, stop, used>>

\* The plugins a command unloads; an empty name means all of them, in the order
\* of the hash table, which may be any.
ToUnload(cmd) ==
    {n \in Names : reg[n] # Absent /\ cmd.name \in {None, n}}

cmd_unload ==
    /\ host.at = "mail" /\ mail.cmds # <<>> /\ Head(mail.cmds).op = "unload"
    /\ LET names == ToUnload(Head(mail.cmds))
       IN IF names = {}
          THEN mail' = Replied /\ UNCHANGED host
          ELSE \E n \in names :
                 /\ host' = [host EXCEPT !.at = "unload", !.py = TRUE, !.key = n,
                                         !.todo = names \ {n}]
                 /\ UNCHANGED mail
    /\ UNCHANGED <<reg, held, pending, native, bpOwn, hookOwn, traps, pub, stop, used>>

\* Python runs in plugin n of todo; where the code sorts them, in the first.
CallPlugin(n) == [host EXCEPT !.py = TRUE, !.key = n, !.todo = @ \ {n}]
CallFirst == CallPlugin(First(host.todo))

\* on_unload has returned, or raised: both are the same.
retire_plugin ==
    /\ host.at = "unload" /\ host.py /\ host.call = NoCall
    /\ \E flushed \in Flushes :
         LET r == [reg EXCEPT ![host.key] = Absent]
         IN /\ reg' = r
            /\ Release({host.key})
            /\ pub' = refresh(r, publish_interests(r, pub), flushed)
            /\ used' = Spend(flushed)
    /\ IF host.todo = {}
       THEN host' = AtMail /\ mail' = Replied
       ELSE \E n \in host.todo : host' = CallPlugin(n) /\ UNCHANGED mail
    /\ UNCHANGED <<held, pending, native, stop>>

-----------------------------------------------------------------------------
(* Loading and replacing                                                   *)

BeginTick ==
    /\ host.at = "mail" /\ mail.cmds = <<>> /\ ~mail.waiting
    /\ host' = [AtMail EXCEPT !.at = "exec", !.batch = pending]
    /\ pending' = <<>>
    /\ UNCHANGED <<reg, held, mail, native, bpOwn, hookOwn, traps, pub, stop, used>>

\* A name that is taken initializes under a private key, invisible to every
\* publication, while the old plugin keeps running.
ExecBegin ==
    /\ host.at = "exec" /\ ~host.py /\ host.batch # <<>>
    /\ LET n == Head(host.batch)
           gen == IF mail.waiting THEN 0 ELSE stop.gen
           key == IF reg[n] = Absent THEN n ELSE Staged
       IN /\ reg' = [reg EXCEPT ![key] =
                        FreshPlugin(IF key = n THEN "running" ELSE "staging", gen)]
          /\ host' = [host EXCEPT !.py = TRUE, !.key = key]
    /\ UNCHANGED <<held, pending, mail, native, bpOwn, hookOwn, traps, pub, stop, used>>

ExecDone == [host EXCEPT !.py = FALSE, !.key = None, !.batch = Tail(@), !.at = "exec"]

\* The top level or pb_init raised.
ExecFails ==
    /\ host.at = "exec" /\ host.py /\ host.call = NoCall
    /\ \E flushed \in Flushes :
         LET r == IF host.key = Staged
                  THEN [reg EXCEPT ![Staged] = Absent]
                  ELSE [reg EXCEPT ![host.key].state = "error"]
         IN /\ reg' = r
            /\ IF host.key = Staged THEN Release({Staged})
               ELSE UNCHANGED <<bpOwn, hookOwn, traps>>
            /\ pub' = refresh(r, publish_interests(r, pub), flushed)
            /\ used' = Spend(flushed)
    /\ host' = ExecDone
    /\ UNCHANGED <<held, pending, mail, native, stop>>

ExecLoads ==
    /\ host.at = "exec" /\ host.py /\ host.call = NoCall /\ host.key # Staged
    /\ host' = ExecDone
    /\ UNCHANGED <<reg, held, pending, mail, native, bpOwn, hookOwn, traps, pub, stop, used>>

\* The registry with the replacement of n visible instead of n.
Switched(n) == [reg EXCEPT ![n].state = "replacing", ![Staged].state = "running"]

\* Mutant: the rollback leaves the rejected policies in force
AfterRollbackStale(r, p, flushed) == publish_interests(r, p)

\* What the rollback publishes, from the registry r it restored.
AfterRollback(r, p, flushed) == refresh(r, publish_interests(r, p), flushed)

\* The staged plugin is ready: its policies are validated against every other
\* running plugin, and refused policies roll the whole stage back.
ReplaceRejected ==
    /\ host.at = "exec" /\ host.py /\ host.call = NoCall /\ host.key = Staged
    /\ \E flushed, again \in Flushes :
         LET shown == Switched(Head(host.batch))
             r == [reg EXCEPT ![Staged] = Absent]
             tried == WithPolicy(shown, pub, refresh_best_effort(Specs(shown), pub.policy, flushed))
         IN /\ publish_checked_fails(Specs(shown), pub.policy, flushed)
            /\ reg' = r
            /\ Release({Staged})
            /\ pub' = AfterRollback(r, tried, again)
            /\ used' = Spend(flushed /\ again)
    /\ host' = ExecDone
    /\ UNCHANGED <<held, pending, mail, native, stop>>

\* Otherwise the policies are in force; the replacement leaves the registry and
\* the old plugin's on_unload runs.
ReplaceAccepted ==
    /\ host.at = "exec" /\ host.py /\ host.call = NoCall /\ host.key = Staged
    /\ LET n == Head(host.batch)
           shown == Switched(n)
       IN /\ ~publish_checked_fails(Specs(shown), pub.policy, TRUE)
          /\ pub' = WithPolicy(shown, pub, refresh_best_effort(Specs(shown), pub.policy, TRUE))
          /\ held' = shown[Staged]
          /\ reg' = [shown EXCEPT ![Staged] = Absent]
          /\ host' = [host EXCEPT !.at = "commit", !.key = n]
    /\ UNCHANGED <<pending, mail, native, bpOwn, hookOwn, traps, stop, used>>

ReplaceCommit ==
    /\ host.at = "commit" /\ host.py /\ host.call = NoCall
    /\ \E flushed \in Flushes :
         LET r == [reg EXCEPT ![host.key] = held]
         IN /\ reg' = r
            /\ Release({host.key})
            /\ pub' = refresh(r, publish_interests(r, pub), flushed)
            /\ used' = Spend(flushed)
    /\ held' = Absent
    /\ host' = ExecDone
    /\ UNCHANGED <<pending, mail, native, stop>>

ExecEnds ==
    /\ host.at = "exec" /\ ~host.py /\ host.batch = <<>>
    /\ quarantine_error_plugins
    /\ host' = [host EXCEPT !.at = "sync"]
    /\ UNCHANGED <<held, pending, mail, native, stop>>

-----------------------------------------------------------------------------
(* pb.* calls, made while Python runs in the plugin under host.key         *)

Calling ==
    /\ host.py /\ host.call = NoCall
    /\ used.calls < MaxCalls

Called == used' = [used EXCEPT !.calls = @ + 1]

\* A request to the query server fails at once while the server waits for the
\* host, and in a decision callback, for which the application waits.
RpcFails == mail.waiting \/ host.at = "sync"
RpcServed == ServerFree /\ host.at # "sync"

Me == reg[host.key]
SetMe(p) == reg' = [reg EXCEPT ![host.key] = p]

IdsAt(a) == {i \in Ids : native.bps[i] = a}

\* pb.breakpoint and the hook subscriptions first list what exists ...
AskExisting(op, a) ==
    /\ Calling /\ RpcServed
    /\ host' = [host EXCEPT !.call =
           [op |-> op, addr |-> a,
            existed |-> IF op = "breakpoint" THEN IdsAt(a) # {} ELSE a \in native.hooks]]
    /\ Called
    /\ UNCHANGED <<reg, held, pending, mail, native, bpOwn, hookOwn, traps, pub, stop>>

CallEnds == host' = [host EXCEPT !.call = NoCall]

\* ... and then set it.  A breakpoint the plugin already handles keeps its lease.
\* A point that existed when it was listed counts as the debugger's, even when
\* the debugger has removed it since and the script creates it anew.
pb_breakpoint ==
    /\ host.call.op = "breakpoint" /\ RpcServed
    /\ LET a == host.call.addr
           id == IF IdsAt(a) # {} THEN CHOOSE i \in IdsAt(a) : TRUE ELSE native.nextId
       IN /\ id \in Ids
          /\ native' = [native EXCEPT !.bps[id] = a,
                                      !.nextId = IF id = @ THEN @ + 1 ELSE @,
                                      !.dbgBps = IF host.call.existed /\ id \notin IdsAt(a)
                                                 THEN @ \cup {id} ELSE @]
          /\ SetMe([Me EXCEPT !.bps = @ \cup {id}])
          /\ bpOwn' = IF id \in Me.bps THEN bpOwn ELSE acquire(bpOwn, id, ~host.call.existed)
    /\ CallEnds
    /\ UNCHANGED <<held, pending, mail, hookOwn, traps, pub, stop, used>>

HookSet(a) ==
    [native EXCEPT !.hooks = @ \cup {a},
                   !.dbgHooks = IF host.call.existed /\ a \notin native.hooks
                                THEN @ \cup {a} ELSE @]

pb_on_event ==
    /\ host.call.op = "on" /\ RpcServed
    /\ LET a == host.call.addr
       IN /\ native' = HookSet(a)
          /\ SetMe([Me EXCEPT !.events[a] = @ + 1])
          /\ hookOwn' = acquire(hookOwn, a, ~host.call.existed)
    /\ CallEnds
    /\ UNCHANGED <<held, pending, mail, bpOwn, traps, pub, stop, used>>

pb_intercept_hook ==
    /\ host.call.op = "intercept" /\ RpcServed
    /\ LET a == host.call.addr
           p == [Me EXCEPT !.decisions[a] = @ + 1]
       IN /\ native' = HookSet(a)
          /\ SetMe(p)
          /\ pub' = publish_interests([reg EXCEPT ![host.key] = p], pub)
          /\ hookOwn' = acquire(hookOwn, a, ~host.call.existed)
    /\ CallEnds
    /\ UNCHANGED <<held, pending, mail, bpOwn, traps, stop, used>>

\* The second request fails: what was inserted is taken out again and the
\* interests are published once more.
SecondRequestFails ==
    /\ host.call # NoCall /\ RpcFails
    /\ CallEnds
    /\ pub' = IF host.call.op = "intercept" THEN publish_interests(reg, pub) ELSE pub
    /\ UNCHANGED <<reg, held, pending, mail, native, bpOwn, hookOwn, traps, stop, used>>

NativeWithout(ids) ==
    [native EXCEPT !.bps = [i \in Ids |-> IF i \in ids THEN None ELSE native.bps[i]],
                   !.dbgBps = @ \ ids]

pb_breakpoint_remove(id) ==
    /\ Calling /\ (RpcServed \/ RpcFails)
    /\ id \in Me.bps
    /\ SetMe([Me EXCEPT !.bps = @ \ {id}])
    /\ IF RpcServed /\ release_removes(bpOwn, id)
       THEN bpOwn' = release(bpOwn, id) /\ native' = NativeWithout({id})
       ELSE bpOwn' = release_or_queue(bpOwn, id) /\ UNCHANGED native
    /\ Called
    /\ UNCHANGED <<held, pending, host, mail, hookOwn, traps, pub, stop>>

pb_off_event(a) ==
    /\ Calling /\ Me.events[a] > 0
    /\ SetMe([Me EXCEPT !.events[a] = @ - 1])
    /\ hookOwn' = release_or_queue(hookOwn, a)
    /\ Called
    /\ UNCHANGED <<held, pending, host, mail, native, bpOwn, traps, pub, stop>>

\* An interceptor without a native point: syscalls, exceptions, the debugger.
pb_intercept ==
    /\ Calling
    /\ LET p == [Me EXCEPT !.decisions[Syscalls] = @ + 1]
       IN SetMe(p) /\ pub' = publish_interests([reg EXCEPT ![host.key] = p], pub)
    /\ Called
    /\ UNCHANGED <<held, pending, host, mail, native, bpOwn, hookOwn, traps, stop>>

pb_unintercept(t) ==
    /\ Calling /\ Me.decisions[t] > 0
    /\ LET p == [Me EXCEPT !.decisions[t] = @ - 1]
       IN SetMe(p) /\ pub' = publish_interests([reg EXCEPT ![host.key] = p], pub)
    /\ hookOwn' = IF t \in Addrs THEN release_or_queue(hookOwn, t) ELSE hookOwn
    /\ Called
    /\ UNCHANGED <<held, pending, host, mail, native, bpOwn, traps, stop>>

pb_execution_trap(oneShot) ==
    /\ Calling /\ FreeSlots(traps) # {}
    /\ \E flushed \in Flushes :
         /\ traps' = trap_set(traps, oneShot, flushed)
         /\ IF flushed THEN SetMe([Me EXCEPT !.traps = @ \cup {traps.nextId}])
            ELSE UNCHANGED reg
         /\ used' = [Spend(flushed) EXCEPT !.calls = @ + 1]
    /\ UNCHANGED <<held, pending, host, mail, native, bpOwn, hookOwn, pub, stop>>

pb_execution_trap_remove(id) ==
    /\ Calling /\ id \in Me.traps
    /\ SetMe([Me EXCEPT !.traps = @ \ {id}])
    /\ traps' = trap_remove(traps, {id})
    /\ Called
    /\ UNCHANGED <<held, pending, host, mail, native, bpOwn, hookOwn, pub, stop>>

\* Replaces or clears (NoSpec) this plugin's specification and publishes the
\* kind; on an error the old one is restored and everything published again.
PolicyCall(kind, spec) ==
    /\ Calling
    /\ \E flushed, again \in Flushes :
         LET r == [reg EXCEPT ![host.key].policy[kind] = spec]
             out == publish(kind, Specs(r)[kind], pub.policy[kind], flushed)
             tried == WithPolicy(r, pub, [pub.policy EXCEPT ![kind] = out.value])
         IN /\ reg' = IF out.failed THEN reg ELSE r
            /\ pub' = IF out.failed THEN refresh(reg, tried, again) ELSE tried
            /\ used' = [Spend(flushed /\ again) EXCEPT !.calls = @ + 1]
    /\ UNCHANGED <<held, pending, host, mail, native, bpOwn, hookOwn, traps, stop>>

pb_instrumentation_set == \E s \in SpecsOf("instrumentation") : PolicyCall("instrumentation", s)
pb_memory_translation_set ==
    \E s \in SpecsOf("memory_translation") : PolicyCall("memory_translation", s)
pb_code_fetch_set == \E s \in SpecsOf("code_fetch") : PolicyCall("code_fetch", s)
pb_xed_decode_set == \E s \in SpecsOf("xed_decode") : PolicyCall("xed_decode", s)

PolicyClear(kind) == Me.policy[kind] # NoSpec /\ PolicyCall(kind, NoSpec)
pb_instrumentation_clear == host.py /\ PolicyClear("instrumentation")
pb_memory_translation_clear == host.py /\ PolicyClear("memory_translation")
pb_code_fetch_clear == host.py /\ PolicyClear("code_fetch")
pb_xed_decode_clear == host.py /\ PolicyClear("xed_decode")

\* Resume completes the stop: traps may claim again.
Resumed ==
    /\ stop.on
    /\ stop' = [stop EXCEPT !.on = FALSE, !.addr = None]
    /\ traps' = trap_on_resume(traps)

pb_resume ==
    /\ Calling /\ RpcServed
    /\ Resumed
    /\ Called
    /\ UNCHANGED <<reg, held, pending, host, mail, native, bpOwn, hookOwn, pub>>

-----------------------------------------------------------------------------
(* Decision callbacks                                                      *)

\* The application waits for a decision on t.  The handlers are those of the
\* published index that still run.
DecideBegin(t) ==
    /\ host.at = "sync" /\ ~host.py /\ host.target = None
    /\ used.runs < MaxRuns
    /\ \E k \in Keys : <<k, t>> \in pub.interests
    /\ host' = [host EXCEPT !.target = t, !.changed = FALSE, !.valid = TRUE,
                            !.todo = {n \in Names : /\ <<n, t>> \in pub.interests
                                                    /\ <<n, t>> \in Interests(reg)}]
    /\ used' = [used EXCEPT !.runs = @ + 1]
    /\ UNCHANGED <<reg, held, pending, mail, native, bpOwn, hookOwn, traps, pub, stop>>

DecideCall ==
    /\ host.at = "sync" /\ ~host.py /\ host.target # None /\ host.todo # {}
    /\ host' = CallFirst
    /\ UNCHANGED <<reg, held, pending, mail, native, bpOwn, hookOwn, traps, pub, stop, used>>

\* The callback returned a response that merged, or failed; a once-only one is
\* gone unless it removed itself.
DecideReturn(failed, once) ==
    /\ host.at = "sync" /\ host.py
    /\ LET t == host.target
           gone == once /\ Me.decisions[t] > 0
       IN /\ SetMe([Me EXCEPT !.state = IF failed THEN "error" ELSE @,
                              !.decisions[t] = IF gone THEN @ - 1 ELSE @])
          /\ hookOwn' = IF gone /\ t \in Addrs THEN release_or_queue(hookOwn, t) ELSE hookOwn
          /\ host' = [host EXCEPT !.py = FALSE, !.key = None,
                                  !.changed = @ \/ failed \/ gone, !.valid = @ /\ ~failed]
    /\ UNCHANGED <<held, pending, mail, native, bpOwn, traps, pub, stop, used>>

DecideEnd ==
    /\ host.at = "sync" /\ ~host.py /\ host.target # None /\ host.todo = {}
    /\ \E flushed \in Flushes :
         LET shown == IF host.changed THEN publish_interests(reg, pub) ELSE pub
         IN /\ pub' = IF host.valid THEN shown ELSE refresh(reg, shown, flushed)
            /\ used' = IF host.valid THEN used ELSE Spend(flushed)
    /\ host' = [AtMail EXCEPT !.at = "sync"]
    /\ UNCHANGED <<reg, held, pending, mail, native, bpOwn, hookOwn, traps, stop>>

SyncEnds ==
    /\ host.at = "sync" /\ ~host.py /\ host.target = None
    /\ quarantine_error_plugins
    /\ host' = [AtMail EXCEPT !.at = "connected"]
    /\ UNCHANGED <<held, pending, mail, native, stop>>

-----------------------------------------------------------------------------
(* The connected phase and the stop                                        *)

\* A waiting command sends the host back to its mailbox.
TickCut ==
    /\ host.at = "connected" /\ mail.waiting
    /\ host' = AtMail
    /\ UNCHANGED <<reg, held, pending, mail, native, bpOwn, hookOwn, traps, pub, stop, used>>

\* Plugins that handle the breakpoint hit and have not seen this stop.
Handlers(id) ==
    {n \in Names : /\ n \in Running(reg)
                   /\ id \in reg[n].bps
                   /\ reg[n].seenGen < stop.gen}

\* After the last handler every plugin's events are dispatched.
EventsNext(h) ==
    IF h.todo # {} THEN h
    ELSE [h EXCEPT !.at = "events", !.todo = {n \in Names : reg[n] # Absent}]

\* One round trip: queued removals (one that fails is queued again), the stop,
\* and who handles it.  A breakpoint the debugger owns starts from stay.
Connected ==
    /\ host.at = "connected" /\ ServerFree
    /\ native' = NativeWithout(bpOwn.queue)
    /\ bpOwn' = [bpOwn EXCEPT !.queue = {i \in @ : native.bps[i] = None}]
    /\ LET hit == IF stop.on /\ stop.addr # None
                  THEN {i \in Ids : native'.bps[i] = stop.addr} ELSE {}
           id == IF hit = {} THEN 0 ELSE CHOOSE i \in hit : TRUE
           todo == IF hit = {} THEN {} ELSE Handlers(id)
           owned == todo # {} /\ has_external_owner(bpOwn, id)
       IN host' = EventsNext([AtMail EXCEPT
                      !.at = "bound", !.gen = stop.gen, !.id = id, !.todo = todo,
                      !.merged = IF owned THEN "stay" ELSE None,
                      !.votes = IF owned THEN {"stay"} ELSE {}])
    /\ UNCHANGED <<reg, held, pending, mail, hookOwn, traps, pub, stop, used>>

BoundCall ==
    /\ host.at = "bound" /\ ~host.py /\ host.todo # {}
    /\ host' = CallFirst
    /\ UNCHANGED <<reg, held, pending, mail, native, bpOwn, hookOwn, traps, pub, stop, used>>

\* One decision out of two.  A step is stricter than a resume; two different
\* steps, or anything with a stay, stay.
merge_action(current, next) ==
    CASE current = None -> next
      [] current = next -> current
      [] current = "resume" /\ next # "stay" -> next
      [] next = "resume" /\ current \notin {None, "stay"} -> current
      [] OTHER -> "stay"

\* The callback returned an action, or failed, which is a stay.
BoundReturn(action, failed, once) ==
    /\ host.at = "bound" /\ host.py /\ host.call = NoCall
    /\ failed => action = "stay"
    /\ LET gone == once /\ host.id \in Me.bps
       IN /\ SetMe([Me EXCEPT !.seenGen = host.gen,
                              !.state = IF failed THEN "error" ELSE @,
                              !.bps = IF gone THEN @ \ {host.id} ELSE @])
          /\ bpOwn' = IF gone THEN release_or_queue(bpOwn, host.id) ELSE bpOwn
    /\ \E flushed \in Flushes :
         /\ pub' = IF failed THEN refresh(reg', pub, flushed) ELSE pub
         /\ used' = IF failed THEN Spend(flushed) ELSE used
    /\ host' = EventsNext([host EXCEPT !.py = FALSE, !.key = None,
                                       !.merged = merge_action(@, action),
                                       !.votes = @ \cup {action}])
    /\ UNCHANGED <<held, pending, mail, native, hookOwn, traps, stop>>

\* The asynchronous events of the plugins, in order; the ones skipped have none.
DispatchCall ==
    /\ host.at = "events" /\ ~host.py /\ ~mail.waiting
    /\ used.runs < MaxRuns
    /\ \E n \in host.todo \cap Running(reg) :
         host' = [host EXCEPT !.py = TRUE, !.key = n, !.todo = @ \cap After(n)]
    /\ used' = [used EXCEPT !.runs = @ + 1]
    /\ UNCHANGED <<reg, held, pending, mail, native, bpOwn, hookOwn, traps, pub, stop>>

\* Written back when the plugin's callbacks have returned: an error, and the
\* once-only handlers that were called.
DispatchReturn(failed, once) ==
    /\ host.at = "events" /\ host.py /\ host.call = NoCall
    /\ once \subseteq {a \in Addrs : Me.events[a] > 0}
    /\ SetMe([Me EXCEPT !.state = IF failed THEN "error" ELSE @,
                        !.events = [a \in Addrs |-> IF a \in once THEN @[a] - 1 ELSE @[a]]])
    /\ hookOwn' = release_all(hookOwn, [a \in once |-> 1])
    /\ \E flushed \in Flushes :
         /\ pub' = IF failed THEN refresh(reg', pub, flushed) ELSE pub
         /\ used' = IF failed THEN Spend(flushed) ELSE used
    /\ host' = [host EXCEPT !.py = FALSE, !.key = None]
    /\ UNCHANGED <<held, pending, mail, native, bpOwn, traps, stop>>

\* No plugin left has an event, or a waiting command ends the dispatch.
DispatchEnds ==
    /\ host.at = "events" /\ ~host.py
    /\ quarantine_error_plugins
    /\ host' = [host EXCEPT !.at = "apply", !.todo = {}]
    /\ UNCHANGED <<held, pending, mail, native, stop>>

\* Removals first.  Here nothing checks for a waiting command: the server then
\* reads the requests when it is free again, and to the host they failed, which
\* drops a breakpoint's removal and queues a hook's again.
apply_removals ==
    IF mail.waiting
    THEN /\ mail' = [mail EXCEPT !.late.bps = @ \cup bpOwn.queue,
                                 !.late.hooks = @ \cup hookOwn.queue]
         /\ bpOwn' = take_removals(bpOwn)
         /\ UNCHANGED <<native, hookOwn>>
    ELSE /\ native' = [NativeWithout(bpOwn.queue) EXCEPT
                          !.hooks = @ \ hookOwn.queue, !.dbgHooks = @ \ hookOwn.queue]
         /\ bpOwn' = take_removals(bpOwn)
         /\ hookOwn' = take_removals(hookOwn)
         /\ UNCHANGED mail

\* The stop the handlers decided on is still the current one.
SameStop == stop.on /\ stop.gen = host.gen

\* The removals, then bp_list and the comparison, on one connection.  A server
\* that waits for the host answers none of them, and then there is no action.
apply_stop_action ==
    /\ host.at = "apply"
    /\ mail.waiting \/ ServerFree
    /\ apply_removals
    /\ host' = IF host.merged \notin {None, "stay"} /\ ~mail.waiting /\ SameStop
               THEN [host EXCEPT !.at = "act"] ELSE AtMail
    /\ UNCHANGED <<reg, held, pending, traps, pub, stop, used>>

\* The resume or the step itself, the next request.  It names no stop: the
\* server does it to the stop it finds, and refuses it when there is none.
Act ==
    /\ host.at = "act" /\ ServerFree
    /\ IF stop.on THEN Resumed ELSE UNCHANGED <<stop, traps>>
    /\ host' = AtMail
    /\ UNCHANGED <<reg, held, pending, mail, native, bpOwn, hookOwn, pub, used>>

-----------------------------------------------------------------------------
(* The query server for others, and the application                        *)

ServeLate ==
    /\ ~mail.waiting /\ ~ServerFree
    /\ native' = [NativeWithout(mail.late.bps) EXCEPT
                     !.hooks = @ \ mail.late.hooks, !.dbgHooks = @ \ mail.late.hooks]
    /\ mail' = [mail EXCEPT !.late = [bps |-> {}, hooks |-> {}]]
    /\ UNCHANGED <<reg, held, pending, host, bpOwn, hookOwn, traps, pub, stop, used>>

External ==
    /\ ServerFree /\ ~HostServed /\ used.disturbances < MaxDisturbances
    /\ used' = [used EXCEPT !.disturbances = @ + 1]
    /\ UNCHANGED <<reg, held, pending, host, mail, pub>>

\* A set of an address the scripts lease adds an owner, unless a script is
\* setting that very address.
handle_bp_set(a) ==
    /\ External
    /\ LET id == IF IdsAt(a) # {} THEN CHOOSE i \in IdsAt(a) : TRUE ELSE native.nextId
           script == host.call.op = "breakpoint" /\ host.call.addr = a
       IN /\ id \in Ids
          /\ native' = [native EXCEPT !.bps[id] = a, !.dbgBps = @ \cup {id},
                                      !.nextId = IF id = @ THEN @ + 1 ELSE @]
          /\ bpOwn' = IF script \/ bpOwn.lease[id].n = 0
                      THEN bpOwn ELSE mark_external_owner(bpOwn, id)
    /\ UNCHANGED <<hookOwn, traps, stop>>

handle_bp_remove(id) ==
    /\ External
    /\ native.bps[id] # None
    /\ native' = NativeWithout({id})
    /\ UNCHANGED <<bpOwn, hookOwn, traps, stop>>

handle_hook_set(a) ==
    /\ External
    /\ native' = [native EXCEPT !.hooks = @ \cup {a}, !.dbgHooks = @ \cup {a}]
    /\ UNCHANGED <<bpOwn, hookOwn, traps, stop>>

handle_hook_remove(a) ==
    /\ External
    /\ a \in native.hooks
    /\ native' = [native EXCEPT !.hooks = @ \ {a}, !.dbgHooks = @ \ {a}]
    /\ UNCHANGED <<bpOwn, hookOwn, traps, stop>>

handle_resume ==
    /\ External
    /\ Resumed
    /\ UNCHANGED <<native, bpOwn, hookOwn>>

\* The world stops with the hit as its reason, and a claimed trap is published.
StopsAt(a) ==
    /\ ~stop.on /\ stop.gen < MaxStops /\ InputLeft
    /\ stop' = [stop EXCEPT !.on = TRUE, !.gen = @ + 1, !.addr = a]
    /\ traps' = publish_stopped(traps)
    /\ UNCHANGED <<reg, held, pending, host, mail, native, bpOwn, hookOwn, pub, used>>

BreakpointHit(a) == IdsAt(a) # {} /\ StopsAt(a)

TrapClaim ==
    /\ ~stop.on /\ CanClaim(traps)
    /\ traps' = on_execute(traps)
    /\ UNCHANGED <<reg, held, pending, host, mail, native, bpOwn, hookOwn, pub, stop, used>>

TrapStop == traps.mask # {} /\ StopsAt(None)

-----------------------------------------------------------------------------
PythonCalls ==
    \/ \E a \in Addrs : \E op \in {"breakpoint", "on", "intercept"} : AskExisting(op, a)
    \/ pb_breakpoint
    \/ pb_on_event
    \/ pb_intercept_hook
    \/ SecondRequestFails
    \/ \E id \in Ids : Calling /\ pb_breakpoint_remove(id)
    \/ \E a \in Addrs : Calling /\ pb_off_event(a)
    \/ pb_intercept
    \/ \E t \in Targets : Calling /\ pb_unintercept(t)
    \/ \E oneShot \in BOOLEAN : pb_execution_trap(oneShot)
    \/ \E id \in 1..traps.nextId : Calling /\ pb_execution_trap_remove(id)
    \/ pb_instrumentation_set \/ pb_memory_translation_set
    \/ pb_code_fetch_set \/ pb_xed_decode_set
    \/ pb_instrumentation_clear \/ pb_memory_translation_clear
    \/ pb_code_fetch_clear \/ pb_xed_decode_clear
    \/ pb_resume

HostSteps ==
    \/ cmd_load \/ cmd_unload \/ retire_plugin
    \/ BeginTick \/ ExecBegin \/ ExecFails \/ ExecLoads
    \/ ReplaceRejected \/ ReplaceAccepted \/ ReplaceCommit \/ ExecEnds
    \/ \E t \in Targets : DecideBegin(t)
    \/ DecideCall
    \/ \E failed, once \in BOOLEAN : DecideReturn(failed, once)
    \/ DecideEnd \/ SyncEnds
    \/ TickCut \/ Connected \/ BoundCall
    \/ \E action \in Actions : \E failed, once \in BOOLEAN : BoundReturn(action, failed, once)
    \/ DispatchCall
    \/ \E failed \in BOOLEAN : \E once \in SUBSET Addrs : DispatchReturn(failed, once)
    \/ DispatchEnds \/ apply_stop_action \/ Act

Others ==
    \/ \E n \in Names : send_command(Load(n)) \/ send_command(Unload(n))
    \/ send_command(UnloadAll)
    \/ SendTimesOut
    \/ ServeLate
    \/ \E a \in Addrs : \/ handle_bp_set(a) \/ handle_hook_set(a) \/ handle_hook_remove(a)
                        \/ BreakpointHit(a)
    \/ \E id \in Ids : handle_bp_remove(id)
    \/ handle_resume
    \/ TrapClaim \/ TrapStop

Next == PythonCalls \/ HostSteps \/ Others

Spec == Init /\ [][Next]_vars

-----------------------------------------------------------------------------
(* Properties                                                              *)

Plugins == {reg[k] : k \in {x \in Keys : reg[x] # Absent}} \cup ({held} \ {Absent})

\* The registry and the local replacement as one function, to count over.
Holders == [k \in Keys \cup {"held"} |-> IF k = "held" THEN held ELSE reg[k]]

\* The subscriptions every holder has on a breakpoint, and on a hook.
BpSubscriptions(i) ==
    LET h == Holders
    IN [k \in DOMAIN h |-> IF h[k] # Absent /\ i \in h[k].bps THEN 1 ELSE 0]

HookSubscriptions(a) ==
    LET h == Holders
    IN [k \in DOMAIN h |->
          IF h[k] = Absent THEN 0 ELSE h[k].events[a] + h[k].decisions[a]]

\* Nothing the scripts own in native execution is lost or kept: every lease
\* counts exactly the subscriptions on its point, staged and half-replaced
\* plugins included; a native breakpoint or hook that nobody subscribes to and
\* that is not the debugger's is on its way out; and a live execution trap belongs to
\* a plugin.  (acquire_native and release_native, drain_runtime_ownership,
\* release_native_ownership.)
OwnershipExact ==
    /\ \A i \in Ids : bpOwn.lease[i].n = Total(BpSubscriptions(i))
    /\ \A a \in Addrs : hookOwn.lease[a].n = Total(HookSubscriptions(a))
    /\ \A i \in Ids : \/ native.bps[i] = None
                      \/ i \in native.dbgBps \cup bpOwn.queue \cup mail.late.bps
                      \/ bpOwn.lease[i].n > 0
    /\ \A a \in native.hooks : \/ a \in native.dbgHooks \cup hookOwn.queue \cup mail.late.hooks
                               \/ hookOwn.lease[a].n > 0
    /\ ActiveTraps(traps) \subseteq UNION {p.traps : p \in Plugins}

\* What Pin executes is what the running plugins asked for, except while a
\* decision is being collected and in the commit of a replacement, while the
\* old plugin's on_unload runs: the published policies are those of the running plugins, except a decoder policy
\* whose flush Pin refused, and once failed plugins are quarantined so are the
\* decision interests.  A staged plugin is never visible.  (publish_checked and
\* its rollback, refresh_best_effort, publish_interests.)
PolicyCurrent ==
    host.at # "commit" /\ host.target = None =>
        /\ \A k \in PolicyKinds : \/ pub.policy[k] = Merged(Specs(reg)[k])
                                  \/ k = "xed_decode" /\ pub.refused
        /\ Failed(reg) = {} => pub.interests = Interests(reg)
        /\ \A u \in pub.interests : u[1] # Staged

\* Every callback that was asked agreed to leave the stop, none asked for a
\* different step, and the breakpoint had no owner but the scripts.
Agreed ==
    /\ host.votes # {} /\ "stay" \notin host.votes
    /\ ~({"step_into", "step_over"} \subseteq host.votes)
    /\ host.merged \in host.votes
    /\ "resume" # host.merged \/ host.votes = {"resume"}

\* The step in which the host's own resume or step lets the program go on.
HostLeavesStop == host.at = "act" /\ host'.at # "act" /\ stop.on /\ ~stop'.on

\* The host lets a stopped program go on only by an agreement of the callbacks:
\* a missing answer, an error, a disagreement or the debugger's own breakpoint
\* keeps it stopped.  And it does so only to the stop the callbacks saw, whatever
\* they or the debugger resumed and hit meanwhile, although its request names no
\* stop: nothing is served between the comparison and the request.
\* (merge_action, dispatch_bound_breakpoints, apply_stop_action, serve_client.)
StayWins ==
    [][HostLeavesStop => Agreed /\ stop.gen = host.gen]_vars
=============================================================================
