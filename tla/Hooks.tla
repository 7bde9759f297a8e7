-------------------------------- MODULE Hooks --------------------------------
(***************************************************************************)
(* Native hooks (hooks.rs) and the engines that compile them into the      *)
(* application (engines.rs): the published sets, the code Pin has compiled *)
(* from them, and application threads that run that code.                  *)
(*                                                                         *)
(* A writer (a query-server connection or the scripting thread) changes a  *)
(* set under its mutex, publishes an immutable snapshot, and only then has *)
(* Pin throw away the code compiled before.  Readers take no lock.         *)
(*                                                                         *)
(* Two engines share one callback: the hook points, and the capture of     *)
(* instruction events that ENGINE_SET and Python policies ask for.         *)
(***************************************************************************)
EXTENDS Integers, Sequences, FiniteSets, FiniteSetsExt, TLC

CONSTANTS
  None,
  Threads,        \* application threads
  Writers,        \* threads that change hooks, rules, interests and policies
  Entries,        \* entry addresses of functions (integers)
  RetOf,          \* the return instruction of each function
  Routine,        \* for a return instruction the routine Pin puts it in,
                  \* <<start, end>>, or None
  Window,         \* code thrown away for a function, from its entry (64 KiB)
  HookCapacity,   \* MAX_HOOK_POINTS
  FrameCap,       \* MAX_FUNCTION_CALL_DEPTH
  Kinds,          \* event kinds with an ENABLE flag of their own
  MaxStack,       \* bound: nested calls of a thread
  Workloads       \* bound: records [ops, edits, moves, calls], calls per thread

Rets == {RetOf[f] : f \in Entries}
Addresses == Entries \union Rets

\* Addresses are not null: 0 stands for no guard and no function.
ASSUME HooksAssumption ==
  /\ IsFiniteSet(Threads)
  /\ Entries \subseteq Nat \ {0}
  /\ RetOf \in [Entries -> Nat \ {0}]
  /\ FrameCap \in Nat /\ Window \in Nat
  /\ None \notin Writers /\ "exec" \in Kinds
  /\ \A x \in Workloads :
       /\ x = [ops |-> x.ops, edits |-> x.edits, moves |-> x.moves, calls |-> x.calls]
       /\ x.calls \in [Threads -> SUBSET Entries]
       /\ \A o \in x.ops :
            /\ o.op \in {"set", "set_batch", "set_plain_batch", "remove", "clear"}
                 => o.arg \subseteq Addresses
            /\ o.op = "engine" => o.arg.kind \in Kinds /\ o.arg.on \in BOOLEAN

VARIABLES
  hooks, functions, signatures,  \* the published sets of addresses
  rules,                         \* addresses with an action rule
  interests,                     \* <<address, is_return>> a script decides
  cell,                          \* the snapshot pointer behind hooks
  lock,                          \* the writer holding MASTER, or None
  engine,                        \* capture engines and the Python policy
  code,                          \* per address the compiled calls, or None
  thread,                        \* application threads
  writer,                        \* writers
  guards,                        \* REPLAY_GUARD_COUNT
  workload                       \* what this behaviour does

sets == <<hooks, functions, signatures, rules, interests>>
vars == <<sets, cell, lock, engine, code, thread, writer, guards, workload>>

\* A thread between two instructions.
NewThread == [pc |-> "run", stack |-> <<>>, frames |-> <<>>, at |-> 0, todo |-> <<>>,
              snap |-> 0, guard |-> 0, hits |-> 0, returns |-> 0, last |-> None]
IdleWriter == [pc |-> "idle", op |-> None, arg |-> None, flush |-> {}, old |-> 0, seen |-> None]

Init ==
  /\ hooks = {} /\ functions = {} /\ signatures = {} /\ rules = {} /\ interests = {}
  /\ cell = [cur |-> 1, contents |-> <<{}>>, retired |-> {}, freed |-> {}, readers |-> {}]
  /\ lock = None
  /\ engine = [global |-> {}, enabled |-> {}, policy |-> {}, generation |-> 1, current |-> 1,
               snapshot |-> 0, raced |-> FALSE, failed |-> FALSE]
  /\ code = [a \in Addresses |-> None]
  /\ thread = [t \in Threads |-> NewThread]
  /\ writer = [w \in Writers |-> IdleWriter]
  /\ guards = 0
  /\ workload \in Workloads

(***************************************************************************)
(* Changing the hook set                                                   *)
(***************************************************************************)

\* Nobody is between a change and the flush that follows it.
Quiet == \A w \in Writers : writer[w].pc = "idle"

\* An operation of the workload begins; each is counted.
Begins(w, ops) ==
  /\ writer[w].pc = "idle" /\ workload.edits > 0
  /\ workload' = [workload EXCEPT !.edits = @ - 1]
  /\ \E o \in workload.ops : o.op \in ops /\ o.by = w

Asked(w, op) == {o.arg : o \in {p \in workload.ops : p.by = w /\ p.op = op}}

Moves(w, pc) == writer' = [writer EXCEPT ![w].pc = pc]

\* merge_batch: the lowest new addresses, up to the capacity.
Incoming(S, have) ==
  LET new == S \ have
  IN  {a \in new : Cardinality({b \in new : b < a}) < HookCapacity - Cardinality(have)}

\* The hook set an operation leaves behind.
Edited(op, S) ==
  CASE op \in {"set", "set_batch", "set_plain_batch"} -> hooks \union Incoming(S, hooks)
    [] op = "remove" -> hooks \ S
    [] op = "clear" -> {}

\* The requests that change hook points; a range scan is set_plain_batch.
HookOps == {"set", "set_batch", "set_plain_batch", "remove", "clear"}
SignatureOps == {"set_signature", "remove_signature"}

\* set, set_batch, set_plain_batch, remove and clear take the master, change it
\* and swap the snapshot in.  set returns at once for an address already there.
EditHooks(w) ==
  /\ Begins(w, HookOps)
  /\ lock = None
  /\ \E o \in {p \in workload.ops : p.by = w /\ p.op \in HookOps} :
       LET new == Edited(o.op, o.arg)
       IN  IF new = hooks /\ o.op = "set" THEN UNCHANGED <<hooks, cell, lock, writer>>
           ELSE /\ hooks' = new /\ lock' = w
                /\ cell' = IF new = hooks THEN cell
                           ELSE [cell EXCEPT !.contents = Append(@, new),
                                             !.cur = Len(cell.contents) + 1]
                /\ writer' = [writer EXCEPT ![w] =
                     [pc |-> "reclaim", op |-> o.op, arg |-> o.arg, flush |-> hooks,
                      old |-> IF new = hooks THEN 0 ELSE cell.cur, seen |-> new \ hooks]]
  /\ UNCHANGED <<functions, signatures, rules, interests, engine, code, thread, guards>>

\* publish, after the swap: the old snapshot is retired, and when no reader is
\* announced now ...
Reclaim(w) ==
  /\ writer[w].pc = "reclaim"
  /\ cell' = [cell EXCEPT !.retired = @ \union ({writer[w].old} \ {0})]
  /\ Moves(w, IF cell.readers = {} /\ writer[w].old # 0 THEN "free" ELSE "functions")
  /\ UNCHANGED <<sets, lock, engine, code, thread, guards, workload>>

\* ... every retired one is freed, whoever announces itself meanwhile.
FreeRetired(w) ==
  /\ writer[w].pc = "free"
  /\ cell' = [cell EXCEPT !.freed = @ \union cell.retired, !.retired = {}]
  /\ Moves(w, "functions")
  /\ UNCHANGED <<sets, lock, engine, code, thread, guards, workload>>

\* The code of a function: its entry and what follows, up to the window.
WindowOf(S) == {b \in Addresses : \E a \in S : a <= b /\ b <= a + Window}

\* Mutant: the window of a batch is not thrown away, only the new points.
FlushPoints(op, arg, before, added, gone, new) ==
  CASE op \in {"set", "set_plain_batch", "set_batch"} -> added
    [] op = "remove" -> gone \union (arg \intersect before)
    [] op = "clear" -> before

\* What an operation throws away: points for plain hooks, windows for functions.
FlushSet(op, arg, before, added, gone, new) ==
  CASE op \in {"set", "set_plain_batch"} -> added
    [] op = "set_batch" -> WindowOf(added \union new)
    [] op = "remove" -> IF gone # {} THEN WindowOf(arg) ELSE arg \intersect before
    [] op = "clear" -> WindowOf(before)

\* The history of a frame: it outlived what it stood for.
Marked(frames, S) == [i \in DOMAIN frames |-> [frames[i] EXCEPT !.stale = @ \/ i \in S]]

\* A frame of a function that is no longer logged is left where it is; stale
\* remembers it.
Unlogged(gone) ==
  [t \in Threads |->
     [thread[t] EXCEPT !.frames = Marked(@, {i \in DOMAIN @ : @[i].fn \in gone})]]

\* The function set follows the hook set under the same lock.
EditFunctions(w) ==
  /\ writer[w].pc = "functions"
  /\ LET o == writer[w]
         accepted == o.arg \intersect hooks
         new == IF o.op = "set_batch" THEN Incoming(accepted, functions) ELSE {}
         gone == CASE o.op = "remove" -> functions \intersect o.arg
                   [] o.op = "clear" -> functions
                   [] OTHER -> {}
     IN  /\ functions' = (functions \union new) \ gone
         /\ thread' = Unlogged(gone)
         /\ writer' = [writer EXCEPT ![w].flush = FlushSet(o.op, o.arg, o.flush, o.seen, gone, new),
                         ![w].pc = IF o.op \in {"remove", "clear"} THEN "unsign" ELSE "flush"]
  /\ lock' = None
  /\ UNCHANGED <<hooks, signatures, rules, interests, cell, engine, code, guards, workload>>

\* remove and clear drop the signatures after the lock.
DropSignatures(w) ==
  /\ writer[w].pc = "unsign"
  /\ signatures' = IF writer[w].op = "clear" THEN {} ELSE signatures \ writer[w].arg
  /\ Moves(w, "flush")
  /\ UNCHANGED <<hooks, functions, rules, interests, cell, lock, engine, code, thread, guards,
                 workload>>

\* pb_pin_remove_instrumentation_in_range waits for a compilation in progress.
Flush(w) ==
  /\ writer[w].pc = "flush"
  /\ \A t \in Threads : thread[t].pc # "jit"
  /\ code' = [a \in Addresses |-> IF a \in writer[w].flush THEN None ELSE code[a]]
  /\ writer' = [writer EXCEPT ![w] = IdleWriter]
  /\ UNCHANGED <<sets, cell, lock, engine, thread, guards, workload>>

\* set_function_signature and remove_function_signature: nothing is flushed.
SetSignature(w) ==
  /\ Begins(w, SignatureOps)
  /\ \/ \E a \in Asked(w, "set_signature") : signatures' = signatures \union {a}
     \/ \E a \in Asked(w, "remove_signature") : signatures' = signatures \ {a}
  /\ UNCHANGED <<hooks, functions, rules, interests, cell, lock, engine, code, thread, writer, guards>>

\* set_rule: only the first rule of an address changes what is compiled there.
SetRule(w) ==
  /\ Begins(w, {"set_rule"})
  /\ \E a \in Asked(w, "set_rule") :
       /\ rules' = rules \union {a}
       /\ writer' = [writer EXCEPT ![w].pc = "flush", ![w].flush = {a} \ rules]
  /\ UNCHANGED <<hooks, functions, signatures, interests, cell, lock, engine, code, thread, guards>>

ClearRules(w) ==
  /\ Begins(w, {"clear_rules"})
  /\ rules' = {}
  /\ writer' = [writer EXCEPT ![w].pc = "flush", ![w].flush = rules]
  /\ UNCHANGED <<hooks, functions, signatures, interests, cell, lock, engine, code, thread, guards>>

\* publish_hook_interests: an upgrade is refreshed, a downgrade is left as it is.
PublishInterests(w) ==
  /\ Begins(w, {"publish_interests"})
  /\ \E new \in Asked(w, "publish_interests") :
       /\ interests' = new
       /\ writer' = [writer EXCEPT ![w].pc = "refresh", ![w].seen = new \ interests]
  /\ UNCHANGED <<hooks, functions, signatures, rules, cell, lock, engine, code, thread, guards>>

\* refresh_callback_instrumentation reads the sets once more.
RefreshCallbacks(w) ==
  /\ writer[w].pc = "refresh"
  /\ LET points == {i \in writer[w].seen : i[1] \in hooks}
         wide == {i \in points : i[2] /\ i[1] \in functions}
     IN  writer' = [writer EXCEPT ![w].pc = "flush",
                      ![w].flush = WindowOf({i[1] : i \in wide}) \union {i[1] : i \in points \ wide}]
  /\ UNCHANGED <<sets, cell, lock, engine, code, thread, guards, workload>>

(***************************************************************************)
(* Capture engines                                                         *)
(***************************************************************************)

Ranges(rows) == UNION {r.range : r \in rows}
KindsOf(rows) == UNION {r.kinds : r \in rows}

\* Another writer is inside the engines: the two are not ordered by any lock.
Overlaps(w) == \E v \in Writers \ {w} : writer[v].pc \in {"flags", "publish", "toggle"}

\* set_instrumentation_policies reads the global mask ...
SetPolicies(w) ==
  /\ Begins(w, {"policies"})
  /\ \E rows \in Asked(w, "policies") :
       writer' = [writer EXCEPT ![w].pc = "flags", ![w].arg = rows,
                    ![w].seen = engine.global \union KindsOf(rows),
                    ![w].flush = IF rows = {} THEN Ranges(engine.policy) ELSE Ranges(rows)]
  /\ engine' = [engine EXCEPT !.raced = @ \/ Overlaps(w)]
  /\ UNCHANGED <<sets, cell, lock, code, thread, guards>>

\* Mutant: the flags follow the policies alone.
StoreFlagsOwn(w) ==
  /\ writer[w].pc = "flags"
  /\ engine' = [engine EXCEPT !.enabled = KindsOf(writer[w].arg) \intersect Kinds]
  /\ Moves(w, "publish")
  /\ UNCHANGED <<sets, cell, lock, code, thread, guards, workload>>

\* ... stores the flags ...
StoreFlags(w) ==
  /\ writer[w].pc = "flags"
  /\ engine' = [engine EXCEPT !.enabled = writer[w].seen \intersect Kinds]
  /\ Moves(w, "publish")
  /\ UNCHANGED <<sets, cell, lock, code, thread, guards, workload>>

\* ... and publishes the snapshot under a generation of its own.
PublishPolicy(w) ==
  /\ writer[w].pc = "publish"
  /\ engine' = [engine EXCEPT !.policy = writer[w].arg, !.generation = @ + 1,
                              !.current = engine.generation + 1]
  /\ Moves(w, "policy_flush")
  /\ UNCHANGED <<sets, cell, lock, code, thread, guards, workload>>

\* The ranges are thrown away and the routine replay is asked for; an error of
\* Pin leaves the rest.
PolicyFlush(w) ==
  /\ writer[w].pc = "policy_flush"
  /\ \A t \in Threads : thread[t].pc # "jit"
  /\ \/ /\ code' = [a \in Addresses |-> IF a \in writer[w].flush THEN None ELSE code[a]]
        /\ engine' = [engine EXCEPT !.snapshot =
             IF "routine" \in engine.global \union KindsOf(engine.policy) THEN engine.current ELSE 0]
     \/ engine' = [engine EXCEPT !.failed = TRUE] /\ UNCHANGED code
  /\ writer' = [writer EXCEPT ![w] = IdleWriter]
  /\ UNCHANGED <<sets, cell, lock, thread, guards, workload>>

\* set_engine_enabled: the global mask, then the flag ...
SetEngine(w) ==
  /\ Begins(w, {"engine"})
  /\ \E e \in Asked(w, "engine") :
       LET global == IF e.on THEN engine.global \union {e.kind} ELSE engine.global \ {e.kind}
           uses == e.kind \in KindsOf(engine.policy)
       IN  /\ engine' = [engine EXCEPT !.global = global, !.raced = @ \/ Overlaps(w)]
           /\ writer' = [writer EXCEPT ![w].pc = "toggle", ![w].arg = e,
                           ![w].old = engine.global, ![w].seen = uses]
  /\ UNCHANGED <<sets, cell, lock, code, thread, guards>>

\* ... and the whole trace range is thrown away when the mask changed; an
\* error puts the mask and the flag back.
EngineFlush(w) ==
  /\ writer[w].pc = "toggle"
  /\ \A t \in Threads : thread[t].pc # "jit"
  /\ LET o == writer[w]
         kind == o.arg.kind
         flag(on) == IF on \/ o.seen THEN engine.enabled \union {kind} ELSE engine.enabled \ {kind}
         changed == (kind \in o.old) # o.arg.on
     IN  \/ /\ ~changed
            /\ engine' = [engine EXCEPT !.enabled = flag(o.arg.on)] /\ UNCHANGED code
         \/ /\ changed
            /\ engine' = [engine EXCEPT !.enabled = flag(o.arg.on), !.generation = @ + 1]
            /\ code' = [a \in Addresses |-> None]
         \/ /\ changed
            /\ engine' = [engine EXCEPT !.enabled = flag(kind \in o.old), !.global = o.old,
                                        !.generation = @ + 1, !.failed = TRUE]
            /\ UNCHANGED code
  /\ writer' = [writer EXCEPT ![w] = IdleWriter]
  /\ UNCHANGED <<sets, cell, lock, thread, guards, workload>>

\* emit_pending_routine_snapshot, by the script host at its next tick: rows of
\* routines whose generation is still the one asked for.
EmitRoutineSnapshot ==
  /\ engine.snapshot # 0
  /\ engine' = [engine EXCEPT !.snapshot = 0]
  /\ UNCHANGED <<sets, cell, lock, code, thread, writer, guards, workload>>

\* wants_at_instrumentation: the thread condition of a rule is left to the call.
Wants(a, kind) ==
  kind \in engine.global \/ \E r \in engine.policy : kind \in r.kinds /\ a \in r.range

(***************************************************************************)
(* Compiling an instruction                                                *)
(***************************************************************************)

\* function_for_return within the routine, else function_for_return_near: the
\* selected function at or before the return instruction.
Owner(ret) ==
  LET below == {f \in functions : f <= ret}
      near == IF below = {} THEN 0 ELSE Max(below)
      inside(r) == r # None /\ r[1] <= near /\ near < r[2]
  IN  IF near # 0 /\ (inside(Routine[ret]) \/ ret - near <= Window) THEN near ELSE 0

\* on_ins: the capture of a hook point, passive or a callback.
HookCalls(a, hooked) ==
  LET isRet == a \in Rets
      entry == ~isRet /\ a \in functions
      callback == a \in rules \/ <<a, isRet>> \in interests
  IN  IF ~hooked THEN <<>>
      ELSE <<[call |-> "hook", fn |-> IF entry THEN a ELSE 0, callback |-> callback, guarded |-> TRUE]>>

\* The return of a logged function; a typed result is read without a guard.
ReturnCalls(a) ==
  LET owner == IF a \in Rets THEN Owner(a) ELSE 0
      decides == <<owner, TRUE>> \in interests
  IN  IF owner = 0 THEN <<>>
      ELSE <<[call |-> "return", fn |-> owner, callback |-> decides,
              guarded |-> decides \/ owner \notin signatures]>>

\* The engines, when the flag is up and a range asks.
CaptureCalls(a) ==
  IF "exec" \in engine.enabled /\ Wants(a, "exec")
  THEN <<[call |-> "exec", fn |-> 0, callback |-> FALSE, guarded |-> FALSE]>> ELSE <<>>

Compiled(a, hooked) == HookCalls(a, hooked) \o ReturnCalls(a) \o CaptureCalls(a)

Sets(t, fields) == thread' = [thread EXCEPT ![t] = fields]
OnlyThread == UNCHANGED <<sets, lock, engine, writer, workload>>

\* Mutant: the pointer is loaded first; the announcement that would come after
\* it protects nothing.
JitBeginLoadsFirst(t) ==
  /\ thread[t].pc = "fetch" /\ code[thread[t].at] = None
  /\ \A u \in Threads : thread[u].pc # "jit"
  /\ Sets(t, [thread[t] EXCEPT !.pc = "jit", !.snap = cell.cur])
  /\ UNCHANGED <<cell, code, guards>> /\ OnlyThread

\* contains, with Pin's compiler to itself: the reader announces itself ...
JitBegin(t) ==
  /\ thread[t].pc = "fetch" /\ code[thread[t].at] = None
  /\ \A u \in Threads : thread[u].pc # "jit"
  /\ cell' = [cell EXCEPT !.readers = @ \union {t}]
  /\ Sets(t, [thread[t] EXCEPT !.pc = "jit", !.snap = 0])
  /\ UNCHANGED <<code, guards>> /\ OnlyThread

\* ... and only then loads the snapshot pointer.
LoadSnapshot(t) ==
  /\ thread[t].pc = "jit" /\ thread[t].snap = 0
  /\ Sets(t, [thread[t] EXCEPT !.snap = cell.cur])
  /\ UNCHANGED <<cell, code, guards>> /\ OnlyThread

\* The snapshot is searched, the guard dropped and the calls are inserted.
JitEnd(t) ==
  /\ thread[t].pc = "jit" /\ thread[t].snap # 0
  /\ code' = [code EXCEPT ![thread[t].at] =
                Compiled(thread[t].at, thread[t].at \in cell.contents[thread[t].snap])]
  /\ cell' = [cell EXCEPT !.readers = @ \ {t}]
  /\ Sets(t, [thread[t] EXCEPT !.pc = "fetch", !.snap = 0])
  /\ UNCHANGED guards /\ OnlyThread

\* The compiled calls run.  A return that was compiled before its function was
\* logged, or for another function, or that is below a frame left behind, leaves
\* the frame of this activation behind.
Fetch(t) ==
  /\ thread[t].pc = "fetch" /\ code[thread[t].at] # None
  /\ LET calls == code[thread[t].at]
         frames == thread[t].frames
         lost(i) == /\ thread[t].at \in Rets /\ frames[i].level = Len(thread[t].stack)
                    /\ \/ \A c \in DOMAIN calls : calls[c].call # "return" \/ calls[c].fn # frames[i].fn
                       \/ \E j \in DOMAIN frames : j > i /\ frames[j].stale
     IN  Sets(t, [thread[t] EXCEPT !.pc = "calls", !.todo = calls,
           !.frames = Marked(@, {i \in DOMAIN @ : lost(i)})])
  /\ UNCHANGED <<cell, code, guards>> /\ OnlyThread

(***************************************************************************)
(* The application                                                         *)
(***************************************************************************)

Depth(t) == Len(thread[t].stack)
Top(t) == thread[t].stack[Depth(t)]

\* A thread starts an instruction: nothing has been reported for it.
Starts(t, a, stack) ==
  /\ Sets(t, [thread[t] EXCEPT !.pc = "fetch", !.at = a, !.stack = stack,
                               !.hits = 0, !.returns = 0, !.last = None])
  /\ UNCHANGED <<cell, code, guards>> /\ OnlyThread

\* An activation remembers which entries were reported in it.
CallFunction(t) ==
  \E f \in workload.calls[t] :
    /\ thread[t].pc = "run" /\ Depth(t) < MaxStack
    /\ Starts(t, f, Append(thread[t].stack, [fn |-> f, reported |-> {}]))

TailCall(t) ==
  \E f \in workload.calls[t] :
    /\ thread[t].pc = "run" /\ Depth(t) > 0 /\ "tail" \in workload.moves
    /\ Starts(t, f, [thread[t].stack EXCEPT ![Depth(t)].fn = f])

ReturnInstruction(t) ==
  /\ thread[t].pc = "run" /\ Depth(t) > 0
  /\ Starts(t, RetOf[Top(t).fn], thread[t].stack)

\* The activation goes, or its return is passed over, and its frame stays.
LeftBehind(t, frames) == Marked(frames, {i \in DOMAIN frames : frames[i].level = Depth(t)})

\* longjmp or an exception: an activation goes without executing its return.
Unwind(t) ==
  /\ thread[t].pc = "run" /\ Depth(t) > 0 /\ "unwind" \in workload.moves
  /\ Sets(t, [thread[t] EXCEPT !.stack = SubSeq(@, 1, Depth(t) - 1), !.frames = LeftBehind(t, @)])
  /\ UNCHANGED <<cell, code, guards>> /\ OnlyThread

\* thread_fini and thread_start empty the frames of the number.
ThreadRestarts(t) ==
  /\ thread[t].pc = "run" /\ Depth(t) > 0 /\ "exit" \in workload.moves
  /\ Sets(t, NewThread)
  /\ UNCHANGED <<cell, code, guards>> /\ OnlyThread

\* Every inserted call has run: the instruction itself executes.
Execute(t) ==
  /\ thread[t].pc = "calls" /\ thread[t].todo = <<>>
  /\ Sets(t, [thread[t] EXCEPT !.pc = "run",
                !.stack = IF thread[t].at \in Rets THEN SubSeq(@, 1, Depth(t) - 1) ELSE @])
  /\ UNCHANGED <<cell, code, guards>> /\ OnlyThread

(***************************************************************************)
(* Analysis calls                                                          *)
(***************************************************************************)

Running(t, call) == thread[t].pc = "calls" /\ thread[t].todo # <<>> /\ Head(thread[t].todo).call = call
Call(t) == Head(thread[t].todo)
OnlyCall == UNCHANGED <<cell, code>> /\ OnlyThread

\* take_replay_guard; a return's call may take the guard of a hook that was
\* removed before the instruction was executed again.
Guarded(t) == Call(t).guarded /\ guards > 0 /\ thread[t].guard = thread[t].at

TakeGuard(t) ==
  /\ thread[t].pc = "calls" /\ thread[t].todo # <<>> /\ Guarded(t)
  /\ guards' = guards - 1
  /\ Sets(t, [thread[t] EXCEPT !.guard = 0, !.todo = Tail(@),
                !.frames = IF Call(t).call = "return" THEN LeftBehind(t, @) ELSE @])
  /\ OnlyCall

\* How many frames are left when those at this level or further in, which are
\* over, have been popped off the end.
Kept(t) ==
  LET frames == thread[t].frames
  IN  CHOOSE n \in 0..Len(frames) :
        /\ n > 0 => frames[n].level < Depth(t)
        /\ \A i \in (n + 1)..Len(frames) : frames[i].level >= Depth(t)

\* track_function_entry_stack: a full stack tracks nothing.
Tracked(t, f) ==
  LET live == SubSeq(thread[t].frames, 1, Kept(t))
  IN  IF Len(live) = FrameCap THEN live
      ELSE Append(live, [fn |-> f, level |-> Depth(t), stale |-> f \notin functions])

\* cancel_function_entry
Cancelled(frames, f) ==
  IF frames # <<>> /\ frames[Len(frames)].fn = f THEN SubSeq(frames, 1, Len(frames) - 1) ELSE frames

\* Mutant: the changed context is executed without a guard.
ReplayUnguarded(t, rec) == Sets(t, [rec EXCEPT !.pc = "fetch"]) /\ UNCHANGED guards

\* execute_modified_context: the instruction is run again under a guard, or Pin
\* refuses and the rest of the calls go on.
Replay(t, rec) ==
  \/ /\ Sets(t, [rec EXCEPT !.pc = "fetch", !.guard = rec.at])
     /\ guards' = guards + 1
  \/ Sets(t, [rec EXCEPT !.guard = 0]) /\ UNCHANGED guards

\* The history of an activation: which entries were reported in it.
Reported(stack, f) == [stack EXCEPT ![Len(stack)].reported = @ \union {f}]

\* on_hook_monitor: the hit is reported and an entry tracked.
Hit(t) ==
  LET f == Call(t).fn
      entered == f # 0 /\ Depth(t) > 0
  IN  [thread[t] EXCEPT
         !.todo = Tail(@), !.hits = @ + 1,
         !.frames = IF entered THEN Tracked(t, f) ELSE @,
         !.stack = IF entered THEN Reported(@, f) ELSE @]

\* decide_hook: a script decides this hit.
Decides(t) == Call(t).callback /\ <<thread[t].at, thread[t].at \in Rets>> \in interests

\* apply_rules: a rule of this address changes a register.
RuleFires(t) == Call(t).callback /\ thread[t].at \in rules

\* The thread leaves the hooked instruction without executing it.
Leaves(t) ==
  [Hit(t) EXCEPT !.pc = "run", !.todo = <<>>,
                 !.frames = IF Call(t).fn # 0 THEN Cancelled(@, Call(t).fn) ELSE @]

\* return_from_hook: the function is left at once, and with it whoever jumped
\* to it and has a frame.
ReturnsAtOnce(t) ==
  [Leaves(t) EXCEPT !.stack = SubSeq(@, 1, Depth(t) - 1), !.frames = LeftBehind(t, @)]

\* on_hook_context: for a callback hook the rules and the script say how the
\* thread goes on.
HookCall(t) ==
  /\ Running(t, "hook") /\ ~Guarded(t)
  /\ \/ Sets(t, Hit(t)) /\ UNCHANGED guards
     \/ (RuleFires(t) \/ Decides(t)) /\ Replay(t, Hit(t))
     \/ /\ Decides(t) /\ thread[t].at \notin Rets
        /\ Sets(t, ReturnsAtOnce(t)) /\ UNCHANGED guards
     \/ Decides(t) /\ Sets(t, Leaves(t)) /\ UNCHANGED guards
  /\ OnlyCall

\* Mutant: the function alone is compared, not the stack pointer.
FrameMatchesAny(t, f) ==
  LET frames == thread[t].frames
  IN  frames # <<>> /\ frames[Len(frames)].fn = f

\* take_function_return: the newest frame, for this function at this stack
\* pointer.
FrameMatches(t, f) ==
  LET frames == thread[t].frames
  IN  frames # <<>> /\ frames[Len(frames)].fn = f /\ frames[Len(frames)].level = Depth(t)

\* on_function_return_monitor and handle_function_return_context.
ReturnCall(t) ==
  /\ Running(t, "return") /\ ~Guarded(t)
  /\ LET f == Call(t).fn
         frames == thread[t].frames
         done == [thread[t] EXCEPT
           !.todo = Tail(@), !.returns = @ + 1, !.frames = SubSeq(@, 1, Len(@) - 1),
           !.last = [fn |-> f, stale |-> frames[Len(frames)].stale, reported |-> Top(t).reported]]
     IN  IF f \in functions /\ FrameMatches(t, f)
         THEN \/ Sets(t, done) /\ UNCHANGED guards
              \/ Call(t).callback /\ <<f, TRUE>> \in interests /\ Replay(t, done)
         ELSE Sets(t, [thread[t] EXCEPT !.todo = Tail(@)]) /\ UNCHANGED guards
  /\ OnlyCall

\* on_exec, on_memory and on_branch_edge: the flag and the rule are read again
\* and a record may be submitted; the application is not touched.
ExecCall(t) ==
  /\ Running(t, "exec")
  /\ Sets(t, [thread[t] EXCEPT !.todo = Tail(@)])
  /\ UNCHANGED guards /\ OnlyCall

(***************************************************************************)
(* The specification                                                       *)
(***************************************************************************)

WriterStep(w) ==
  \/ EditHooks(w) \/ Reclaim(w) \/ FreeRetired(w) \/ EditFunctions(w)
  \/ DropSignatures(w) \/ Flush(w)
  \/ SetSignature(w) \/ SetRule(w) \/ ClearRules(w) \/ PublishInterests(w) \/ RefreshCallbacks(w)
  \/ SetPolicies(w) \/ StoreFlags(w) \/ PublishPolicy(w) \/ PolicyFlush(w)
  \/ SetEngine(w) \/ EngineFlush(w)

ThreadStep(t) ==
  \/ JitBegin(t) \/ LoadSnapshot(t) \/ JitEnd(t) \/ Fetch(t)
  \/ CallFunction(t) \/ TailCall(t) \/ ReturnInstruction(t) \/ Unwind(t) \/ ThreadRestarts(t)
  \/ Execute(t) \/ TakeGuard(t) \/ HookCall(t) \/ ReturnCall(t) \/ ExecCall(t)

Next ==
  \/ \E w \in Writers : WriterStep(w)
  \/ \E t \in Threads : ThreadStep(t)
  \/ EmitRoutineSnapshot

Spec == Init /\ [][Next]_vars

(***************************************************************************)
(* Properties                                                              *)
(***************************************************************************)

\* A reader never searches a snapshot that has been freed: it announces itself,
\* loads the pointer and searches, while a writer swaps the pointer, retires the
\* old snapshot, looks for announced readers and frees, each a step of its own
\* (hooks.rs:284-339; functions, signatures, rules, observations and interests
\* are published by the same protocol).
SnapshotAlive == \A t \in Threads : thread[t].pc = "jit" => thread[t].snap \notin cell.freed

Has(a, call) == \E i \in DOMAIN code[a] : code[a][i].call = call

\* When nobody is changing anything, compiled code does what the sets say: a
\* hooked instruction reports, an unhooked one does not, a callback never meets
\* the passive monitor, and a return inside a logged function's window is tied
\* to the function the code would find now (hooks.rs:526-757,
\* sync_intercept.rs:239-270).
CodeCurrent ==
  Quiet =>
    \A a \in Addresses : code[a] # None =>
      /\ Has(a, "hook") <=> a \in hooks
      /\ a \in hooks /\ (a \in rules \/ <<a, a \in Rets>> \in interests)
           => \E i \in DOMAIN code[a] : code[a][i].call = "hook" /\ code[a][i].callback
      /\ a \in Rets /\ Owner(a) # 0 /\ a <= Owner(a) + Window
           => \E i \in DOMAIN code[a] :
                /\ code[a][i].call = "return" /\ code[a][i].fn = Owner(a)
                /\ <<Owner(a), TRUE>> \in interests => code[a][i].callback

\* A return is reported for an activation whose entry was reported, and for
\* that function, unless its frame outlived an edit (the logging was taken away,
\* the return ran before the flush, or the hook on the return was removed while
\* its replay was under way) or its activation (it was unwound, or a script
\* returned from a function it had jumped to): the stack pointer alone cannot
\* tell the next activation at that depth from the one that is gone
\* (hooks.rs:970-1026).
ReturnsPair ==
  \A t \in Threads :
    LET last == thread[t].last
    IN  last # None => last.stale \/ last.fn \in last.reported

\* However often a changed context is executed again, whoever changes the
\* hooks meanwhile, each execution of an instruction is acted on once
\* (hooks.rs:1038-1089, 1168-1185).
ActedOnce == \A t \in Threads : thread[t].hits <= 1 /\ thread[t].returns <= 1

\* ENGINE_SET and the policies share the flags without a lock: as long as the
\* two did not overlap and Pin refused nothing, a kind is enabled exactly when
\* someone wants it, what is compiled captures it, and a routine replay still
\* owed is for the policy in force (engines.rs:221-291, 358-395).
EnginesSettle ==
  Quiet /\ ~engine.raced /\ ~engine.failed =>
    /\ engine.enabled
         = (engine.global \union KindsOf(engine.policy)) \intersect Kinds
    /\ \A a \in Addresses :
         code[a] # None /\ Wants(a, "exec") => Has(a, "exec")
    /\ engine.snapshot \in {0, engine.current}
=============================================================================
