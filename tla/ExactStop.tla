----------------------------- MODULE ExactStop ------------------------------
(***************************************************************************)
(* Breakpoints and decoded steps (bp.rs, stepper.rs, query_server.rs): the *)
(* breakpoint table, the analysis callbacks compiled into the code cache,  *)
(* the redirect into the park stub and the rewind of a stopped context.    *)
(*                                                                         *)
(* A callback is compiled with the INDEX of a table slot (or of a step     *)
(* candidate) and stays in the code cache until its address is flushed; a  *)
(* hit reads the slot when it runs.  A thread that hits is sent to a stub  *)
(* before its instruction executes and, once the world is stopped, its     *)
(* context is put back on the address the slot held.                       *)
(*                                                                         *)
(* Simplifications:                                                        *)
(*  - how a stop or a resume is negotiated is ControlChannel; here a stop  *)
(*    (a hit's, a pause's, the watchdog's) comes at any moment at which    *)
(*    every thread is at a safe point, and its rewind is part of it;       *)
(*  - LAST_HIT and RESUME_SKIP are read and written as pairs;              *)
(*  - a callback's reads of one slot are one step; the compiled index was  *)
(*    fetched in an earlier one;                                           *)
(*  - the stub has been allocated and Pin hands out the stopped thread's   *)
(*    context: without the one redirect_arm refuses and stops drift, as    *)
(*    init_stub logs, without the other nobody is rewound;                 *)
(*  - hit counters are left out, and the undecodable instruction's step    *)
(*    (exec capture) is in ControlChannel.                                 *)
(***************************************************************************)
EXTENDS Integers, FiniteSets

CONSTANTS
  Threads,
  None,
  Addrs,       \* application instructions
  Succ,        \* Succ[a]: the instructions that may follow a
  Fallthrough, \* for each call instruction, the one that it returns to
  TraceOf,     \* TraceOf[a]: the instructions compiled in one trace with a
  NumSlots,    \* MAX_BREAKPOINTS
  MaxId,       \* bound on NEXT_ID
  Entry,       \* the entry point with its one-shot breakpoint, or None
  MaxSteps     \* bound on the number of steps

NoAddr == 0
Stub == -1

ASSUME ExactStopAssumption ==
  /\ None \notin Threads
  /\ Addrs \subseteq Nat \ {NoAddr}
  /\ Succ \in [Addrs -> SUBSET Addrs]
  /\ DOMAIN Fallthrough \subseteq Addrs
  /\ Fallthrough \in [DOMAIN Fallthrough -> Addrs]
  /\ TraceOf \in [Addrs -> SUBSET Addrs]
  /\ \A a \in Addrs : a \in TraceOf[a]
  /\ NumSlots \in Nat \ {0}
  /\ MaxId \in Nat
  /\ Entry \in Addrs \cup {None}
  /\ MaxSteps \in Nat

VARIABLES
  slots,        \* SLOTS
  activeCount,  \* ACTIVE_COUNT
  nextId,       \* NEXT_ID
  cache,        \* the code cache: which callback each instruction carries
  stopped,      \* control::STOPPED
  ip,           \* each thread's instruction pointer, Stub while it spins there
  at,           \* history: the instruction each thread has yet to execute
  misled,       \* history: threads whose callback read the address of another
                \* instruction from its slot or candidate
  tpc,          \* where each thread is
  tindex,       \* the user_data of the callback it is in
  taddr,        \* the address it hands to exact_stop
  redirectTid,  \* REDIRECT_TID, None when REDIRECT_ACTIVE is false
  redirectAddr, \* REDIRECT_ADDR
  lastHit,      \* LAST_HIT_TID, LAST_HIT_ADDR
  resumeSkip,   \* RESUME_SKIP_TID, RESUME_SKIP_ADDR
  stepping,     \* STEPPING
  stepTid,      \* STEP_TID
  stepStart,    \* STEP_START_IP
  replay,       \* REPLAY_PENDING
  candidates,   \* CANDIDATES, NoAddr above CANDIDATE_COUNT
  steps,        \* number of steps so far
  spc,          \* where the query server is
  flushing      \* the address bp::set flushes next

tableVars == <<slots, activeCount, nextId>>
threadVars == <<ip, at, misled, tpc, tindex, taddr>>
redirectVars == <<redirectTid, redirectAddr>>
hitVars == <<lastHit, resumeSkip>>
stepVars == <<stepping, stepTid, stepStart, replay, candidates, steps>>
serverVars == <<spc, flushing>>
vars == <<tableVars, cache, stopped, threadVars, redirectVars, hitVars,
          stepVars, serverVars>>

SlotIndex == 1..NumSlots
CandidateIndex == 1..3

Hit(t, a) == [tid |-> t, addr |-> a]
NoHit == Hit(None, NoAddr)

EmptySlot == [used |-> FALSE, id |-> 0, addr |-> NoAddr, active |-> FALSE,
              oneShot |-> FALSE]

\* What the code cache holds for an instruction: nothing yet, no callback, or
\* a callback with its index.
NotCached == [kind |-> "none", index |-> 0]
Plain == [kind |-> "plain", index |-> 0]

\* on_img_load has set the entry breakpoint before the application starts.
Init ==
  /\ slots = [i \in SlotIndex |->
                IF i = 1 /\ Entry # None
                THEN [used |-> TRUE, id |-> 1, addr |-> Entry, active |-> TRUE,
                      oneShot |-> TRUE]
                ELSE EmptySlot]
  /\ activeCount = IF Entry = None THEN 0 ELSE 1
  /\ nextId = IF Entry = None THEN 1 ELSE 2
  /\ cache = [a \in Addrs |-> NotCached]
  /\ stopped = FALSE
  /\ ip \in [Threads -> Addrs]
  /\ Entry # None => ip = [t \in Threads |-> Entry]
  /\ at = ip
  /\ misled = {}
  /\ tpc = [t \in Threads |-> "run"]
  /\ tindex = [t \in Threads |-> 0]
  /\ taddr = [t \in Threads |-> NoAddr]
  /\ redirectTid = None
  /\ redirectAddr = NoAddr
  /\ lastHit = NoHit
  /\ resumeSkip = NoHit
  /\ stepping = FALSE
  /\ stepTid = None
  /\ stepStart = NoAddr
  /\ replay = FALSE
  /\ candidates = [i \in CandidateIndex |-> NoAddr]
  /\ steps = 0
  /\ spc = "idle"
  /\ flushing = NoAddr

-----------------------------------------------------------------------------
(* Instrumentation: on_ins, called once per instruction Pin compiles.      *)

Live(i) == slots[i].used /\ slots[i].active

\* any_active: ACTIVE_COUNT is a usize, so only its being zero counts.
AnyActive == activeCount # 0

LiveAt(a) == {i \in SlotIndex : Live(i) /\ slots[i].addr = a}

First(S) == CHOOSE i \in S : \A j \in S : i <= j

\* candidate_index
CandidatesAt(a) == {i \in CandidateIndex : stepping /\ candidates[i] = a}

\* Mutant: a private step successor takes priority.
OnInsStepFirst(a) ==
  IF CandidatesAt(a) # {}
  THEN [kind |-> "step", index |-> First(CandidatesAt(a))]
  ELSE IF AnyActive /\ LiveAt(a) # {}
       THEN [kind |-> "bp", index |-> First(LiveAt(a))]
       ELSE Plain

\* A breakpoint takes priority over a private step successor.
OnIns(a) ==
  IF AnyActive /\ LiveAt(a) # {}
  THEN [kind |-> "bp", index |-> First(LiveAt(a))]
  ELSE IF CandidatesAt(a) # {}
       THEN [kind |-> "step", index |-> First(CandidatesAt(a))]
       ELSE Plain

Instrument(t) ==
  /\ ~stopped
  /\ tpc[t] = "run"
  /\ ip[t] # Stub
  /\ cache[ip[t]] = NotCached
  /\ cache' = [cache EXCEPT ![ip[t]] = OnIns(ip[t])]
  /\ UNCHANGED <<tableVars, stopped, threadVars, redirectVars, hitVars,
                 stepVars, serverVars>>

\* pb_pin_remove_instrumentation_in_range: every trace that overlaps the
\* range is dropped from the code cache.
Flush(S) ==
  cache' = [a \in Addrs |->
              IF \E b \in S : a \in TraceOf[b] THEN NotCached ELSE cache[a]]

-----------------------------------------------------------------------------
(* Application threads.  "run" is about to fetch an instruction, or spins  *)
(* in the stub; "onHit" and "onStepHit" are inside a callback; "stopping"  *)
(* is in exact_stop, "armed" past redirect_arm; "exec" executes the        *)
(* instruction itself.                                                     *)

Goto(t, label) == tpc' = [tpc EXCEPT ![t] = label]

\* A callback's user_data is of no use once it has read its slot.
Leave(t, label) ==
  /\ Goto(t, label)
  /\ tindex' = [tindex EXCEPT ![t] = 0]

\* The callback each kind of compiled instruction runs first, if any.
Callback == [plain |-> "exec", bp |-> "onHit", step |-> "onStepHit"]

Fetch(t) ==
  /\ ~stopped
  /\ tpc[t] = "run"
  /\ ip[t] # Stub
  /\ cache[ip[t]] # NotCached
  /\ Goto(t, Callback[cache[ip[t]].kind])
  /\ tindex' = [tindex EXCEPT ![t] = cache[ip[t]].index]
  /\ UNCHANGED <<tableVars, cache, stopped, ip, at, misled, taddr, redirectVars,
                 hitVars, stepVars, serverVars>>

Execute(t) ==
  /\ tpc[t] = "exec"
  /\ \E a \in Succ[ip[t]] :
       /\ ip' = [ip EXCEPT ![t] = a]
       /\ at' = [at EXCEPT ![t] = a]
  /\ misled' = misled \ {t}
  /\ Goto(t, "run")
  /\ UNCHANGED <<tableVars, cache, stopped, tindex, taddr, redirectVars,
                 hitVars, stepVars, serverVars>>

\* consume_start_replay's condition
StartReplay(t, a) ==
  /\ stepping
  /\ stepTid = t
  /\ stepStart = a
  /\ replay

\* RESUME_SKIP belongs to this thread: its window closes with this hit.
ResumeReplay(t, a) == resumeSkip = Hit(t, a)

\* The slot's breakpoint was removed or has fired: return.
OnHitInactive(t) ==
  /\ tpc[t] = "onHit"
  /\ ~slots[tindex[t]].active
  /\ Leave(t, "exec")
  /\ UNCHANGED <<tableVars, cache, stopped, ip, at, misled, taddr,
                 redirectVars, hitVars, stepVars, serverVars>>

\* The stopped instruction is replayed by a step: return once.
OnHitStartReplay(t) ==
  /\ tpc[t] = "onHit"
  /\ slots[tindex[t]].active
  /\ StartReplay(t, slots[tindex[t]].addr)
  /\ replay' = FALSE
  /\ Leave(t, "exec")
  /\ UNCHANGED <<tableVars, cache, stopped, ip, at, misled, taddr,
                 redirectVars, hitVars, stepping, stepTid, stepStart,
                 candidates, steps, serverVars>>

\* The stopped instruction is replayed by a plain resume: return once.
OnHitResumeReplay(t) ==
  /\ tpc[t] = "onHit"
  /\ slots[tindex[t]].active
  /\ ~StartReplay(t, slots[tindex[t]].addr)
  /\ ResumeReplay(t, slots[tindex[t]].addr)
  /\ resumeSkip' = NoHit
  /\ Leave(t, "exec")
  /\ UNCHANGED <<tableVars, cache, stopped, ip, at, misled, taddr,
                 redirectVars, lastHit, stepVars, serverVars>>

\* History: t stops for address a, which need not be its own instruction's.
Misled(t, a) == IF a = ip[t] THEN misled ELSE misled \cup {t}

\* A hit: a one-shot is spent, a step that lands here is claimed, and
\* exact_stop records the hit.
OnHit(t) ==
  LET i == tindex[t]
      a == slots[i].addr
  IN  /\ tpc[t] = "onHit"
      /\ slots[i].active
      /\ ~StartReplay(t, a)
      /\ ~ResumeReplay(t, a)
      /\ resumeSkip' = IF resumeSkip.tid = t THEN NoHit ELSE resumeSkip
      /\ slots' = [slots EXCEPT ![i].active = ~slots[i].oneShot]
      /\ activeCount' = activeCount - (IF slots[i].oneShot THEN 1 ELSE 0)
      /\ stepping' = (stepping /\ ~(stepTid = t /\ CandidatesAt(a) # {}))
      /\ lastHit' = Hit(t, a)
      /\ taddr' = [taddr EXCEPT ![t] = a]
      /\ misled' = Misled(t, a)
      /\ Leave(t, "stopping")
      /\ UNCHANGED <<nextId, cache, stopped, ip, at, redirectVars,
                     stepTid, stepStart, replay, candidates, steps, serverVars>>

\* on_step_hit_ctx: the replayed start, then claim_candidate, else return.
OnStepHit(t) ==
  LET a == candidates[tindex[t]]
      start == a # NoAddr /\ StartReplay(t, a)
      claim == a # NoAddr /\ ~start /\ stepTid = t /\ stepping
  IN  /\ tpc[t] = "onStepHit"
      /\ replay' = (replay /\ ~start)
      /\ stepping' = (stepping /\ ~claim)
      /\ lastHit' = IF claim THEN Hit(t, a) ELSE lastHit
      /\ taddr' = IF claim THEN [taddr EXCEPT ![t] = a] ELSE taddr
      /\ misled' = IF claim THEN Misled(t, a) ELSE misled
      /\ Leave(t, IF claim THEN "stopping" ELSE "exec")
      /\ UNCHANGED <<tableVars, cache, stopped, ip, at, redirectVars,
                     resumeSkip, stepTid, stepStart, candidates, steps,
                     serverVars>>

\* Mutant: the stub is taken without the compare_exchange.
RedirectArmRacy(t) ==
  /\ tpc[t] = "stopping"
  /\ redirectTid' = t
  /\ redirectAddr' = taddr[t]
  /\ Goto(t, "armed")
  /\ taddr' = [taddr EXCEPT ![t] = NoAddr]
  /\ UNCHANGED <<tableVars, cache, stopped, ip, at, misled, tindex, hitVars,
                 stepVars, serverVars>>

\* Mutant: REDIRECT_ADDR is not stored.
RedirectArmNoAddr(t) ==
  /\ tpc[t] = "stopping"
  /\ \/ /\ redirectTid = None
        /\ redirectTid' = t
        /\ Goto(t, "armed")
     \/ /\ redirectTid # None
        /\ Goto(t, "exec")
        /\ UNCHANGED redirectTid
  /\ taddr' = [taddr EXCEPT ![t] = NoAddr]
  /\ UNCHANGED <<tableVars, cache, stopped, ip, at, misled, tindex, redirectAddr,
                 hitVars, stepVars, serverVars>>

\* redirect_arm: one thread at a time owns the stub; another goes on and the
\* stop catches it wherever it is.
RedirectArm(t) ==
  /\ tpc[t] = "stopping"
  /\ \/ /\ redirectTid = None
        /\ redirectTid' = t
        /\ redirectAddr' = taddr[t]
        /\ Goto(t, "armed")
     \/ /\ redirectTid # None
        /\ Goto(t, "exec")
        /\ UNCHANGED redirectVars
  /\ taddr' = [taddr EXCEPT ![t] = NoAddr]
  /\ UNCHANGED <<tableVars, cache, stopped, ip, at, misled, tindex, hitVars,
                 stepVars, serverVars>>

\* Mutant: a thread whose context cannot be written keeps the stub.
ExecuteAtKeepsStub(t) ==
  /\ tpc[t] = "armed"
  /\ \/ /\ ip' = [ip EXCEPT ![t] = Stub]
        /\ Goto(t, "run")
     \/ /\ Goto(t, "exec")
        /\ UNCHANGED ip
  /\ UNCHANGED <<tableVars, cache, stopped, at, misled, tindex, taddr,
                 redirectVars, hitVars, stepVars, serverVars>>

\* pb_pin_execute_at(stub); if the context cannot be written the stub is
\* given back and the instruction executes.
ExecuteAt(t) ==
  /\ tpc[t] = "armed"
  /\ \/ /\ ip' = [ip EXCEPT ![t] = Stub]
        /\ Goto(t, "run")
        /\ UNCHANGED redirectTid
     \/ /\ redirectTid' = None
        /\ Goto(t, "exec")
        /\ UNCHANGED ip
  /\ UNCHANGED <<tableVars, cache, stopped, at, misled, tindex, taddr,
                 redirectAddr, hitVars, stepVars, serverVars>>

-----------------------------------------------------------------------------
(* The breaker thread.                                                     *)

\* rewind_redirected: the redirected thread goes back onto the breakpoint.
Rewind ==
  ip' = [t \in Threads |-> IF t = redirectTid THEN redirectAddr ELSE ip[t]]

\* stepper::cancel
CancelStep ==
  /\ stepping' = FALSE
  /\ replay' = FALSE
  /\ candidates' = [i \in CandidateIndex |-> NoAddr]

\* A completed stop: rewind, cancel the step, publish STOPPED.
StopWorld ==
  /\ ~stopped
  /\ spc \notin {"resume", "resumed"}
  /\ \A t \in Threads : tpc[t] = "run"
  /\ Rewind
  /\ CancelStep
  /\ stopped' = TRUE
  /\ UNCHANGED <<tableVars, cache, at, misled, tpc, tindex, taddr,
                 redirectVars, hitVars, stepTid, stepStart, steps, serverVars>>

\* release_redirect, pb_pin_resume_application_threads, STOPPED := false
ResumeWorld ==
  /\ spc = "resume"
  /\ redirectTid' = None
  /\ stopped' = FALSE
  /\ spc' = "resumed"
  /\ UNCHANGED <<tableVars, cache, threadVars, redirectAddr, hitVars, stepVars,
                 flushing>>

\* LAST_HIT is cleared when the application already runs.
ForgetHit ==
  /\ spc = "resumed"
  /\ lastHit' = NoHit
  /\ spc' = "idle"
  /\ UNCHANGED <<tableVars, cache, stopped, threadVars, redirectVars,
                 resumeSkip, stepVars, flushing>>

-----------------------------------------------------------------------------
(* The query server.                                                       *)

\* handle_resume: arm_resume_skip, then RESUME.  The replay is swallowed only
\* when the hit thread still is on its breakpoint.
HandleResume ==
  /\ spc = "idle"
  /\ stopped
  /\ resumeSkip' = IF lastHit.tid # None /\ ip[lastHit.tid] = lastHit.addr
                   THEN lastHit ELSE NoHit
  /\ spc' = "resume"
  /\ UNCHANGED <<tableVars, cache, stopped, threadVars, redirectVars, lastHit,
                 stepVars, flushing>>

\* candidates.sort_unstable(): c lists the addresses of S, the smallest first.
Lists(c, S) ==
  /\ {c[i] : i \in CandidateIndex} \ {NoAddr} = S
  /\ \A i, j \in CandidateIndex :
       i < j => c[j] = NoAddr \/ (c[i] # NoAddr /\ c[i] < c[j])

\* handle_step of a decoded instruction: publish its successors (a call that is
\* stepped over has one), flush them, then RESUME.
HandleStep(t, over) ==
  LET start == ip[t]
      successors == IF over /\ start \in DOMAIN Fallthrough
                    THEN {Fallthrough[start]} ELSE Succ[start]
  IN  /\ spc = "idle"
      /\ stopped
      /\ steps < MaxSteps
      /\ steps' = steps + 1
      /\ successors # {}
      /\ \E c \in [CandidateIndex -> Addrs \cup {NoAddr}] :
           /\ Lists(c, successors)
           /\ candidates' = c
      /\ stepTid' = t
      /\ stepStart' = start
      /\ replay' = TRUE
      /\ stepping' = TRUE
      /\ Flush(successors)
      /\ spc' = "resume"
      /\ UNCHANGED <<tableVars, stopped, threadVars, redirectVars, hitVars,
                     flushing>>

\* Neither handler of breakpoints asks whether the application is stopped.
MayEdit == spc = "idle"

Free == {i \in SlotIndex : ~Live(i)}

\* bp::set under the table lock.  An address that has a live breakpoint keeps
\* it; otherwise the first slot that is unused or inactive is taken.
SetBreakpoint(a) ==
  /\ MayEdit
  /\ \/ /\ LiveAt(a) # {}
        /\ UNCHANGED tableVars
     \/ /\ LiveAt(a) = {}
        /\ Free # {}
        /\ nextId <= MaxId
        /\ slots' = [slots EXCEPT ![First(Free)] =
                       [used |-> TRUE, id |-> nextId, addr |-> a,
                        active |-> TRUE, oneShot |-> FALSE]]
        /\ activeCount' = activeCount + 1
        /\ nextId' = nextId + 1
  /\ spc' = "flush"
  /\ flushing' = a
  /\ UNCHANGED <<cache, stopped, threadVars, redirectVars, hitVars, stepVars>>

\* bp::set after the unlock
FlushBreakpoint ==
  /\ spc = "flush"
  /\ Flush({flushing})
  /\ spc' = "idle"
  /\ flushing' = NoAddr
  /\ UNCHANGED <<tableVars, stopped, threadVars, redirectVars, hitVars,
                 stepVars>>

\* Mutant: the removed breakpoint's code is not flushed.
RemoveBreakpointNoFlush(i) ==
  /\ MayEdit
  /\ slots[i].used
  /\ slots' = [slots EXCEPT ![i].active = FALSE, ![i].used = FALSE]
  /\ activeCount' = activeCount - 1
  /\ UNCHANGED <<nextId, cache, stopped, threadVars, redirectVars, hitVars,
                 stepVars, serverVars>>

\* bp::remove, under the table lock
RemoveBreakpoint(i) ==
  /\ MayEdit
  /\ slots[i].used
  /\ slots' = [slots EXCEPT ![i].active = FALSE, ![i].used = FALSE]
  /\ activeCount' = activeCount - 1
  /\ Flush({slots[i].addr})
  /\ UNCHANGED <<nextId, stopped, threadVars, redirectVars, hitVars, stepVars,
                 serverVars>>

-----------------------------------------------------------------------------
ThreadNext(t) ==
  \/ Instrument(t)
  \/ Fetch(t)
  \/ Execute(t)
  \/ OnHitInactive(t)
  \/ OnHitStartReplay(t)
  \/ OnHitResumeReplay(t)
  \/ OnHit(t)
  \/ OnStepHit(t)
  \/ RedirectArm(t)
  \/ ExecuteAt(t)

ServerNext ==
  \/ HandleResume
  \/ \E t \in Threads, over \in BOOLEAN : HandleStep(t, over)
  \/ \E a \in Addrs : SetBreakpoint(a)
  \/ FlushBreakpoint
  \/ \E i \in SlotIndex : RemoveBreakpoint(i)

Next ==
  \/ \E t \in Threads : ThreadNext(t)
  \/ StopWorld
  \/ ResumeWorld
  \/ ForgetHit
  \/ ServerNext

Spec == Init /\ [][Next]_vars

-----------------------------------------------------------------------------
Positions == Addrs \cup {Stub}
HitRecords == [tid : Threads \cup {None}, addr : Addrs \cup {NoAddr}]

TypeOK ==
  /\ slots \in [SlotIndex -> [used : BOOLEAN, id : Nat,
                              addr : Addrs \cup {NoAddr}, active : BOOLEAN,
                              oneShot : BOOLEAN]]
  /\ activeCount \in Int
  /\ nextId \in Nat
  /\ cache \in [Addrs -> [kind : {"none", "plain", "bp", "step"},
                          index : Nat]]
  /\ stopped \in BOOLEAN
  /\ ip \in [Threads -> Positions]
  /\ at \in [Threads -> Addrs]
  /\ misled \subseteq Threads
  /\ tpc \in [Threads -> {"run", "onHit", "onStepHit", "stopping", "armed",
                          "exec"}]
  /\ tindex \in [Threads -> Nat]
  /\ taddr \in [Threads -> Addrs \cup {NoAddr}]
  /\ redirectTid \in Threads \cup {None}
  /\ redirectAddr \in Addrs \cup {NoAddr}
  /\ lastHit \in HitRecords
  /\ resumeSkip \in HitRecords
  /\ stepping \in BOOLEAN
  /\ stepTid \in Threads \cup {None}
  /\ stepStart \in Addrs \cup {NoAddr}
  /\ replay \in BOOLEAN
  /\ candidates \in [CandidateIndex -> Addrs \cup {NoAddr}]
  /\ steps \in Nat
  /\ spc \in {"idle", "flush", "resume", "resumed"}
  /\ flushing \in Addrs \cup {NoAddr}

\* "The stop is exact and side-effect-free" (bp.rs): every stopped thread's
\* context is on the instruction it has yet to execute.  Violated when a slot
\* or a candidate index gets another address while a callback still refers to
\* it.
ExactPosition == stopped => ip = at

\* What is left of exactness whatever is edited, stepped and hit: through the
\* race for the stub, the redirect, the rewind and a second stop, a thread's
\* context goes back where it was, unless its own callback read the address of
\* another instruction from the table.
StopExact ==
  stopped => \A t \in Threads : ip[t] = at[t] \/ t \in misled

\* Which compiled callbacks can mislead: remove flushes an address before its
\* slot can be given away, so a breakpoint's callback in the code cache refers
\* to its own address, except at the entry, whose one-shot is spent unflushed.
FreshCallbacks ==
  \A a \in Addrs :
    cache[a].kind = "bp" =>
      a = Entry \/ (Live(cache[a].index) /\ slots[cache[a].index].addr = a)

\* No straggler: the stub holds only the thread that owns the redirect, so the
\* rewind brings everyone out of it and a resume leaves nobody spinning.
StubRewound ==
  \A t \in Threads :
    ip[t] = Stub => ~stopped /\ redirectTid = t /\ tpc[t] = "run"

LiveSlots == {i \in SlotIndex : Live(i)}

\* A breakpoint that is set is not missed: once its flush is done, code that
\* is compiled without its callback cannot run.  The promise ends with the
\* removal of a one-shot that has fired (bp.rs:681), which takes it off
\* ACTIVE_COUNT a second time: any_active may then hide the other slots.
BreakpointArmed ==
  activeCount = Cardinality(LiveSlots) =>
    \A i \in LiveSlots :
      LET a == slots[i].addr
      IN  ~(spc = "flush" /\ flushing = a) =>
            cache[a] \in {NotCached, [kind |-> "bp", index |-> i]}
=============================================================================
