--------------------------- MODULE ControlChannel ---------------------------
(***************************************************************************)
(* The stop/resume control plane of the agent (bp.rs, control.rs,          *)
(* stepper.rs and the STEP handler of query_server.rs).                    *)
(*                                                                         *)
(* Pin pairs a stop with the internal thread that made it, so one "breaker"*)
(* thread owns pb_pin_stop_application_threads and                         *)
(* pb_pin_resume_application_threads.  Application threads ask it to stop  *)
(* by setting HIT_PENDING; the single-threaded query server sends it STOP  *)
(* and RESUME through the CMD / ACK pair and waits a bounded time for the  *)
(* answer.  A step may park its landing thread on a semaphore inside an    *)
(* analysis callback; a parked thread is not a safe point.                 *)
(*                                                                         *)
(* Simplifications:                                                        *)
(*  - CMD_SEM only shortens the breaker's 50 ms poll, so the breaker's     *)
(*    wake-up is always enabled and the semaphore is left out;             *)
(*  - which address a hit is at, and the rewind onto it, is ExactStop;     *)
(*  - the 100 ticks (5 s) of the watchdog outlast the one tick in which    *)
(*    the breaker takes the step's RESUME, so it does not expire between   *)
(*    arm_step_watchdog and that;                                          *)
(*  - the loader hold-off before a stop is part of the stop's duration.    *)
(***************************************************************************)
EXTENDS Naturals

CONSTANTS
  Threads,          \* application threads
  None,             \* "no thread" (NO_HIT_TID, an empty park slot)
  MaxSlowStops,     \* how often a stop may outlast the 10 s wait for its ACK
  MaxFailures       \* how often Pin may refuse to stop or to resume

ASSUME ChannelAssumption ==
  /\ None \notin Threads
  /\ MaxSlowStops \in Nat
  /\ MaxFailures \in Nat

VARIABLES
  world,      \* Pin: "running" or "frozen"; "dead" once its VM ended the process
  stopped,    \* control::STOPPED
  hitPending, \* HIT_PENDING
  cmd,        \* CMD: "none", "stop" or "resume"
  cmdResult,  \* CMD_RESULT
  ack,        \* ACK_SEM (binary, never cleared by a wait)
  watchdog,   \* WATCHDOG_TICKS # 0
  bpc,        \* where the breaker thread is in its loop
  spc,        \* where the query server is in control_command
  op,         \* the request the query server serves
  answer,     \* what the last control_command returned
  tpc,        \* where each application thread is
  stepping,   \* STEPPING
  stepTid,    \* STEP_TID
  stepMode,   \* STEP_MODE: "into" (exec capture) or "candidates"
  parked,     \* PARKED / PARKED_TID, None when PARKED is false
  parkSem,    \* PARK_SEM
  suspending, \* SUSPENDING
  slow,       \* number of slow stops so far
  failures,   \* number of refused stops and resumes so far
  crossed     \* history: a command was stored over an unfinished one

breakerVars == <<bpc, cmdResult>>
serverVars == <<spc, op, answer, crossed>>
stepVars == <<stepping, stepTid, stepMode>>
parkVars == <<parked, parkSem, suspending>>
bounds == <<slow, failures>>
vars == <<world, stopped, hitPending, cmd, ack, watchdog, tpc, breakerVars,
          serverVars, stepVars, parkVars, bounds>>

Ops == {"stop", "resume", "stepInto", "stepCandidates"}
Steps == {"stepInto", "stepCandidates"}

Init ==
  /\ world = "running"
  /\ stopped = FALSE
  /\ hitPending = FALSE
  /\ cmd = "none"
  /\ cmdResult = FALSE
  /\ ack = FALSE
  /\ watchdog = FALSE
  /\ bpc = "wait"
  /\ spc = "idle"
  /\ op = "stop"
  /\ answer = TRUE
  /\ tpc = [t \in Threads |-> "app"]
  /\ stepping = FALSE
  /\ stepTid = None
  /\ stepMode = "into"
  /\ parked = None
  /\ parkSem = FALSE
  /\ suspending = FALSE
  /\ slow = 0
  /\ failures = 0
  /\ crossed = FALSE

-----------------------------------------------------------------------------
(* Application threads.  "app" runs application code; "callback" is inside *)
(* an analysis callback; "landing" saw an armed step; "parking" holds the  *)
(* park slot but does not wait yet; "parked" waits for PARK_SEM; "woken"   *)
(* has not cleared it yet; "held" is suspended at a safe point by          *)
(* pb_pin_stop_application_threads.                                        *)

EnterCallback(t) ==
  /\ tpc[t] = "app"
  /\ tpc' = [tpc EXCEPT ![t] = "callback"]
  /\ UNCHANGED <<world, stopped, hitPending, cmd, ack, watchdog, breakerVars,
                 serverVars, stepVars, parkVars, bounds>>

LeaveCallback(t) ==
  /\ tpc[t] = "callback"
  /\ tpc' = [tpc EXCEPT ![t] = "app"]
  /\ UNCHANGED <<world, stopped, hitPending, cmd, ack, watchdog, breakerVars,
                 serverVars, stepVars, parkVars, bounds>>

\* request_stop: a breakpoint, an execution trap or the exception policy.
RequestStop(t) ==
  /\ tpc[t] = "callback"
  /\ hitPending' = TRUE
  /\ tpc' = [tpc EXCEPT ![t] = "app"]
  /\ UNCHANGED <<world, stopped, cmd, ack, watchdog, breakerVars, serverVars,
                 stepVars, parkVars, bounds>>

\* claim_candidate, then exact_stop: the requested thread reached a decoded
\* successor.  The compare_exchange on STEPPING admits one winner.
ClaimCandidate(t) ==
  /\ tpc[t] = "callback"
  /\ stepping
  /\ stepMode = "candidates"
  /\ stepTid = t
  /\ stepping' = FALSE
  /\ hitPending' = TRUE
  /\ tpc' = [tpc EXCEPT ![t] = "app"]
  /\ UNCHANGED <<world, stopped, cmd, ack, watchdog, breakerVars, serverVars,
                 stepTid, stepMode, parkVars, bounds>>

\* on_step_event: the stepped thread's exec callback sees the armed step.
StepLanding(t) ==
  /\ tpc[t] = "callback"
  /\ stepping
  /\ stepMode = "into"
  /\ stepTid = t
  /\ tpc' = [tpc EXCEPT ![t] = "landing"]
  /\ UNCHANGED <<world, stopped, hitPending, cmd, ack, watchdog, breakerVars,
                 serverVars, stepVars, parkVars, bounds>>

\* park_current, under PARK_LOCK: the landing thread takes the park slot,
\* unless a suspension is in flight or the slot is taken; then it only
\* requests a stop.
ParkCurrent(t) ==
  /\ tpc[t] = "landing"
  /\ \/ /\ ~suspending
        /\ parked = None
        /\ parked' = t
        /\ stepping' = FALSE
        /\ tpc' = [tpc EXCEPT ![t] = "parking"]
        /\ UNCHANGED hitPending
     \/ /\ suspending \/ parked # None
        /\ hitPending' = TRUE
        /\ tpc' = [tpc EXCEPT ![t] = "app"]
        /\ UNCHANGED <<parked, stepping>>
  /\ UNCHANGED <<world, stopped, cmd, ack, watchdog, breakerVars, serverVars,
                 stepTid, stepMode, parkSem, suspending, bounds>>

\* park_current after the unlock: request_stop, then wait on PARK_SEM.
ParkWait(t) ==
  /\ tpc[t] = "parking"
  /\ hitPending' = TRUE
  /\ tpc' = [tpc EXCEPT ![t] = "parked"]
  /\ UNCHANGED <<world, stopped, cmd, ack, watchdog, breakerVars, serverVars,
                 stepVars, parkVars, bounds>>

\* pb_pin_semaphore_wait(PARK_SEM) returns
WakeParked(t) ==
  /\ tpc[t] = "parked"
  /\ parkSem
  /\ tpc' = [tpc EXCEPT ![t] = "woken"]
  /\ UNCHANGED <<world, stopped, hitPending, cmd, ack, watchdog, breakerVars,
                 serverVars, stepVars, parkVars, bounds>>

\* pb_pin_semaphore_clear(PARK_SEM)
Unpark(t) ==
  /\ tpc[t] = "woken"
  /\ parkSem' = FALSE
  /\ tpc' = [tpc EXCEPT ![t] = "callback"]
  /\ UNCHANGED <<world, stopped, hitPending, cmd, ack, watchdog, breakerVars,
                 serverVars, stepVars, parked, suspending, bounds>>

-----------------------------------------------------------------------------
(* The breaker thread.                                                     *)

\* stepper::release: frees the park slot and posts PARK_SEM if it was taken.
Release ==
  /\ parked' = None
  /\ parkSem' = (parkSem \/ parked # None)

\* Mutant: a suspension that leaves the parked thread parked.
BeginSuspendNoRelease ==
  /\ suspending' = TRUE
  /\ UNCHANGED <<parked, parkSem>>

\* stepper::begin_suspend, under PARK_LOCK.
BeginSuspend ==
  /\ suspending' = TRUE
  /\ Release

WatchdogExpires ==
  /\ bpc = "wait"
  /\ watchdog
  /\ spc # "store"
  /\ cmd = "none"
  /\ watchdog' = FALSE
  /\ hitPending' = (hitPending \/ ~stopped)
  /\ bpc' = "hit"
  /\ UNCHANGED <<world, stopped, cmd, cmdResult, ack, serverVars, tpc,
                 stepVars, parkVars, bounds>>

BreakerWakes ==
  /\ bpc = "wait"
  /\ hitPending \/ cmd # "none"
  /\ bpc' = "hit"
  /\ UNCHANGED <<world, stopped, hitPending, cmd, cmdResult, ack, watchdog,
                 serverVars, tpc, stepVars, parkVars, bounds>>

\* Mutant: a hit is dropped while a suspension is in flight.
TakeHitUnlessSuspending ==
  /\ bpc = "hit"
  /\ hitPending' = FALSE
  /\ IF hitPending /\ ~suspending
     THEN /\ BeginSuspend
          /\ bpc' = IF stopped THEN "cmd" ELSE "hitStop"
     ELSE /\ bpc' = "cmd"
          /\ UNCHANGED parkVars
  /\ UNCHANGED <<world, stopped, cmd, cmdResult, ack, watchdog, serverVars,
                 tpc, stepVars, bounds>>

TakeHit ==
  /\ bpc = "hit"
  /\ hitPending' = FALSE
  /\ IF hitPending
     THEN /\ BeginSuspend
          /\ bpc' = IF stopped THEN "cmd" ELSE "hitStop"
     ELSE /\ bpc' = "cmd"
          /\ UNCHANGED parkVars
  /\ UNCHANGED <<world, stopped, cmd, cmdResult, ack, watchdog, serverVars,
                 tpc, stepVars, bounds>>

TakeCommand ==
  /\ bpc = "cmd"
  /\ cmd' = "none"
  /\ \/ cmd = "none" /\ bpc' = "wait" /\ UNCHANGED parkVars
     \/ cmd = "stop" /\ bpc' = "cmdStop" /\ BeginSuspend
     \/ cmd = "resume" /\ bpc' = "resume" /\ Release /\ UNCHANGED suspending
  /\ UNCHANGED <<world, stopped, hitPending, cmdResult, ack, watchdog,
                 serverVars, tpc, stepVars, bounds>>

AtSafePoint == \A t \in Threads : tpc[t] = "held"

AllRun == [t \in Threads |-> "app"]

\* Pin suspends a thread at its next safe point while a stop is under way.
Hold(t) ==
  /\ bpc \in {"hitStop", "cmdStop"}
  /\ tpc[t] = "app"
  /\ tpc' = [tpc EXCEPT ![t] = "held"]
  /\ UNCHANGED <<world, stopped, hitPending, cmd, ack, watchdog, breakerVars,
                 serverVars, stepVars, parkVars, bounds>>

\* pb_pin_stop_application_threads returns once every application thread is
\* at a safe point.  Stopping a frozen application may report either.
StopWorld ==
  /\ bpc \in {"hitStop", "cmdStop"}
  /\ AtSafePoint
  /\ \/ /\ world' = "frozen"
        /\ bpc' = IF bpc = "hitStop" THEN "hitPublish" ELSE "cmdPublish"
        /\ UNCHANGED <<failures, cmdResult, tpc>>
     \/ /\ failures < MaxFailures
        /\ failures' = failures + 1
        /\ bpc' = IF bpc = "hitStop" THEN "cmd" ELSE "ack"
        /\ cmdResult' = IF bpc = "hitStop" THEN cmdResult ELSE FALSE
        /\ tpc' = IF world = "frozen" THEN tpc ELSE AllRun
        /\ UNCHANGED world
  /\ UNCHANGED <<stopped, hitPending, cmd, ack, watchdog, serverVars,
                 stepVars, parkVars, slow>>

\* With the world frozen: rewind, cancel the step, then publish STOPPED.
PublishStop ==
  /\ bpc \in {"hitPublish", "cmdPublish"}
  /\ watchdog' = FALSE
  /\ stepping' = FALSE
  /\ stopped' = TRUE
  /\ bpc' = IF bpc = "hitPublish" THEN "cmd" ELSE "ack"
  /\ cmdResult' = IF bpc = "hitPublish" THEN cmdResult ELSE TRUE
  /\ UNCHANGED <<world, hitPending, cmd, ack, serverVars, tpc, stepTid,
                 stepMode, parkVars, bounds>>

\* pb_pin_resume_application_threads.  Resuming a running application trips
\* an assertion of Pin's VM that ends the process.
ResumeWorld ==
  /\ bpc = "resume"
  /\ \/ /\ world = "frozen"
        /\ world' = "running"
        /\ tpc' = AllRun
        /\ bpc' = "resumed"
        /\ UNCHANGED <<cmdResult, failures, spc>>
     \/ /\ world = "frozen"
        /\ failures < MaxFailures
        /\ failures' = failures + 1
        /\ cmdResult' = FALSE
        /\ bpc' = "ack"
        /\ UNCHANGED <<world, tpc, spc>>
     \/ /\ world = "running"
        /\ world' = "dead"
        /\ tpc' = [t \in Threads |-> "dead"]
        /\ bpc' = "dead"
        /\ spc' = "dead"
        /\ UNCHANGED <<cmdResult, failures>>
  /\ UNCHANGED <<stopped, hitPending, cmd, ack, watchdog, op, answer, crossed,
                 stepVars, parkVars, slow>>

\* Mutant: STOPPED is not reset.
PublishResumeStaleStopped ==
  /\ bpc = "resumed"
  /\ suspending' = FALSE
  /\ cmdResult' = TRUE
  /\ bpc' = "ack"
  /\ UNCHANGED <<world, stopped, hitPending, cmd, ack, watchdog, serverVars, tpc,
                 stepVars, parked, parkSem, bounds>>

PublishResume ==
  /\ bpc = "resumed"
  /\ stopped' = FALSE
  /\ suspending' = FALSE
  /\ cmdResult' = TRUE
  /\ bpc' = "ack"
  /\ UNCHANGED <<world, hitPending, cmd, ack, watchdog, serverVars, tpc,
                 stepVars, parked, parkSem, bounds>>

SendAck ==
  /\ bpc = "ack"
  /\ ack' = TRUE
  /\ bpc' = "wait"
  /\ UNCHANGED <<world, stopped, hitPending, cmd, cmdResult, watchdog,
                 serverVars, tpc, stepVars, parkVars, bounds>>

-----------------------------------------------------------------------------
(* The query server: one request at a time.                                *)

\* handle_stop; a stopped application answers 1 without a command.
HandleStop ==
  /\ spc = "idle"
  /\ ~stopped
  /\ op' = "stop"
  /\ spc' = "store"
  /\ UNCHANGED <<world, stopped, hitPending, cmd, ack, watchdog, breakerVars,
                 answer, tpc, stepVars, parkVars, bounds, crossed>>

\* Mutant: a resume that does not look at STOPPED.
HandleResumeUnguarded ==
  /\ spc = "idle"
  /\ op' = "resume"
  /\ spc' = "store"
  /\ UNCHANGED <<world, stopped, hitPending, cmd, ack, watchdog, breakerVars,
                 answer, tpc, stepVars, parkVars, bounds, crossed>>

\* handle_resume; a running application is refused.
HandleResume ==
  /\ spc = "idle"
  /\ stopped
  /\ op' = "resume"
  /\ spc' = "store"
  /\ UNCHANGED <<world, stopped, hitPending, cmd, ack, watchdog, breakerVars,
                 answer, tpc, stepVars, parkVars, bounds, crossed>>

\* Mutant: the request kind is stored as the mode.
StepModeUnconverted(kind) == kind

StepModeOf(kind) == IF kind = "stepInto" THEN "into" ELSE "candidates"

\* Mutant: a step without its watchdog.
HandleStepNoWatchdog(t, kind) ==
  /\ spc = "idle"
  /\ stopped
  /\ world = "frozen"
  /\ stepping' = TRUE
  /\ stepTid' = t
  /\ stepMode' = StepModeOf(kind)
  /\ op' = kind
  /\ spc' = "store"
  /\ UNCHANGED <<world, stopped, hitPending, cmd, ack, watchdog, breakerVars,
                 answer, tpc, parkVars, bounds, crossed>>

\* handle_step: read the stopped thread's context (an error for a running
\* one), arm the stepper (stepper::arm or arm_candidates), arm the watchdog,
\* then resume.
HandleStep(t, kind) ==
  /\ spc = "idle"
  /\ stopped
  /\ world = "frozen"
  /\ stepping' = TRUE
  /\ stepTid' = t
  /\ stepMode' = StepModeOf(kind)
  /\ watchdog' = TRUE
  /\ op' = kind
  /\ spc' = "store"
  /\ UNCHANGED <<world, stopped, hitPending, cmd, ack, breakerVars, answer,
                 tpc, parkVars, bounds, crossed>>

\* The breaker works on a command of the query server.
Busy == {"cmdStop", "cmdPublish", "resume", "resumed", "ack"}

\* control_command, CMD.store
StoreCommand ==
  /\ spc = "store"
  /\ cmd' = IF op = "stop" THEN "stop" ELSE "resume"
  /\ spc' = "clear"
  /\ crossed' = (crossed \/ cmd # "none" \/ bpc \in Busy)
  /\ UNCHANGED <<world, stopped, hitPending, ack, watchdog, breakerVars, op,
                 answer, tpc, stepVars, parkVars, bounds>>

\* control_command, pb_pin_semaphore_clear(ack_sem)
ClearAck ==
  /\ spc = "clear"
  /\ ack' = FALSE
  /\ spc' = "wait"
  /\ UNCHANGED <<world, stopped, hitPending, cmd, watchdog, breakerVars, op,
                 answer, tpc, stepVars, parkVars, bounds, crossed>>

\* handle_step's error paths: the decoded steps cancel, the fallback does not.
CancelOnError(ok) ==
  stepping' = (stepping /\ (ok \/ op # "stepCandidates"))

AckArrives ==
  /\ spc = "wait"
  /\ ack
  /\ answer' = cmdResult
  /\ spc' = "idle"
  /\ CancelOnError(cmdResult)
  /\ UNCHANGED <<world, stopped, hitPending, cmd, ack, watchdog, breakerVars,
                 op, tpc, stepTid, stepMode, parkVars, bounds, crossed>>

\* The breaker consumed the command and finished with it: nothing will post.
AckLost == cmd = "none" /\ bpc \in {"wait", "hit", "hitStop", "hitPublish"}

\* The breaker is still inside pb_pin_stop_application_threads.
StopInProgress == bpc \in {"hitStop", "cmdStop"} /\ ~AtSafePoint

AckTimeout ==
  /\ spc = "wait"
  /\ ~ack
  /\ \/ /\ AckLost
        /\ UNCHANGED slow
     \/ /\ ~AckLost
        /\ StopInProgress
        /\ slow < MaxSlowStops
        /\ slow' = slow + 1
  /\ answer' = FALSE
  /\ spc' = "idle"
  /\ CancelOnError(FALSE)
  /\ UNCHANGED <<world, stopped, hitPending, cmd, ack, watchdog, breakerVars,
                 op, tpc, stepTid, stepMode, parkVars, failures, crossed>>

-----------------------------------------------------------------------------
ThreadNext(t) ==
  \/ EnterCallback(t)
  \/ LeaveCallback(t)
  \/ RequestStop(t)
  \/ ClaimCandidate(t)
  \/ StepLanding(t)
  \/ ParkCurrent(t)
  \/ ParkWait(t)
  \/ WakeParked(t)
  \/ Unpark(t)
  \/ Hold(t)

BreakerNext ==
  \/ WatchdogExpires
  \/ BreakerWakes
  \/ TakeHit
  \/ TakeCommand
  \/ StopWorld
  \/ PublishStop
  \/ ResumeWorld
  \/ PublishResume
  \/ SendAck

CommandNext ==
  \/ StoreCommand
  \/ ClearAck
  \/ AckArrives
  \/ AckTimeout

ServerNext ==
  \/ HandleStop
  \/ HandleResume
  \/ \E t \in Threads, kind \in Steps : HandleStep(t, kind)
  \/ CommandNext

Next ==
  \/ \E t \in Threads : ThreadNext(t)
  \/ BreakerNext
  \/ ServerNext

\* The breaker polls every 50 ms, the server finishes what it started, and an
\* application thread does not stay inside an analysis callback for ever.
\* Strong fairness of Hold: once a stop is under way Pin holds a thread at its
\* next safe point, so one that keeps entering callbacks cannot postpone it.
Fairness ==
  /\ WF_vars(BreakerNext)
  /\ WF_vars(WatchdogExpires)
  /\ WF_vars(CommandNext)
  /\ \A t \in Threads :
       /\ WF_vars(LeaveCallback(t) \/ ParkCurrent(t) \/ ParkWait(t)
                    \/ WakeParked(t) \/ Unpark(t))
       /\ SF_vars(Hold(t))

Spec == Init /\ [][Next]_vars

FairSpec == Spec /\ Fairness

-----------------------------------------------------------------------------
Parking == {"parking", "parked"}

TypeOK ==
  /\ world \in {"running", "frozen", "dead"}
  /\ stopped \in BOOLEAN
  /\ hitPending \in BOOLEAN
  /\ cmd \in {"none", "stop", "resume"}
  /\ cmdResult \in BOOLEAN
  /\ ack \in BOOLEAN
  /\ watchdog \in BOOLEAN
  /\ bpc \in {"wait", "hit", "cmd", "hitStop", "cmdStop", "hitPublish",
              "cmdPublish", "resume", "resumed", "ack", "dead"}
  /\ spc \in {"idle", "store", "clear", "wait", "dead"}
  /\ op \in Ops
  /\ answer \in BOOLEAN
  /\ tpc \in [Threads -> {"app", "callback", "landing", "parking", "parked",
                       "woken", "held", "dead"}]
  /\ stepping \in BOOLEAN
  /\ stepTid \in Threads \cup {None}
  /\ stepMode \in {"into", "candidates"}
  /\ parked \in Threads \cup {None}
  /\ parkSem \in BOOLEAN
  /\ suspending \in BOOLEAN
  /\ slow \in 0..MaxSlowStops
  /\ failures \in 0..MaxFailures
  /\ crossed \in BOOLEAN

\* A request that finds STOPPED set (WRITE_MEM, CONTEXT_SET, STEP: all served
\* by the one server thread) works on a frozen application, unless a command
\* was stored over an unfinished one, which takes a stop slower than the 10 s
\* that control_command waits for its answer.
ServedStopIsFrozen ==
  (spc = "idle" /\ stopped /\ world # "frozen") => (crossed /\ slow > 0)

\* The breaker resumes a running application, which kills the process, only
\* after a slow stop whose late answer the server took for that of the next
\* command; a slow stop that ends before the next command does no harm.
ResumeOnlyFrozen ==
  (bpc = "resume" /\ world # "frozen") => (crossed /\ slow > 0)

\* "Resuming a running application is a Pin contract violation (pinvm assert
\* kills the whole process) ... refuse instead" (control.rs:164-166): the
\* breaker never does it, however long a stop takes.
NeverResumesRunning == bpc = "resume" => world = "frozen"

\* The breaker never waits for a stop that a parked thread cannot let happen:
\* once it suspends, whoever waits on PARK_SEM has been posted.
NoParkDuringStop ==
  bpc \in {"hitStop", "cmdStop"} =>
    \A t \in Threads : tpc[t] \in Parking => parkSem

\* A requested stop happens (unless Pin refuses it): the breaker consumes
\* HIT_PENDING and no parked thread holds the stop up.
HitLeadsToStop ==
  (hitPending /\ failures = MaxFailures) ~> (stopped \/ world = "dead")

\* A step never runs off silently: it lands, or the watchdog pauses the
\* application, and either way the step is disarmed (unless Pin refused a
\* stop: then the request is dropped and the watchdog is not re-armed).
StepEnds == stepping ~> (~stepping \/ failures > 0 \/ world = "dead")

\* "Returns false when the breaker is unavailable or the action failed"
\* (control_command): false, once the breaker is done with the command, means
\* that the command failed.
FalseMeansFailed ==
  [][(spc = "wait" /\ spc' = "idle" /\ ~answer' /\ AckLost) => ~cmdResult]_vars
=============================================================================
