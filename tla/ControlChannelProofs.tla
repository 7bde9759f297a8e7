------------------------ MODULE ControlChannelProofs ------------------------
(***************************************************************************)
(* Proofs about ControlChannel, for any set of threads and any bounds.     *)
(*                                                                         *)
(*  - ParkInv is the inductive invariant behind NoParkDuringStop.  It holds*)
(*    however slow a stop is, up to the moment in which the breaker is     *)
(*    about to resume a running application (Doomed).                      *)
(*  - CommandInv is the inductive invariant behind ServedStopIsFrozen and  *)
(*    ResumeOnlyFrozen.  It holds, however slow the stops are, until a     *)
(*    command is stored over an unfinished one.                            *)
(***************************************************************************)
EXTENDS ControlChannel, TLAPS

Stopping == {"hitStop", "cmdStop"}
Publishing == {"hitPublish", "cmdPublish"}
Waiting == Parking \cup {"woken"}

\* The next step of the breaker ends the process.
Doomed == bpc = "resume" /\ world = "running"

\* Only the holder of the park slot waits, and a wait without a holder has
\* been posted; a posted wait lasts no longer than the suspension.
ParkSlot ==
  /\ \A t, u \in Threads : tpc[t] \in Waiting /\ tpc[u] \in Waiting => t = u
  /\ \A t \in Threads : tpc[t] \in Parking => parked = t \/ parkSem
  /\ parked # None => tpc[parked] \in Parking /\ ~parkSem
  /\ \A t \in Threads : tpc[t] \in Waiting /\ parked # t => suspending
  /\ parkSem => \E t \in Threads : tpc[t] \in Waiting
  /\ \A t \in Threads : tpc[t] = "woken" => parkSem

\* A suspension lasts from before the stop to after the resume.
Suspension ==
  /\ suspending => parked = None
  /\ bpc \in Stopping => suspending
  /\ bpc \in Publishing => world = "frozen"
  /\ world = "frozen" => suspending /\ \A t \in Threads : tpc[t] = "held"
  /\ bpc = "resumed" => /\ suspending /\ world = "running"
                        /\ \A t \in Threads : tpc[t] \notin Waiting
  /\ world # "dead"

ParkInv == TypeOK /\ (Doomed \/ bpc = "dead" \/ (ParkSlot /\ Suspension))

\* STOPPED and the application agree, except between the two halves of a
\* stop or of a resume; a hit stops a running application.
StoppedAgrees ==
  /\ bpc \in Publishing => world = "frozen"
  /\ bpc = "hitStop" => ~stopped
  /\ bpc = "resumed" => world = "running" /\ stopped
  /\ bpc \notin Publishing \cup {"resumed"} => (stopped <=> world = "frozen")

\* One command at a time, and nobody resumes what is not stopped.  What is
\* left when the server gave up is a stop, and only slow stops are given up.
OneCommand ==
  /\ spc \in {"idle", "store"} =>
       cmd # "resume" /\ bpc \notin {"resume", "resumed"}
  /\ slow = 0 /\ spc \in {"idle", "store"} => cmd = "none" /\ bpc \notin Busy
  /\ cmd # "none" => bpc \notin Busy
  /\ spc = "wait" /\ ack => cmd = "none" /\ bpc \notin Busy
  /\ spc = "store" /\ op # "stop" => stopped
  /\ cmd = "resume" => stopped
  /\ bpc = "resume" => stopped

CommandBody ==
  /\ world # "dead" /\ bpc # "dead" /\ spc # "dead"
  /\ StoppedAgrees
  /\ OneCommand

\* Everything is in order until a command crosses another, which takes a slow
\* stop.
Uncrossed == (~crossed /\ CommandBody) \/ (crossed /\ slow > 0)

CommandInv == TypeOK /\ Uncrossed

-----------------------------------------------------------------------------
(* Type correctness.  The flags are kept apart from the other variables    *)
(* because different provers handle them.                                  *)

FlagTypes ==
  /\ stopped \in BOOLEAN /\ hitPending \in BOOLEAN /\ cmdResult \in BOOLEAN
  /\ ack \in BOOLEAN /\ watchdog \in BOOLEAN /\ answer \in BOOLEAN
  /\ stepping \in BOOLEAN /\ parkSem \in BOOLEAN /\ suspending \in BOOLEAN
  /\ crossed \in BOOLEAN

OtherTypes ==
  /\ world \in {"running", "frozen", "dead"}
  /\ cmd \in {"none", "stop", "resume"}
  /\ bpc \in {"wait", "hit", "cmd", "hitStop", "cmdStop", "hitPublish",
              "cmdPublish", "resume", "resumed", "ack", "dead"}
  /\ spc \in {"idle", "store", "clear", "wait", "dead"}
  /\ op \in Ops
  /\ tpc \in [Threads -> {"app", "callback", "landing", "parking", "parked",
                          "woken", "held", "dead"}]
  /\ stepTid \in Threads \cup {None}
  /\ stepMode \in {"into", "candidates"}
  /\ parked \in Threads \cup {None}
  /\ slow \in 0..MaxSlowStops
  /\ failures \in 0..MaxFailures

LEMMA TypesSplit == TypeOK <=> FlagTypes /\ OtherTypes
  BY Zenon DEF TypeOK, FlagTypes, OtherTypes

\* Every action assigns truth values to the flags.
LEMMA FlagStep == FlagTypes /\ [Next]_vars => FlagTypes'
<1> SUFFICES ASSUME FlagTypes, [Next]_vars PROVE FlagTypes'
  OBVIOUS
<1> USE DEF FlagTypes, vars, breakerVars, serverVars, stepVars, parkVars, bounds
<1>1. ASSUME NEW t \in Threads, EnterCallback(t) PROVE FlagTypes'
  BY <1>1, Zenon DEF EnterCallback
<1>2. ASSUME NEW t \in Threads, LeaveCallback(t) PROVE FlagTypes'
  BY <1>2, Zenon DEF LeaveCallback
<1>3. ASSUME NEW t \in Threads, RequestStop(t) PROVE FlagTypes'
  BY <1>3, Zenon DEF RequestStop
<1>4. ASSUME NEW t \in Threads, ClaimCandidate(t) PROVE FlagTypes'
  BY <1>4, Zenon DEF ClaimCandidate
<1>5. ASSUME NEW t \in Threads, StepLanding(t) PROVE FlagTypes'
  BY <1>5, Zenon DEF StepLanding
<1>6. ASSUME NEW t \in Threads, ParkCurrent(t) PROVE FlagTypes'
  BY <1>6, Zenon DEF ParkCurrent
<1>7. ASSUME NEW t \in Threads, ParkWait(t) PROVE FlagTypes'
  BY <1>7, Zenon DEF ParkWait
<1>8. ASSUME NEW t \in Threads, WakeParked(t) PROVE FlagTypes'
  BY <1>8, Zenon DEF WakeParked
<1>9. ASSUME NEW t \in Threads, Unpark(t) PROVE FlagTypes'
  BY <1>9, Zenon DEF Unpark
<1>10. ASSUME NEW t \in Threads, Hold(t) PROVE FlagTypes'
  BY <1>10, Zenon DEF Hold
<1>11. CASE WatchdogExpires
  BY <1>11, Zenon DEF WatchdogExpires
<1>12. CASE BreakerWakes
  BY <1>12, Zenon DEF BreakerWakes
<1>13. CASE TakeHit
  BY <1>13, Zenon DEF TakeHit, BeginSuspend, Release
<1>14. CASE TakeCommand
  BY <1>14, Zenon DEF TakeCommand, BeginSuspend, Release
<1>15. CASE StopWorld
  BY <1>15, Zenon DEF StopWorld, AllRun
<1>16. CASE PublishStop
  BY <1>16, Zenon DEF PublishStop
<1>17. CASE ResumeWorld
  BY <1>17, Zenon DEF ResumeWorld, AllRun
<1>18. CASE PublishResume
  BY <1>18, Zenon DEF PublishResume
<1>19. CASE SendAck
  BY <1>19, Zenon DEF SendAck
<1>20. CASE HandleStop
  BY <1>20, Zenon DEF HandleStop
<1>21. CASE HandleResume
  BY <1>21, Zenon DEF HandleResume
<1>22. ASSUME NEW t \in Threads, NEW kind \in Steps, HandleStep(t, kind)
      PROVE  FlagTypes'
  BY <1>22, Zenon DEF HandleStep, StepModeOf, Steps
<1>23. CASE StoreCommand
  BY <1>23, Zenon DEF StoreCommand
<1>24. CASE ClearAck
  BY <1>24, Zenon DEF ClearAck
<1>25. CASE AckArrives
  BY <1>25, Zenon DEF AckArrives, CancelOnError
<1>26. CASE AckTimeout
  BY <1>26, Zenon DEF AckTimeout, CancelOnError
<1>27. CASE UNCHANGED vars
  BY <1>27, Zenon
<1>28. QED
  BY <1>1, <1>2, <1>3, <1>4, <1>5, <1>6, <1>7, <1>8, <1>9, <1>10, <1>11,
     <1>12, <1>13, <1>14, <1>15, <1>16, <1>17, <1>18, <1>19, <1>20, <1>21,
     <1>22, <1>23, <1>24, <1>25, <1>26, <1>27 DEF Next, ThreadNext,
     BreakerNext, ServerNext, CommandNext

\* Every action keeps program counters, threads and counters in range.
LEMMA OtherStep == OtherTypes /\ [Next]_vars => OtherTypes'
<1> SUFFICES ASSUME OtherTypes, [Next]_vars PROVE OtherTypes'
  OBVIOUS
<1> USE ChannelAssumption
<1> USE DEF OtherTypes, Ops, vars, breakerVars, serverVars, stepVars, parkVars, bounds
<1>1. ASSUME NEW t \in Threads, EnterCallback(t) PROVE OtherTypes'
  BY <1>1 DEF EnterCallback
<1>2. ASSUME NEW t \in Threads, LeaveCallback(t) PROVE OtherTypes'
  BY <1>2 DEF LeaveCallback
<1>3. ASSUME NEW t \in Threads, RequestStop(t) PROVE OtherTypes'
  BY <1>3 DEF RequestStop
<1>4. ASSUME NEW t \in Threads, ClaimCandidate(t) PROVE OtherTypes'
  BY <1>4 DEF ClaimCandidate
<1>5. ASSUME NEW t \in Threads, StepLanding(t) PROVE OtherTypes'
  BY <1>5 DEF StepLanding
<1>6. ASSUME NEW t \in Threads, ParkCurrent(t) PROVE OtherTypes'
  BY <1>6 DEF ParkCurrent
<1>7. ASSUME NEW t \in Threads, ParkWait(t) PROVE OtherTypes'
  BY <1>7 DEF ParkWait
<1>8. ASSUME NEW t \in Threads, WakeParked(t) PROVE OtherTypes'
  BY <1>8 DEF WakeParked
<1>9. ASSUME NEW t \in Threads, Unpark(t) PROVE OtherTypes'
  BY <1>9 DEF Unpark
<1>10. ASSUME NEW t \in Threads, Hold(t) PROVE OtherTypes'
  BY <1>10 DEF Hold
<1>11. CASE WatchdogExpires
  BY <1>11 DEF WatchdogExpires
<1>12. CASE BreakerWakes
  BY <1>12 DEF BreakerWakes
<1>13. CASE TakeHit
  BY <1>13 DEF TakeHit, BeginSuspend, Release
<1>14. CASE TakeCommand
  BY <1>14 DEF TakeCommand, BeginSuspend, Release
<1>15. CASE StopWorld
  <2>1. tpc' \in [Threads -> {"app", "callback", "landing", "parking", "parked",
                            "woken", "held", "dead"}]
    BY <1>15 DEF StopWorld, AllRun
  <2>2. world' \in {"running", "frozen", "dead"} /\ failures' \in 0..MaxFailures
    <3>1. CASE failures' = failures /\ world' = "frozen"
      BY <3>1
    <3>2. CASE failures < MaxFailures /\ failures' = failures + 1 /\ world' = world
      BY <3>2
    <3>3. QED
      BY <1>15, <3>1, <3>2 DEF StopWorld
  <2>3. bpc' \in {"hitPublish", "cmdPublish", "cmd", "ack"}
    BY <1>15 DEF StopWorld
  <2>4. QED
    BY <1>15, <2>1, <2>2, <2>3 DEF StopWorld
<1>16. CASE PublishStop
  BY <1>16 DEF PublishStop
<1>17. CASE ResumeWorld
  BY <1>17 DEF ResumeWorld, AllRun
<1>18. CASE PublishResume
  BY <1>18 DEF PublishResume
<1>19. CASE SendAck
  BY <1>19 DEF SendAck
<1>20. CASE HandleStop
  BY <1>20 DEF HandleStop
<1>21. CASE HandleResume
  BY <1>21 DEF HandleResume
<1>22. ASSUME NEW t \in Threads, NEW kind \in Steps, HandleStep(t, kind)
      PROVE  OtherTypes'
  BY <1>22 DEF HandleStep, StepModeOf, Steps
<1>23. CASE StoreCommand
  BY <1>23 DEF StoreCommand
<1>24. CASE ClearAck
  BY <1>24 DEF ClearAck
<1>25. CASE AckArrives
  BY <1>25 DEF AckArrives, CancelOnError
<1>26. CASE AckTimeout
  BY <1>26 DEF AckTimeout, CancelOnError
<1>27. CASE UNCHANGED vars
  BY <1>27
<1>28. QED
  BY <1>1, <1>2, <1>3, <1>4, <1>5, <1>6, <1>7, <1>8, <1>9, <1>10, <1>11,
     <1>12, <1>13, <1>14, <1>15, <1>16, <1>17, <1>18, <1>19, <1>20, <1>21,
     <1>22, <1>23, <1>24, <1>25, <1>26, <1>27 DEF Next, ThreadNext,
     BreakerNext, ServerNext, CommandNext

LEMMA TypeStep == TypeOK /\ [Next]_vars => TypeOK'
<1>1. ASSUME TypeOK PROVE FlagTypes /\ OtherTypes
  BY <1>1, TypesSplit
<1>2. ASSUME FlagTypes', OtherTypes' PROVE TypeOK'
  BY <1>2, Zenon DEF TypeOK, FlagTypes, OtherTypes
<1>3. QED
  BY <1>1, <1>2, FlagStep, OtherStep

LEMMA TypeInit == Init => TypeOK
<1> SUFFICES ASSUME Init PROVE TypeOK
  OBVIOUS
<1>1. FlagTypes
  BY Zenon DEF Init, FlagTypes
<1>2. OtherTypes
  BY ChannelAssumption DEF Init, OtherTypes, Ops
<1>3. QED
  BY <1>1, <1>2, TypesSplit

\* The variables of the control plane keep their types in every behaviour.
THEOREM TypeCorrect == Spec => []TypeOK
<1>1. QED
  BY TypeInit, TypeStep, PTL DEF Spec

-----------------------------------------------------------------------------
(* The command channel, up to the first command stored over another.       *)

LEMMA CommandStep ==
  ASSUME CommandInv, [Next]_vars
  PROVE  CommandInv'
<1>a. OtherTypes /\ Uncrossed
  BY TypesSplit, Zenon DEF CommandInv
<1>b. TypeOK'
  BY TypeStep DEF CommandInv
<1>c. SUFFICES Uncrossed'
  BY <1>b, Zenon DEF CommandInv
<1> USE DEF Uncrossed, CommandBody, StoppedAgrees, OneCommand, Publishing, Busy,
     OtherTypes, Ops, vars, breakerVars, serverVars, stepVars, parkVars, bounds
<1>1. ASSUME NEW t \in Threads, EnterCallback(t) PROVE Uncrossed'
  BY <1>1, <1>a DEF EnterCallback
<1>2. ASSUME NEW t \in Threads, LeaveCallback(t) PROVE Uncrossed'
  BY <1>2, <1>a DEF LeaveCallback
<1>3. ASSUME NEW t \in Threads, RequestStop(t) PROVE Uncrossed'
  BY <1>3, <1>a DEF RequestStop
<1>4. ASSUME NEW t \in Threads, ClaimCandidate(t) PROVE Uncrossed'
  BY <1>4, <1>a DEF ClaimCandidate
<1>5. ASSUME NEW t \in Threads, StepLanding(t) PROVE Uncrossed'
  BY <1>5, <1>a DEF StepLanding
<1>6. ASSUME NEW t \in Threads, ParkCurrent(t) PROVE Uncrossed'
  BY <1>6, <1>a DEF ParkCurrent
<1>7. ASSUME NEW t \in Threads, ParkWait(t) PROVE Uncrossed'
  BY <1>7, <1>a DEF ParkWait
<1>8. ASSUME NEW t \in Threads, WakeParked(t) PROVE Uncrossed'
  BY <1>8, <1>a DEF WakeParked
<1>9. ASSUME NEW t \in Threads, Unpark(t) PROVE Uncrossed'
  BY <1>9, <1>a DEF Unpark
<1>10. ASSUME NEW t \in Threads, Hold(t) PROVE Uncrossed'
  BY <1>10, <1>a DEF Hold
<1>11. CASE WatchdogExpires
  BY <1>11, <1>a DEF WatchdogExpires
<1>12. CASE BreakerWakes
  BY <1>12, <1>a DEF BreakerWakes
<1>13. CASE TakeHit
  BY <1>13, <1>a DEF TakeHit, BeginSuspend, Release
<1>14. CASE TakeCommand
  BY <1>14, <1>a DEF TakeCommand, BeginSuspend, Release
<1>15. CASE StopWorld
  BY <1>15, <1>a DEF StopWorld, AllRun
<1>16. CASE PublishStop
  BY <1>16, <1>a DEF PublishStop
<1>17. CASE ResumeWorld
  BY <1>17, <1>a DEF ResumeWorld, AllRun
<1>18. CASE PublishResume
  BY <1>18, <1>a DEF PublishResume
<1>19. CASE SendAck
  BY <1>19, <1>a DEF SendAck
<1>20. CASE HandleStop
  BY <1>20, <1>a DEF HandleStop
<1>21. CASE HandleResume
  BY <1>21, <1>a DEF HandleResume
<1>22. ASSUME NEW t \in Threads, NEW kind \in Steps, HandleStep(t, kind)
      PROVE  Uncrossed'
  BY <1>22, <1>a DEF HandleStep, StepModeOf, Steps
<1>23. CASE StoreCommand
  <2> DEFINE Crosses == cmd # "none" \/ bpc \in Busy
  <2>1. crossed' <=> (crossed \/ Crosses)
    BY <1>23, Zenon DEF StoreCommand
  <2>2. slow' = slow /\ spc = "store"
    BY <1>23 DEF StoreCommand
  <2>3. CASE crossed
    <3>1. crossed' /\ slow > 0
      BY <1>a, <2>1, <2>3, Zenon DEF Uncrossed
    <3>2. QED
      BY <3>1, <2>2, Zenon DEF Uncrossed
  <2>4. CASE ~crossed /\ Crosses
    <3>1. slow > 0
      BY <1>a, <2>2, <2>4, ChannelAssumption
    <3>2. QED
      BY <3>1, <2>1, <2>2, <2>4, Zenon DEF Uncrossed
  <2>5. CASE ~crossed /\ ~Crosses
    <3>1. ~crossed'
      BY <2>1, <2>5, Zenon
    <3>2. CommandBody'
      BY <1>23, <1>a, <2>5 DEF StoreCommand
    <3>3. QED
      BY <3>1, <3>2, Zenon DEF Uncrossed
  <2>6. QED
    BY <2>3, <2>4, <2>5, Zenon
<1>24. CASE ClearAck
  BY <1>24, <1>a DEF ClearAck
<1>25. CASE AckArrives
  BY <1>25, <1>a DEF AckArrives, CancelOnError
<1>26. CASE AckTimeout
  <2>1. slow \in Nat /\ crossed' = crossed
    BY <1>26, <1>a, ChannelAssumption DEF AckTimeout
  <2>2. CASE AckLost /\ slow' = slow
    BY <1>26, <1>a, <2>2 DEF AckTimeout, AckLost
  <2>3. CASE StopInProgress /\ slow' = slow + 1
    BY <1>26, <1>a, <2>1, <2>3 DEF AckTimeout, StopInProgress
  <2>4. QED
    BY <1>26, <2>2, <2>3, Zenon DEF AckTimeout
<1>27. CASE UNCHANGED vars
  BY <1>27, <1>a
<1>28. QED
  BY <1>1, <1>2, <1>3, <1>4, <1>5, <1>6, <1>7, <1>8, <1>9, <1>10, <1>11,
     <1>12, <1>13, <1>14, <1>15, <1>16, <1>17, <1>18, <1>19, <1>20, <1>21,
     <1>22, <1>23, <1>24, <1>25, <1>26, <1>27 DEF Next, ThreadNext,
     BreakerNext, ServerNext, CommandNext

LEMMA CommandAlways == Spec => []CommandInv
<1>1. Init => CommandInv
  <2> SUFFICES ASSUME Init PROVE CommandInv
    OBVIOUS
  <2>1. TypeOK
    BY TypeInit
  <2>2. QED
    BY <2>1 DEF Init, CommandInv, Uncrossed, CommandBody, StoppedAgrees,
       OneCommand, Publishing, Busy
<1>2. CommandInv /\ [Next]_vars => CommandInv'
  BY CommandStep
<1>3. QED
  BY <1>1, <1>2, PTL DEF Spec

\* A request that finds STOPPED set works on a frozen application, however
\* slow the stops are, as long as no command was stored over an unfinished
\* one, which takes a stop that outlasts the 10 s wait.
THEOREM StopIsFrozen == Spec => []ServedStopIsFrozen
<1>1. CommandInv => ServedStopIsFrozen
  BY DEF CommandInv, Uncrossed, CommandBody, StoppedAgrees, OneCommand,
     Publishing, Busy, ServedStopIsFrozen
<1>2. QED
  BY <1>1, CommandAlways, PTL

\* However slow the stops are, the breaker resumes a running application only
\* if a command was stored while it had not finished an earlier one: a slow
\* stop whose end the server awaits before the next command does no harm.
THEOREM ResumeIsLegal == Spec => []ResumeOnlyFrozen
<1>1. CommandInv => ResumeOnlyFrozen
  BY DEF CommandInv, Uncrossed, CommandBody, StoppedAgrees, OneCommand,
     Publishing, ResumeOnlyFrozen
<1>2. QED
  BY <1>1, CommandAlways, PTL

-----------------------------------------------------------------------------
(* The park protocol, however long a stop takes.                           *)

ParkBody == Doomed \/ bpc = "dead" \/ (ParkSlot /\ Suspension)

LEMMA ParkStep == ParkInv /\ [Next]_vars => ParkInv'
<1> SUFFICES ASSUME ParkInv, [Next]_vars PROVE ParkInv'
  OBVIOUS
<1>a. OtherTypes /\ ParkBody
  BY TypesSplit, Zenon DEF ParkInv, ParkBody
<1>b. TypeOK'
  BY TypeStep DEF ParkInv
<1>c. SUFFICES ParkBody'
  BY <1>b, Zenon DEF ParkInv, ParkBody
<1> USE DEF ParkBody, ParkSlot, Suspension, Doomed, Stopping, Publishing, Waiting,
     Parking, OtherTypes, vars, breakerVars, serverVars, stepVars, parkVars,
     bounds
<1>1. ASSUME NEW t \in Threads, EnterCallback(t) PROVE ParkBody'
  BY <1>1, <1>a, ChannelAssumption DEF EnterCallback
<1>2. ASSUME NEW t \in Threads, LeaveCallback(t) PROVE ParkBody'
  BY <1>2, <1>a, ChannelAssumption DEF LeaveCallback
<1>3. ASSUME NEW t \in Threads, RequestStop(t) PROVE ParkBody'
  BY <1>3, <1>a, ChannelAssumption DEF RequestStop
<1>4. ASSUME NEW t \in Threads, ClaimCandidate(t) PROVE ParkBody'
  BY <1>4, <1>a, ChannelAssumption DEF ClaimCandidate
<1>5. ASSUME NEW t \in Threads, StepLanding(t) PROVE ParkBody'
  BY <1>5, <1>a, ChannelAssumption DEF StepLanding
<1>6. ASSUME NEW t \in Threads, ParkCurrent(t) PROVE ParkBody'
  BY <1>6, <1>a, ChannelAssumption DEF ParkCurrent
<1>7. ASSUME NEW t \in Threads, ParkWait(t) PROVE ParkBody'
  BY <1>7, <1>a, ChannelAssumption DEF ParkWait
<1>8. ASSUME NEW t \in Threads, WakeParked(t) PROVE ParkBody'
  BY <1>8, <1>a, ChannelAssumption DEF WakeParked
<1>9. ASSUME NEW t \in Threads, Unpark(t) PROVE ParkBody'
  BY <1>9, <1>a, ChannelAssumption DEF Unpark
<1>10. ASSUME NEW t \in Threads, Hold(t) PROVE ParkBody'
  BY <1>10, <1>a, ChannelAssumption DEF Hold
<1>11. CASE WatchdogExpires
  BY <1>11, <1>a, ChannelAssumption DEF WatchdogExpires
<1>12. CASE BreakerWakes
  BY <1>12, <1>a, ChannelAssumption DEF BreakerWakes
<1>13. CASE TakeHit
  BY <1>13, <1>a, ChannelAssumption DEF TakeHit, BeginSuspend, Release
<1>14. CASE TakeCommand
  <2>1. CASE cmd = "none"
    BY <1>14, <1>a, <2>1 DEF TakeCommand
  <2>2. CASE cmd = "stop"
    BY <1>14, <1>a, <2>2, ChannelAssumption
       DEF TakeCommand, BeginSuspend, Release
  <2>3. CASE cmd = "resume" /\ world = "running"
    BY <1>14, <2>3 DEF TakeCommand
  <2>4. CASE cmd = "resume" /\ world = "frozen"
    BY <1>14, <1>a, <2>4, ChannelAssumption DEF TakeCommand, Release
  <2>5. CASE world = "dead"
    BY <1>14, <1>a, <2>5 DEF TakeCommand
  <2>6. QED
    BY <1>14, <1>a, <2>1, <2>2, <2>3, <2>4, <2>5 
<1>15. CASE StopWorld
  BY <1>15, <1>a, ChannelAssumption DEF StopWorld, AllRun, AtSafePoint
<1>16. CASE PublishStop
  BY <1>16, <1>a, ChannelAssumption DEF PublishStop
<1>17. CASE ResumeWorld
  BY <1>17, <1>a, ChannelAssumption DEF ResumeWorld, AllRun
<1>18. CASE PublishResume
  <2>1. ParkSlot /\ Suspension
    BY <1>18, <1>a DEF PublishResume
  <2>2. ~parkSem /\ \A t \in Threads : tpc[t] \notin Waiting
    BY <1>18, <2>1 DEF PublishResume
  <2>3. ParkSlot' /\ Suspension'
    BY <1>18, <1>a, <2>1, <2>2 DEF PublishResume
  <2>4. QED
    BY <2>3
<1>19. CASE SendAck
  BY <1>19, <1>a, ChannelAssumption DEF SendAck
<1>20. CASE HandleStop
  BY <1>20, <1>a, ChannelAssumption DEF HandleStop
<1>21. CASE HandleResume
  BY <1>21, <1>a, ChannelAssumption DEF HandleResume
<1>22. ASSUME NEW t \in Threads, NEW kind \in Steps, HandleStep(t, kind)
      PROVE  ParkBody'
  BY <1>22, <1>a, ChannelAssumption DEF HandleStep, StepModeOf, Steps
<1>23. CASE StoreCommand
  BY <1>23, <1>a, ChannelAssumption DEF StoreCommand
<1>24. CASE ClearAck
  BY <1>24, <1>a, ChannelAssumption DEF ClearAck
<1>25. CASE AckArrives
  BY <1>25, <1>a, ChannelAssumption DEF AckArrives, CancelOnError
<1>26. CASE AckTimeout
  BY <1>26, <1>a, ChannelAssumption DEF AckTimeout, CancelOnError
<1>27. CASE UNCHANGED vars
  BY <1>27, <1>a, ChannelAssumption
<1>28. QED
  BY <1>1, <1>2, <1>3, <1>4, <1>5, <1>6, <1>7, <1>8, <1>9, <1>10, <1>11,
     <1>12, <1>13, <1>14, <1>15, <1>16, <1>17, <1>18, <1>19, <1>20, <1>21,
     <1>22, <1>23, <1>24, <1>25, <1>26, <1>27 DEF Next, ThreadNext,
     BreakerNext, ServerNext, CommandNext

\* Whoever waits on PARK_SEM while the breaker waits for a stop has been
\* posted: a parked thread never blocks a stop, for any number of threads and
\* however slow the stops are.
THEOREM ParkNeverBlocksStop == Spec => []NoParkDuringStop
<1>1. Init => ParkInv
  <2> SUFFICES ASSUME Init PROVE ParkInv
    OBVIOUS
  <2>1. TypeOK
    BY TypeInit
  <2>2. ParkSlot /\ Suspension
    BY DEF Init, ParkSlot, Suspension, Stopping, Publishing, Waiting, Parking
  <2>3. QED
    BY <2>1, <2>2 DEF ParkInv
<1>2. ParkInv => NoParkDuringStop
  <2> SUFFICES ASSUME ParkInv, bpc \in {"hitStop", "cmdStop"},
                      NEW t \in Threads, tpc[t] \in Parking
               PROVE  parkSem
    BY DEF NoParkDuringStop
  <2>1. ParkSlot /\ Suspension
    BY DEF ParkInv, Doomed
  <2>2. QED
    BY <2>1, ChannelAssumption DEF ParkSlot, Suspension, Stopping
<1>3. QED
  BY <1>1, <1>2, ParkStep, PTL DEF Spec
=============================================================================
