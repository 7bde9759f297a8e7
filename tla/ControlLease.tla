----------------------------- MODULE ControlLease -----------------------------
(***************************************************************************)
(* What the hub promises about who may act on the target: a lease.  At any *)
(* moment one side, the person or the automation, may have writes in       *)
(* flight; the side changes only at the person's word and only when        *)
(* nothing is in flight.                                                   *)
(***************************************************************************)
CONSTANTS Human, Ai

Modes == {"Manual", "AiReadOnly", "AiAssist", "AiAutonomous", "AutomationPaused"}

VARIABLES
  mode,     \* the side the lease is given to
  holders   \* callers with a write in flight

vars == <<mode, holders>>

\* Who may start a write while the lease is in mode m.
Entitled(m) ==
  CASE m = "Manual" -> Human
    [] m = "AiAutonomous" -> Ai
    [] OTHER -> {}

Init == mode = "Manual" /\ holders = {}

\* A caller on the side that has the lease starts a write.
Acquire(c) ==
  /\ c \in Entitled(mode)
  /\ holders' = holders \union {c}
  /\ UNCHANGED mode

\* A write ends.
Release(c) ==
  /\ c \in holders
  /\ holders' = holders \ {c}
  /\ UNCHANGED mode

\* The person gives the lease to another side, or takes it back.
Switch ==
  /\ holders = {}
  /\ mode' \in Modes
  /\ UNCHANGED holders

Next == Switch \/ \E c \in Human \union Ai : Acquire(c) \/ Release(c)

Spec == Init /\ [][Next]_vars

\* Every write in flight belongs to the side that has the lease
\* (control.rs:85-101, service.rs:533-551).
OneSide == holders \subseteq Entitled(mode)
=============================================================================
