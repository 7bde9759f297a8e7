------------------------------ MODULE HubControl ------------------------------
(***************************************************************************)
(* The hub's control plane: who is calling (ipc.rs), the control mode and  *)
(* its gate (control.rs), the activity journal (activities.rs) and the     *)
(* path every call takes through HubService::call and dispatch_guarded     *)
(* (service.rs).  The tools themselves are in HubService.                  *)
(*                                                                         *)
(* The gate is a reader/writer lock: a write tool holds it shared from     *)
(* before its permission check until dispatch returns, a change of mode    *)
(* holds it exclusively.                                                   *)
(***************************************************************************)
EXTENDS Integers, Sequences, FiniteSets

CONSTANTS
  Human, Ai, System,  \* connections, by the channel they authenticated on
  None,
  JournalCapacity     \* rows the journal keeps (256)

Callers == Human \union Ai \union System

ASSUME ControlAssumption ==
  /\ JournalCapacity \in Nat \ {0}
  /\ IsFiniteSet(Callers) /\ None \notin Callers
  /\ System \intersect (Human \union Ai) = {}

\* The channel a connection's secret was accepted for.
Actor(c) == IF c \in Human THEN "human" ELSE IF c \in Ai THEN "ai" ELSE "system"

Modes == {"Manual", "AiReadOnly", "AiAssist", "AiAutonomous", "AutomationPaused"}
HandoffModes == {"AiReadOnly", "AiAssist", "AiAutonomous"}

ControlTools ==
  {"control_handoff_to_ai", "control_takeover_manual", "control_pause_automation"}

WriteTools ==
  {"target_pause", "target_resume", "target_step_into", "target_step_over",
   "breakpoint_set", "breakpoint_remove", "hook_set", "hook_function_set",
   "hook_signature_set", "hook_signature_remove", "hook_remove", "hook_clear",
   "hook_module", "hook_monitor_apply", "hook_range_set",
   "trace_record_start", "trace_record_stop", "syscall_config_set",
   "register_set", "memory_write", "session_set_agent_port",
   "script_inject", "script_replace", "script_start", "script_stop",
   "script_remove", "exception_policy_set"}

VARIABLES
  mode, previous,   \* ControlState.state
  gateReaders,      \* callers holding the gate shared
  gateWriter,       \* the caller holding it exclusively, or None
  journal,          \* retained rows, oldest first
  nextOp,           \* the next operation number
  call              \* per connection, the call it is executing

controlVars == <<mode, previous, gateReaders, gateWriter, journal, nextOp, call>>

Idle == [pc |-> "idle", tool |-> None, arg |-> None, op |-> 0, seen |-> None, out |-> None]

ControlInit ==
  /\ mode = "Manual" /\ previous = None
  /\ gateReaders = {} /\ gateWriter = None
  /\ journal = <<>> /\ nextOp = 1
  /\ call = [c \in Callers |-> Idle]

At(c, pc) == call[c].pc = pc
Goto(c, pc) == call' = [call EXCEPT ![c].pc = pc]

\* Dispatch returns: the guard is dropped, the row is still to be closed.
Return(c, out) ==
  /\ call' = [call EXCEPT ![c].pc = "finish", ![c].out = out]
  /\ gateReaders' = gateReaders \ {c}

(***************************************************************************)
(* The journal                                                             *)
(***************************************************************************)

\* Journal::begin: a row in progress, the oldest rows leave past the capacity.
JournalBegin(c, t) ==
  LET rows == Append(journal, [op |-> nextOp, actor |-> Actor(c), action |-> t,
                               outcome |-> "in_progress"])
      excess == Len(rows) - JournalCapacity
  IN  /\ journal' = IF excess > 0 THEN SubSeq(rows, excess + 1, Len(rows)) ELSE rows
      /\ nextOp' = nextOp + 1

\* Mutant: the newest row is closed instead of the call's own.
JournalFinishNewest(op, outcome) ==
  journal' = IF op = 0 THEN journal ELSE [journal EXCEPT ![Len(journal)].outcome = outcome]

\* ActivityHandle::finish: nothing when the row has left the journal.
JournalFinish(op, outcome) ==
  journal' = [i \in DOMAIN journal |->
                IF journal[i].op = op THEN [journal[i] EXCEPT !.outcome = outcome]
                                      ELSE journal[i]]

(***************************************************************************)
(* HubService::call                                                        *)
(***************************************************************************)

\* A call enters.  The system reader's reads are not journaled.
Begin(c, t, a) ==
  /\ At(c, "idle")
  /\ IF c \in System /\ t \notin WriteTools \union ControlTools
     THEN UNCHANGED <<journal, nextOp>>
     ELSE JournalBegin(c, t)
  /\ call' = [call EXCEPT ![c] = [pc |-> "gate", tool |-> t, arg |-> a,
                                  op |-> IF nextOp' = nextOp THEN 0 ELSE nextOp,
                                  seen |-> None, out |-> None]]
  /\ UNCHANGED <<mode, previous, gateReaders, gateWriter>>

\* The row is closed and the answer leaves.
Finish(c) ==
  /\ At(c, "finish")
  /\ JournalFinish(call[c].op, call[c].out)
  /\ call' = [call EXCEPT ![c] = Idle]
  /\ UNCHANGED <<mode, previous, gateReaders, gateWriter, nextOp>>

\* A control tool asked for by anyone but the trusted human.
DenyControl(c) ==
  /\ At(c, "gate") /\ call[c].tool \in ControlTools
  /\ call[c].tool = "control_handoff_to_ai" => call[c].arg \in HandoffModes
  /\ c \notin Human
  /\ Return(c, "denied")
  /\ UNCHANGED <<mode, previous, gateWriter, journal, nextOp>>

GateFree == gateReaders = {} /\ gateWriter = None

\* The mode of a handoff does not parse: this comes before who is asking.
InvalidHandoff(c) ==
  /\ At(c, "gate") /\ call[c].tool = "control_handoff_to_ai"
  /\ call[c].arg \notin HandoffModes
  /\ Return(c, "error")
  /\ UNCHANGED <<mode, previous, gateWriter, journal, nextOp>>

\* ControlState::handoff
Handoff(c) ==
  /\ At(c, "gate") /\ call[c].tool = "control_handoff_to_ai" /\ c \in Human
  /\ call[c].arg \in HandoffModes
  /\ GateFree
  /\ mode' = call[c].arg /\ previous' = None
  /\ Return(c, "ok")
  /\ UNCHANGED <<gateWriter, journal, nextOp>>

\* ControlState::pause_automation
PauseAutomation(c) ==
  /\ At(c, "gate") /\ call[c].tool = "control_pause_automation" /\ c \in Human
  /\ GateFree
  /\ mode' = "AutomationPaused"
  /\ previous' = IF mode # "AutomationPaused" THEN mode ELSE previous
  /\ Return(c, "ok")
  /\ UNCHANGED <<gateWriter, journal, nextOp>>

\* ControlState::begin_takeover: the gate stays closed until the pause is over.
BeginTakeover(c) ==
  /\ At(c, "gate") /\ call[c].tool = "control_takeover_manual" /\ c \in Human
  /\ GateFree
  /\ gateWriter' = c
  /\ mode' = "Manual" /\ previous' = mode
  /\ Goto(c, "pausing")
  /\ UNCHANGED <<gateReaders, journal, nextOp>>

\* Mutant: the takeover's guard is not dropped.
TakeoverPauseHeld(c) ==
  /\ At(c, "pausing")
  /\ \E out \in {"ok", "partial"} : Return(c, out)
  /\ UNCHANGED <<mode, previous, gateWriter, journal, nextOp>>

\* The takeover's agent.pause has answered: the guard is dropped.
TakeoverPause(c) ==
  /\ At(c, "pausing")
  /\ gateWriter' = None
  /\ \E out \in {"ok", "partial"} : Return(c, out)
  /\ UNCHANGED <<mode, previous, journal, nextOp>>

\* dispatch_guarded: the gate and the permission of a write.
MayWrite(c) ==
  \/ c \in Ai /\ mode = "AiAutonomous"
  \/ c \in Human /\ mode = "Manual"

\* Mutant: permission is checked, the gate is not held.
WriteGuardUnheld(c) ==
  /\ At(c, "gate") /\ call[c].tool \in WriteTools
  /\ gateWriter = None
  /\ IF MayWrite(c) THEN Goto(c, "run") /\ UNCHANGED gateReaders ELSE Return(c, "error")
  /\ UNCHANGED <<mode, previous, gateWriter, journal, nextOp>>

WriteGuard(c) ==
  /\ At(c, "gate") /\ call[c].tool \in WriteTools
  /\ gateWriter = None
  /\ IF MayWrite(c)
     THEN /\ gateReaders' = gateReaders \union {c}
          /\ Goto(c, "run")
     ELSE Return(c, "error")
  /\ UNCHANGED <<mode, previous, gateWriter, journal, nextOp>>

\* A read takes no guard.
ReadDispatch(c) ==
  /\ At(c, "gate") /\ call[c].tool \notin WriteTools \union ControlTools
  /\ Goto(c, "run")
  /\ UNCHANGED <<mode, previous, gateReaders, gateWriter, journal, nextOp>>

ControlStep(c) ==
  \/ Finish(c) \/ DenyControl(c) \/ InvalidHandoff(c) \/ Handoff(c) \/ PauseAutomation(c)
  \/ BeginTakeover(c) \/ TakeoverPause(c) \/ WriteGuard(c) \/ ReadDispatch(c)

(***************************************************************************)
(* Properties                                                              *)
(***************************************************************************)

\* Callers between their permission check and the end of their dispatch.
WritesInFlight ==
  {c \in Callers : call[c].tool \in WriteTools /\ call[c].pc \notin {"idle", "gate", "finish"}}

Lease == INSTANCE ControlLease WITH holders <- WritesInFlight

\* The hub's gate and mode implement the lease: a takeover, a handoff or a
\* pause never happens under a write in flight, and no write is in flight for
\* the side that does not have the lease (control.rs:85-169).
LeaseRefined == Lease!Spec

\* The journal tells the truth about what is running: a row is in progress
\* exactly while its call has not returned, whatever was evicted meanwhile
\* (activities.rs:64-127, service.rs:419-525).
JournalSettled ==
  \A i \in DOMAIN journal :
    (journal[i].outcome = "in_progress")
      <=> \E c \in Callers : call[c].op = journal[i].op /\ call[c].pc # "idle"
=============================================================================
