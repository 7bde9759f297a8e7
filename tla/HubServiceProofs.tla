--------------------------- MODULE HubServiceProofs ---------------------------
(***************************************************************************)
(* Proofs about the hub: HubControl and HubService.  All tools look alike  *)
(* to the control plane: a tool moves within its dispatch or returns       *)
(* (Dispatching), so the lease and the journal are proved once for all.    *)
(* The books need the tools themselves: a step touches the scripts, the    *)
(* breakpoints, the recording or none of them (Touches).                   *)
(***************************************************************************)
EXTENDS HubService, FiniteSetTheorems, SequenceTheorems, TLAPS

IsCall(r) ==
  r = [pc |-> r.pc, tool |-> r.tool, arg |-> r.arg, op |-> r.op, seen |-> r.seen, out |-> r.out]

\* The calls are records, whatever their arguments.
CallShape ==
  /\ call = [c \in Callers |-> call[c]]
  /\ \A c \in Callers : IsCall(call[c])

Outside == {"idle", "gate", "finish"}
Results == {"ok", "error", "denied", "partial"}

\* What the control plane sees of a tool: it goes on inside its dispatch, or
\* it returns and its guard is dropped.
Moves(c, r) ==
  /\ call' = [call EXCEPT ![c] = r]
  /\ IsCall(r)
  /\ r.tool = call[c].tool /\ r.arg = call[c].arg /\ r.op = call[c].op
  /\ \/ r.pc \notin Outside /\ gateReaders' = gateReaders
     \/ r.pc = "finish" /\ r.out \in Results /\ gateReaders' = gateReaders \ {c}

Dispatching(c) ==
  /\ call[c].pc \notin Outside
  /\ UNCHANGED <<mode, previous, gateWriter, journal, nextOp>>
  /\ \E r : Moves(c, r)

-----------------------------------------------------------------------------
LEMMA GotoMoves ==
  ASSUME CallShape, NEW c \in Callers, NEW pc, pc \notin Outside,
         Goto(c, pc), gateReaders' = gateReaders
  PROVE  \E r : Moves(c, r)
<1> DEFINE r == [call[c] EXCEPT !.pc = pc]
<1>1. IsCall(call[c]) /\ call = [d \in Callers |-> call[d]]
  BY DEF CallShape
<1>2. Moves(c, r)
  BY <1>1 DEF Moves, Goto, IsCall
<1>3. QED
  BY <1>2

LEMMA SeenMoves ==
  ASSUME CallShape, NEW c \in Callers, NEW pc, NEW seen, pc \notin Outside,
         call' = [call EXCEPT ![c].pc = pc, ![c].seen = seen],
         gateReaders' = gateReaders
  PROVE  \E r : Moves(c, r)
<1> DEFINE r == [pc |-> pc, tool |-> call[c].tool, arg |-> call[c].arg, op |-> call[c].op,
                 seen |-> seen, out |-> call[c].out]
<1>1. IsCall(call[c]) /\ call = [d \in Callers |-> call[d]]
  BY DEF CallShape
<1>2. call'[c] = r /\ call' = [d \in Callers |-> call'[d]]
      /\ \A d \in Callers : d # c => call'[d] = call[d]
  BY <1>1 DEF IsCall
<1>3. Moves(c, r)
  BY <1>1, <1>2 DEF Moves, IsCall
<1>4. QED
  BY <1>3

LEMMA ReturnMoves ==
  ASSUME CallShape, NEW c \in Callers, NEW out, out \in Results, Return(c, out)
  PROVE  \E r : Moves(c, r)
<1> DEFINE r == [pc |-> "finish", tool |-> call[c].tool, arg |-> call[c].arg,
                 op |-> call[c].op, seen |-> call[c].seen, out |-> out]
<1>1. IsCall(call[c]) /\ call = [d \in Callers |-> call[d]]
  BY DEF CallShape
<1>2. call'[c] = r /\ call' = [d \in Callers |-> call'[d]]
      /\ \A d \in Callers : d # c => call'[d] = call[d]
  BY <1>1 DEF IsCall, Return
<1>3. gateReaders' = gateReaders \ {c}
  BY DEF Return
<1>4. Moves(c, r)
  BY <1>1, <1>2, <1>3 DEF Moves, IsCall
<1>5. QED
  BY <1>4

LEMMA RpcMoves ==
  ASSUME CallShape, NEW c \in Callers, NEW after, NEW pc, NEW seen,
         pc \notin Outside, Rpc(c, after, pc, seen)
  PROVE  \E r : Moves(c, r)
  BY SeenMoves, ReturnMoves DEF Rpc, Results

LEMMA BookMoves ==
  ASSUME CallShape, NEW c \in Callers, NEW after, Book(c, after)
  PROVE  /\ \E r : Moves(c, r)
         /\ UNCHANGED <<mode, previous, gateWriter, journal, nextOp>>
  BY ReturnMoves DEF Book, Results

LEMMA RefuseMoves ==
  ASSUME CallShape, NEW c \in Callers, Refuse(c)
  PROVE  \E r : Moves(c, r)
  BY ReturnMoves DEF Refuse, Results

LEMMA QuietMoves ==
  ASSUME CallShape, NEW c \in Callers, NEW after, NEW pc, pc \notin Outside,
         QuietRpc(c, after, pc)
  PROVE  \E r : Moves(c, r)
  BY GotoMoves DEF QuietRpc

LEMMA ScriptReturnMoves ==
  ASSUME CallShape, NEW c \in Callers, NEW out \in {"ok", "error"}, NEW rows,
         ScriptReturn(c, out, rows)
  PROVE  /\ \E r : Moves(c, r)
         /\ UNCHANGED <<mode, previous, gateWriter, journal, nextOp>>
  BY ReturnMoves DEF ScriptReturn, OnlyScripts, Results

LEMMA ScriptRpcMoves ==
  ASSUME CallShape, NEW c \in Callers, NEW after, NEW pc, NEW seen, pc \notin Outside,
         ScriptRpc(c, after, pc, seen)
  PROVE  /\ \E r : Moves(c, r)
         /\ UNCHANGED <<mode, previous, gateWriter, journal, nextOp>>
  BY RpcMoves DEF ScriptRpc, OnlyScripts

\* A step of a tool is a step within its dispatch.
LEMMA ToolDispatches ==
  ASSUME CallShape, NEW c \in Callers, ToolStep(c)
  PROVE  Dispatching(c)
<1> USE DEF Dispatching, Outside, Results, Asked, Doing, At, OnlyRpc, OnlyScripts
<1>1. CASE Forward(c) \/ BreakpointInventory(c) \/ HookInventory(c) \/ ExceptionInventory(c)
  BY <1>1, RpcMoves DEF Forward, BreakpointInventory, HookInventory, ExceptionInventory,
     ReadTool
<1>2. CASE Leave(c)
  BY <1>2, BookMoves DEF Leave
<1>3. CASE SessionStatus(c)
  BY <1>3, ReturnMoves DEF SessionStatus
<1>4. CASE SessionSetAgentPort(c)
  BY <1>4, ReturnMoves DEF SessionSetAgentPort
<1>5. CASE BreakpointStep(c)
  <2>1. CASE BreakpointSet(c)
    <3>1. Refuse(c) \/ \E after, i : Rpc(c, after, "book", i)
      BY <2>1, Zenon DEF BreakpointSet
    <3>2. QED
      BY <2>1, <3>1, RpcMoves, RefuseMoves DEF BreakpointSet
  <2>2. CASE BreakpointRemoveCheck(c) \/ BreakpointRemove(c)
    BY <2>2, RpcMoves, RefuseMoves DEF BreakpointRemoveCheck, BreakpointRemove
  <2>3. CASE BreakpointSetBook(c) \/ BreakpointRemoveBook(c)
    BY <2>3, BookMoves DEF BreakpointSetBook, BreakpointRemoveBook
  <2>4. QED
    BY <1>5, <2>1, <2>2, <2>3 DEF BreakpointStep
<1>6. CASE HookStep(c)
  <2>1. CASE HookSet(c) \/ HookSetBook(c) \/ HookSignatureSet(c) \/ HookSignatureSetBook(c)
    BY <2>1, RpcMoves, RefuseMoves, BookMoves DEF HookSet, HookSetBook, HookSignatureSet,
       HookSignatureSetBook
  <2>2. CASE HookFunctionArm(c)
    BY <2>2, GotoMoves DEF HookFunctionArm
  <2>3. CASE HookFunctionRollback(c) \/ HookFunctionFailed(c) \/ HookFunctionBook(c)
    BY <2>3, QuietMoves, RefuseMoves, BookMoves DEF HookFunctionRollback, HookFunctionFailed,
       HookFunctionBook
  <2>4. CASE HookSignatureRemove(c) \/ HookSignatureRemoveBook(c)
    BY <2>4, RpcMoves, BookMoves DEF HookSignatureRemove, HookSignatureRemoveBook
  <2>5. CASE HookCallbackCheck(c)
    BY <2>5, RpcMoves, RefuseMoves DEF HookCallbackCheck
  <2>6. CASE HookRemove(c) \/ HookRemoveSignature(c) \/ HookRemoveBook(c)
    BY <2>6, RpcMoves, QuietMoves, BookMoves DEF HookRemove, HookRemoveSignature,
       HookRemoveBook
  <2>7. CASE HookClear(c) \/ HookClearBook(c) \/ HookModule(c) \/ HookModuleBook(c)
    BY <2>7, RpcMoves, RefuseMoves, BookMoves DEF HookClear, HookClearBook, HookModule,
       HookModuleBook
  <2>8. CASE HookRangeSet(c) \/ HookRangeBook(c) \/ HookTargetsQuery(c)
    BY <2>8, RpcMoves, RefuseMoves, BookMoves DEF HookRangeSet, HookRangeBook,
       HookTargetsQuery
  <2>9. CASE HookTargetsBook(c)
    BY <2>9, ReturnMoves DEF HookTargetsBook
  <2>10. CASE HookMonitorApply(c) \/ HookMonitorApplyBook(c)
    BY <2>10, RpcMoves, RefuseMoves, BookMoves DEF HookMonitorApply, HookMonitorApplyBook
  <2>11. CASE HookMonitor(c)
    BY <2>11, BookMoves, ReturnMoves DEF HookMonitor
  <2>12. QED
    BY <1>6, <2>1, <2>2, <2>3, <2>4, <2>5, <2>6, <2>7, <2>8, <2>9, <2>10, <2>11
    DEF HookStep
<1>7. CASE TraceStep(c)
  <2>1. CASE SyscallConfigSet(c) \/ SyscallConfigBook(c) \/ TraceScopeQuery(c) \/ TraceScopeBook(c)
    BY <2>1, RpcMoves, RefuseMoves, BookMoves DEF SyscallConfigSet, SyscallConfigBook,
       TraceScopeQuery, TraceScopeBook
  <2>2. CASE TraceRecordStart(c) \/ TraceStartBook(c) \/ TraceRecordStop(c)
    BY <2>2, RpcMoves, RefuseMoves, BookMoves DEF TraceRecordStart, TraceStartBook,
       TraceRecordStop
  <2>3. CASE TraceStopSettle(c)
    BY <2>3, SeenMoves, BookMoves, SMTT(60) DEF TraceStopSettle
  <2>4. CASE TraceStopBook(c) \/ TraceRecordStatus(c) \/ TraceIndexQuery(c)
    BY <2>4, RpcMoves, RefuseMoves, BookMoves DEF TraceStopBook, TraceRecordStatus,
       TraceIndexQuery
  <2>5. QED
    BY <1>7, <2>1, <2>2, <2>3, <2>4 DEF TraceStep
<1>8. CASE ScriptStep(c)
  <2>1. CASE ScriptLock(c)
    BY <2>1, GotoMoves DEF ScriptLock
  <2>2. CASE ScriptApply(c)
    <3>1. \/ \E rows : ScriptReturn(c, "error", rows)
          \/ \E rows : ScriptReturn(c, "ok", rows)
          \/ \E after, seen : ScriptRpc(c, after, "listed", seen)
          \/ \E after, seen : ScriptRpc(c, after, "book", seen)
      BY <2>2, Zenon DEF ScriptApply
    <3>2. QED
      BY <2>2, <3>1, ScriptReturnMoves, ScriptRpcMoves DEF ScriptApply
  <2>3. CASE ScriptRecover(c)
    <3>1. \/ \E rows : ScriptReturn(c, "error", rows)
          \/ \E after, seen : ScriptRpc(c, after, "book", seen)
      BY <2>3, Zenon DEF ScriptRecover
    <3>2. QED
      BY <2>3, <3>1, ScriptReturnMoves, ScriptRpcMoves DEF ScriptRecover
  <2>7. CASE ScriptApplyBook(c)
    <3>1. \E rows : ScriptReturn(c, "ok", rows)
      BY <2>7, Zenon DEF ScriptApplyBook
    <3>2. QED
      BY <2>7, <3>1, ScriptReturnMoves DEF ScriptApplyBook
  <2>4. CASE ScriptStop(c) \/ ScriptStopBook(c) \/ ScriptStart(c) \/ ScriptStartBook(c)
    BY <2>4, ScriptReturnMoves, ScriptRpcMoves DEF ScriptStop, ScriptStopBook, ScriptStart,
       ScriptStartBook
  <2>5. CASE ScriptRemove(c) \/ ScriptRemoveBook(c)
    BY <2>5, ScriptReturnMoves, ScriptRpcMoves DEF ScriptRemove, ScriptRemoveBook
  <2>6. QED
    BY <1>8, <2>1, <2>2, <2>3, <2>7, <2>4, <2>5 DEF ScriptStep
<1>9. QED
  BY <1>1, <1>2, <1>3, <1>4, <1>5, <1>6, <1>7, <1>8 DEF ToolStep

-----------------------------------------------------------------------------
(* The lease                                                               *)

\* Every write in flight holds the gate.
GuardHeld == WritesInFlight \subseteq gateReaders

\* Every write in flight belongs to the side that has the lease.
OneSide == Lease!OneSide

LeaseInv == CallShape /\ GuardHeld /\ OneSide

LEMMA MovesShape ==
  ASSUME CallShape, NEW c \in Callers, NEW r, IsCall(r), call' = [call EXCEPT ![c] = r]
  PROVE  CallShape'
  BY DEF CallShape

\* A write in flight is one whose call is inside its dispatch.
LEMMA InFlightAfter ==
  ASSUME CallShape, NEW c \in Callers, NEW r, IsCall(r), call' = [call EXCEPT ![c] = r]
  PROVE  WritesInFlight' = IF r.tool \in WriteTools /\ r.pc \notin Outside
                           THEN WritesInFlight \union {c} ELSE WritesInFlight \ {c}
  BY DEF CallShape, WritesInFlight, Outside

LEMMA LeaseInit == Init => LeaseInv /\ Lease!Init
<1> SUFFICES ASSUME Init PROVE LeaseInv /\ Lease!Init
  OBVIOUS
<1>1. CallShape
  BY DEF Init, ControlInit, CallShape, IsCall, Idle
<1>2. WritesInFlight = {}
  BY DEF Init, ControlInit, WritesInFlight, Idle
<1>3. QED
  BY <1>1, <1>2 DEF LeaseInv, GuardHeld, OneSide, Lease!OneSide, Lease!Init, Init, ControlInit

\* A call that returns gives its write up, if it had one.
LEMMA ReturnLeases ==
  ASSUME LeaseInv, NEW c \in Callers, NEW out, Return(c, out), mode' = mode
  PROVE  LeaseInv' /\ [Lease!Next]_(Lease!vars)
<1> DEFINE r == [pc |-> "finish", tool |-> call[c].tool, arg |-> call[c].arg,
                 op |-> call[c].op, seen |-> call[c].seen, out |-> out]
<1>1. CallShape
  BY DEF LeaseInv
<1>2. IsCall(call[c]) /\ call = [d \in Callers |-> call[d]]
  BY <1>1 DEF CallShape
<1>3. call'[c] = r /\ call' = [d \in Callers |-> call'[d]]
      /\ \A d \in Callers : d # c => call'[d] = call[d]
  BY <1>2 DEF IsCall, Return
<1>4. IsCall(r) /\ call' = [call EXCEPT ![c] = r]
  BY <1>2, <1>3 DEF IsCall
<1>5. CallShape' /\ WritesInFlight' = WritesInFlight \ {c}
  <2>1. r.pc \in Outside
    BY DEF Outside
  <2>2. QED
    BY <1>1, <1>4, <2>1, MovesShape, InFlightAfter
<1>6. GuardHeld' /\ OneSide'
  BY <1>5 DEF LeaseInv, GuardHeld, OneSide, Lease!OneSide, Lease!Entitled, Return
<1>7. c \in WritesInFlight => c \in Human \union Ai
  BY DEF LeaseInv, OneSide, Lease!OneSide, Lease!Entitled
<1>8. [Lease!Next]_(Lease!vars)
  BY <1>5, <1>7 DEF Lease!Next, Lease!Release, Lease!vars
<1>9. QED
  BY <1>5, <1>6, <1>8 DEF LeaseInv

\* A step that neither starts nor ends a write and keeps the mode.
LEMMA SameLeases ==
  ASSUME LeaseInv, CallShape', WritesInFlight' = WritesInFlight, mode' = mode,
         gateReaders' = gateReaders
  PROVE  LeaseInv' /\ [Lease!Next]_(Lease!vars)
  BY DEF LeaseInv, GuardHeld, OneSide, Lease!OneSide, Lease!Entitled, Lease!vars

\* A change of mode, which needs the whole gate.
LEMMA SwitchLeases ==
  ASSUME LeaseInv, NEW c \in Callers, gateReaders = {}, mode' \in Modes,
         CallShape', WritesInFlight' \subseteq WritesInFlight
  PROVE  LeaseInv' /\ [Lease!Next]_(Lease!vars)
<1>1. WritesInFlight = {} /\ WritesInFlight' = {}
  BY DEF LeaseInv, GuardHeld
<1>2. QED
  BY <1>1 DEF LeaseInv, GuardHeld, OneSide, Lease!OneSide, Lease!Next, Lease!Switch,
     Lease!Modes, Modes, Lease!vars

LEMMA LeaseStep == LeaseInv /\ [Next]_vars => LeaseInv' /\ [Lease!Next]_(Lease!vars)
<1> SUFFICES ASSUME LeaseInv, [Next]_vars
             PROVE  LeaseInv' /\ [Lease!Next]_(Lease!vars)
  OBVIOUS
<1> DEFINE Goal == LeaseInv' /\ [Lease!Next]_(Lease!vars)
<1>a. CallShape
  BY DEF LeaseInv
<1>1. CASE UNCHANGED controlVars
  <2>1. CallShape' /\ WritesInFlight' = WritesInFlight
    BY <1>1, <1>a DEF controlVars, CallShape, IsCall, WritesInFlight
  <2>2. QED
    BY <1>1, <2>1, SameLeases DEF controlVars
<1>2. ASSUME NEW c \in Callers, Call(c) PROVE Goal
  <2>1. PICK t, a : Begin(c, t, a)
    BY <1>2, Zenon DEF Call
  <2>2. PICK r : IsCall(r) /\ call' = [call EXCEPT ![c] = r] /\ r.pc = "gate"
    <3> DEFINE r == [pc |-> "gate", tool |-> t, arg |-> a,
                     op |-> IF nextOp' = nextOp THEN 0 ELSE nextOp, seen |-> None, out |-> None]
    <3>1. IsCall(r) /\ call' = [call EXCEPT ![c] = r] /\ r.pc = "gate"
      BY <2>1 DEF Begin, IsCall
    <3>2. QED
      BY <3>1
  <2>3. CallShape' /\ WritesInFlight' = WritesInFlight
    <3>1. c \notin WritesInFlight
      BY <2>1 DEF Begin, At, WritesInFlight
    <3>2. QED
      BY <1>a, <2>2, <3>1, MovesShape, InFlightAfter DEF Outside
  <2>4. QED
    BY <2>1, <2>3, SameLeases DEF Begin
<1>3. ASSUME NEW c \in Callers, ControlStep(c) PROVE Goal
  <2>1. CASE Finish(c)
    <3>1. IsCall(Idle) /\ call' = [call EXCEPT ![c] = Idle] /\ Idle.pc = "idle"
      BY <2>1 DEF Finish, Idle, IsCall
    <3>2. c \notin WritesInFlight
      BY <2>1 DEF Finish, At, WritesInFlight
    <3>3. CallShape' /\ WritesInFlight' = WritesInFlight
      BY <1>a, <3>1, <3>2, MovesShape, InFlightAfter DEF Outside
    <3>4. QED
      BY <2>1, <3>3, SameLeases DEF Finish
  <2>2. CASE DenyControl(c) \/ InvalidHandoff(c) \/ TakeoverPause(c)
    BY <2>2, ReturnLeases DEF DenyControl, InvalidHandoff, TakeoverPause
  <2>3. CASE Handoff(c) \/ PauseAutomation(c)
    <3>1. PICK out : out \in Results /\ Return(c, out)
      BY <2>3 DEF Handoff, PauseAutomation, Results
    <3>2. PICK r : Moves(c, r)
      BY <1>a, <3>1, ReturnMoves
    <3>3. CallShape' /\ WritesInFlight' \subseteq WritesInFlight \union {c}
      BY <1>a, <3>2, MovesShape, InFlightAfter DEF Moves
    <3>4. call'[c].pc = "finish"
      BY <1>a, <3>1, <3>2 DEF Return, Moves, CallShape, IsCall
    <3>5. WritesInFlight' \subseteq WritesInFlight
      BY <3>3, <3>4 DEF WritesInFlight
    <3>6. QED
      BY <2>3, <3>3, <3>5, SwitchLeases DEF Handoff, PauseAutomation, GateFree, Modes, HandoffModes
  <2>4. CASE BeginTakeover(c)
    <3>1. PICK r : Moves(c, r)
      BY <1>a, <2>4, GotoMoves DEF BeginTakeover, Outside
    <3>2. r.tool \notin WriteTools
      BY <2>4, <3>1 DEF BeginTakeover, Moves, WriteTools
    <3>3. CallShape' /\ WritesInFlight' \subseteq WritesInFlight
      BY <1>a, <3>1, <3>2, MovesShape, InFlightAfter DEF Moves
    <3>4. QED
      BY <2>4, <3>3, SwitchLeases DEF BeginTakeover, GateFree, Modes
  <2>5. CASE WriteGuard(c)
    <3>1. CASE MayWrite(c)
      <4>1. PICK r : IsCall(r) /\ call' = [call EXCEPT ![c] = r] /\ r.tool = call[c].tool
                     /\ r.pc = "run"
        <5> DEFINE r == [call[c] EXCEPT !.pc = "run"]
        <5>1. IsCall(r) /\ call' = [call EXCEPT ![c] = r] /\ r.tool = call[c].tool /\ r.pc = "run"
          BY <1>a, <2>5, <3>1 DEF WriteGuard, Goto, CallShape, IsCall
        <5>2. QED
          BY <5>1
      <4>2. CallShape' /\ WritesInFlight' = WritesInFlight \union {c}
        BY <1>a, <2>5, <4>1, MovesShape, InFlightAfter DEF WriteGuard, Outside
      <4>3. c \in Lease!Entitled(mode) /\ c \in Human \union Ai
        BY <3>1 DEF MayWrite, Lease!Entitled
      <4>4. GuardHeld' /\ OneSide'
        BY <2>5, <3>1, <4>2, <4>3 DEF WriteGuard, LeaseInv, GuardHeld, OneSide, Lease!OneSide,
           Lease!Entitled
      <4>5. Lease!Acquire(c)
        BY <2>5, <4>2, <4>3 DEF WriteGuard, Lease!Acquire
      <4>6. QED
        BY <4>2, <4>3, <4>4, <4>5 DEF LeaseInv, Lease!Next
    <3>2. CASE ~MayWrite(c)
      BY <2>5, <3>2, ReturnLeases DEF WriteGuard
    <3>3. QED
      BY <3>1, <3>2
  <2>6. CASE ReadDispatch(c)
    <3>1. PICK r : Moves(c, r)
      BY <1>a, <2>6, GotoMoves DEF ReadDispatch, Outside
    <3>2. r.tool \notin WriteTools /\ c \notin WritesInFlight
      BY <2>6, <3>1 DEF ReadDispatch, Moves, WritesInFlight
    <3>3. CallShape' /\ WritesInFlight' = WritesInFlight
      BY <1>a, <3>1, <3>2, MovesShape, InFlightAfter, ZenonT(60) DEF Moves
    <3>4. QED
      BY <2>6, <3>3, SameLeases DEF ReadDispatch
  <2>7. QED
    BY <1>3, <2>1, <2>2, <2>3, <2>4, <2>5, <2>6 DEF ControlStep
<1>4. ASSUME NEW c \in Callers, ToolStep(c) PROVE Goal
  <2>1. Dispatching(c)
    BY <1>4, <1>a, ToolDispatches
  <2>2. PICK r : Moves(c, r)
    BY <2>1 DEF Dispatching
  <2>3. CallShape'
    BY <1>a, <2>2, MovesShape DEF Moves
  <2>4. CASE r.pc \notin Outside /\ gateReaders' = gateReaders
    <3>1. c \in WritesInFlight <=> r.tool \in WriteTools
      BY <2>1, <2>2 DEF Dispatching, Moves, WritesInFlight, Outside
    <3>2. WritesInFlight' = IF r.tool \in WriteTools /\ r.pc \notin Outside
                             THEN WritesInFlight \union {c} ELSE WritesInFlight \ {c}
      BY <1>a, <2>2, InFlightAfter DEF Moves
    <3>4. WritesInFlight' = WritesInFlight
      BY <2>4, <3>1, <3>2
    <3>3. QED
      BY <2>1, <2>3, <2>4, <3>4, SameLeases DEF Dispatching
  <2>5. CASE r.pc = "finish" /\ gateReaders' = gateReaders \ {c}
    <3>1. WritesInFlight' = WritesInFlight \ {c}
      BY <1>a, <2>2, <2>5, InFlightAfter DEF Moves, Outside
    <3>2. mode' = mode
      BY <2>1 DEF Dispatching
    <3>3. GuardHeld' /\ OneSide'
      BY <2>5, <3>1, <3>2 DEF LeaseInv, GuardHeld, OneSide, Lease!OneSide, Lease!Entitled
    <3>4. c \in WritesInFlight => c \in Human \union Ai
      BY DEF LeaseInv, OneSide, Lease!OneSide, Lease!Entitled
    <3>5. [Lease!Next]_(Lease!vars)
      BY <3>1, <3>2, <3>4 DEF Lease!Next, Lease!Release, Lease!vars
    <3>6. QED
      BY <2>3, <3>3, <3>5 DEF LeaseInv
  <2>6. QED
    BY <2>2, <2>4, <2>5 DEF Moves
<1>5. QED
  BY <1>1, <1>2, <1>3, <1>4 DEF Next, Work, SetTarget, AgentBinds, vars

\* The gate and the mode of the hub implement the lease: nobody changes the
\* side under a write in flight (control.rs:85-169).
THEOREM LeaseImplemented == Spec => LeaseRefined
<1>1. LeaseInv /\ [Next]_vars => [Lease!Next]_(Lease!vars)
  BY LeaseStep
<1>2. LeaseInv /\ [Next]_vars => LeaseInv'
  BY LeaseStep
<1>3. Init => LeaseInv /\ Lease!Init
  BY LeaseInit
<1>4. QED
  BY <1>1, <1>2, <1>3, PTL DEF Spec, LeaseRefined, Lease!Spec

\* Whatever side is asked for, whoever writes is on the side that has the lease
\* (control.rs:85-101).
THEOREM WritersEntitled == Spec => []OneSide
<1>1. Init => LeaseInv
  BY LeaseInit
<1>2. LeaseInv /\ [Next]_vars => LeaseInv'
  BY LeaseStep
<1>3. LeaseInv => OneSide
  BY DEF LeaseInv
<1>4. QED
  BY <1>1, <1>2, <1>3, PTL DEF Spec

-----------------------------------------------------------------------------
(* The journal                                                             *)

ToolNames == {w[1] : w \in UNION {l.tools : l \in Workloads}}
JournalRows == [op : Nat \ {0}, actor : {"human", "ai", "system"}, action : ToolNames, outcome : Results \union {"in_progress"}]

\* Numbers are given out once: a row and a call carry an older number than the
\* next one, and two calls never the same one.
Numbered ==
  /\ nextOp \in Nat \ {0}
  /\ \A i \in DOMAIN journal : journal[i].op < nextOp
  /\ \A c \in Callers : call[c].op \in Nat /\ call[c].op < nextOp
  /\ \A c, d \in Callers : c # d /\ call[c].op = call[d].op => call[c].op = 0

\* An idle connection has no number; what a call is about to report is a result.
Reports ==
  \A c \in Callers : /\ call[c].pc = "idle" => call[c].op = 0
                     /\ call[c].pc = "finish" => call[c].out \in Results

JournalInv ==
  /\ workload \in Workloads
  /\ journal \in Seq(JournalRows)
  /\ CallShape /\ Numbered /\ Reports /\ JournalSettled

\* What the journal sees of a step that neither opens nor closes a row.
Continues(c) ==
  /\ call[c].pc # "idle"
  /\ UNCHANGED <<journal, nextOp>>
  /\ \E r : /\ call' = [call EXCEPT ![c] = r] /\ IsCall(r) /\ r.op = call[c].op
            /\ r.pc # "idle"
            /\ r.pc = "finish" => r.out \in Results

LEMMA ContinuesSettled ==
  ASSUME JournalInv, NEW c \in Callers, Continues(c), workload' = workload
  PROVE  JournalInv'
<1>1. PICK r : /\ call' = [call EXCEPT ![c] = r] /\ IsCall(r) /\ r.op = call[c].op
               /\ r.pc # "idle"
               /\ r.pc = "finish" => r.out \in Results
  BY DEF Continues
<1>2. call' = [d \in Callers |-> IF d = c THEN r ELSE call[d]]
  BY <1>1 DEF JournalInv, CallShape
<1>3. \A d \in Callers : call'[d].op = call[d].op
  BY <1>1, <1>2
<1>4. \A d \in Callers : call'[d].pc = "idle" <=> call[d].pc = "idle"
  BY <1>1, <1>2 DEF Continues
<1>5. CallShape'
  BY <1>1, MovesShape DEF JournalInv
<1>6. Numbered' /\ JournalSettled'
  BY <1>3, <1>4 DEF JournalInv, Numbered, JournalSettled, Continues
<1>7. Reports'
  BY <1>1, <1>2 DEF JournalInv, Reports
<1>8. QED
  BY <1>5, <1>6, <1>7 DEF JournalInv, Continues

LEMMA FinishSettled ==
  ASSUME JournalInv, NEW c \in Callers, Finish(c), workload' = workload
  PROVE  JournalInv'
<1> DEFINE k == call[c].op
           o == call[c].out
<1>1. call' = [d \in Callers |-> IF d = c THEN Idle ELSE call[d]]
  BY DEF Finish, JournalInv, CallShape
<1>2. CallShape' /\ Reports'
  BY <1>1 DEF JournalInv, CallShape, Reports, Idle, IsCall
<1>3. o \in Results
  BY DEF JournalInv, Reports, Finish, At
<1>4. DOMAIN journal = 1..Len(journal) /\ Len(journal) \in Nat
      /\ \A i \in DOMAIN journal : journal[i] \in JournalRows
  BY LenProperties, ElementOfSeq DEF JournalInv
<1>5. /\ DOMAIN journal' = DOMAIN journal
      /\ \A i \in DOMAIN journal :
           /\ journal'[i] \in JournalRows
           /\ journal'[i].op = journal[i].op
           /\ journal'[i].outcome = IF journal[i].op = k THEN o ELSE journal[i].outcome
  BY <1>3, <1>4 DEF Finish, JournalFinish, JournalRows
<1>6. journal' \in Seq(JournalRows)
  <2>1. journal' \in [1..Len(journal) -> JournalRows]
    BY <1>4, <1>5 DEF Finish, JournalFinish
  <2>2. QED
    BY <1>4, <2>1, SeqDef
<1>7. Numbered'
  BY <1>1, <1>5 DEF JournalInv, Numbered, Finish, Idle
<1>8. JournalSettled'
  <2>1. ASSUME NEW i \in DOMAIN journal, journal[i].op = k
        PROVE  \A d \in Callers : call'[d].op = journal[i].op => call'[d].pc = "idle"
    <3>1. k # 0
      BY <1>4, <2>1 DEF JournalRows
    <3>2. QED
      BY <1>1, <2>1, <3>1 DEF JournalInv, Numbered, Idle
  <2>2. ASSUME NEW i \in DOMAIN journal, journal[i].op # k
        PROVE  (\E d \in Callers : call'[d].op = journal[i].op /\ call'[d].pc # "idle")
                 <=> (\E d \in Callers : call[d].op = journal[i].op /\ call[d].pc # "idle")
    BY <1>1, <2>2 DEF Idle
  <2>3. ASSUME NEW i \in DOMAIN journal'
        PROVE  (journal'[i].outcome = "in_progress")
                 <=> \E d \in Callers : call'[d].op = journal'[i].op /\ call'[d].pc # "idle"
    BY <1>3, <1>5, <2>1, <2>2, <2>3 DEF JournalInv, JournalSettled, Results
  <2>4. QED
    BY <2>3 DEF JournalSettled
<1>9. QED
  BY <1>2, <1>6, <1>7, <1>8 DEF JournalInv

LEMMA BeginSettled ==
  ASSUME JournalInv, NEW c \in Callers, NEW t \in ToolNames, NEW a, Begin(c, t, a),
         workload' = workload
  PROVE  JournalInv'
<1> DEFINE new == [op |-> nextOp, actor |-> Actor(c), action |-> t, outcome |-> "in_progress"]
           rows == Append(journal, new)
           r == [pc |-> "gate", tool |-> t, arg |-> a,
                 op |-> IF nextOp' = nextOp THEN 0 ELSE nextOp, seen |-> None, out |-> None]
<1>1. call' = [d \in Callers |-> IF d = c THEN r ELSE call[d]]
  BY DEF Begin, JournalInv, CallShape
<1>2. CallShape'
  BY <1>1 DEF JournalInv, CallShape, IsCall
<1>3. Reports'
  BY <1>1 DEF JournalInv, Reports
<1>4. call[c].pc = "idle" /\ call[c].op = 0
  BY DEF Begin, At, JournalInv, Reports
<1>5. nextOp \in Nat \ {0}
  BY DEF JournalInv, Numbered
<1>9. \A j \in DOMAIN journal : journal[j] \in JournalRows
  BY LenProperties, ElementOfSeq DEF JournalInv
<1>6. CASE UNCHANGED <<journal, nextOp>>
  <2>1. r.op = 0 /\ r.pc # "idle"
    BY <1>6
  <2>2. \A d \in Callers : call'[d].op = call[d].op
    BY <1>1, <1>4, <2>1
  <2>3. Numbered'
    BY <1>6, <2>2 DEF JournalInv, Numbered
  <2>5. ASSUME NEW i \in DOMAIN journal
        PROVE  (\E d \in Callers : call'[d].op = journal[i].op /\ call'[d].pc # "idle")
                 <=> (\E d \in Callers : call[d].op = journal[i].op /\ call[d].pc # "idle")
    <3>1. journal[i].op # 0
      BY <1>9, <2>5 DEF JournalRows
    <3>2. QED
      BY <1>1, <1>4, <2>1, <3>1
  <2>6. JournalSettled'
    BY <1>6, <2>5 DEF JournalInv, JournalSettled
  <2>7. QED
    BY <1>2, <1>3, <1>6, <2>3, <2>6 DEF JournalInv
<1>7. CASE JournalBegin(c, t)
  <2>1. nextOp' = nextOp + 1
    BY <1>7 DEF JournalBegin
  <2>2. r.op = nextOp
    BY <1>5, <2>1
  <2>3. new \in JournalRows
    <3>1. Actor(c) \in {"human", "ai", "system"}
      BY DEF Actor
    <3>2. QED
      BY <1>5, <3>1 DEF JournalRows
  <2>4. /\ rows \in Seq(JournalRows) /\ Len(rows) = Len(journal) + 1 /\ Len(journal) \in Nat
        /\ \A i \in 1..Len(journal) : rows[i] = journal[i]
        /\ rows[Len(journal) + 1] = new
    BY <2>3, AppendProperties, LenProperties DEF JournalInv
  <2>5. PICK m \in Nat : /\ m <= Len(journal)
                         /\ journal' = SubSeq(rows, m + 1, Len(rows))
    <3> DEFINE excess == Len(rows) - JournalCapacity
    <3>1. CASE excess > 0
      <4>1. excess \in Nat /\ excess <= Len(journal)
        BY <2>4, <3>1, ControlAssumption
      <4>2. journal' = SubSeq(rows, excess + 1, Len(rows))
        BY <1>7, <3>1 DEF JournalBegin
      <4>3. QED
        BY <4>1, <4>2
    <3>2. CASE ~(excess > 0)
      <4>1. journal' = rows
        BY <1>7, <3>2 DEF JournalBegin
      <4>2. SubSeq(rows, 1, Len(rows)) = rows
        BY <2>4, SubSeqFull
      <4>3. QED
        BY <2>4, <4>1, <4>2
    <3>3. QED
      BY <3>1, <3>2
  <2>6. /\ journal' \in Seq(JournalRows)
        /\ Len(journal') = Len(rows) - m
        /\ \A i \in 1..(Len(rows) - m) : journal'[i] = rows[m + i]
    <3>1. \A i \in (m + 1)..Len(rows) : rows[i] \in JournalRows
      BY <2>4, <2>5, ElementOfSeq
    <3>2. /\ SubSeq(rows, m + 1, Len(rows)) \in Seq(JournalRows)
          /\ Len(SubSeq(rows, m + 1, Len(rows)))
               = IF m + 1 <= Len(rows) THEN Len(rows) - (m + 1) + 1 ELSE 0
          /\ \A i \in 1..(Len(rows) - (m + 1) + 1) :
               SubSeq(rows, m + 1, Len(rows))[i] = rows[(m + 1) + i - 1]
      <4>1. m + 1 \in Int /\ Len(rows) \in Int
        BY <2>4, <2>5
      <4>2. QED
        BY <3>1, <4>1, SubSeqProperties
    <3>3. QED
      BY <2>4, <2>5, <3>2, SMTT(60)
  <2>7. \A i \in DOMAIN journal' :
          \/ journal'[i] = new
          \/ \E j \in DOMAIN journal : journal'[i] = journal[j]
    <3>1. DOMAIN journal' = 1..(Len(rows) - m) /\ DOMAIN journal = 1..Len(journal)
      BY <2>6, LenProperties DEF JournalInv
    <3>2. ASSUME NEW i \in DOMAIN journal'
          PROVE  \/ journal'[i] = new
                 \/ \E j \in DOMAIN journal : journal'[i] = journal[j]
      <4>1. i \in 1..(Len(rows) - m) /\ journal'[i] = rows[m + i]
        BY <2>6, <3>1, <3>2
      <4>2. CASE m + i = Len(journal) + 1
        BY <2>4, <4>1, <4>2
      <4>3. CASE m + i # Len(journal) + 1
        <5>1. m + i \in 1..Len(journal)
          BY <2>4, <2>5, <4>1, <4>3
        <5>2. QED
          BY <2>4, <3>1, <4>1, <5>1
      <4>4. QED
        BY <4>2, <4>3
    <3>3. QED
      BY <3>2
  <2>8. Numbered'
    <3>1. \A i \in DOMAIN journal' : journal'[i].op < nextOp'
      <4>1. \A j \in DOMAIN journal : journal[j].op \in Nat /\ journal[j].op < nextOp
        BY <1>9 DEF JournalInv, Numbered, JournalRows
      <4>2. QED
        BY <1>5, <2>1, <2>7, <4>1
    <3>2. \A d \in Callers : call'[d].op \in Nat /\ call'[d].op < nextOp'
      BY <1>1, <1>5, <2>1, <2>2 DEF JournalInv, Numbered
    <3>3. \A d, e \in Callers : d # e /\ call'[d].op = call'[e].op => call'[d].op = 0
      BY <1>1, <1>5, <2>2 DEF JournalInv, Numbered
    <3>4. QED
      BY <1>5, <2>1, <3>1, <3>2, <3>3 DEF Numbered
  <2>9. JournalSettled'
    <3>1. ASSUME NEW j \in DOMAIN journal
          PROVE  (journal[j].outcome = "in_progress")
                   <=> \E d \in Callers : call'[d].op = journal[j].op /\ call'[d].pc # "idle"
      <4>1. journal[j].op \in Nat \ {0} /\ journal[j].op < nextOp
        BY <1>9, <3>1 DEF JournalInv, Numbered, JournalRows
      <4>2. QED
        BY <1>1, <1>4, <1>5, <2>2, <4>1 DEF JournalInv, JournalSettled
    <3>2. call'[c].op = new.op /\ call'[c].pc # "idle" /\ new.outcome = "in_progress"
      BY <1>1, <2>2
    <3>3. QED
      BY <2>7, <3>1, <3>2 DEF JournalSettled
  <2>10. QED
    BY <1>2, <1>3, <2>6, <2>8, <2>9 DEF JournalInv
<1>8. QED
  BY <1>6, <1>7 DEF Begin

\* What the connections call is fixed.
LEMMA WorkloadKept == [Next]_vars => workload' = workload
<1> SUFFICES ASSUME [Next]_vars PROVE workload' = workload
  OBVIOUS
<1> USE DEF OnlyRpc, Book
<1>1. CASE SetTarget \/ AgentBinds \/ UNCHANGED vars
  BY <1>1 DEF SetTarget, AgentBinds, vars
<1>2. ASSUME NEW c \in Callers, UNCHANGED serviceVars PROVE workload' = workload
  BY <1>2 DEF serviceVars
<1>3. ASSUME NEW c \in Callers, ToolStep(c) PROVE workload' = workload
  <2>1. CASE Forward(c) \/ BreakpointInventory(c) \/ HookInventory(c) \/ ExceptionInventory(c)
             \/ Leave(c) \/ SessionStatus(c) \/ SessionSetAgentPort(c)
    BY <2>1 DEF Forward, BreakpointInventory, HookInventory, ExceptionInventory, ReadTool, Leave,
       SessionStatus, SessionSetAgentPort
  <2>2. CASE BreakpointStep(c)
    BY <2>2 DEF BreakpointStep, BreakpointSet, BreakpointSetBook, BreakpointRemoveCheck,
       BreakpointRemove, BreakpointRemoveBook
  <2>3. CASE HookStep(c)
    BY <2>3 DEF HookStep, HookSet, HookSetBook, HookSignatureSet, HookSignatureSetBook,
       HookFunctionArm, HookFunctionRollback, HookFunctionFailed, HookFunctionBook,
       HookSignatureRemove, HookSignatureRemoveBook, HookCallbackCheck, HookRemove,
       HookRemoveSignature, HookRemoveBook, HookClear, HookClearBook, HookModule,
       HookModuleBook, HookRangeSet, HookRangeBook, HookTargetsQuery, HookTargetsBook,
       HookMonitorApply, HookMonitorApplyBook, HookMonitor
  <2>4. CASE TraceStep(c)
    BY <2>4 DEF TraceStep, SyscallConfigSet, SyscallConfigBook, TraceScopeQuery, TraceScopeBook,
       TraceRecordStart, TraceStartBook, TraceRecordStop, TraceStopSettle, TraceStopBook,
       TraceRecordStatus, TraceIndexQuery
  <2>5. CASE ScriptStep(c)
    BY <2>5 DEF ScriptStep, ScriptLock, ScriptApply, ScriptRecover, ScriptApplyBook, ScriptStop,
       ScriptStopBook, ScriptStart, ScriptStartBook, ScriptRemove, ScriptRemoveBook, ScriptReturn,
       ScriptRpc, OnlyScripts
  <2>6. QED
    BY <1>3, <2>1, <2>2, <2>3, <2>4, <2>5 DEF ToolStep
<1>4. QED
  BY <1>1, <1>2, <1>3 DEF Next, Work

LEMMA JournalInit == Init => JournalInv
<1> SUFFICES ASSUME Init PROVE JournalInv
  OBVIOUS
<1>1. CallShape
  BY DEF Init, ControlInit, CallShape, IsCall, Idle
<1>2. journal = <<>> /\ journal \in Seq(JournalRows) /\ DOMAIN journal = {}
  BY EmptySeq DEF Init, ControlInit
<1>3. Numbered /\ Reports /\ JournalSettled
  BY <1>2 DEF Init, ControlInit, Idle, Numbered, Reports, JournalSettled
<1>4. QED
  BY <1>1, <1>2, <1>3 DEF JournalInv, Init

LEMMA JournalStep == JournalInv /\ [Next]_vars => JournalInv'
<1> SUFFICES ASSUME JournalInv, [Next]_vars PROVE JournalInv'
  OBVIOUS
<1>a. CallShape
  BY DEF JournalInv
<1>b. workload' = workload
  BY WorkloadKept
<1>1. CASE UNCHANGED <<journal, nextOp, call>>
  BY <1>1, <1>b DEF JournalInv, CallShape, IsCall, Numbered, Reports, JournalSettled
<1>2. ASSUME NEW c \in Callers, Call(c) PROVE JournalInv'
  <2>1. PICK w \in workload.tools : Begin(c, w[1], w[2])
    BY <1>2 DEF Call
  <2>2. w[1] \in ToolNames
    BY <2>1 DEF ToolNames, JournalInv
  <2>3. QED
    BY <1>b, <2>1, <2>2, BeginSettled
<1>3. ASSUME NEW c \in Callers, ControlStep(c) PROVE JournalInv'
  <2>1. CASE Finish(c)
    BY <1>b, <2>1, FinishSettled
  <2>2. CASE ~Finish(c)
    <3>1. At(c, "gate") \/ At(c, "pausing")
      BY <1>3, <2>2 DEF ControlStep, DenyControl, InvalidHandoff, Handoff, PauseAutomation,
         BeginTakeover, TakeoverPause, WriteGuard, ReadDispatch
    <3>2. UNCHANGED <<journal, nextOp>>
      BY <1>3, <2>2 DEF ControlStep, DenyControl, InvalidHandoff, Handoff, PauseAutomation,
         BeginTakeover, TakeoverPause, WriteGuard, ReadDispatch
    <3>3. \/ \E out \in Results : Return(c, out)
          \/ \E pc \in {"run", "pausing"} : Goto(c, pc)
      BY <1>3, <2>2 DEF ControlStep, DenyControl, InvalidHandoff, Handoff, PauseAutomation,
         BeginTakeover, TakeoverPause, WriteGuard, ReadDispatch, Results
    <3>4. PICK r : /\ call' = [call EXCEPT ![c] = r] /\ IsCall(r) /\ r.op = call[c].op
                   /\ r.pc # "idle"
                   /\ r.pc = "finish" => r.out \in Results
      <4>1. CASE \E out \in Results : Return(c, out)
        BY <1>a, <4>1, ReturnMoves DEF Moves, Outside
      <4>2. ASSUME NEW pc \in {"run", "pausing"}, Goto(c, pc)
            PROVE  \E r : /\ call' = [call EXCEPT ![c] = r] /\ IsCall(r) /\ r.op = call[c].op
                          /\ r.pc # "idle"
                          /\ r.pc = "finish" => r.out \in Results
        <5> DEFINE r == [call[c] EXCEPT !.pc = pc]
        <5>1. /\ call' = [call EXCEPT ![c] = r] /\ IsCall(r) /\ r.op = call[c].op
              /\ r.pc # "idle"
              /\ r.pc # "finish"
          BY <1>a, <4>2 DEF Goto, CallShape, IsCall
        <5>2. QED
          BY <5>1
      <4>3. QED
        BY <3>3, <4>1, <4>2
    <3>5. Continues(c)
      BY <3>1, <3>2, <3>4 DEF Continues, At
    <3>6. QED
      BY <1>b, <3>5, ContinuesSettled
  <2>3. QED
    BY <2>1, <2>2
<1>4. ASSUME NEW c \in Callers, ToolStep(c) PROVE JournalInv'
  <2>1. Dispatching(c)
    BY <1>4, <1>a, ToolDispatches
  <2>2. PICK r : Moves(c, r)
    BY <2>1 DEF Dispatching
  <2>3. r.pc # "idle" /\ (r.pc = "finish" => r.out \in Results)
    BY <2>2 DEF Moves, Outside
  <2>4. Continues(c)
    BY <2>1, <2>2, <2>3 DEF Continues, Dispatching, Moves, Outside
  <2>5. QED
    BY <1>b, <2>4, ContinuesSettled
<1>5. QED
  BY <1>1, <1>2, <1>3, <1>4 DEF Next, Work, SetTarget, AgentBinds, vars, controlVars

\* The journal tells what is running: rows are given numbers once, and a row
\* stays in progress exactly as long as its call has not returned, also when
\* rows leave the journal meanwhile (activities.rs:64-127, service.rs:419-525).
THEOREM JournalTellsTruth == Spec => []JournalSettled
<1>1. JournalInv => JournalSettled
  BY DEF JournalInv
<1>2. QED
  BY <1>1, JournalInit, JournalStep, PTL DEF Spec

-----------------------------------------------------------------------------
(* The books                                                               *)

\* A call in progress was asked for by the workload.
CallAsked ==
  \A c \in Callers : call[c].pc # "idle" =>
    c \in workload.who /\ \E w \in workload.tools : w[1] = call[c].tool /\ w[2] = call[c].arg

\* No request was lost and the target stays.
Calm == faults = 0 /\ ~Retargets

\* What the agent and the books consist of.
AgentShape ==
  /\ agent = [p \in Processes |-> agent[p]] /\ port = 1
  /\ DOMAIN agent[1] = {"hooks", "functions", "sigs", "bps", "callbacks", "scripts", "recording",
                        "syscalls"}
  /\ DOMAIN agent[1].bps = BpIds

BooksShape ==
  /\ DOMAIN books = {"bps", "hooks", "modules", "sigs", "hookSel", "traceSel", "nextHookSel",
                     "nextTraceSel", "trace", "symbols", "syscalls"}
  /\ DOMAIN books.bps = BpIds
  /\ books.trace # None => DOMAIN books.trace = {"path", "active", "indexed"}

\* A script tool between its lock and its answer, and between its request and
\* its row.
InScript(c) == call[c].tool \in ScriptTools /\ call[c].pc \in {"locked", "listed", "book"}
Booking(c) == InScript(c) /\ call[c].pc = "book"

RowAgrees(n) ==
  records[n] # None => (n \in agent[1].scripts <=> records[n].state # "stopped")

\* Who is inside a script tool has the mutation lock; the only row that may
\* disagree with the agent is the one about to be written, and what the tool
\* asked of the agent has happened.
ScriptBooks ==
  /\ records = [n \in Names |-> records[n]]
  /\ \A n \in Names : records[n] # None => "state" \in DOMAIN records[n]
  /\ \A c \in Callers : InScript(c) => mutation = c
  /\ \A n \in Names : RowAgrees(n) \/ \E c \in Callers : Booking(c) /\ call[c].arg.name = n
  /\ \A c \in Callers : Booking(c) =>
       /\ call[c].tool \in {"script_inject", "script_replace", "script_start"}
            => call[c].arg.name \in agent[1].scripts
       /\ call[c].tool = "script_stop" => call[c].arg.name \notin agent[1].scripts
       /\ call[c].tool \in {"script_stop", "script_start"} /\ call[c].arg.name \in Names
            => records[call[c].arg.name] # None

Sole == Cardinality(workload.who \ System) = 1

\* An owned breakpoint exists, unless its removal is about to be booked.
BreakpointBooks ==
  /\ \A i \in BpIds : books.bps[i] # {} =>
       \/ agent[1].bps[i] # None
       \/ \E c \in Callers : Doing(c, "breakpoint_remove", "book") /\ Arg(c) = i
  /\ \A c \in Callers : Doing(c, "breakpoint_set", "book") =>
       call[c].seen \in BpIds /\ agent[1].bps[call[c].seen] # None

\* A tool between its request and its books.
Recording(c) == Doing(c, "trace_record_start", "book")
Settling(c) == Doing(c, "trace_record_stop", "settle")
Indexing(c) == Doing(c, "trace_record_stop", "book")

Open == agent[1].recording # None
Active == books.trace # None /\ books.trace.active

\* The session the agent records is the one the books call active, unless a start
\* or a stop is about to be booked.
TraceBooks ==
  /\ (Open <=> Active) \/ \E c \in Callers : Recording(c) \/ Settling(c)
  /\ \A c \in Callers :
       /\ Recording(c) => Open
       /\ Settling(c) => ~Open
       /\ Indexing(c) => ~Open /\ ~Active

BooksInv ==
  /\ faults \in Nat /\ CallAsked
  /\ Calm => AgentShape /\ BooksShape /\ ScriptBooks
  /\ Calm /\ Sole => BreakpointBooks /\ TraceBooks

-----------------------------------------------------------------------------
(* What a tool leaves alone                                                *)

BreakpointMid(c) == call[c].tool \in {"breakpoint_set", "breakpoint_remove"} /\ call[c].pc = "book"
TraceMid(c) ==
  call[c].tool \in {"trace_record_start", "trace_record_stop"} /\ call[c].pc \in {"book", "settle"}

ScriptsKept(c) ==
  /\ UNCHANGED <<records, mutation>> /\ agent'[1].scripts = agent[1].scripts
  /\ ~InScript(c) /\ ~InScript(c)'
BreakpointsKept(c) ==
  /\ agent'[1].bps = agent[1].bps /\ books'.bps = books.bps
  /\ ~BreakpointMid(c) /\ ~BreakpointMid(c)'
TraceKept(c) ==
  /\ agent'[1].recording = agent[1].recording /\ books'.trace = books.trace
  /\ ~TraceMid(c) /\ ~TraceMid(c)'

BreakpointEdits(c) ==
  BreakpointSet(c) \/ BreakpointSetBook(c) \/ BreakpointRemove(c) \/ BreakpointRemoveBook(c)
TraceEdits(c) ==
  TraceRecordStart(c) \/ TraceStartBook(c) \/ TraceRecordStop(c) \/ TraceStopSettle(c) \/ TraceStopBook(c)

\* A step changes one part of the books, or none.
Touches(c) ==
  /\ AgentShape' /\ BooksShape'
  /\ ScriptStep(c) \/ ScriptsKept(c)
  /\ BreakpointEdits(c) \/ BreakpointsKept(c)
  /\ TraceEdits(c) \/ TraceKept(c)

\* The other connections stay where they are.
OnlyCaller(c, pc) ==
  /\ call'[c].pc = pc /\ call'[c].tool = call[c].tool /\ call'[c].arg = call[c].arg
  /\ \A d \in Callers : d # c => call'[d] = call[d]

\* A call that is not halfway through the change of some books, before or after.
Clear(c, pc) ==
  \/ call[c].tool \notin ScriptTools \union {"breakpoint_set", "breakpoint_remove",
                                             "trace_record_start", "trace_record_stop"}
  \/ /\ call[c].pc \notin {"book", "settle", "locked", "listed"}
     /\ pc \notin {"book", "settle", "locked", "listed"}

LEMMA ReturnOnly ==
  ASSUME CallShape, NEW c \in Callers, NEW out, Return(c, out)
  PROVE  OnlyCaller(c, "finish")
<1>1. IsCall(call[c]) /\ call = [d \in Callers |-> call[d]]
  BY DEF CallShape
<1>2. QED
  BY <1>1 DEF IsCall, Return, OnlyCaller

LEMMA GotoOnly ==
  ASSUME CallShape, NEW c \in Callers, NEW pc, Goto(c, pc)
  PROVE  OnlyCaller(c, pc)
<1>1. IsCall(call[c]) /\ call = [d \in Callers |-> call[d]]
  BY DEF CallShape
<1>2. QED
  BY <1>1 DEF IsCall, Goto, OnlyCaller

\* A request when none is lost.
LEMMA RpcDone ==
  ASSUME CallShape, port = 1, faults = 0, faults' = 0,
         NEW c \in Callers, NEW after, NEW pc, NEW seen, Rpc(c, after, pc, seen)
  PROVE  /\ agent' = [agent EXCEPT ![1] = after] /\ OnlyCaller(c, pc) /\ call'[c].seen = seen
         /\ call'[c].op = call[c].op
<1>1. IsCall(call[c]) /\ call = [d \in Callers |-> call[d]]
  BY DEF CallShape
<1>2. /\ agent' = [agent EXCEPT ![1] = after]
      /\ call' = [call EXCEPT ![c].pc = pc, ![c].seen = seen]
  BY DEF Rpc
<1>3. QED
  BY <1>1, <1>2 DEF IsCall, OnlyCaller

\* The agent after a request, and the books after an answer.
AfterKeeps(after) ==
  /\ DOMAIN after = DOMAIN agent[1]
  /\ after.bps = agent[1].bps /\ after.scripts = agent[1].scripts
  /\ after.recording = agent[1].recording

BooksKeep(after) ==
  DOMAIN after = DOMAIN books /\ after.bps = books.bps /\ after.trace = books.trace

Quiet(c) ==
  AgentShape' /\ BooksShape' /\ ScriptsKept(c) /\ BreakpointsKept(c) /\ TraceKept(c)

LEMMA ClearMids ==
  ASSUME NEW c \in Callers, NEW pc, OnlyCaller(c, pc), Clear(c, pc)
  PROVE  /\ ~InScript(c) /\ ~InScript(c)' /\ ~BreakpointMid(c) /\ ~BreakpointMid(c)'
         /\ ~TraceMid(c) /\ ~TraceMid(c)'
BY DEF OnlyCaller, Clear, InScript, BreakpointMid, TraceMid

LEMMA AgentQuiet ==
  ASSUME AgentShape, BooksShape, NEW c \in Callers, NEW pc, OnlyCaller(c, pc), Clear(c, pc),
         NEW after, AfterKeeps(after), agent' = [agent EXCEPT ![1] = after] \/ agent' = agent,
         port' = port, UNCHANGED <<records, mutation>>, BooksKeep(books')
  PROVE  Quiet(c)
<1>1. 1 \in Processes
  BY ServiceAssumption
<1>2. /\ agent' = [p \in Processes |-> agent'[p]]
      /\ DOMAIN agent'[1] = DOMAIN agent[1] /\ agent'[1].bps = agent[1].bps
      /\ agent'[1].scripts = agent[1].scripts /\ agent'[1].recording = agent[1].recording
  BY <1>1 DEF AgentShape, AfterKeeps
<1>3. AgentShape' /\ BooksShape'
  BY <1>2 DEF AgentShape, BooksShape, BooksKeep
<1>4. QED
  BY <1>2, <1>3, ClearMids DEF Quiet, ScriptsKept, BreakpointsKept, TraceKept, BooksKeep

LEMMA RpcQuiet ==
  ASSUME CallShape, AgentShape, BooksShape, faults = 0, faults' = 0,
         NEW c \in Callers, NEW after, NEW pc, NEW seen, Rpc(c, after, pc, seen), OnlyRpc,
         AfterKeeps(after), Clear(c, pc)
  PROVE  Quiet(c)
<1>1. agent' = [agent EXCEPT ![1] = after] /\ OnlyCaller(c, pc)
  BY RpcDone DEF AgentShape
<1>2. BooksKeep(books') /\ UNCHANGED <<records, mutation>> /\ port' = port
  BY DEF OnlyRpc, scriptVars, BooksKeep
<1>3. QED
  BY <1>1, <1>2, AgentQuiet

LEMMA RefuseQuiet ==
  ASSUME CallShape, AgentShape, BooksShape, NEW c \in Callers, Refuse(c), OnlyRpc,
         Clear(c, "finish")
  PROVE  Quiet(c)
<1>1. agent' = agent /\ OnlyCaller(c, "finish")
  BY ReturnOnly DEF Refuse
<1>2. BooksKeep(books') /\ UNCHANGED <<records, mutation>> /\ port' = port
  BY DEF OnlyRpc, scriptVars, BooksKeep
<1>3. AfterKeeps(agent[1])
  BY DEF AfterKeeps
<1>4. QED
  BY <1>1, <1>2, <1>3, AgentQuiet

LEMMA BookQuiet ==
  ASSUME CallShape, AgentShape, BooksShape, NEW c \in Callers, NEW after, Book(c, after),
         BooksKeep(after), Clear(c, "finish")
  PROVE  Quiet(c)
<1>1. agent' = agent /\ OnlyCaller(c, "finish")
  BY ReturnOnly DEF Book
<1>2. BooksKeep(books') /\ UNCHANGED <<records, mutation>> /\ port' = port
  BY DEF Book, scriptVars, BooksKeep
<1>3. AfterKeeps(agent[1])
  BY DEF AfterKeeps
<1>4. QED
  BY <1>1, <1>2, <1>3, AgentQuiet

\* Every step of a tool, when none is lost and the port stays.
LEMMA QuietTouches == ASSUME NEW c, Quiet(c) PROVE Touches(c)
BY DEF Quiet, Touches

LEMMA AgentFields ==
  ASSUME AgentShape
  PROVE  /\ Here = agent[1] /\ AfterKeeps(agent[1])
         /\ \A x : AfterKeeps([agent[1] EXCEPT !.hooks = x])
         /\ \A x : AfterKeeps([agent[1] EXCEPT !.sigs = x])
         /\ \A x : AfterKeeps([agent[1] EXCEPT !.syscalls = x])
         /\ \A x, y : AfterKeeps([agent[1] EXCEPT !.hooks = x, !.functions = y])
         /\ \A x, y, z : AfterKeeps([agent[1] EXCEPT !.hooks = x, !.functions = y, !.sigs = z])
         /\ \A S : AfterKeeps(Batch(S)) /\ AfterKeeps(PlainBatch(S))
<1>1. Here = agent[1]
  BY DEF AgentShape, Here
<1>2. \A x, y : AfterKeeps([agent[1] EXCEPT !.hooks = x, !.functions = y])
  BY DEF AgentShape, AfterKeeps
<1>3. \A S : \E x, y : Batch(S) = [agent[1] EXCEPT !.hooks = x, !.functions = y]
  BY <1>1 DEF Batch
<1>4. ASSUME NEW S PROVE AfterKeeps(Batch(S))
  <2>1. PICK x, y : Batch(S) = [agent[1] EXCEPT !.hooks = x, !.functions = y]
    BY <1>3
  <2>2. AfterKeeps([agent[1] EXCEPT !.hooks = x, !.functions = y])
    BY <1>2
  <2>3. QED
    BY <2>1, <2>2
<1>5. \A S : AfterKeeps(PlainBatch(S))
  BY <1>4 DEF PlainBatch, AgentShape, AfterKeeps
<1>6. /\ AfterKeeps(agent[1])
      /\ \A x : AfterKeeps([agent[1] EXCEPT !.hooks = x])
      /\ \A x : AfterKeeps([agent[1] EXCEPT !.sigs = x])
      /\ \A x : AfterKeeps([agent[1] EXCEPT !.syscalls = x])
  BY DEF AgentShape, AfterKeeps
<1>7. \A x, y, z : AfterKeeps([agent[1] EXCEPT !.hooks = x, !.functions = y, !.sigs = z])
  BY DEF AgentShape, AfterKeeps
<1>8. QED
  BY <1>1, <1>2, <1>4, <1>5, <1>6, <1>7

LEMMA HookTouches ==
  ASSUME CallShape, AgentShape, BooksShape, faults = 0, faults' = 0, NEW c \in Callers, HookStep(c)
  PROVE  Quiet(c)
<1> USE DEF Asked, Doing, At, ScriptTools, Clear
<1>a. Here = agent[1]
  BY DEF AgentShape, Here
<1>1. CASE HookSet(c) \/ HookSignatureSet(c) \/ HookSignatureRemove(c) \/ HookCallbackCheck(c)
  <2>1. \A x : AfterKeeps([agent[1] EXCEPT !.hooks = x]) /\ AfterKeeps([agent[1] EXCEPT !.sigs = x])
    BY AgentFields
  <2>2. AfterKeeps(agent[1])
    BY AgentFields
  <2>3. CASE HookSet(c)
    BY <1>a, <2>1, <2>3, RpcQuiet, RefuseQuiet DEF HookSet
  <2>4. CASE HookSignatureSet(c)
    BY <1>a, <2>1, <2>4, RpcQuiet DEF HookSignatureSet
  <2>5. CASE HookSignatureRemove(c)
    BY <1>a, <2>1, <2>5, RpcQuiet DEF HookSignatureRemove
  <2>6. CASE HookCallbackCheck(c)
    BY <1>a, <2>2, <2>6, RpcQuiet, RefuseQuiet DEF HookCallbackCheck
  <2>7. QED
    BY <1>1, <2>3, <2>4, <2>5, <2>6
<1>2. CASE HookSetBook(c) \/ HookSignatureSetBook(c) \/ HookFunctionBook(c)
           \/ HookSignatureRemoveBook(c) \/ HookRemoveBook(c) \/ HookClearBook(c)
           \/ HookModuleBook(c) \/ HookRangeBook(c) \/ HookMonitorApplyBook(c)
  <2>1. CASE HookSetBook(c)
    BY <2>1, BookQuiet DEF HookSetBook, BooksShape, BooksKeep
  <2>2. CASE HookSignatureSetBook(c)
    BY <2>2, BookQuiet DEF HookSignatureSetBook, BooksShape, BooksKeep
  <2>3. CASE HookFunctionBook(c)
    BY <2>3, BookQuiet DEF HookFunctionBook, BooksShape, BooksKeep
  <2>4. CASE HookSignatureRemoveBook(c)
    BY <2>4, BookQuiet DEF HookSignatureRemoveBook, BooksShape, BooksKeep
  <2>5. CASE HookRemoveBook(c)
    BY <2>5, BookQuiet DEF HookRemoveBook, BooksShape, BooksKeep
  <2>6. CASE HookClearBook(c)
    BY <2>6, BookQuiet DEF HookClearBook, BooksShape, BooksKeep
  <2>7. CASE HookModuleBook(c)
    BY <2>7, BookQuiet DEF HookModuleBook, BooksShape, BooksKeep
  <2>8. CASE HookRangeBook(c)
    BY <2>8, BookQuiet DEF HookRangeBook, BooksShape, BooksKeep
  <2>9. CASE HookMonitorApplyBook(c)
    BY <2>9, BookQuiet DEF HookMonitorApplyBook, BooksShape, BooksKeep
  <2>10. QED
    BY <1>2, <2>1, <2>2, <2>3, <2>4, <2>5, <2>6, <2>7, <2>8, <2>9
<1>3. CASE HookFunctionArm(c)
  <2>1. PICK pc : Goto(c, pc)
    BY <1>3 DEF HookFunctionArm
  <2>2. agent' = [agent EXCEPT ![1] = Batch({Arg(c)})]
    BY <1>3 DEF HookFunctionArm, AgentShape
  <2>3. BooksKeep(books') /\ UNCHANGED <<records, mutation>> /\ port' = port
    BY <1>3 DEF HookFunctionArm, OnlyRpc, scriptVars, BooksKeep
  <2>4. Clear(c, pc)
    BY <1>3 DEF HookFunctionArm
  <2>5. AfterKeeps(Batch({Arg(c)})) /\ OnlyCaller(c, pc)
    BY <2>1, AgentFields, GotoOnly
  <2>6. QED
    BY <2>2, <2>3, <2>4, <2>5, AgentQuiet
<1>4. CASE HookFunctionRollback(c) \/ HookRemoveSignature(c)
  <2>1. PICK pc : Goto(c, pc)
    BY <1>4 DEF HookFunctionRollback, HookRemoveSignature, QuietRpc
  <2> DEFINE after == [agent[1] EXCEPT !.sigs = @ \ {Arg(c)}]
  <2>2. agent' = [agent EXCEPT ![1] = after]
    BY <1>4, <1>a DEF HookFunctionRollback, HookRemoveSignature, QuietRpc, AgentShape
  <2>3. BooksKeep(books') /\ UNCHANGED <<records, mutation>> /\ port' = port
    BY <1>4 DEF HookFunctionRollback, HookRemoveSignature, OnlyRpc, scriptVars, BooksKeep
  <2>4. Clear(c, pc)
    BY <1>4 DEF HookFunctionRollback, HookRemoveSignature
  <2>5. AfterKeeps(after) /\ OnlyCaller(c, pc)
    BY <2>1, AgentFields, GotoOnly
  <2> HIDE DEF after
  <2>6. QED
    BY <2>2, <2>3, <2>4, <2>5, AgentQuiet
<1>5. CASE HookFunctionFailed(c)
  BY <1>5, RefuseQuiet DEF HookFunctionFailed
<1>6. CASE HookRemove(c) \/ HookClear(c)
  BY <1>6, <1>a, AgentFields, RpcQuiet DEF HookRemove, HookClear
<1>7. CASE HookModule(c) \/ HookMonitorApply(c) \/ HookRangeSet(c) \/ HookTargetsQuery(c)
  <2>1. AfterKeeps(Batch(Exports)) /\ AfterKeeps(PlainBatch(Arg(c))) /\ AfterKeeps(Here)
    BY <1>a, AgentFields
  <2>2. /\ OnlyRpc
        /\ \/ Refuse(c)
           \/ \E seen : Rpc(c, Batch(Exports), "book", seen)
           \/ Rpc(c, PlainBatch(Arg(c)), "book", None)
           \/ Rpc(c, Here, "book", None)
    BY <1>7 DEF HookModule, HookMonitorApply, HookRangeSet, HookTargetsQuery
  <2>3. Clear(c, "book") /\ Clear(c, "finish")
    BY <1>7 DEF HookModule, HookMonitorApply, HookRangeSet, HookTargetsQuery
  <2> HIDE DEF Clear
  <2>4. QED
    BY <2>1, <2>2, <2>3, RpcQuiet, RefuseQuiet
<1>8. CASE HookTargetsBook(c)
  <2>1. OnlyCaller(c, "finish") /\ Clear(c, "finish")
    BY <1>8, ReturnOnly DEF HookTargetsBook
  <2>2. /\ BooksKeep(books') /\ UNCHANGED <<records, mutation>> /\ port' = port /\ agent' = agent
        /\ AfterKeeps(agent[1])
    BY <1>8 DEF HookTargetsBook, scriptVars, BooksKeep, BooksShape, AfterKeeps
  <2>3. QED
    BY <2>1, <2>2, AgentQuiet
<1>9. CASE HookMonitor(c)
  <2>1. PICK after : Book(c, after) /\ BooksKeep(after)
    BY <1>9 DEF HookMonitor, BooksShape, BooksKeep
  <2>2. Clear(c, "finish")
    BY <1>9 DEF HookMonitor
  <2>3. QED
    BY <2>1, <2>2, BookQuiet
<1>10. QED
  BY <1>1, <1>2, <1>3, <1>4, <1>5, <1>6, <1>7, <1>8, <1>9 DEF HookStep


\* A request or an answer that changes breakpoints or the recording alone.
LEMMA AgentMoves ==
  ASSUME AgentShape, BooksShape, NEW c \in Callers, NEW pc, OnlyCaller(c, pc),
         call[c].tool \notin ScriptTools,
         NEW after, DOMAIN after = DOMAIN agent[1], DOMAIN after.bps = BpIds,
         after.scripts = agent[1].scripts,
         agent' = [agent EXCEPT ![1] = after], port' = port, UNCHANGED <<records, mutation, books>>
  PROVE  AgentShape' /\ BooksShape' /\ ScriptsKept(c) /\ agent'[1] = after
<1>1. 1 \in Processes
  BY ServiceAssumption
<1>2. agent' = [p \in Processes |-> agent'[p]] /\ agent'[1] = after
  BY <1>1 DEF AgentShape
<1>3. AgentShape' /\ BooksShape'
  BY <1>2 DEF AgentShape, BooksShape
<1>4. ~InScript(c) /\ ~InScript(c)'
  BY DEF OnlyCaller, InScript
<1>5. QED
  BY <1>2, <1>3, <1>4 DEF ScriptsKept

LEMMA BooksMove ==
  ASSUME AgentShape, BooksShape, NEW c \in Callers, NEW pc, OnlyCaller(c, pc),
         call[c].tool \notin ScriptTools, DOMAIN books' = DOMAIN books, DOMAIN books'.bps = BpIds,
         books'.trace # None => DOMAIN books'.trace = {"path", "active", "indexed"},
         UNCHANGED <<agent, port, records, mutation>>
  PROVE  AgentShape' /\ BooksShape' /\ ScriptsKept(c)
<1>1. AgentShape' /\ BooksShape'
  BY DEF AgentShape, BooksShape
<1>2. ~InScript(c) /\ ~InScript(c)'
  BY DEF OnlyCaller, InScript
<1>3. QED
  BY <1>1, <1>2 DEF ScriptsKept

\* What the four steps on breakpoints do.
LEMMA BreakpointTouches ==
  ASSUME CallShape, AgentShape, BooksShape, faults = 0, faults' = 0, NEW c \in Callers,
         BreakpointEdits(c)
  PROVE  AgentShape' /\ BooksShape' /\ ScriptsKept(c) /\ TraceKept(c)
<1> USE DEF Asked, Doing, At, ScriptTools
<1>a. Here = agent[1]
  BY DEF AgentShape, Here
<1>b. call[c].tool \in {"breakpoint_set", "breakpoint_remove"}
  BY DEF BreakpointEdits, BreakpointSet, BreakpointSetBook, BreakpointRemove, BreakpointRemoveBook
<1>c. ~TraceMid(c) /\ (call'[c].tool = call[c].tool => ~TraceMid(c)')
  BY <1>b DEF TraceMid
<1>1. CASE BreakpointSet(c) \/ BreakpointRemove(c)
  <2>1. OnlyRpc
    BY <1>1 DEF BreakpointSet, BreakpointRemove
  <2>2. \/ Refuse(c)
        \/ \E i, x, pc, seen : Rpc(c, [agent[1] EXCEPT !.bps[i] = x], pc, seen)
    BY <1>1, <1>a, Zenon DEF BreakpointSet, BreakpointRemove
  <2>3. CASE Refuse(c)
    <3>1. agent' = agent /\ OnlyCaller(c, "finish")
      BY <2>3, ReturnOnly DEF Refuse
    <3>2. UNCHANGED <<agent, port, records, mutation, books>>
      BY <2>1, <3>1 DEF OnlyRpc, scriptVars
    <3>3. AgentShape' /\ BooksShape' /\ ScriptsKept(c)
      BY <1>b, <3>1, <3>2, BooksMove DEF BooksShape
    <3>4. QED
      BY <1>c, <3>1, <3>2, <3>3 DEF TraceKept, OnlyCaller
  <2>4. CASE \E i, x, pc, seen : Rpc(c, [agent[1] EXCEPT !.bps[i] = x], pc, seen)
    <3>1. PICK i, x, pc, seen : Rpc(c, [agent[1] EXCEPT !.bps[i] = x], pc, seen)
      BY <2>4
    <3> DEFINE after == [agent[1] EXCEPT !.bps[i] = x]
    <3>2. /\ DOMAIN after = DOMAIN agent[1] /\ DOMAIN after.bps = BpIds
          /\ after.scripts = agent[1].scripts /\ after.recording = agent[1].recording
      BY DEF AgentShape
    <3> HIDE DEF after
    <3>3. agent' = [agent EXCEPT ![1] = after] /\ OnlyCaller(c, pc)
      BY <3>1, RpcDone DEF AgentShape, after
    <3>4. port' = port /\ UNCHANGED <<records, mutation, books>>
      BY <2>1 DEF OnlyRpc, scriptVars
    <3>5. AgentShape' /\ BooksShape' /\ ScriptsKept(c) /\ agent'[1] = after
      BY <1>b, <3>2, <3>3, <3>4, AgentMoves
    <3>6. QED
      BY <1>c, <3>2, <3>3, <3>4, <3>5 DEF TraceKept, OnlyCaller
  <2>5. QED
    BY <2>2, <2>3, <2>4
<1>2. CASE BreakpointSetBook(c) \/ BreakpointRemoveBook(c)
  <2>1. PICK i, x : Book(c, [books EXCEPT !.bps[i] = x])
    BY <1>2, Zenon DEF BreakpointSetBook, BreakpointRemoveBook
  <2>2. OnlyCaller(c, "finish") /\ UNCHANGED <<agent, port, records, mutation>>
    BY <2>1, ReturnOnly DEF Book, scriptVars
  <2>3. DOMAIN books' = DOMAIN books /\ DOMAIN books'.bps = BpIds /\ books'.trace = books.trace
    BY <2>1 DEF Book, BooksShape
  <2>4. AgentShape' /\ BooksShape' /\ ScriptsKept(c)
    BY <1>b, <2>2, <2>3, BooksMove DEF BooksShape
  <2>5. QED
    BY <1>c, <2>2, <2>3, <2>4 DEF TraceKept, OnlyCaller
<1>3. QED
  BY <1>1, <1>2 DEF BreakpointEdits

\* What the five steps of a recording do.
LEMMA TraceTouches ==
  ASSUME CallShape, AgentShape, BooksShape, faults = 0, faults' = 0, NEW c \in Callers,
         TraceEdits(c)
  PROVE  AgentShape' /\ BooksShape' /\ ScriptsKept(c) /\ BreakpointsKept(c)
<1> USE DEF Asked, Doing, At, ScriptTools
<1>a. Here = agent[1]
  BY DEF AgentShape, Here
<1>b. call[c].tool \in {"trace_record_start", "trace_record_stop"}
  BY DEF TraceEdits, TraceRecordStart, TraceStartBook, TraceRecordStop, TraceStopSettle, TraceStopBook
<1>c. ~BreakpointMid(c) /\ (call'[c].tool = call[c].tool => ~BreakpointMid(c)')
  BY <1>b DEF BreakpointMid
<1>1. CASE TraceRecordStart(c) \/ TraceRecordStop(c)
  <2>1. OnlyRpc
    BY <1>1 DEF TraceRecordStart, TraceRecordStop
  <2>2. \/ Refuse(c)
        \/ \E x, pc, seen : Rpc(c, [agent[1] EXCEPT !.recording = x], pc, seen)
    BY <1>1, <1>a, Zenon DEF TraceRecordStart, TraceRecordStop
  <2>3. CASE Refuse(c)
    <3>1. agent' = agent /\ OnlyCaller(c, "finish")
      BY <2>3, ReturnOnly DEF Refuse
    <3>2. UNCHANGED <<agent, port, records, mutation, books>>
      BY <2>1, <3>1 DEF OnlyRpc, scriptVars
    <3>3. AgentShape' /\ BooksShape' /\ ScriptsKept(c)
      BY <1>b, <3>1, <3>2, BooksMove DEF BooksShape
    <3>4. QED
      BY <1>c, <3>1, <3>2, <3>3 DEF BreakpointsKept, OnlyCaller
  <2>4. CASE \E x, pc, seen : Rpc(c, [agent[1] EXCEPT !.recording = x], pc, seen)
    <3>1. PICK x, pc, seen : Rpc(c, [agent[1] EXCEPT !.recording = x], pc, seen)
      BY <2>4
    <3> DEFINE after == [agent[1] EXCEPT !.recording = x]
    <3>2. /\ DOMAIN after = DOMAIN agent[1] /\ after.bps = agent[1].bps
          /\ after.scripts = agent[1].scripts
      BY DEF AgentShape
    <3> HIDE DEF after
    <3>3. agent' = [agent EXCEPT ![1] = after] /\ OnlyCaller(c, pc)
      BY <3>1, RpcDone DEF AgentShape, after
    <3>4. port' = port /\ UNCHANGED <<records, mutation, books>>
      BY <2>1 DEF OnlyRpc, scriptVars
    <3>5. DOMAIN after.bps = BpIds
      BY <3>2 DEF AgentShape
    <3>6. AgentShape' /\ BooksShape' /\ ScriptsKept(c) /\ agent'[1] = after
      BY <1>b, <3>2, <3>3, <3>4, <3>5, AgentMoves
    <3>7. QED
      BY <1>c, <3>2, <3>3, <3>4, <3>6 DEF BreakpointsKept, OnlyCaller
  <2>5. QED
    BY <2>2, <2>3, <2>4
<1>2. CASE TraceStartBook(c) \/ TraceStopSettle(c) \/ TraceStopBook(c)
  <2>1. UNCHANGED <<agent, port, records, mutation>>
    BY <1>2 DEF TraceStartBook, TraceStopSettle, TraceStopBook, Book, scriptVars
  <2>2. PICK pc : OnlyCaller(c, pc)
    <3>1. CASE \E after : Book(c, after)
      BY <3>1, ReturnOnly DEF Book
    <3>2. CASE call' = [call EXCEPT ![c].pc = "book", ![c].seen = books.trace.path]
      <4>1. IsCall(call[c]) /\ call = [d \in Callers |-> call[d]]
        BY DEF CallShape
      <4>2. OnlyCaller(c, "book")
        BY <3>2, <4>1 DEF IsCall, OnlyCaller
      <4>3. QED
        BY <4>2
    <3>3. (\E after : Book(c, after)) \/ call' = [call EXCEPT ![c].pc = "book", ![c].seen = books.trace.path]
      BY <1>2, Zenon DEF TraceStartBook, TraceStopSettle, TraceStopBook
    <3>4. QED
      BY <3>1, <3>2, <3>3
  <2>3. \/ books' = books
        \/ books' = [books EXCEPT !.trace = [path |-> call[c].op, active |-> TRUE, indexed |-> FALSE]]
        \/ books.trace # None /\ books' = [books EXCEPT !.trace.active = FALSE]
        \/ books.trace # None /\ books' = [books EXCEPT !.trace = [@ EXCEPT !.indexed = TRUE]]
        \/ books.trace = None /\ books' = [books EXCEPT !.trace = books.trace]
    BY <1>2 DEF TraceStartBook, TraceStopSettle, TraceStopBook, Book
  <2>4. /\ DOMAIN books' = DOMAIN books /\ books'.bps = books.bps
        /\ books'.trace # None => DOMAIN books'.trace = {"path", "active", "indexed"}
    BY <2>3 DEF BooksShape
  <2>5. AgentShape' /\ BooksShape' /\ ScriptsKept(c)
    BY <1>b, <2>1, <2>2, <2>4, BooksMove DEF BooksShape
  <2>6. QED
    BY <1>c, <2>1, <2>2, <2>4, <2>5 DEF BreakpointsKept, OnlyCaller
<1>3. QED
  BY <1>1, <1>2 DEF TraceEdits

\* The tools that touch none of the three.
LEMMA OtherTouches ==
  ASSUME CallShape, AgentShape, BooksShape, faults = 0, faults' = 0, NEW c \in Callers,
         call[c].tool # "session_set_agent_port", ToolStep(c),
         ~ScriptStep(c), ~BreakpointEdits(c), ~TraceEdits(c)
  PROVE  Quiet(c)
<1> USE DEF Asked, Doing, At, ScriptTools, Clear
<1>a. Here = agent[1] /\ AfterKeeps(agent[1]) /\ AfterKeeps(Here)
  BY AgentFields
<1>1. CASE Forward(c)
  BY <1>1, <1>a, RpcQuiet DEF Forward, ForwardTools
<1>2. CASE BreakpointInventory(c) \/ HookInventory(c) \/ ExceptionInventory(c)
  BY <1>2, <1>a, RpcQuiet DEF BreakpointInventory, HookInventory, ExceptionInventory, ReadTool
<1>3. CASE Leave(c)
  BY <1>3, BookQuiet DEF Leave, BooksKeep
<1>4. CASE SessionStatus(c)
  <2>1. OnlyCaller(c, "finish") /\ Clear(c, "finish")
    BY <1>4, ReturnOnly DEF SessionStatus
  <2>2. BooksKeep(books') /\ UNCHANGED <<records, mutation>> /\ port' = port /\ agent' = agent
    BY <1>4 DEF SessionStatus, scriptVars, BooksKeep
  <2>3. QED
    BY <1>a, <2>1, <2>2, AgentQuiet
<1>5. CASE BreakpointRemoveCheck(c)
  BY <1>5, <1>a, RpcQuiet, RefuseQuiet DEF BreakpointRemoveCheck
<1>6. CASE HookStep(c)
  BY <1>6, HookTouches
<1>7. CASE SyscallConfigSet(c) \/ TraceScopeQuery(c)
  <2>1. AfterKeeps([Here EXCEPT !.syscalls = Arg(c)])
    BY <1>a, AgentFields
  <2>2. OnlyRpc /\ (Refuse(c) \/ Rpc(c, Here, "book", None)
                    \/ Rpc(c, [Here EXCEPT !.syscalls = Arg(c)], "book", None))
    BY <1>7 DEF SyscallConfigSet, TraceScopeQuery
  <2>3. Clear(c, "book") /\ Clear(c, "finish")
    BY <1>7 DEF SyscallConfigSet, TraceScopeQuery
  <2> HIDE DEF Clear
  <2>4. QED
    BY <1>a, <2>1, <2>2, <2>3, RpcQuiet, RefuseQuiet
<1>8. CASE SyscallConfigBook(c)
  BY <1>8, BookQuiet DEF SyscallConfigBook, BooksShape, BooksKeep
<1>9. CASE TraceScopeBook(c)
  BY <1>9, BookQuiet DEF TraceScopeBook, BooksShape, BooksKeep
<1>10. CASE TraceRecordStatus(c)
  BY <1>10, <1>a, BookQuiet, RpcQuiet DEF TraceRecordStatus, BooksKeep
<1>11. CASE TraceIndexQuery(c)
  BY <1>11, BookQuiet, RefuseQuiet DEF TraceIndexQuery, BooksKeep
<1>12. ~SessionSetAgentPort(c)
  BY DEF SessionSetAgentPort
<1>13. QED
  BY <1>1, <1>2, <1>3, <1>4, <1>5, <1>6, <1>7, <1>8, <1>9, <1>10, <1>11, <1>12
  DEF ToolStep, BreakpointStep, TraceStep, BreakpointEdits, TraceEdits

-----------------------------------------------------------------------------
(* Scripts                                                                 *)

\* What a request of a script tool leaves alone.
ScriptsOnly(after) ==
  /\ DOMAIN after = DOMAIN agent[1]
  /\ after.bps = agent[1].bps /\ after.recording = agent[1].recording

LEMMA LoadFields ==
  ASSUME AgentShape, NEW n
  PROVE  /\ ScriptsOnly(Here) /\ Here.scripts = agent[1].scripts
         /\ ScriptsOnly(Load(n)) /\ Load(n).scripts = agent[1].scripts \union {n}
         /\ ScriptsOnly(Unload(n)) /\ Unload(n).scripts = agent[1].scripts \ {n}
<1>1. Here = agent[1]
  BY DEF AgentShape, Here
<1>2. ScriptsOnly(Load(n)) /\ Load(n).scripts = agent[1].scripts \union {n}
  BY <1>1 DEF AgentShape, Load, ScriptsOnly
<1>3. \A x, y : LET z == [agent[1] EXCEPT !.scripts = x, !.callbacks = y]
                IN  ScriptsOnly(z) /\ z.scripts = x
  BY DEF AgentShape, ScriptsOnly
<1>4. PICK y : Unload(n) = [agent[1] EXCEPT !.scripts = agent[1].scripts \ {n}, !.callbacks = y]
  BY <1>1 DEF Unload, AgentShape
<1>5. QED
  BY <1>1, <1>2, <1>3, <1>4 DEF ScriptsOnly

\* A script tool moves nothing but scripts.
ScriptsAlone(c) ==
  /\ AgentShape' /\ BooksShape' /\ BreakpointsKept(c) /\ TraceKept(c)

LEMMA ScriptAlone ==
  ASSUME AgentShape, BooksShape, NEW c \in Callers, NEW pc, OnlyCaller(c, pc),
         call[c].tool \in ScriptTools, NEW after, ScriptsOnly(after),
         agent' = [agent EXCEPT ![1] = after] \/ agent' = agent, UNCHANGED <<port, books>>
  PROVE  ScriptsAlone(c)
<1>1. 1 \in Processes
  BY ServiceAssumption
<1>2. /\ agent' = [p \in Processes |-> agent'[p]]
      /\ DOMAIN agent'[1] = DOMAIN agent[1] /\ agent'[1].bps = agent[1].bps
      /\ agent'[1].recording = agent[1].recording
  BY <1>1 DEF AgentShape, ScriptsOnly
<1>3. AgentShape' /\ BooksShape'
  BY <1>2 DEF AgentShape, BooksShape
<1>4. ~BreakpointMid(c) /\ ~BreakpointMid(c)' /\ ~TraceMid(c) /\ ~TraceMid(c)'
  BY DEF OnlyCaller, BreakpointMid, TraceMid, ScriptTools
<1>5. QED
  BY <1>2, <1>3, <1>4 DEF ScriptsAlone, BreakpointsKept, TraceKept

\* Nobody else is inside a script tool.
LEMMA OneInScript ==
  ASSUME ScriptBooks, NEW c \in Callers, NEW d \in Callers, InScript(c), InScript(d)
  PROVE  c = d
BY DEF ScriptBooks

RowOk(rows, n) ==
  rows[n] # None =>
    "state" \in DOMAIN rows[n] /\ (n \in agent[1].scripts <=> rows[n].state # "stopped")

\* A script tool answers with rows that agree with the agent.
LEMMA ScriptAnswers ==
  ASSUME CallShape, AgentShape, BooksShape, ScriptBooks, NEW c \in Callers, InScript(c),
         NEW out, NEW rows, ScriptReturn(c, out, rows),
         rows = [n \in Names |-> rows[n]], \A n \in Names : RowOk(rows, n)
  PROVE  ScriptBooks' /\ ScriptsAlone(c)
<1>1. /\ OnlyCaller(c, "finish") /\ agent' = agent /\ UNCHANGED <<port, books>>
      /\ records' = rows /\ mutation' = None
  BY ReturnOnly DEF ScriptReturn, OnlyScripts
<1>2. \A d \in Callers : ~InScript(d)'
  <2>1. ASSUME NEW d \in Callers, d # c PROVE ~InScript(d)'
    BY <1>1, <2>1, OneInScript DEF OnlyCaller, InScript
  <2>2. ~InScript(c)'
    BY <1>1 DEF OnlyCaller, InScript
  <2>3. QED
    BY <2>1, <2>2
<1>3. ScriptBooks'
  BY <1>1, <1>2 DEF ScriptBooks, RowAgrees, RowOk, Booking
<1>4. call[c].tool \in ScriptTools /\ ScriptsOnly(agent[1])
  BY DEF InScript, ScriptsOnly
<1>5. ScriptsAlone(c)
  BY <1>1, <1>4, ScriptAlone
<1>6. QED
  BY <1>3, <1>5

\* Before the row of a tool is due, every row agrees.
LEMMA RowsAgree ==
  ASSUME ScriptBooks, NEW c \in Callers, InScript(c), call[c].pc # "book"
  PROVE  \A n \in Names : RowAgrees(n) /\ RowOk(records, n)
<1>1. \A d \in Callers : ~Booking(d)
  BY OneInScript DEF Booking
<1>2. QED
  BY <1>1 DEF ScriptBooks, RowAgrees, RowOk

\* What has to hold of the agent when a row is due.
Due(c, scripts) ==
  LET n == call[c].arg.name
  IN  /\ call[c].tool \in {"script_inject", "script_replace", "script_start"} => n \in scripts
      /\ call[c].tool = "script_stop" => n \notin scripts
      /\ call[c].tool \in {"script_stop", "script_start"} /\ n \in Names => records[n] # None

\* A script tool asks the agent, and its row is due.
LEMMA ScriptAsks ==
  ASSUME CallShape, AgentShape, BooksShape, ScriptBooks, faults = 0, faults' = 0,
         NEW c \in Callers, InScript(c), call[c].pc # "book",
         NEW after, NEW pc \in {"listed", "book"}, NEW seen, ScriptRpc(c, after, pc, seen),
         ScriptsOnly(after),
         pc = "listed" => after.scripts = agent[1].scripts,
         \A m \in Names : m # call[c].arg.name => (m \in after.scripts <=> m \in agent[1].scripts),
         pc = "book" => Due(c, after.scripts)
  PROVE  ScriptBooks' /\ ScriptsAlone(c)
<1>1. /\ agent' = [agent EXCEPT ![1] = after] /\ OnlyCaller(c, pc)
      /\ UNCHANGED <<port, books, records>>
  BY RpcDone DEF ScriptRpc, OnlyScripts, AgentShape
<1>2. mutation' = mutation /\ mutation = c
  BY <1>1 DEF ScriptRpc, OnlyCaller, ScriptBooks
<1>3. agent'[1] = after
  BY <1>1, ServiceAssumption DEF AgentShape
<1>4. InScript(c)' /\ \A d \in Callers : d # c => ~InScript(d)'
  <2>1. InScript(c)'
    BY <1>1 DEF OnlyCaller, InScript
  <2>2. ASSUME NEW d \in Callers, d # c PROVE ~InScript(d)'
    BY <1>1, <2>2, OneInScript DEF OnlyCaller, InScript
  <2>3. QED
    BY <2>1, <2>2
<1>5. \A n \in Names : RowAgrees(n)
  BY RowsAgree
<1>6. ASSUME NEW n \in Names
      PROVE  RowAgrees(n)' \/ \E d \in Callers : Booking(d)' /\ call'[d].arg.name = n
  <2>1. CASE pc = "listed" \/ n # call[c].arg.name
    BY <1>1, <1>3, <1>5, <2>1 DEF RowAgrees
  <2>2. CASE pc = "book" /\ n = call[c].arg.name
    BY <1>1, <1>4, <2>2 DEF OnlyCaller, Booking
  <2>3. QED
    BY <2>1, <2>2
<1>7. ASSUME NEW d \in Callers, Booking(d)'
      PROVE  /\ call'[d].tool \in {"script_inject", "script_replace", "script_start"}
                  => call'[d].arg.name \in agent'[1].scripts
             /\ call'[d].tool = "script_stop" => call'[d].arg.name \notin agent'[1].scripts
             /\ call'[d].tool \in {"script_stop", "script_start"} /\ call'[d].arg.name \in Names
                  => records'[call'[d].arg.name] # None
  <2>1. d = c /\ pc = "book"
    BY <1>1, <1>4, <1>7 DEF Booking, OnlyCaller
  <2>2. Due(c, after.scripts)
    BY <2>1
  <2>3. QED
    BY <1>1, <1>3, <2>1, <2>2 DEF OnlyCaller, Due
<1>8. ScriptBooks'
  BY <1>1, <1>2, <1>4, <1>6, <1>7 DEF ScriptBooks
<1>9. call[c].tool \in ScriptTools
  BY DEF InScript
<1>10. ScriptsAlone(c)
  BY <1>1, <1>9, ScriptAlone
<1>11. QED
  BY <1>8, <1>10

\* The transaction keeps the rows with the agent.
LEMMA ScriptKeeps ==
  ASSUME CallShape, AgentShape, BooksShape, ScriptBooks, faults = 0, faults' = 0,
         NEW c \in Callers, ScriptStep(c)
  PROVE  ScriptBooks' /\ ScriptsAlone(c)
<1> DEFINE n == call[c].arg.name
<1> USE DEF Doing, At, Arg, Row
<1>a. /\ ScriptsOnly(Here) /\ Here.scripts = agent[1].scripts
      /\ ScriptsOnly(Load(n)) /\ Load(n).scripts = agent[1].scripts \union {n}
      /\ ScriptsOnly(Unload(n)) /\ Unload(n).scripts = agent[1].scripts \ {n}
  BY LoadFields
<1>b. records = [m \in Names |-> records[m]]
  BY DEF ScriptBooks
<1>c. ASSUME InScript(c), call[c].pc # "book"
      PROVE  \A m \in Names : RowOk(records, m)
  BY <1>c, RowsAgree
<1>d. ASSUME InScript(c), call[c].pc = "book"
      PROVE  /\ \A m \in Names : m # n => RowOk(records, m)
             /\ \A m \in Names : records[m] # None => "state" \in DOMAIN records[m]
             /\ Due(c, agent[1].scripts)
  <2>1. \A d \in Callers : Booking(d) => d = c
    BY <1>d, OneInScript DEF Booking
  <2>2. Booking(c)
    BY <1>d DEF Booking
  <2>3. QED
    BY <2>1, <2>2 DEF ScriptBooks, RowAgrees, RowOk, Due
<1>1. CASE ScriptLock(c)
  <2>1. /\ OnlyCaller(c, "locked") /\ agent' = agent /\ UNCHANGED <<port, books, records>>
        /\ mutation = None /\ mutation' = c /\ call[c].tool \in ScriptTools
    BY <1>1, GotoOnly DEF ScriptLock, OnlyScripts, Asked
  <2>2. \A d \in Callers : ~InScript(d)
    BY <2>1, ControlAssumption DEF ScriptBooks
  <2>3. \A d \in Callers : ~Booking(d) /\ ~Booking(d)' /\ (InScript(d)' => d = c)
    BY <2>1, <2>2 DEF OnlyCaller, InScript, Booking
  <2>4. \A m \in Names : RowAgrees(m)'
    BY <2>1, <2>3 DEF ScriptBooks, RowAgrees
  <2>5. ScriptBooks'
    BY <2>1, <2>3, <2>4 DEF ScriptBooks
  <2>6. ScriptsOnly(agent[1])
    BY DEF ScriptsOnly
  <2>7. QED
    BY <2>1, <2>5, <2>6, ScriptAlone
<1>2. CASE ScriptApply(c) \/ ScriptRecover(c)
  <2>1. /\ InScript(c) /\ call[c].pc # "book"
        /\ call[c].tool \in {"script_inject", "script_replace"}
    BY <1>2 DEF ScriptApply, ScriptRecover, InScript, ScriptTools
  <2>2. \/ ScriptReturn(c, "error", records)
        \/ Stopped(records[n]) /\ ScriptReturn(c, "ok", [records EXCEPT ![n].generation = @ + 1])
        \/ \E seen : ScriptRpc(c, Here, "listed", seen)
        \/ \E seen : ScriptRpc(c, Load(n), "book", seen)
    BY <1>2, Zenon DEF ScriptApply, ScriptRecover
  <2>3. CASE ScriptReturn(c, "error", records)
    BY <1>b, <1>c, <2>1, <2>3, ScriptAnswers
  <2>4. CASE Stopped(records[n]) /\ ScriptReturn(c, "ok", [records EXCEPT ![n].generation = @ + 1])
    <3> DEFINE rows == [records EXCEPT ![n].generation = @ + 1]
    <3>1. rows = [m \in Names |-> rows[m]]
      BY <1>b
    <3>2. \A m \in Names : RowOk(rows, m)
      BY <1>b, <1>c, <2>1, <2>4 DEF RowOk, Stopped
    <3>3. ScriptReturn(c, "ok", rows)
      BY <2>4
    <3> HIDE DEF rows
    <3>4. QED
      BY <2>1, <3>1, <3>2, <3>3, ScriptAnswers
  <2>5. CASE \E seen : ScriptRpc(c, Here, "listed", seen)
    BY <1>a, <2>1, <2>5, ScriptAsks
  <2>6. CASE \E seen : ScriptRpc(c, Load(n), "book", seen)
    <3>1. Due(c, Load(n).scripts)
      BY <1>a, <2>1 DEF Due
    <3>2. \A m \in Names : m # n => (m \in Load(n).scripts <=> m \in agent[1].scripts)
      BY <1>a
    <3>3. QED
      BY <1>a, <2>1, <2>6, <3>1, <3>2, ScriptAsks
  <2>7. QED
    BY <2>2, <2>3, <2>4, <2>5, <2>6
<1>3. CASE ScriptApplyBook(c)
  <2>1. /\ InScript(c) /\ call[c].pc = "book"
        /\ call[c].tool \in {"script_inject", "script_replace"}
    BY <1>3 DEF ScriptApplyBook, InScript, ScriptTools
  <2>2. PICK k, g, b : ScriptReturn(c, "ok", [records EXCEPT ![n] = [state |-> "staged", kind |-> k,
                                                                 generation |-> g, by |-> b]])
    BY <1>3, Zenon DEF ScriptApplyBook
  <2> DEFINE rows == [records EXCEPT ![n] = [state |-> "staged", kind |-> k, generation |-> g, by |-> b]]
  <2>3. rows = [m \in Names |-> rows[m]]
    BY <1>b
  <2>4. n \in agent[1].scripts
    BY <1>d, <2>1 DEF Due
  <2>5. \A m \in Names : RowOk(rows, m)
    BY <1>b, <1>d, <2>1, <2>4 DEF RowOk
  <2>6. ScriptReturn(c, "ok", rows)
    BY <2>2
  <2> HIDE DEF rows
  <2>7. QED
    BY <2>1, <2>3, <2>5, <2>6, ScriptAnswers
<1>4. CASE ScriptStop(c) \/ ScriptStart(c) \/ ScriptRemove(c)
  <2>1. /\ InScript(c) /\ call[c].pc # "book"
        /\ call[c].tool \in {"script_stop", "script_start", "script_remove"}
    BY <1>4 DEF ScriptStop, ScriptStart, ScriptRemove, InScript, ScriptTools
  <2>2. \/ \E out : ScriptReturn(c, out, records)
        \/ ScriptReturn(c, "ok", [records EXCEPT ![n] = None])
        \/ /\ ScriptRpc(c, Unload(n), "book", None)
           /\ call[c].tool # "script_start" /\ (call[c].tool = "script_stop" => records[n] # None)
        \/ ScriptRpc(c, Load(n), "book", None) /\ records[n] # None /\ call[c].tool = "script_start"
    BY <1>4 DEF ScriptStop, ScriptStart, ScriptRemove
  <2>3. CASE \E out : ScriptReturn(c, out, records)
    BY <1>b, <1>c, <2>1, <2>3, ScriptAnswers
  <2>4. CASE ScriptReturn(c, "ok", [records EXCEPT ![n] = None])
    <3> DEFINE rows == [records EXCEPT ![n] = None]
    <3>1. rows = [m \in Names |-> rows[m]]
      BY <1>b
    <3>2. \A m \in Names : RowOk(rows, m)
      BY <1>b, <1>c, <2>1 DEF RowOk
    <3>3. ScriptReturn(c, "ok", rows)
      BY <2>4
    <3> HIDE DEF rows
    <3>4. QED
      BY <2>1, <3>1, <3>2, <3>3, ScriptAnswers
  <2>5. CASE /\ ScriptRpc(c, Unload(n), "book", None)
             /\ call[c].tool # "script_start" /\ (call[c].tool = "script_stop" => records[n] # None)
    <3>1. Due(c, Unload(n).scripts)
      BY <1>a, <2>1, <2>5 DEF Due
    <3>2. \A m \in Names : m # n => (m \in Unload(n).scripts <=> m \in agent[1].scripts)
      BY <1>a
    <3>3. QED
      BY <1>a, <2>1, <2>5, <3>1, <3>2, ScriptAsks
  <2>6. CASE ScriptRpc(c, Load(n), "book", None) /\ records[n] # None /\ call[c].tool = "script_start"
    <3>1. Due(c, Load(n).scripts)
      BY <1>a, <2>1, <2>6 DEF Due
    <3>2. \A m \in Names : m # n => (m \in Load(n).scripts <=> m \in agent[1].scripts)
      BY <1>a
    <3>3. QED
      BY <1>a, <2>1, <2>6, <3>1, <3>2, ScriptAsks
  <2>7. QED
    BY <2>2, <2>3, <2>4, <2>5, <2>6
<1>5. CASE ScriptStopBook(c) \/ ScriptStartBook(c)
  <2>1. /\ InScript(c) /\ call[c].pc = "book"
        /\ call[c].tool \in {"script_stop", "script_start"}
    BY <1>5 DEF ScriptStopBook, ScriptStartBook, InScript, ScriptTools
  <2>2. PICK s : /\ ScriptReturn(c, "ok", [records EXCEPT ![n].state = s])
                 /\ \/ call[c].tool = "script_stop" /\ s = "stopped"
                    \/ call[c].tool = "script_start" /\ s = "staged"
    BY <1>5 DEF ScriptStopBook, ScriptStartBook
  <2> DEFINE rows == [records EXCEPT ![n].state = s]
  <2>3. rows = [m \in Names |-> rows[m]]
    BY <1>b
  <2>4. (n \in agent[1].scripts <=> s # "stopped") /\ (n \in Names => records[n] # None)
    BY <1>d, <2>1, <2>2 DEF Due
  <2>5. \A m \in Names : RowOk(rows, m)
    <3>1. ASSUME NEW m \in Names, m # n PROVE RowOk(rows, m)
      BY <1>b, <1>d, <2>1, <3>1 DEF RowOk
    <3>2. CASE n \in Names
      <4>1. rows[n] = [records[n] EXCEPT !.state = s] /\ "state" \in DOMAIN records[n]
        BY <1>b, <1>d, <2>1, <2>4, <3>2
      <4>2. "state" \in DOMAIN rows[n] /\ rows[n].state = s
        BY <4>1
      <4>3. RowOk(rows, n)
        BY <2>4, <4>2 DEF RowOk
      <4>4. QED
        BY <3>1, <4>3
    <3>3. QED
      BY <3>1, <3>2
  <2>6. ScriptReturn(c, "ok", rows)
    BY <2>2
  <2> HIDE DEF rows
  <2>7. QED
    BY <2>1, <2>3, <2>5, <2>6, ScriptAnswers
<1>6. CASE ScriptRemoveBook(c)
  <2>1. InScript(c) /\ call[c].pc = "book"
    BY <1>6 DEF ScriptRemoveBook, InScript, ScriptTools
  <2> DEFINE rows == [records EXCEPT ![n] = None]
  <2>2. rows = [m \in Names |-> rows[m]]
    BY <1>b
  <2>3. \A m \in Names : RowOk(rows, m)
    BY <1>b, <1>d, <2>1 DEF RowOk
  <2>4. ScriptReturn(c, "ok", rows)
    BY <1>6 DEF ScriptRemoveBook
  <2> HIDE DEF rows
  <2>5. QED
    BY <2>1, <2>2, <2>3, <2>4, ScriptAnswers
<1>7. QED
  BY <1>1, <1>2, <1>3, <1>4, <1>5, <1>6 DEF ScriptStep

-----------------------------------------------------------------------------
(* Breakpoints and the recording                                           *)

\* Where nothing moved, nothing breaks.
LEMMA ScriptsStay ==
  ASSUME ScriptBooks, UNCHANGED <<records, mutation>>, agent'[1].scripts = agent[1].scripts,
         \A d \in Callers : call'[d] = call[d] \/ (~InScript(d) /\ ~InScript(d)')
  PROVE  ScriptBooks'
<1>1. \A d \in Callers : (InScript(d) <=> InScript(d)') /\ (InScript(d) => call'[d] = call[d])
  BY DEF InScript
<1>2. \A d \in Callers : (Booking(d) <=> Booking(d)') /\ (Booking(d) => call'[d] = call[d])
  BY <1>1 DEF Booking
<1>3. \A n \in Names : RowAgrees(n)' <=> RowAgrees(n)
  BY DEF RowAgrees
<1>4. QED
  BY <1>1, <1>2, <1>3 DEF ScriptBooks

LEMMA BreakpointsStay ==
  ASSUME BreakpointBooks, agent'[1].bps = agent[1].bps, books'.bps = books.bps,
         \A d \in Callers : call'[d] = call[d] \/ (~BreakpointMid(d) /\ ~BreakpointMid(d)')
  PROVE  BreakpointBooks'
BY DEF BreakpointBooks, BreakpointMid, Doing, At, Arg

LEMMA TraceStays ==
  ASSUME TraceBooks, agent'[1].recording = agent[1].recording, books'.trace = books.trace,
         \A d \in Callers : call'[d] = call[d] \/ (~TraceMid(d) /\ ~TraceMid(d)')
  PROVE  TraceBooks'
<1>1. \A d \in Callers : /\ Recording(d)' <=> Recording(d)
                         /\ Settling(d)' <=> Settling(d)
                         /\ Indexing(d)' <=> Indexing(d)
  BY DEF TraceMid, Recording, Settling, Indexing, Doing, At
<1>2. (Open' <=> Open) /\ (Active' <=> Active)
  BY DEF Open, Active
<1>3. QED
  BY <1>1, <1>2 DEF TraceBooks

\* With one connection that may write, at most one write is in flight.
LEMMA SoleWriter ==
  ASSUME LeaseInv, CallAsked, Sole, workload \in Workloads, NEW c \in WritesInFlight, NEW d \in WritesInFlight
  PROVE  c = d
<1>1. WritesInFlight \subseteq Human \union Ai
  BY DEF LeaseInv, OneSide, Lease!OneSide, Lease!Entitled
<1>2. WritesInFlight \subseteq workload.who \ System
  BY <1>1, ControlAssumption DEF CallAsked, WritesInFlight
<1>3. PICK e : workload.who \ System = {e}
  <2>1. IsFiniteSet(workload.who \ System)
    <3>1. workload.who \ System \subseteq Callers
      BY ServiceAssumption
    <3>2. QED
      BY <3>1, ControlAssumption, FS_Subset
  <2>2. QED
    BY <2>1, FS_Singleton DEF Sole
<1>4. QED
  BY <1>2, <1>3

\* No other call is halfway through a change of the books.
Alone(c) == \A d \in Callers : d # c => ~BreakpointMid(d) /\ ~TraceMid(d)

LEMMA SoleAlone ==
  ASSUME LeaseInv, CallAsked, Sole, workload \in Workloads, NEW c \in Callers, c \in WritesInFlight
  PROVE  Alone(c)
<1>1. \A d \in Callers : BreakpointMid(d) \/ TraceMid(d) => d \in WritesInFlight
  BY DEF BreakpointMid, TraceMid, WritesInFlight, WriteTools
<1>2. QED
  BY <1>1, SoleWriter DEF Alone

LEMMA BreakpointKeeps ==
  ASSUME CallShape, AgentShape, BooksShape, faults = 0, faults' = 0, BreakpointBooks,
         CallAsked, workload \in Workloads, NEW c \in Callers, Alone(c), BreakpointEdits(c)
  PROVE  BreakpointBooks'
<1> USE DEF Doing, At, Arg, Asked
<1>a. Here = agent[1] /\ 1 \in Processes
  BY ServiceAssumption DEF AgentShape, Here
<1>b. \A d \in Callers : d # c => ~BreakpointMid(d)
  BY DEF Alone
<1>c. ASSUME NEW pc, OnlyCaller(c, pc)
      PROVE  \A d \in Callers : d # c => ~BreakpointMid(d)'
  BY <1>b, <1>c DEF OnlyCaller, BreakpointMid
<1>1. CASE BreakpointSet(c)
  <2>1. call[c].tool = "breakpoint_set" /\ call[c].pc = "run" /\ OnlyRpc
    BY <1>1 DEF BreakpointSet
  <2>2. \A d \in Callers : ~BreakpointMid(d)
    BY <1>b, <2>1 DEF BreakpointMid
  <2>3. CASE Refuse(c)
    <3>1. agent' = agent /\ OnlyCaller(c, "finish") /\ books' = books
      BY <2>1, <2>3, ReturnOnly DEF Refuse, OnlyRpc
    <3>2. \A d \in Callers : ~BreakpointMid(d)'
      BY <1>c, <3>1 DEF OnlyCaller, BreakpointMid
    <3>3. QED
      BY <2>2, <3>1, <3>2, BreakpointsStay
  <2>4. CASE ~Refuse(c)
    <3>1. PICK i \in SlotFor(call[c].arg) : Rpc(c, [agent[1] EXCEPT !.bps[i] = call[c].arg], "book", i)
      BY <1>1, <1>a, <2>4 DEF BreakpointSet
    <3>2. i \in BpIds
      BY <3>1 DEF SlotFor
    <3>3. call[c].arg # None
      BY <2>1, ServiceAssumption DEF CallAsked
    <3> DEFINE after == [agent[1] EXCEPT !.bps[i] = call[c].arg]
    <3>4. after.bps = [agent[1].bps EXCEPT ![i] = call[c].arg]
      BY DEF AgentShape
    <3> HIDE DEF after
    <3>5. agent' = [agent EXCEPT ![1] = after] /\ OnlyCaller(c, "book") /\ call'[c].seen = i
      BY <3>1, RpcDone DEF AgentShape, after
    <3>6. agent'[1].bps = [agent[1].bps EXCEPT ![i] = call[c].arg] /\ books' = books
      BY <1>a, <2>1, <3>4, <3>5 DEF AgentShape, OnlyRpc
    <3>7. \A j \in BpIds : agent[1].bps[j] # None \/ j = i => agent'[1].bps[j] # None
      BY <3>2, <3>3, <3>6 DEF AgentShape
    <3>8. \A j \in BpIds : books'.bps[j] # {} => agent'[1].bps[j] # None
      BY <2>2, <3>6, <3>7 DEF BreakpointBooks, BreakpointMid
    <3>9. \A d \in Callers : Doing(d, "breakpoint_set", "book")' => d = c
      BY <1>c, <3>5 DEF BreakpointMid
    <3>10. QED
      BY <3>2, <3>5, <3>7, <3>8, <3>9 DEF BreakpointBooks
  <2>5. QED
    BY <2>3, <2>4
<1>2. CASE BreakpointSetBook(c)
  <2>1. /\ call[c].tool = "breakpoint_set" /\ call[c].pc = "book"
        /\ Book(c, [books EXCEPT !.bps[call[c].seen] = @ \union {Actor(c)}])
    BY <1>2 DEF BreakpointSetBook
  <2>2. OnlyCaller(c, "finish") /\ agent' = agent
    BY <2>1, ReturnOnly DEF Book
  <2>3. call[c].seen \in BpIds /\ agent[1].bps[call[c].seen] # None
    BY <2>1 DEF BreakpointBooks
  <2>4. \A j \in BpIds : j # call[c].seen => books'.bps[j] = books.bps[j]
    BY <2>1 DEF Book, BooksShape
  <2>5. \A d \in Callers : ~Doing(d, "breakpoint_remove", "book") /\ ~BreakpointMid(d)'
    BY <1>b, <1>c, <2>1, <2>2 DEF OnlyCaller, BreakpointMid
  <2>6. QED
    BY <2>2, <2>3, <2>4, <2>5 DEF BreakpointBooks, BreakpointMid
<1>3. CASE BreakpointRemove(c)
  <2>1. /\ call[c].tool = "breakpoint_remove" /\ call[c].pc = "remove" /\ OnlyRpc
        /\ Rpc(c, [agent[1] EXCEPT !.bps[call[c].arg] = None], "book", None)
    BY <1>3, <1>a DEF BreakpointRemove
  <2> DEFINE after == [agent[1] EXCEPT !.bps[call[c].arg] = None]
  <2>2. after.bps = [agent[1].bps EXCEPT ![call[c].arg] = None]
    BY DEF AgentShape
  <2> HIDE DEF after
  <2>3. agent' = [agent EXCEPT ![1] = after] /\ OnlyCaller(c, "book")
    BY <2>1, RpcDone DEF AgentShape, after
  <2>4. agent'[1].bps = [agent[1].bps EXCEPT ![call[c].arg] = None] /\ books' = books
    BY <1>a, <2>1, <2>2, <2>3 DEF AgentShape, OnlyRpc
  <2>5. \A j \in BpIds : j # call[c].arg => agent'[1].bps[j] = agent[1].bps[j]
    BY <2>4 DEF AgentShape
  <2>6. \A d \in Callers : ~BreakpointMid(d)
    BY <1>b, <2>1 DEF BreakpointMid
  <2>7. Doing(c, "breakpoint_remove", "book")' /\ call'[c].arg = call[c].arg
    BY <2>1, <2>3 DEF OnlyCaller
  <2>8. \A d \in Callers : ~Doing(d, "breakpoint_set", "book")'
    BY <1>c, <2>3, <2>7 DEF BreakpointMid
  <2>9. \A j \in BpIds : books.bps[j] # {} => agent[1].bps[j] # None
    BY <2>6 DEF BreakpointBooks, BreakpointMid
  <2>10. QED
    BY <2>4, <2>5, <2>7, <2>8, <2>9 DEF BreakpointBooks
<1>4. CASE BreakpointRemoveBook(c)
  <2>1. /\ call[c].tool = "breakpoint_remove" /\ call[c].pc = "book"
        /\ Book(c, [books EXCEPT !.bps[call[c].arg] = {}])
    BY <1>4 DEF BreakpointRemoveBook
  <2>2. OnlyCaller(c, "finish") /\ agent' = agent
    BY <2>1, ReturnOnly DEF Book
  <2>3. \A j \in BpIds : IF j = call[c].arg THEN books'.bps[j] = {} ELSE books'.bps[j] = books.bps[j]
    BY <2>1 DEF Book, BooksShape
  <2>4. \A d \in Callers : ~BreakpointMid(d)' /\ (Doing(d, "breakpoint_remove", "book") => d = c)
    BY <1>b, <1>c, <2>2 DEF OnlyCaller, BreakpointMid
  <2>5. QED
    BY <2>2, <2>3, <2>4 DEF BreakpointBooks, BreakpointMid
<1>5. QED
  BY <1>1, <1>2, <1>3, <1>4 DEF BreakpointEdits

LEMMA TraceKeeps ==
  ASSUME CallShape, AgentShape, BooksShape, faults = 0, faults' = 0, TraceBooks,
         NEW c \in Callers, call[c].op \in Nat, Alone(c), TraceEdits(c)
  PROVE  TraceBooks'
<1> USE DEF Doing, At, Asked
<1>a. Here = agent[1] /\ 1 \in Processes
  BY ServiceAssumption DEF AgentShape, Here
<1>b. \A d \in Callers : d # c => ~Recording(d) /\ ~Settling(d) /\ ~Indexing(d)
  BY DEF Alone, TraceMid, Recording, Settling, Indexing
<1>c. ASSUME NEW pc, OnlyCaller(c, pc)
      PROVE  \A d \in Callers : d # c => ~Recording(d)' /\ ~Settling(d)' /\ ~Indexing(d)'
  BY <1>b, <1>c DEF OnlyCaller, Recording, Settling, Indexing
<1>1. CASE TraceRecordStart(c) \/ TraceRecordStop(c)
  <2>1. call[c].tool \in {"trace_record_start", "trace_record_stop"} /\ call[c].pc = "run" /\ OnlyRpc
    BY <1>1 DEF TraceRecordStart, TraceRecordStop
  <2>2. \A d \in Callers : ~Recording(d) /\ ~Settling(d) /\ ~Indexing(d)
    BY <1>b, <2>1 DEF Recording, Settling, Indexing
  <2>3. \/ Refuse(c)
        \/ /\ call[c].tool = "trace_record_start"
           /\ Rpc(c, [agent[1] EXCEPT !.recording = call[c].op], "book", None)
        \/ /\ call[c].tool = "trace_record_stop"
           /\ Rpc(c, [agent[1] EXCEPT !.recording = None], "settle", None)
    BY <1>1, <1>a DEF TraceRecordStart, TraceRecordStop
  <2>4. CASE Refuse(c)
    <3>1. agent' = agent /\ OnlyCaller(c, "finish") /\ books' = books
      BY <2>1, <2>4, ReturnOnly DEF Refuse, OnlyRpc
    <3>2. \A d \in Callers : ~Recording(d)' /\ ~Settling(d)' /\ ~Indexing(d)'
      BY <1>c, <3>1 DEF OnlyCaller, Recording, Settling, Indexing
    <3>3. QED
      BY <2>2, <3>1, <3>2 DEF TraceBooks, Open, Active
  <2>5. CASE /\ call[c].tool = "trace_record_start"
             /\ Rpc(c, [agent[1] EXCEPT !.recording = call[c].op], "book", None)
    <3> DEFINE after == [agent[1] EXCEPT !.recording = call[c].op]
    <3>1. after.recording = call[c].op
      BY DEF AgentShape
    <3> HIDE DEF after
    <3>2. agent' = [agent EXCEPT ![1] = after] /\ OnlyCaller(c, "book")
      BY <2>5, RpcDone DEF AgentShape, after
    <3>3. Open'
      BY <1>a, <3>1, <3>2, ServiceAssumption DEF AgentShape, Open
    <3>4. Recording(c)' /\ ~Settling(c)' /\ ~Indexing(c)'
      BY <2>5, <3>2 DEF OnlyCaller, Recording, Settling, Indexing
    <3>5. QED
      BY <1>c, <3>2, <3>3, <3>4 DEF TraceBooks
  <2>6. CASE /\ call[c].tool = "trace_record_stop"
             /\ Rpc(c, [agent[1] EXCEPT !.recording = None], "settle", None)
    <3> DEFINE after == [agent[1] EXCEPT !.recording = None]
    <3>1. after.recording = None
      BY DEF AgentShape
    <3> HIDE DEF after
    <3>2. agent' = [agent EXCEPT ![1] = after] /\ OnlyCaller(c, "settle")
      BY <2>6, RpcDone DEF AgentShape, after
    <3>3. ~Open'
      BY <1>a, <3>1, <3>2 DEF AgentShape, Open
    <3>4. ~Recording(c)' /\ Settling(c)' /\ ~Indexing(c)'
      BY <2>6, <3>2 DEF OnlyCaller, Recording, Settling, Indexing
    <3>5. QED
      BY <1>c, <3>2, <3>3, <3>4 DEF TraceBooks
  <2>7. QED
    BY <2>3, <2>4, <2>5, <2>6
<1>2. CASE TraceStartBook(c)
  <2> DEFINE session == [path |-> call[c].op, active |-> TRUE, indexed |-> FALSE]
  <2>1. Recording(c) /\ Book(c, [books EXCEPT !.trace = session])
    BY <1>2 DEF TraceStartBook, Recording
  <2>2. OnlyCaller(c, "finish") /\ agent' = agent /\ books'.trace = session
    BY <2>1, ReturnOnly DEF Book, BooksShape
  <2>3. session # None /\ session.active
    <3>1. session \in [path : Nat, active : BOOLEAN, indexed : BOOLEAN]
      OBVIOUS
    <3>2. QED
      BY <3>1, ServiceAssumption
  <2>4. Open' /\ Active'
    BY <2>1, <2>2, <2>3 DEF TraceBooks, Open, Active
  <2>5. \A d \in Callers : ~Recording(d)' /\ ~Settling(d)' /\ ~Indexing(d)'
    BY <1>c, <2>2 DEF OnlyCaller, Recording, Settling, Indexing
  <2>6. QED
    BY <2>4, <2>5 DEF TraceBooks
<1>3. CASE TraceStopSettle(c)
  <2>1. Settling(c) /\ ~Open
    BY <1>3 DEF TraceStopSettle, Settling, TraceBooks
  <2>2. agent' = agent /\ ~Open'
    BY <1>3, <2>1 DEF TraceStopSettle, Book, Open
  <2>3. ~Active'
    <3>1. CASE books.trace = None
      BY <1>3, <3>1 DEF TraceStopSettle, Book, Active
    <3>2. CASE books.trace # None
      <4>1. books' = [books EXCEPT !.trace.active = FALSE]
        BY <1>3, <3>2 DEF TraceStopSettle
      <4>2. books'.trace.active = FALSE
        BY <3>2, <4>1 DEF BooksShape
      <4>3. QED
        BY <4>2 DEF Active
    <3>3. QED
      BY <3>1, <3>2
  <2>4. PICK pc \in {"book", "finish"} : OnlyCaller(c, pc)
    <3>1. CASE books.trace = None
      BY <1>3, <3>1, ReturnOnly DEF TraceStopSettle, Book
    <3>2. CASE books.trace # None
      <4>1. IsCall(call[c]) /\ call = [d \in Callers |-> call[d]]
        BY DEF CallShape
      <4>2. call' = [call EXCEPT ![c].pc = "book", ![c].seen = books.trace.path]
        BY <1>3, <3>2 DEF TraceStopSettle
      <4>3. OnlyCaller(c, "book")
        BY <4>1, <4>2 DEF IsCall, OnlyCaller
      <4>4. QED
        BY <4>3
    <3>3. QED
      BY <3>1, <3>2
  <2>5. ~Recording(c)' /\ ~Settling(c)'
    BY <2>1, <2>4 DEF OnlyCaller, Recording, Settling
  <2>6. QED
    BY <1>c, <2>2, <2>3, <2>4, <2>5 DEF TraceBooks
<1>4. CASE TraceStopBook(c)
  <2>1. Indexing(c) /\ ~Open /\ ~Active
    BY <1>4 DEF TraceStopBook, Indexing, TraceBooks
  <2>2. agent' = agent /\ OnlyCaller(c, "finish")
    BY <1>4, ReturnOnly DEF TraceStopBook, Book
  <2>3. ~Open'
    BY <2>1, <2>2 DEF Open
  <2>4. ~Active'
    <3>1. CASE books' = books
      BY <2>1, <3>1 DEF Active
    <3>2. CASE books' = [books EXCEPT !.trace = IF @ = None THEN @ ELSE [@ EXCEPT !.indexed = TRUE]]
      <4>1. CASE books.trace = None
        BY <3>2, <4>1 DEF Active, BooksShape
      <4>2. CASE books.trace # None
        <5>1. books'.trace = [books.trace EXCEPT !.indexed = TRUE]
          BY <3>2, <4>2 DEF BooksShape
        <5>2. books'.trace.active = books.trace.active
          BY <4>2, <5>1 DEF BooksShape
        <5>3. QED
          BY <2>1, <4>2, <5>2 DEF Active
      <4>3. QED
        BY <4>1, <4>2
    <3>3. QED
      BY <1>4, <3>1, <3>2 DEF TraceStopBook, Book
  <2>5. \A d \in Callers : ~Recording(d)' /\ ~Settling(d)' /\ ~Indexing(d)'
    BY <1>c, <2>2 DEF OnlyCaller, Recording, Settling, Indexing
  <2>6. QED
    BY <2>3, <2>4, <2>5 DEF TraceBooks
<1>5. QED
  BY <1>1, <1>2, <1>3, <1>4 DEF TraceEdits

-----------------------------------------------------------------------------
(* The books, step by step                                                 *)

LEMMA ToolOthers ==
  ASSUME CallShape, NEW c \in Callers, ToolStep(c)
  PROVE  /\ \A d \in Callers : d # c => call'[d] = call[d]
         /\ call'[c].tool = call[c].tool /\ call'[c].arg = call[c].arg
         /\ call[c].pc \notin Outside
<1>1. Dispatching(c)
  BY ToolDispatches
<1>2. PICK r : Moves(c, r)
  BY <1>1 DEF Dispatching
<1>3. QED
  BY <1>1, <1>2 DEF Moves, CallShape, Dispatching

\* A step of the control plane is halfway through nothing.
LEMMA ControlOthers ==
  ASSUME CallShape, NEW c \in Callers, ControlStep(c)
  PROVE  /\ \A d \in Callers : d # c => call'[d] = call[d]
         /\ call[c].pc \in {"gate", "pausing", "finish"}
         /\ \/ call'[c].pc = "idle"
            \/ /\ call'[c].pc \in {"run", "pausing", "finish"}
               /\ call'[c].tool = call[c].tool /\ call'[c].arg = call[c].arg
<1>1. CASE Finish(c)
  BY <1>1 DEF Finish, At, Idle, CallShape
<1>2. CASE ~Finish(c)
  <2>1. At(c, "gate") \/ At(c, "pausing")
    BY <1>2 DEF ControlStep, DenyControl, InvalidHandoff, Handoff, PauseAutomation,
       BeginTakeover, TakeoverPause, WriteGuard, ReadDispatch
  <2>2. \/ \E out : Return(c, out)
        \/ \E pc \in {"run", "pausing"} : Goto(c, pc)
    BY <1>2 DEF ControlStep, DenyControl, InvalidHandoff, Handoff, PauseAutomation,
       BeginTakeover, TakeoverPause, WriteGuard, ReadDispatch
  <2>3. PICK pc \in {"run", "pausing", "finish"} : OnlyCaller(c, pc)
    BY <2>2, ReturnOnly, GotoOnly
  <2>4. QED
    BY <2>1, <2>3 DEF At, OnlyCaller
<1>3. QED
  BY <1>1, <1>2

LEMMA CallOthers ==
  ASSUME CallShape, NEW c \in Callers, Call(c)
  PROVE  /\ \A d \in Callers : d # c => call'[d] = call[d]
         /\ call[c].pc = "idle" /\ call'[c].pc = "gate" /\ c \in workload.who
         /\ \E w \in workload.tools : w[1] = call'[c].tool /\ w[2] = call'[c].arg
<1>1. PICK w \in workload.tools : c \in workload.who /\ Begin(c, w[1], w[2])
  BY DEF Call
<1>2. QED
  BY <1>1 DEF Begin, At, CallShape

\* Calls come from the workload.
LEMMA AskedKept ==
  ASSUME CallShape, CallAsked, [Next]_vars
  PROVE  CallAsked'
<1>a. workload' = workload
  BY WorkloadKept
<1>1. CASE call' = call
  BY <1>a, <1>1 DEF CallAsked
<1>2. ASSUME NEW c \in Callers, Call(c) PROVE CallAsked'
  <2>1. /\ \A d \in Callers : d # c => call'[d] = call[d]
        /\ c \in workload.who
        /\ \E w \in workload.tools : w[1] = call'[c].tool /\ w[2] = call'[c].arg
    BY <1>2, CallOthers
  <2>2. QED
    BY <1>a, <2>1 DEF CallAsked
<1>3. ASSUME NEW c \in Callers, ControlStep(c) \/ ToolStep(c) PROVE CallAsked'
  <2>1. /\ \A d \in Callers : d # c => call'[d] = call[d]
        /\ call[c].pc # "idle"
        /\ \/ call'[c].pc = "idle"
           \/ call'[c].tool = call[c].tool /\ call'[c].arg = call[c].arg
    BY <1>3, ControlOthers, ToolOthers DEF Outside
  <2>2. QED
    BY <1>a, <2>1 DEF CallAsked
<1>4. QED
  BY <1>1, <1>2, <1>3 DEF Next, Work, SetTarget, AgentBinds, vars, controlVars

\* Lost requests are counted.
LEMMA FaultsCounted ==
  ASSUME faults \in Nat, [Next]_vars
  PROVE  faults' \in Nat /\ (faults' = 0 => faults = 0)
<1> SUFFICES faults' = faults \/ faults' = faults + 1
  OBVIOUS
<1> USE DEF Book
<1>1. CASE SetTarget \/ AgentBinds \/ UNCHANGED vars
  BY <1>1 DEF SetTarget, AgentBinds, vars
<1>2. CASE UNCHANGED serviceVars
  BY <1>2 DEF serviceVars
<1>3. ASSUME NEW c \in Callers, ToolStep(c) PROVE faults' = faults \/ faults' = faults + 1
  <2> DEFINE Counted == faults' = faults \/ faults' = faults + 1
  <2> SUFFICES Counted
    OBVIOUS
  <2>a. (\E after, pc, seen : Rpc(c, after, pc, seen)) \/ Refuse(c) => Counted
    BY DEF Rpc, Refuse
  <2>b. (\E after, pc : QuietRpc(c, after, pc)) => Counted
    BY DEF QuietRpc
  <2>c. (\E after, pc, seen : ScriptRpc(c, after, pc, seen)) => Counted
    BY <2>a DEF ScriptRpc
  <2>d. (\E out, rows : ScriptReturn(c, out, rows)) => Counted
    BY DEF ScriptReturn
  <2>e. (\E after : Book(c, after)) => Counted
    BY DEF Book
  <2> HIDE DEF Counted
  <2>1. CASE Forward(c) \/ BreakpointInventory(c) \/ HookInventory(c) \/ ExceptionInventory(c)
             \/ Leave(c)
    BY <2>1, <2>a, <2>e DEF Forward, BreakpointInventory, HookInventory, ExceptionInventory,
       ReadTool, Leave
  <2>2. CASE SessionStatus(c) \/ SessionSetAgentPort(c)
    BY <2>2 DEF SessionStatus, SessionSetAgentPort, Counted
  <2>3. CASE BreakpointStep(c)
    BY <2>3, <2>a, <2>e, Zenon DEF BreakpointStep, BreakpointSet, BreakpointSetBook,
       BreakpointRemoveCheck, BreakpointRemove, BreakpointRemoveBook
  <2>4. CASE HookStep(c)
    <3>1. CASE HookFunctionArm(c) \/ HookTargetsBook(c)
      BY <3>1 DEF HookFunctionArm, HookTargetsBook, Counted
    <3>2. CASE HookMonitor(c)
      BY <3>2, <2>e DEF HookMonitor, Counted
    <3>3. CASE HookSet(c) \/ HookSignatureSet(c) \/ HookFunctionRollback(c) \/ HookFunctionFailed(c)
               \/ HookSignatureRemove(c) \/ HookRemove(c) \/ HookRemoveSignature(c)
               \/ HookClear(c) \/ HookModule(c) \/ HookRangeSet(c) \/ HookTargetsQuery(c)
               \/ HookMonitorApply(c)
      BY <3>3, <2>a, <2>b, Zenon DEF HookSet, HookSignatureSet, HookFunctionRollback,
         HookFunctionFailed, HookSignatureRemove, HookRemove, HookRemoveSignature, HookClear,
         HookModule, HookRangeSet, HookTargetsQuery, HookMonitorApply
    <3>4. CASE HookCallbackCheck(c)
      BY <3>4, <2>a DEF HookCallbackCheck
    <3>5. CASE HookSetBook(c) \/ HookSignatureSetBook(c) \/ HookFunctionBook(c)
               \/ HookSignatureRemoveBook(c) \/ HookRemoveBook(c) \/ HookClearBook(c)
               \/ HookModuleBook(c) \/ HookRangeBook(c) \/ HookMonitorApplyBook(c)
      BY <3>5 DEF HookSetBook, HookSignatureSetBook, HookFunctionBook, HookSignatureRemoveBook,
         HookRemoveBook, HookClearBook, HookModuleBook, HookRangeBook, HookMonitorApplyBook, Counted
    <3>6. QED
      BY <2>4, <3>1, <3>2, <3>3, <3>4, <3>5 DEF HookStep
  <2>5. CASE TraceStep(c)
    <3>1. CASE TraceStopSettle(c)
      BY <3>1 DEF TraceStopSettle, Counted
    <3>2. CASE TraceStep(c) /\ ~TraceStopSettle(c)
      BY <3>2, <2>a, <2>e, Zenon DEF TraceStep, SyscallConfigSet, SyscallConfigBook, TraceScopeQuery,
         TraceScopeBook, TraceRecordStart, TraceStartBook, TraceRecordStop, TraceStopBook,
         TraceRecordStatus, TraceIndexQuery
    <3>3. QED
      BY <2>5, <3>1, <3>2
  <2>6. CASE ScriptStep(c)
    <3>1. CASE ScriptLock(c)
      BY <3>1 DEF ScriptLock, Counted
    <3>2. CASE ScriptStep(c) /\ ~ScriptLock(c)
      BY <3>2, <2>c, <2>d, Zenon DEF ScriptStep, ScriptApply, ScriptRecover, ScriptApplyBook,
         ScriptStop, ScriptStopBook, ScriptStart, ScriptStartBook, ScriptRemove, ScriptRemoveBook
    <3>3. QED
      BY <2>6, <3>1, <3>2
  <2>7. QED
    BY <1>3, <2>1, <2>2, <2>3, <2>4, <2>5, <2>6 DEF ToolStep
<1>4. QED
  BY <1>1, <1>2, <1>3 DEF Next, Work

\* What a step leaves to be shown, when no request is lost.
BooksHold ==
  /\ AgentShape /\ BooksShape /\ ScriptBooks
  /\ Sole => BreakpointBooks /\ TraceBooks

\* A step that leaves the agent and the books, and is halfway through nothing.
LEMMA OutsideKeeps ==
  ASSUME BooksHold, workload' = workload,
         AgentShape', books' = books, UNCHANGED <<records, mutation>>,
         agent'[1].scripts = agent[1].scripts, agent'[1].bps = agent[1].bps,
         agent'[1].recording = agent[1].recording,
         \A d \in Callers : call'[d] = call[d] \/ /\ call[d].pc \in {"idle", "gate", "pausing", "finish"}
                                                  /\ call'[d].pc \in {"idle", "gate", "run", "pausing", "finish"}
  PROVE  BooksHold'
<1>1. \A d \in Callers : call'[d] = call[d] \/ (~InScript(d) /\ ~InScript(d)')
  BY DEF InScript
<1>2. \A d \in Callers : call'[d] = call[d] \/ (~BreakpointMid(d) /\ ~BreakpointMid(d)')
  BY DEF BreakpointMid
<1>3. \A d \in Callers : call'[d] = call[d] \/ (~TraceMid(d) /\ ~TraceMid(d)')
  BY DEF TraceMid
<1>4. BooksShape'
  BY DEF BooksHold, BooksShape
<1>5. ScriptBooks'
  BY <1>1, ScriptsStay DEF BooksHold
<1>6. Sole' => BreakpointBooks' /\ TraceBooks'
  BY <1>2, <1>3, BreakpointsStay, TraceStays DEF BooksHold, Sole
<1>7. QED
  BY <1>4, <1>5, <1>6 DEF BooksHold

LEMMA ToolKeeps ==
  ASSUME LeaseInv, JournalInv, CallAsked, ~Retargets, faults = 0, faults' = 0, BooksHold,
         workload' = workload, NEW c \in Callers, ToolStep(c)
  PROVE  BooksHold'
<1>a. CallShape /\ workload \in Workloads /\ call[c].op \in Nat
  BY DEF JournalInv, Numbered
<1>b. AgentShape /\ BooksShape /\ ScriptBooks
  BY DEF BooksHold
<1>c. /\ \A d \in Callers : d # c => call'[d] = call[d]
      /\ call[c].pc \notin Outside
  BY <1>a, ToolOthers
<1>d. call[c].tool # "session_set_agent_port"
  BY <1>c DEF CallAsked, Retargets, Outside
<1>1. Touches(c)
  <2>1. CASE ScriptStep(c)
    BY <1>a, <1>b, <2>1, ScriptKeeps DEF Touches, ScriptsAlone
  <2>2. CASE BreakpointEdits(c)
    BY <1>a, <1>b, <2>2, BreakpointTouches DEF Touches
  <2>3. CASE TraceEdits(c)
    BY <1>a, <1>b, <2>3, TraceTouches DEF Touches
  <2>4. CASE ~ScriptStep(c) /\ ~BreakpointEdits(c) /\ ~TraceEdits(c)
    BY <1>a, <1>b, <1>d, <2>4, OtherTouches, QuietTouches
  <2>5. QED
    BY <2>1, <2>2, <2>3, <2>4
<1>2. ScriptBooks'
  <2>1. CASE ScriptStep(c)
    BY <1>a, <1>b, <2>1, ScriptKeeps
  <2>2. CASE ScriptsKept(c)
    <3>1. \A d \in Callers : call'[d] = call[d] \/ (~InScript(d) /\ ~InScript(d)')
      BY <1>c, <2>2 DEF ScriptsKept
    <3>2. QED
      BY <1>b, <2>2, <3>1, ScriptsStay DEF ScriptsKept
  <2>3. QED
    BY <1>1, <2>1, <2>2 DEF Touches
<1>3. ASSUME Sole PROVE BreakpointBooks' /\ TraceBooks'
  <2>a. BreakpointBooks /\ TraceBooks
    BY <1>3 DEF BooksHold
  <2>b. ASSUME call[c].tool \in WriteTools PROVE Alone(c)
    <3>1. c \in WritesInFlight
      BY <1>c, <2>b DEF WritesInFlight, Outside
    <3>2. QED
      BY <1>3, <1>a, <3>1, SoleAlone
  <2>1. BreakpointBooks'
    <3>1. CASE BreakpointEdits(c)
      <4>1. call[c].tool \in WriteTools
        BY <3>1 DEF BreakpointEdits, BreakpointSet, BreakpointSetBook, BreakpointRemove,
           BreakpointRemoveBook, Asked, Doing, WriteTools
      <4>2. QED
        BY <1>a, <1>b, <2>a, <2>b, <3>1, <4>1, BreakpointKeeps
    <3>2. CASE BreakpointsKept(c)
      <4>1. \A d \in Callers : call'[d] = call[d] \/ (~BreakpointMid(d) /\ ~BreakpointMid(d)')
        BY <1>c, <3>2 DEF BreakpointsKept
      <4>2. QED
        BY <2>a, <3>2, <4>1, BreakpointsStay DEF BreakpointsKept
    <3>3. QED
      BY <1>1, <3>1, <3>2 DEF Touches
  <2>2. TraceBooks'
    <3>1. CASE TraceEdits(c)
      <4>1. call[c].tool \in WriteTools
        BY <3>1 DEF TraceEdits, TraceRecordStart, TraceStartBook, TraceRecordStop,
           TraceStopSettle, TraceStopBook, Asked, Doing, WriteTools
      <4>2. QED
        BY <1>a, <1>b, <2>a, <2>b, <3>1, <4>1, TraceKeeps
    <3>2. CASE TraceKept(c)
      <4>1. \A d \in Callers : call'[d] = call[d] \/ (~TraceMid(d) /\ ~TraceMid(d)')
        BY <1>c, <3>2 DEF TraceKept
      <4>2. QED
        BY <2>a, <3>2, <4>1, TraceStays DEF TraceKept
    <3>3. QED
      BY <1>1, <3>1, <3>2 DEF Touches
  <2>3. QED
    BY <2>1, <2>2
<1>4. Sole' <=> Sole
  BY DEF Sole
<1>5. QED
  BY <1>1, <1>2, <1>3, <1>4 DEF BooksHold, Touches

LEMMA BooksInit == Init => BooksInv
<1> SUFFICES ASSUME Init PROVE BooksInv
  OBVIOUS
<1>1. /\ call = [c \in Callers |-> Idle] /\ faults = 0 /\ port = 1
      /\ agent = [p \in Processes |-> FreshAgent] /\ books = NewBooks
      /\ records = [n \in Names |-> None]
  BY DEF Init, ControlInit
<1>2. \A c \in Callers : call[c].pc = "idle"
  BY <1>1 DEF Idle
<1>3. agent[1] = FreshAgent
  BY <1>1, ServiceAssumption
<1>4. AgentShape
  BY <1>1, <1>3 DEF AgentShape, FreshAgent
<1>5. BooksShape
  BY <1>1 DEF BooksShape, NewBooks
<1>6. ScriptBooks
  BY <1>1, <1>2 DEF ScriptBooks, InScript, Booking, RowAgrees
<1>7. BreakpointBooks
  BY <1>1, <1>2 DEF BreakpointBooks, NewBooks, Doing, At
<1>8. TraceBooks
  <2>1. ~Open /\ ~Active
    BY <1>1, <1>3 DEF Open, Active, FreshAgent, NewBooks
  <2>2. QED
    BY <1>2, <2>1 DEF TraceBooks, Recording, Settling, Indexing, Doing, At
<1>9. QED
  BY <1>1, <1>2, <1>4, <1>5, <1>6, <1>7, <1>8 DEF BooksInv, CallAsked

LEMMA BooksStep == LeaseInv /\ JournalInv /\ BooksInv /\ [Next]_vars => BooksInv'
<1> SUFFICES ASSUME LeaseInv, JournalInv, BooksInv, [Next]_vars PROVE BooksInv'
  OBVIOUS
<1>a. CallShape /\ CallAsked /\ faults \in Nat
  BY DEF JournalInv, BooksInv
<1>b. workload' = workload
  BY WorkloadKept
<1>c. CallAsked' /\ faults' \in Nat /\ (faults' = 0 => faults = 0)
  BY <1>a, AskedKept, FaultsCounted
<1>1. ASSUME Calm' PROVE BooksHold'
  <2>a. Calm /\ faults = 0 /\ faults' = 0 /\ ~Retargets
    BY <1>1, <1>b, <1>c DEF Calm, Retargets
  <2>b. BooksHold
    BY <2>a DEF BooksInv, BooksHold
  <2>c. AgentShape
    BY <2>b DEF BooksHold
  <2>1. CASE UNCHANGED vars
    BY <1>b, <2>b, <2>c, <2>1, OutsideKeeps DEF vars, controlVars, scriptVars, AgentShape
  <2>2. ~SetTarget
    BY <2>a DEF SetTarget, Retargets
  <2>3. CASE AgentBinds
    <3>1. PICK p \in Processes, a \in Addrs : agent' = [agent EXCEPT ![p].callbacks = @ \union {a}]
      BY <2>3 DEF AgentBinds
    <3>2. UNCHANGED <<port, books, records, mutation, call>>
      BY <2>3 DEF AgentBinds, controlVars, scriptVars
    <3>3. /\ agent' = [q \in Processes |-> agent'[q]]
          /\ DOMAIN agent'[1] = DOMAIN agent[1] /\ agent'[1].bps = agent[1].bps
          /\ agent'[1].scripts = agent[1].scripts /\ agent'[1].recording = agent[1].recording
      <4>1. agent'[1] = agent[1] \/ agent'[1] = [agent[1] EXCEPT !.callbacks = agent[1].callbacks \union {a}]
        BY <2>c, <3>1, ServiceAssumption DEF AgentShape
      <4>2. agent' = [q \in Processes |-> agent'[q]]
        BY <2>c, <3>1 DEF AgentShape
      <4>3. QED
        BY <2>c, <4>1, <4>2 DEF AgentShape
    <3>4. AgentShape'
      BY <2>c, <3>2, <3>3 DEF AgentShape
    <3>5. QED
      BY <1>b, <2>b, <3>2, <3>3, <3>4, OutsideKeeps
  <2>4. ASSUME NEW c \in Callers, Call(c) \/ ControlStep(c), UNCHANGED serviceVars
        PROVE  BooksHold'
    <3>1. UNCHANGED <<agent, port, books, records, mutation>>
      BY <2>4 DEF serviceVars, scriptVars
    <3>2. AgentShape'
      BY <2>c, <3>1 DEF AgentShape
    <3>3. /\ \A d \in Callers : d # c => call'[d] = call[d]
          /\ call[c].pc \in {"idle", "gate", "pausing", "finish"}
          /\ call'[c].pc \in {"idle", "gate", "run", "pausing", "finish"}
      BY <1>a, <2>4, CallOthers, ControlOthers
    <3>4. \A d \in Callers : call'[d] = call[d] \/ /\ call[d].pc \in {"idle", "gate", "pausing", "finish"}
                                                   /\ call'[d].pc \in {"idle", "gate", "run", "pausing", "finish"}
      BY <3>3
    <3>5. QED
      BY <1>b, <2>b, <3>1, <3>2, <3>4, OutsideKeeps
  <2>5. ASSUME NEW c \in Callers, ToolStep(c) PROVE BooksHold'
    BY <1>a, <1>b, <2>a, <2>b, <2>5, ToolKeeps
  <2>6. QED
    BY <2>1, <2>2, <2>3, <2>4, <2>5 DEF Next, Work
<1>2. QED
  BY <1>c, <1>1 DEF BooksInv, BooksHold

\* Scripts have a transaction around agent and rows: with nobody in it, no
\* request lost and the target kept, a row that is not stopped names a script
\* the agent has, and a stopped one a script it does not have, for any number of
\* connections and scripts (script_service.rs:145-151).
THEOREM ScriptRowsAgree == Spec => []ScriptsAgree
<1>1. LeaseInv /\ JournalInv /\ BooksInv => ScriptsAgree
  <2> SUFFICES ASSUME BooksInv, mutation = None, faults = 0, ~Retargets PROVE
                 \A n \in Names : records[n] # None =>
                   (n \in agent[1].scripts <=> records[n].state # "stopped")
    BY DEF ScriptsAgree
  <2>1. ScriptBooks
    BY DEF BooksInv, Calm
  <2>2. \A c \in Callers : ~Booking(c)
    BY <2>1, ControlAssumption DEF ScriptBooks, Booking
  <2>3. QED
    BY <2>1, <2>2 DEF ScriptBooks, RowAgrees
<1>2. Init => LeaseInv /\ JournalInv /\ BooksInv
  BY LeaseInit, JournalInit, BooksInit
<1>3. LeaseInv /\ JournalInv /\ BooksInv /\ [Next]_vars => (LeaseInv /\ JournalInv /\ BooksInv)'
  BY LeaseStep, JournalStep, BooksStep
<1>4. QED
  BY <1>1, <1>2, <1>3, PTL DEF Spec

\* The other books have only the gate: with a single connection that writes, no
\* request lost and the target kept, between calls an owned breakpoint exists
\* and the session called active is the one the agent records
\* (service.rs:593-641, 1891-2033).
THEOREM SoleWriterBooksTrue == Spec => []SoleWriterBooks
<1>1. LeaseInv /\ JournalInv /\ BooksInv => SoleWriterBooks
  <2> SUFFICES ASSUME BooksInv, Sole, faults = 0, ~Retargets, WritesInFlight = {} PROVE
                 /\ \A i \in BpIds : books.bps[i] # {} => agent[1].bps[i] # None
                 /\ Open <=> Active
    BY DEF SoleWriterBooks, Sole, Open, Active
  <2>1. BreakpointBooks /\ TraceBooks
    BY DEF BooksInv, Calm
  <2>2. \A c \in Callers : /\ ~Doing(c, "breakpoint_remove", "book")
                           /\ ~Recording(c) /\ ~Settling(c)
    BY DEF WritesInFlight, WriteTools, Recording, Settling, Doing, At
  <2>3. QED
    BY <2>1, <2>2 DEF BreakpointBooks, TraceBooks
<1>2. Init => LeaseInv /\ JournalInv /\ BooksInv
  BY LeaseInit, JournalInit, BooksInit
<1>3. LeaseInv /\ JournalInv /\ BooksInv /\ [Next]_vars => (LeaseInv /\ JournalInv /\ BooksInv)'
  BY LeaseStep, JournalStep, BooksStep
<1>4. QED
  BY <1>1, <1>2, <1>3, PTL DEF Spec
=============================================================================
