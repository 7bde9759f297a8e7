------------------------------ MODULE HubService ------------------------------
(***************************************************************************)
(* The hub's tools (service.rs, script_service.rs), the books they keep    *)
(* beside the agent (who asked for a breakpoint or a hook, signatures,     *)
(* confirmed selections, the recording, scripts) and the agent connection  *)
(* (agent.rs).  A tool is one step per request it makes of the agent and   *)
(* one for its books: other callers move in between.  A request may fail   *)
(* before or after the agent acted on it.                                  *)
(*                                                                         *)
(* The agent's side of a request is taken from how the hub uses it.        *)
(***************************************************************************)
EXTENDS HubControl, FiniteSetsExt

CONSTANTS
  Addrs,          \* code addresses (integers: a batch arms the lowest first)
  Exports,        \* the addresses a module exports
  HookCapacity,   \* hook points an agent holds (32768)
  BpIds,          \* breakpoint slots of an agent
  Names,          \* script names
  Processes,      \* agents, in the order they are launched
  SelectionCap,   \* selections retained (64)
  MaxFaults,      \* bound: requests that fail
  Workloads       \* bound: records [who, tools, calls] of connections, the
                  \* <<tool, argument>>s they call and how many rows they journal

\* The first agent is the one attached to; "nothing" is neither a number nor a
\* session; callers are connections, and a breakpoint is asked for at an address.
ASSUME ServiceAssumption ==
  /\ 1 \in Processes
  /\ None \notin Nat /\ None \notin [path : Nat, active : BOOLEAN, indexed : BOOLEAN]
  /\ \A l \in Workloads :
       /\ l.who \subseteq Callers
       /\ \A w \in l.tools : w[1] = "breakpoint_set" => w[2] # None

VARIABLES
  agent,        \* per process, what the agent holds
  port,         \* the process the connection's port names
  connected,    \* Session.connected
  books,        \* the hub's bookkeeping
  records,      \* script rows
  mutation,     \* the caller holding the script mutation lock, or None
  faults,       \* failed requests so far
  workload      \* what this behaviour calls, and from where

scriptVars == <<records, mutation>>
vars == <<controlVars, agent, port, connected, books, scriptVars, faults, workload>>

\* An agent that has just started.
FreshAgent ==
  [hooks |-> {}, functions |-> {}, sigs |-> {}, bps |-> [i \in BpIds |-> None],
   callbacks |-> {}, scripts |-> {}, recording |-> None, syscalls |-> "all"]

\* The books of a hub that has just started.
NewBooks ==
  [bps |-> [i \in BpIds |-> {}], hooks |-> [a \in Addrs |-> {}], modules |-> {},
   sigs |-> {}, hookSel |-> {}, traceSel |-> {}, nextHookSel |-> 1, nextTraceSel |-> 1,
   trace |-> None, symbols |-> [a \in Addrs |-> None], syscalls |-> "all"]

Init ==
  /\ ControlInit
  /\ agent = [p \in Processes |-> FreshAgent]
  /\ port = 1 /\ connected = FALSE
  /\ books = NewBooks
  /\ records = [n \in Names |-> None] /\ mutation = None
  /\ faults = 0
  /\ workload \in Workloads

(***************************************************************************)
(* The agent connection                                                    *)
(***************************************************************************)

\* AgentConnection::with_client: one connection per request, to the agent the
\* port names now.  The request takes effect and answers, or fails before or
\* after the agent acted.
Rpc(c, after, pc, seen) ==
  \/ /\ agent' = [agent EXCEPT ![port] = after]
     /\ call' = [call EXCEPT ![c].pc = pc, ![c].seen = seen]
     /\ UNCHANGED <<faults, gateReaders>>
  \/ /\ faults < MaxFaults /\ faults' = faults + 1
     /\ agent' \in {agent, [agent EXCEPT ![port] = after]}
     /\ Return(c, "error")

\* A request whose result the hub does not look at.
QuietRpc(c, after, pc) ==
  /\ \/ agent' = [agent EXCEPT ![port] = after] /\ UNCHANGED faults
     \/ faults < MaxFaults /\ faults' = faults + 1 /\ UNCHANGED agent
  /\ Goto(c, pc)
  /\ UNCHANGED gateReaders

Asked(c, tools) == At(c, "run") /\ call[c].tool \in tools
Doing(c, tool, pc) == At(c, pc) /\ call[c].tool = tool
Arg(c) == call[c].arg
Here == agent[port]
Refuse(c) == Return(c, "error") /\ UNCHANGED <<agent, faults>>

OnlyRpc == UNCHANGED <<mode, previous, gateWriter, journal, nextOp, port, connected,
                       books, scriptVars, workload>>

\* The last step of a tool: its books, and the answer.
Book(c, after) ==
  /\ books' = after
  /\ Return(c, "ok")
  /\ UNCHANGED <<mode, previous, gateWriter, journal, nextOp, agent, port, connected,
                 scriptVars, faults, workload>>

\* Requests that leave nothing in the hub: run control, registers, memory, the
\* exception policy.
ForwardTools == {"target_pause", "target_resume", "target_step_into", "target_step_over",
                 "register_set", "memory_write", "exception_policy_set"}

Forward(c) ==
  /\ Asked(c, ForwardTools)
  /\ Rpc(c, Here, "leave", None)
  /\ OnlyRpc

\* The inventories: the agent's rows, decorated with the books and the script
\* provenance of the moment they are answered.
ReadTool(c, tool) == Asked(c, {tool}) /\ Rpc(c, Here, "leave", None) /\ OnlyRpc

BreakpointInventory(c) == ReadTool(c, "breakpoint_inventory")
HookInventory(c) == ReadTool(c, "hook_inventory")
ExceptionInventory(c) == ReadTool(c, "exception_inventory")

Leave(c) == At(c, "leave") /\ Book(c, books)

(***************************************************************************)
(* Session                                                                 *)
(***************************************************************************)

SessionStatus(c) ==
  /\ Asked(c, {"session_status"})
  /\ \/ connected' = TRUE /\ Return(c, "ok") /\ UNCHANGED faults
     \/ /\ faults < MaxFaults /\ faults' = faults + 1
        /\ connected' = FALSE /\ Return(c, "error")
  /\ UNCHANGED <<mode, previous, gateWriter, journal, nextOp, agent, port, books,
                 scriptVars, workload>>

\* The port moves; the books and the symbol cache stay.
SessionSetAgentPort(c) ==
  /\ Asked(c, {"session_set_agent_port"})
  /\ IF c \in Human
     THEN port' = Arg(c) /\ connected' = FALSE /\ Return(c, "ok")
     ELSE Return(c, "error") /\ UNCHANGED <<port, connected>>
  /\ UNCHANGED <<mode, previous, gateWriter, journal, nextOp, agent, books,
                 scriptVars, faults, workload>>

\* The front end names the target it launched or attached: no gate is taken.
SetTarget ==
  /\ <<"set_target", None>> \in workload.tools
  /\ books' = [NewBooks EXCEPT !.nextHookSel = books.nextHookSel,
                               !.nextTraceSel = books.nextTraceSel,
                               !.symbols = books.symbols]
  /\ UNCHANGED <<controlVars, agent, port, connected, scriptVars, faults, workload>>

(***************************************************************************)
(* Breakpoints                                                             *)
(***************************************************************************)

\* The slot of an address, or a free one.
SlotFor(a) ==
  LET same == {i \in BpIds : Here.bps[i] = a}
  IN  IF same # {} THEN same ELSE {i \in BpIds : Here.bps[i] = None}

BreakpointSet(c) ==
  /\ Asked(c, {"breakpoint_set"})
  /\ IF SlotFor(Arg(c)) = {} THEN Refuse(c)
     ELSE \E i \in SlotFor(Arg(c)) : Rpc(c, [Here EXCEPT !.bps[i] = Arg(c)], "book", i)
  /\ OnlyRpc

BreakpointSetBook(c) ==
  /\ Doing(c, "breakpoint_set", "book")
  /\ Book(c, [books EXCEPT !.bps[call[c].seen] = @ \union {Actor(c)}])

\* The inventory is asked first: a breakpoint with callbacks is left alone.
BreakpointRemoveCheck(c) ==
  /\ Asked(c, {"breakpoint_remove"})
  /\ IF Here.bps[Arg(c)] \in Here.callbacks THEN Refuse(c)
     ELSE Rpc(c, Here, "remove", None)
  /\ OnlyRpc

BreakpointRemove(c) ==
  /\ Doing(c, "breakpoint_remove", "remove")
  /\ Rpc(c, [Here EXCEPT !.bps[Arg(c)] = None], "book", None)
  /\ OnlyRpc

\* Mutant: the owners of a removed breakpoint stay.
BreakpointRemoveKept(c) == Doing(c, "breakpoint_remove", "book") /\ Book(c, books)

BreakpointRemoveBook(c) ==
  /\ Doing(c, "breakpoint_remove", "book")
  /\ Book(c, [books EXCEPT !.bps[Arg(c)] = {}])

(***************************************************************************)
(* Hooks                                                                   *)
(***************************************************************************)

\* The agent's hook.set: FALSE when a new point finds the table full.
HookFits(a) == a \in Here.hooks \/ Cardinality(Here.hooks) < HookCapacity

\* The agent's hook.set_batch: the lowest new addresses up to the capacity;
\* every address that ends up hooked logs as a function.
Batch(S) ==
  LET free == HookCapacity - Cardinality(Here.hooks)
      new == S \ Here.hooks
      taken == {a \in new : Cardinality({b \in new : b < a}) < free}
      hooks == Here.hooks \union taken
  IN  [Here EXCEPT !.hooks = hooks, !.functions = @ \union (S \intersect hooks)]

\* A range arms plain points, by the same rule.
PlainBatch(S) == [Batch(S) EXCEPT !.functions = Here.functions]

HookSet(c) ==
  /\ Asked(c, {"hook_set"})
  /\ IF HookFits(Arg(c)) THEN Rpc(c, [Here EXCEPT !.hooks = @ \union {Arg(c)}], "book", None)
     ELSE Refuse(c)
  /\ OnlyRpc

HookSetBook(c) ==
  /\ Doing(c, "hook_set", "book")
  /\ Book(c, [books EXCEPT !.hooks[Arg(c)] = @ \union {Actor(c)}])

\* hook_signature_set, and the first request of hook_function_set.
HookSignatureSet(c) ==
  /\ Asked(c, {"hook_signature_set", "hook_function_set"})
  /\ Rpc(c, [Here EXCEPT !.sigs = @ \union {Arg(c)}],
         IF call[c].tool = "hook_signature_set" THEN "book" ELSE "arm", None)
  /\ OnlyRpc

HookSignatureSetBook(c) ==
  /\ Doing(c, "hook_signature_set", "book")
  /\ Book(c, [books EXCEPT !.sigs = @ \union {Arg(c)}])

\* hook_function_set's second request: failed or full, the signature is taken
\* back, whether or not there was one before.
HookFunctionArm(c) ==
  /\ Doing(c, "hook_function_set", "arm")
  /\ \/ /\ agent' = [agent EXCEPT ![port] = Batch({Arg(c)})]
        /\ Goto(c, IF Arg(c) \in agent'[port].functions THEN "book" ELSE "rollback")
        /\ UNCHANGED faults
     \/ /\ faults < MaxFaults /\ faults' = faults + 1
        /\ agent' \in {agent, [agent EXCEPT ![port] = Batch({Arg(c)})]}
        /\ Goto(c, "rollback")
  /\ UNCHANGED gateReaders /\ OnlyRpc

HookFunctionRollback(c) ==
  /\ Doing(c, "hook_function_set", "rollback")
  /\ QuietRpc(c, [Here EXCEPT !.sigs = @ \ {Arg(c)}], "failed")
  /\ OnlyRpc

HookFunctionFailed(c) ==
  /\ Doing(c, "hook_function_set", "failed")
  /\ Refuse(c) /\ OnlyRpc

HookFunctionBook(c) ==
  /\ Doing(c, "hook_function_set", "book")
  /\ Book(c, [books EXCEPT !.sigs = @ \union {Arg(c)},
                           !.hooks[Arg(c)] = @ \union {Actor(c)}])

HookSignatureRemove(c) ==
  /\ Asked(c, {"hook_signature_remove"})
  /\ Rpc(c, [Here EXCEPT !.sigs = @ \ {Arg(c)}], "book", None)
  /\ OnlyRpc

HookSignatureRemoveBook(c) ==
  /\ Doing(c, "hook_signature_remove", "book")
  /\ Book(c, [books EXCEPT !.sigs = @ \ {Arg(c)}])

\* hook_remove and hook_clear ask for the callback bindings first.
HookCallbackCheck(c) ==
  /\ Asked(c, {"hook_remove", "hook_clear"})
  /\ LET bound == IF call[c].tool = "hook_clear" THEN Here.callbacks
                  ELSE Here.callbacks \intersect {Arg(c)}
     IN  IF bound # {} THEN Refuse(c) ELSE Rpc(c, Here, "remove", None)
  /\ OnlyRpc

HookRemove(c) ==
  /\ Doing(c, "hook_remove", "remove")
  /\ Rpc(c, [Here EXCEPT !.hooks = @ \ {Arg(c)}, !.functions = @ \ {Arg(c)},
                         !.sigs = @ \ {Arg(c)}], "unsign", None)
  /\ OnlyRpc

HookRemoveSignature(c) ==
  /\ Doing(c, "hook_remove", "unsign")
  /\ QuietRpc(c, [Here EXCEPT !.sigs = @ \ {Arg(c)}], "book")
  /\ OnlyRpc

HookRemoveBook(c) ==
  /\ Doing(c, "hook_remove", "book")
  /\ Book(c, [books EXCEPT !.sigs = @ \ {Arg(c)}, !.hooks[Arg(c)] = {},
                           !.symbols[Arg(c)] = None])

HookClear(c) ==
  /\ Doing(c, "hook_clear", "remove")
  /\ Rpc(c, [Here EXCEPT !.hooks = {}, !.functions = {}, !.sigs = {}], "book", None)
  /\ OnlyRpc

HookClearBook(c) ==
  /\ Doing(c, "hook_clear", "book")
  /\ Book(c, [books EXCEPT !.hooks = [a \in Addrs |-> {}], !.modules = {}, !.sigs = {},
                           !.symbols = [a \in Addrs |-> None]])

\* hook_module: every export of the module, for a person only.
HookModule(c) ==
  /\ Asked(c, {"hook_module"})
  /\ IF c \in Ai THEN Refuse(c) ELSE Rpc(c, Batch(Exports), "book", port)
  /\ OnlyRpc

\* The symbols of the request are cached for the process it went to.
Labelled(S, p) == [a \in Addrs |-> IF a \in S THEN p ELSE books.symbols[a]]

HookModuleBook(c) ==
  /\ Doing(c, "hook_module", "book")
  /\ Book(c, [books EXCEPT !.symbols = Labelled(Exports, call[c].seen),
                           !.modules = @ \union {Actor(c)}])

\* hook_range_set: the agent arms nothing unless it decoded the whole range.
HookRangeSet(c) ==
  /\ Asked(c, {"hook_range_set"})
  /\ \/ Rpc(c, PlainBatch(Arg(c)), "book", None)
     \/ Refuse(c)
  /\ OnlyRpc

HookRangeBook(c) ==
  /\ Doing(c, "hook_range_set", "book")
  /\ Book(c, [books EXCEPT !.hooks = [a \in Addrs |-> IF a \in Arg(c) THEN @[a] \union {Actor(c)}
                                                      ELSE @[a]]])

\* Selections kept: the lowest number leaves first.
Retain(sel, id) ==
  LET all == sel \union {id}
  IN  IF Cardinality(all) > SelectionCap THEN all \ {Min(all)} ELSE all

\* hook_targets_query: the selection is kept before the page is validated.
HookTargetsQuery(c) ==
  /\ Asked(c, {"hook_targets_query"})
  /\ Rpc(c, Here, "book", None)
  /\ OnlyRpc

HookTargetsBook(c) ==
  /\ Doing(c, "hook_targets_query", "book")
  /\ books' = [books EXCEPT !.hookSel = Retain(@, books.nextHookSel), !.nextHookSel = @ + 1]
  /\ Return(c, IF Arg(c) = "bad_page" THEN "error" ELSE "ok")
  /\ UNCHANGED <<mode, previous, gateWriter, journal, nextOp, agent, port, connected,
                 scriptVars, faults, workload>>

\* hook_monitor_apply: an unknown selection or a wrong count or digest is
\* refused; otherwise every target is owned, armed or not.
HookMonitorApply(c) ==
  /\ Asked(c, {"hook_monitor_apply"})
  /\ IF Arg(c).confirmed /\ Arg(c).id \in books.hookSel
     THEN Rpc(c, Batch(Exports), "book", port)
     ELSE Refuse(c)
  /\ OnlyRpc

HookMonitorApplyBook(c) ==
  /\ Doing(c, "hook_monitor_apply", "book")
  /\ Book(c, [books EXCEPT !.hooks = [a \in Addrs |-> IF a \in Exports THEN @[a] \union {Actor(c)}
                                                      ELSE @[a]],
                           !.modules = @ \union {Actor(c)},
                           !.symbols = Labelled(Exports, call[c].seen)])

\* hook_monitor: addresses without a cached symbol are resolved and cached
\* under the connection's lock.
HookMonitor(c) ==
  /\ Asked(c, {"hook_monitor"})
  /\ \/ Book(c, [books EXCEPT !.symbols = [a \in Addrs |->
                   IF @[a] = None /\ a \in Here.hooks THEN port ELSE @[a]]])
     \/ /\ faults < MaxFaults /\ faults' = faults + 1
        /\ Return(c, "error") /\ UNCHANGED agent /\ OnlyRpc

(***************************************************************************)
(* System calls and traces                                                 *)
(***************************************************************************)

\* syscall_config_set: the engine, then its filter, in one connection.
SyscallConfigSet(c) ==
  /\ Asked(c, {"syscall_config_set"})
  /\ \/ Rpc(c, [Here EXCEPT !.syscalls = Arg(c)], "book", None)
     \/ Refuse(c)
  /\ OnlyRpc

SyscallConfigBook(c) ==
  /\ Doing(c, "syscall_config_set", "book")
  /\ Book(c, [books EXCEPT !.syscalls = Arg(c)])

\* trace_scope_query: modules and threads are asked for, the scope validated.
TraceScopeQuery(c) ==
  /\ Asked(c, {"trace_scope_query"})
  /\ \/ Rpc(c, Here, "book", None)
     \/ Refuse(c)
  /\ OnlyRpc

TraceScopeBook(c) ==
  /\ Doing(c, "trace_scope_query", "book")
  /\ Book(c, [books EXCEPT !.traceSel = Retain(@, books.nextTraceSel), !.nextTraceSel = @ + 1])

\* trace_record_start: the agent refuses while a recording is open.
TraceRecordStart(c) ==
  /\ Asked(c, {"trace_record_start"})
  /\ IF Arg(c) \in books.traceSel /\ Here.recording = None
     THEN Rpc(c, [Here EXCEPT !.recording = call[c].op], "book", None)
     ELSE Refuse(c)
  /\ OnlyRpc

TraceStartBook(c) ==
  /\ Doing(c, "trace_record_start", "book")
  /\ Book(c, [books EXCEPT !.trace = [path |-> call[c].op, active |-> TRUE, indexed |-> FALSE]])

TraceRecordStop(c) ==
  /\ Asked(c, {"trace_record_stop"})
  /\ Rpc(c, [Here EXCEPT !.recording = None], "settle", None)
  /\ OnlyRpc

\* Whatever session the hub holds now is taken to be the one that stopped.
TraceStopSettle(c) ==
  /\ Doing(c, "trace_record_stop", "settle")
  /\ IF books.trace = None THEN Book(c, books)
     ELSE /\ books' = [books EXCEPT !.trace.active = FALSE]
          /\ call' = [call EXCEPT ![c].pc = "book", ![c].seen = books.trace.path]
          /\ UNCHANGED <<mode, previous, gateWriter, gateReaders, journal, nextOp, agent,
                         port, connected, scriptVars, faults, workload>>

TraceStopBook(c) ==
  /\ Doing(c, "trace_record_stop", "book")
  /\ \/ Book(c, [books EXCEPT !.trace = IF @ = None THEN @ ELSE [@ EXCEPT !.indexed = TRUE]])
     \/ Book(c, books)

\* trace_record_status: a finished session answers from the books.
TraceRecordStatus(c) ==
  /\ Asked(c, {"trace_record_status"})
  /\ IF books.trace # None /\ ~books.trace.active THEN Book(c, books)
     ELSE Rpc(c, Here, "leave", None) /\ OnlyRpc

TraceIndexQuery(c) ==
  /\ Asked(c, {"trace_index_query"})
  /\ IF books.trace # None /\ ~books.trace.active THEN Book(c, books)
     ELSE Refuse(c) /\ OnlyRpc

(***************************************************************************)
(* Scripts                                                                 *)
(***************************************************************************)

ScriptTools == {"script_inject", "script_replace", "script_start", "script_stop",
                "script_remove"}
Row(c) == records[Arg(c).name]
Stopped(r) == r # None /\ r.state = "stopped"

OnlyScripts == UNCHANGED <<mode, previous, gateWriter, journal, nextOp, port, connected,
                           books, workload>>

\* A script tool returns: the mutation lock is dropped.
ScriptReturn(c, out, rows) ==
  /\ records' = rows /\ mutation' = None
  /\ Return(c, out)
  /\ UNCHANGED <<agent, faults>> /\ OnlyScripts

\* Mutant: no transaction around a script's request and its row.
ScriptLockShared(c) ==
  /\ Asked(c, ScriptTools)
  /\ mutation' = c
  /\ Goto(c, "locked")
  /\ UNCHANGED <<gateReaders, agent, faults, records>> /\ OnlyScripts

ScriptLock(c) ==
  /\ Asked(c, ScriptTools)
  /\ mutation = None
  /\ mutation' = c
  /\ Goto(c, "locked")
  /\ UNCHANGED <<gateReaders, agent, faults, records>> /\ OnlyScripts

\* A request of a script tool: on an error the lock is dropped, the rows stay.
ScriptRpc(c, after, pc, seen) ==
  /\ Rpc(c, after, pc, seen)
  /\ mutation' = IF call'[c].pc = "finish" THEN None ELSE mutation
  /\ UNCHANGED records /\ OnlyScripts

Load(n) == [Here EXCEPT !.scripts = @ \union {n}]
Unload(n) == [Here EXCEPT !.scripts = @ \ {n}, !.callbacks = IF n \in Here.scripts THEN {} ELSE @]

\* ScriptService::apply up to the load.
ScriptApply(c) ==
  /\ At(c, "locked") /\ call[c].tool \in {"script_inject", "script_replace"}
  /\ LET replace == call[c].tool = "script_replace"
         n == Arg(c).name
     IN  IF Row(c) # None /\ Arg(c).kind # None /\ Row(c).kind # Arg(c).kind
         THEN ScriptReturn(c, "error", records)
         ELSE IF replace /\ Stopped(Row(c)) /\ Row(c).kind = "module"
         THEN ScriptReturn(c, "ok", [records EXCEPT ![n].generation = @ + 1])
         ELSE IF replace /\ Row(c) = None
         THEN ScriptRpc(c, Here, "listed", n \in Here.scripts)
         ELSE ScriptRpc(c, Load(n), "book", FALSE)

\* A replacement without a row goes on only when the agent knows the name.
ScriptRecover(c) ==
  /\ Doing(c, "script_replace", "listed")
  /\ IF call[c].seen THEN ScriptRpc(c, Load(Arg(c).name), "book", TRUE)
     ELSE ScriptReturn(c, "error", records)

ScriptApplyBook(c) ==
  /\ At(c, "book") /\ call[c].tool \in {"script_inject", "script_replace"}
  /\ ScriptReturn(c, "ok",
       [records EXCEPT ![Arg(c).name] =
          [state |-> "staged",
           kind |-> IF @ # None THEN @.kind ELSE IF Arg(c).kind # None THEN Arg(c).kind ELSE "module",
           generation |-> IF @ # None THEN @.generation + 1 ELSE 1,
           by |-> IF @ # None THEN @.by ELSE IF call[c].seen THEN "unknown" ELSE Actor(c)]])

ScriptStop(c) ==
  /\ Doing(c, "script_stop", "locked")
  /\ IF Row(c) = None \/ Row(c).kind # "module" THEN ScriptReturn(c, "error", records)
     ELSE IF Stopped(Row(c)) THEN ScriptReturn(c, "ok", records)
     ELSE ScriptRpc(c, Unload(Arg(c).name), "book", None)

ScriptStopBook(c) ==
  /\ Doing(c, "script_stop", "book")
  /\ ScriptReturn(c, "ok", [records EXCEPT ![Arg(c).name].state = "stopped"])

ScriptStart(c) ==
  /\ Doing(c, "script_start", "locked")
  /\ IF Row(c) # None /\ Row(c).kind = "module" /\ Stopped(Row(c))
     THEN ScriptRpc(c, Load(Arg(c).name), "book", None)
     ELSE ScriptReturn(c, "error", records)

ScriptStartBook(c) ==
  /\ Doing(c, "script_start", "book")
  /\ ScriptReturn(c, "ok", [records EXCEPT ![Arg(c).name].state = "staged"])

ScriptRemove(c) ==
  /\ Doing(c, "script_remove", "locked")
  /\ IF Stopped(Row(c)) THEN ScriptReturn(c, "ok", [records EXCEPT ![Arg(c).name] = None])
     ELSE ScriptRpc(c, Unload(Arg(c).name), "book", None)

ScriptRemoveBook(c) ==
  /\ Doing(c, "script_remove", "book")
  /\ ScriptReturn(c, "ok", [records EXCEPT ![Arg(c).name] = None])

\* A script the agent runs binds a callback at an address.
AgentBinds ==
  \E p \in Processes, a \in Addrs :
    /\ agent[p].scripts # {} /\ <<"binds", a>> \in workload.tools
    /\ agent' = [agent EXCEPT ![p].callbacks = @ \union {a}]
    /\ UNCHANGED <<controlVars, port, connected, books, scriptVars, faults, workload>>

(***************************************************************************)
(* The specification                                                       *)
(***************************************************************************)

BreakpointStep(c) ==
  \/ BreakpointSet(c) \/ BreakpointSetBook(c)
  \/ BreakpointRemoveCheck(c) \/ BreakpointRemove(c) \/ BreakpointRemoveBook(c)

HookStep(c) ==
  \/ HookSet(c) \/ HookSetBook(c) \/ HookSignatureSet(c) \/ HookSignatureSetBook(c)
  \/ HookFunctionArm(c) \/ HookFunctionRollback(c) \/ HookFunctionFailed(c) \/ HookFunctionBook(c)
  \/ HookSignatureRemove(c) \/ HookSignatureRemoveBook(c)
  \/ HookCallbackCheck(c) \/ HookRemove(c) \/ HookRemoveSignature(c) \/ HookRemoveBook(c)
  \/ HookClear(c) \/ HookClearBook(c) \/ HookModule(c) \/ HookModuleBook(c)
  \/ HookRangeSet(c) \/ HookRangeBook(c) \/ HookTargetsQuery(c) \/ HookTargetsBook(c)
  \/ HookMonitorApply(c) \/ HookMonitorApplyBook(c) \/ HookMonitor(c)

TraceStep(c) ==
  \/ SyscallConfigSet(c) \/ SyscallConfigBook(c) \/ TraceScopeQuery(c) \/ TraceScopeBook(c)
  \/ TraceRecordStart(c) \/ TraceStartBook(c) \/ TraceRecordStop(c) \/ TraceStopSettle(c)
  \/ TraceStopBook(c) \/ TraceRecordStatus(c) \/ TraceIndexQuery(c)

ScriptStep(c) ==
  \/ ScriptLock(c) \/ ScriptApply(c) \/ ScriptRecover(c) \/ ScriptApplyBook(c)
  \/ ScriptStop(c) \/ ScriptStopBook(c) \/ ScriptStart(c) \/ ScriptStartBook(c)
  \/ ScriptRemove(c) \/ ScriptRemoveBook(c)

ToolStep(c) ==
  \/ Forward(c) \/ BreakpointInventory(c) \/ HookInventory(c) \/ ExceptionInventory(c) \/ Leave(c)
  \/ SessionStatus(c) \/ SessionSetAgentPort(c)
  \/ BreakpointStep(c) \/ HookStep(c) \/ TraceStep(c) \/ ScriptStep(c)

serviceVars == <<agent, port, connected, books, scriptVars, faults, workload>>

Call(c) ==
  \E w \in workload.tools :
    /\ c \in workload.who /\ nextOp <= workload.calls
    /\ w[1] \notin {"set_target", "binds"}
    /\ Begin(c, w[1], w[2])

\* A call that has begun runs to its end.
Work(c) == (ControlStep(c) /\ UNCHANGED serviceVars) \/ ToolStep(c)

Next ==
  \/ SetTarget \/ AgentBinds
  \/ \E c \in Callers : (Call(c) /\ UNCHANGED serviceVars) \/ Work(c)

\* Every connection has a thread of its own in the hub.
Spec == Init /\ [][Next]_vars /\ \A c \in Callers : WF_vars(Work(c))

(***************************************************************************)
(* Properties                                                              *)
(***************************************************************************)

Retargets == \E w \in workload.tools : w[1] \in {"session_set_agent_port", "set_target"}

\* Scripts are the one part with a transaction around agent and rows
\* (script_service.rs:145-151): with nobody in it, and as long as no request
\* was lost and the target stayed, a row that is not stopped names a script
\* the agent has, and a stopped one a script it does not have.
ScriptsAgree ==
  mutation = None /\ faults = 0 /\ ~Retargets
    => \A n \in Names : records[n] # None =>
         (n \in agent[1].scripts <=> records[n].state # "stopped")

\* Everything else has no transaction, only the control gate.  With a single
\* connection that writes, no request lost and the target kept, the books
\* between calls still name no breakpoint the agent does not have, and a
\* session called finished is never the one the agent is recording
\* (service.rs:593-641, 1891-2033).
SoleWriterBooks ==
  Cardinality(workload.who \ System) = 1 /\ faults = 0 /\ ~Retargets /\ WritesInFlight = {}
    => /\ \A i \in BpIds : books.bps[i] # {} => agent[1].bps[i] # None
       /\ agent[1].recording # None
            <=> (books.trace # None /\ books.trace.active)

\* Every call is answered: the gate, the mutation lock and the takeover's
\* pause are always given back, on the error paths too (service.rs:382-562,
\* script_service.rs:133-392).
CallReturns == \A c \in Callers : call[c].pc # "idle" ~> call[c].pc = "idle"
=============================================================================
