# PinBridge: TLA+ models, checks and proofs

PinBridge drives a target process under Intel Pin. A Rust agent
(`bindings/rust/pinbridge-agent`) runs inside the target: it instruments code,
stops and resumes the application, feeds events to Python plugins in the same
process and serves a loopback protocol to clients and to a hub
(`bindings/rust/pinbridge-hub-core`), which people and automation share. This
directory holds TLA+ models of the agent's concurrent core and of the hub, the
TLC runs that check them on small instances and TLAPS proofs of the main results
for every instance.

File names below without a directory are in
`bindings/rust/pinbridge-agent/src/`, and those marked *hub* in
`bindings/rust/pinbridge-hub-core/src/`.

## 1. Inventory

### Who runs

| Actor | Code | What it may do |
| --- | --- | --- |
| application threads | analysis callbacks in `bp.rs`, `stepper.rs`, `hooks.rs`, `engines.rs` | run at any moment, never block (they try locks), except when they park or wait for a decision |
| breaker thread | `bp.rs` `breaker_main` | the only one to stop and resume the application; polls every 50 ms |
| query server | `query_server.rs` | serves one request at a time; sends STOP/RESUME to the breaker |
| scripting thread | `scripting/host.rs`, `scripting/interceptors` | runs Python: drains lanes, decides interceptions, executes script commands |
| drain thread | `record.rs` `drain_main` | writes the trace file of one recording session, then ends |
| hub connections | *hub* `ipc.rs`, `service.rs` | one thread each, outside the target; a person, an AI or the system, by the secret it authenticated with |

### Components

| Component | State | Operations | What makes it correct |
| --- | --- | --- | --- |
| Control plane (`bp.rs`, `control.rs`) | STOPPED, CMD/ACK/CMD_RESULT, HIT_PENDING, watchdog | STOP, RESUME, hit, watchdog expiry | a request that reads STOPPED works on a frozen application; only a frozen one is resumed; a requested stop happens |
| Stepper (`stepper.rs`) | STEPPING, STEP_TID, candidates, park slot, SUSPENDING | arm, claim, park, release, cancel | a parked thread never blocks a stop; a step ends |
| Breakpoints (`bp.rs`) | slot table, ACTIVE_COUNT, code cache, redirect, LAST_HIT, RESUME_SKIP | set, set_oneshot, remove, hit, rewind, resume | a stop is exact unless a callback outlived its slot's address; a set breakpoint is not missed; nobody stays in the stub |
| Synchronous interception (`sync_intercept.rs`, `child_process.rs`) | 16 (or 1) slots with state, generation, request, response, semaphore | rendezvous, take_pending, complete | one's own decision or none; no reuse under the handler; no leaked slot |
| Event lanes (`ring.rs`, `event_channel.rs`, `priority.rs`, `observation.rs`, `hook_events.rs`) | ring, total, content edge, lock | submit, page | pages are faithful; losses only by lapping |
| Mirrored events (`scripting/events.rs`, `host.rs`, and the producers `modules.rs`, `high_priority.rs`, `exception.rs`, `syscall_engine.rs`, `lifecycle.rs`) | generation counters, two copies of an occurrence, the out-of-memory latest-value slot, windows and largest generations per receiver | stamp, store, register, page, route | each occurrence once, from the registration on |
| Interceptor answers (`scripting/interceptors/`) | none | parse, validate, merge, dispatch | one decision, no answer lost or half applied |
| Script host (`scripting/host.rs`, `scripting/api.rs`) | plugin registry, the staged replacement, votes on a stop | load, replace, roll back, quarantine, unload, dispatch, act on a stop | what native code holds for plugins is what the registry says; a stop is left only when all agree, and only the stop they saw |
| Leases (`scripting/subscriptions.rs`, `scripting/decisions.rs`) | counts per breakpoint and hook, queued removals | acquire, release, queue | counts are the subscriptions |
| Native policies (`scripting/native_policies.rs`) | four published values | merge, publish, roll back | Pin executes what the running plugins asked for |
| Execution traps (`execution_trap.rs`) | slots, STOP_CLAIMED, the pending mask | set, remove, on_execute, publish_stopped, on_resume | one claim per stop; a live trap has an owner |
| Script mailbox (`scripting/mod.rs`) | SEND_WAITING, REPLY_SLOT, REPLY_READY | send_command, reply | an answer belongs to its command |
| Hooks and engines (`hooks.rs`, `engines.rs`, `sync_intercept.rs`) | sets of hooks, functions, signatures, rules, interests; their published snapshots; call frames; replay guards; engine flags | set, remove, clear, publish, enter, return, replay, enable | nothing freed is read; compiled code follows the sets; returns pair; a replay acts once |
| Recorder (`record.rs`) | claim counter, slab, scope, context cache, session flags | reserve, publish, drain, start, extend, stop | the file is, number by number, what was reserved |
| Lifecycle (`lifecycle.rs`, `pin_session.rs`, `instrumentation_lifecycle.rs`) | exit delivery, session state | exit, acknowledge, detach | the exit waits for its delivery, not for ever |
| Hub control (*hub* `control.rs`, `activities.rs`, `ipc.rs`) | mode, gate, journal | handoff, pause, takeover, begin and finish of a call | one side at a time; the journal tells what is running |
| Hub tools (*hub* `service.rs`, `script_service.rs`, `agent.rs`) | owners of breakpoints and hooks, signatures, selections, the recording, script rows, the connection | 50 tools, each one or more requests of the agent and a change of the books | the books agree with the agent; every call is answered |
| Hub queries (*hub* `hook_query.rs`, `hook_signature.rs`, `service.rs`) | none, or the place of an index walk | patterns, pairing of calls, scopes, prototypes, typed values, index walk | equal to a definition without a loop; a walk skips and repeats nothing |
| Trace index (*hub* `trace_query.rs`) | the side database of a trace file | stat, import, install, page | an answer is of one whole version of the file |

### How they interact, and where it is hard

- A callback *requests* a stop (HIT_PENDING) and goes on; the breaker stops the
  world later, when every thread is at a safe point. Between the two, other
  threads hit, clients send commands and the watchdog expires.
- The query server and the breaker exchange CMD and ACK with a 10 s wait; a
  command may be answered early, late or never.
- A callback is compiled with an *index* into a table and reads the table when
  it runs: slots and candidates can be reassigned in between.
- A caller of the rendezvous gives up at any moment, while the scripting
  thread copies, decides or answers its request.
- Producers lap the ring while the scripting thread serves plugins at different
  cursors, and any tick may be cut short by a waiting script command.
- Events are stored twice, in lanes of different priority, and threads overtake
  each other between the stamp and the two stores.
- Sets of hooks are edited in four steps (lock, publish, unlock, flush) while
  other threads compile code from them and run code compiled from older ones.
- The recorder's producers never wait; a session is closed by a thread that reads
  three of their counters one after the other.
- A plugin that is replaced, fails or is unloaded runs Python code of its own in
  the middle of it, which may take or give back the very things being counted.
  The host asks the query server over a socket, and that server may be waiting
  for the host.
- A tool of the hub is several requests to an agent that may die, lose an answer
  or be exchanged for another one, with other connections in between.

`PROJECT.json` lists the hazards one by one, each at its line, with the property
that covers it or the reason none does yet.

## 2. Modules

| Module | Models | Built on |
| --- | --- | --- |
| `ControlChannel` | breaker, CMD/ACK, STOP/RESUME/STEP handlers, watchdog, parking | |
| `ExactStop` | breakpoint table, code cache, redirect stub, rewind, decoded steps, resume skip | abstracts the negotiation of `ControlChannel` to "a stop comes when every thread is at a safe point" |
| `Rendezvous` | interception slots, callers, scripting thread | |
| `EventLane` | one lane, its producers, the tick and the plugins' cursors | |
| `Hooks` | hook sets, snapshots, code cache, frames, replays, engines | |
| `Recorder` | the record channel: producers, drain thread, sessions | |
| `TraceIndex` | the hub's queries of a trace file that is being written | EXTENDS `Recorder` |
| `ExecutionTrap`, `PluginLeases`, `NativePolicies` | tables of the script host, as operators on a record | |
| `PluginHost` | script host, mailbox, query server, application and breaker as they share what plugins own | EXTENDS the three above |
| `ControlLease` | abstract: who may act on the target | |
| `HubControl` | connections, modes, gate, journal; implements `ControlLease` | INSTANCE `ControlLease` WITH `holders <- WritesInFlight` |
| `HubService` | the hub's tools and books, the agent and the connection to it | EXTENDS `HubControl` |
| `HubQueries` | what the hub computes from the agent's answers | |
| `EventRouting` | mirrored events and how a receiver gets each once | |
| `InterceptMerge` | parsing and merging of interceptors' answers | |
| `Computations` | the three above in one specification | EXTENDS them |
| `*Proofs` | theorems about the module of that name (`TraceIndexProofs` also about `Recorder`) | EXTENDS it and TLAPS |
| `MC*` | the instance TLC checks (symmetry, the small program, workloads) | EXTENDS it |

A *workload* or *job* constant lets one behaviour exercise one family of
operations; a run covers all of them from its initial states.

### ControlChannel

`bpc` is the breaker's place in `breaker_main` (one label per point where other
threads can come between), `spc` the query server's in `control_command`, `tpc`
an application thread's: in application code, in a callback, landing a step,
parking, parked, woken, or held by Pin at a safe point. `world` is what Pin
really does, `stopped` what the agent believes. `StopWorld` can only complete
when every thread is held; `Hold` takes a thread only out of application code.
Pin may refuse a stop or a resume `MaxFailures` times, and `MaxSlowStops` stops
may outlast the 10 s wait. Resuming a running application ends the process
(`world = "dead"`), which is what the comment in `control.rs` says of Pin.
`AckTimeout` is enabled when the answer was erased, or when a slow stop is still
under way; otherwise the answer comes within the wait. `crossed` is a history:
the server has stored a command while the breaker had not finished an earlier one.
That takes a slow stop, and it is what the properties of `STOPPED` are conditional
on.

### ExactStop

`cache[a]` says which callback the code cache holds for instruction `a`:
`Instrument` compiles a trace as `engines.rs` `on_ins` does (a breakpoint's
callback has priority over a step's), and `Flush` forgets an address. A thread
first fetches its callback with the compiled index (`Fetch`), then reads the
slot (`OnHit...`), then tries the redirect (`RedirectArm`), then goes to the
stub (`ExecuteAt`). `ip` is the context that Pin reports, `at` a history
variable: the instruction the thread really has yet to execute; `misled` is
another: the threads whose callback read the address of another instruction from
its slot or candidate. Clients edit breakpoints whether the application runs or
is stopped, as `handle_bp_set` and `handle_bp_remove` let them, whenever the query
server is idle. `Entry` puts the one-shot entry breakpoint of `lib.rs` in the
table, `MaxSteps` bounds steps. Two error paths are left out: a stub that cannot be
allocated, after which `redirect_arm` refuses and stops drift, and a stopped
thread whose context Pin does not hand out, which is then not rewound.

### Rendezvous

One action per atomic access of a slot: claim, fill, clear, publish, return from
the wait, take or cancel; take_pending, copy, generation check, response,
decide, post, retire. A request is identified by its generation, and a response
by the request it was computed from, so that a mix-up is visible. The scan
restarts at the first slot after each request, as `take_pending` does.

### EventLane

A producer tries the lock, pushes, publishes the content edge and unlocks. The
host starts a page behind the slowest running plugin, copies it under the lock,
and gives it to each plugin, which skips what it has and counts the gap in front
of it. `CutShort` is the `send_waiting()` return. `accepted`, `got` and `start`
are histories.

### Hooks

`hooks`, `functions`, `signatures`, `rules` and `interests` are the published
sets; `cell` is the pointer behind one of them, with the count of readers and the
snapshots freed. A writer swaps the pointer under the lock (`EditHooks`), retires
the old snapshot and tests the count of readers (`Reclaim`), frees what is retired
(`FreeRetired`), unlocks and flushes, in steps of their own (`writer[w].pc`). A
reader announces itself (`JitBegin`), loads the pointer (`LoadSnapshot`) and
searches (`JitEnd`), in three steps too, so that a swap, a test or a free can fall
between any two of them. The accesses take effect in program order: the swap and
the count's changes are read-modify-writes, which are full barriers on the only
architecture the agent is built for, and the count's test is sequentially
consistent.
`code[a]` is the list of calls compiled at `a`, each with what it was compiled
from (callback or passive, the function a return is tied to). A thread compiles,
fetches the compiled calls once (`Fetch`) and runs them
one at a time; `CallFunction`, `TailCall`, `ReturnInstruction` and `Unwind` move
its stack. Replays go through the guards. `engine` holds the flags that
`ENGINE_SET` and the instrumentation policies share.

### Recorder and TraceIndex

A producer is at one of the atomic accesses of `submit`: entered, armed,
reserved, published. The drain thread reads the claim counter, takes the next
slot, closes a run, or tests for the end, each in a step of its own, so that its
read of `claim` is apart from its test of `armed` and `inFlight`. Those two are read
in one step, which is exact: nothing arms the channel again before the drain thread
has ended, so once `armed` is seen clear it stays clear, and a producer that comes
in between the two reads leaves without reserving. `file` is what was handed to
the writer; `versions` what was on disk. A register frame is a header and one part
per changed register, each of which may be dropped. A reader stats, imports,
stats again, replaces and pages; two of them share the side database without a
lock. `log` and `clean` are histories: the events reserved, and that no producer
was still inside when a session was reset.

### PluginHost

`host.at` is the phase of the host's loop and `host.py` whether a callback runs
in it; while it does, `PythonCalls` may be made in any order and the callback
ends by returning or raising. `reg` is the registry with the staged plugin under
a key of its own, `held` the replacement while the old plugin unloads. `host.batch`
is what is still to be executed, in load order, and `host.todo` whom to call next:
in the order of their names (`First`, `After`) for callbacks, in any order for an
unload of all plugins, which follows a hash table. A call of
the host to the query server fails when the server waits for the host's own
reply; `mail.late` keeps what the server reads after its client gave up. `native`
is what Pin and the tables really hold. The debugger sets and removes breakpoints
and hooks and resumes at any moment, and the application's next hit is a new stop
(`stop.gen`). `apply_stop_action` asks which stop there is and compares
it with the one the callbacks saw in one step, and sends its resume or step, which
names no stop, in a later one (`Act`). Both requests go over one connection, and
`serve_client` reads a connection until its client closes it, so between them the
server serves nobody else (`HostServed`); the application goes on. The requests
before a `pb.*` call's last, on the other hand, have connections of their own, and
everybody may come in between. `MaxInputs` bounds commands and stops together.
The tables give back everything a plugin owned
in one step (`release_all`, `trap_remove` of a set): the code does it in a loop on
the only thread that touches the leases, and what counts is the sum (`Total`) of
what is given back, written as a cardinality and not as a fold so that the provers
can reason about it. The queued removals are executed in one step with the
`bp_list` in front of the comparison: only the host queues a removal, and what
others do between them commutes.

### HubControl and HubService

`call[c]` is the connection's call: the tool, its place in `HubService::call` and
in the tool. `gateReaders` and `gateWriter` are the control gate, `mutation` the
script lock. The journal drops its oldest row when it is full. A tool is one step
per request to the agent; `agent[port]` changes with the request, the `books` in
a later step, and a request may fail before or after the agent acted on it.
`SetTarget` and `session_set_agent_port` exchange the agent; `SetTarget` forgets the
books that belong to the old one, the syscall configuration included.
`ExceptionMonitor` and `child.follow` are modelled as the code has them although no
property tells their details apart.

### Computations

`job` is the computation, with its input; `result` its outcome. The loops of
the code are loops here too, and the properties compare them with definitions
that have none. `validate_descriptions` goes over the code once per method, with a
cursor of its own each time; brackets other than round ones, literals of white
space and the 512-byte limit are left out. In `EventRouting` a thread stamps a
generation and stores two copies, any of which may be lost (one of them, in the run); an
out-of-memory occurrence is stored once in its lane and once in the slot of the
latest value, which a later one overwrites (`OomSlot`, `OomPublish`). The
receiver registers in the code's order (counter read first or last), `rcv.over` is
the history of what was over when it did; a tick pages the side lane, then the main
one, and may be cut. In `InterceptMerge` an answer is the set of keys a Python dictionary
has.

## 3. Runs

| Run | Instance | Shows |
| --- | --- | --- |
| `control` | 2 threads, 1 slow stop, 1 refusal, fair | `ServedStopIsFrozen`, `ResumeOnlyFrozen`, `NoParkDuringStop`, `HitLeadsToStop`, `StepEnds` |
| `rendezvous` | 2 threads, 2 slots, 3 requests, fair | `OwnDecision`, `HandlerOwnsSlot`, `OneCallerPerSlot`, `SlotComesBack` |
| `exact_stop` | 2 threads, 3 instructions, 2 slots, 2 ids, an entry one-shot, 1 step, edits at any time | `StopExact`, `StubRewound`, `FreshCallbacks`, `BreakpointArmed` |
| `exact_position` | 1 thread, 3 instructions, no breakpoint, 2 steps | **violated**: `ExactPosition` |
| `event_lane` | 2 producers, 2 plugins, ring of 2, page of 2, 3 submits, 1 cut, fair | `PageIsFaithful`, `ExactAccounting`, `LostOnlyWhenLapped`, `PluginCatchesUp` |
| `hooks` | 11 workloads over 2 threads, 2 writers, 2 functions in one routine, frames of 2 | `SnapshotAlive`, `CodeCurrent`, `ReturnsPair`, `ActedOnce`, `EnginesSettle` |
| `recorder` | 9 workloads over 2 threads, a slab of 2, up to 2 sessions, 2 readers, fair | `TraceExact`, `SnapshotsDecode`, `AnswersWhole`, `DrainEnds` |
| `recorder_close` | the same | **violated**: `NothingLost` |
| `host` | 2 plugins, 1 address, 1 trap slot, 2 commands, 2 calls, 1 run, 2 stops, 3 of commands and stops, 1 disturbance | `OwnershipExact`, `PolicyCurrent`, `StayWins` |
| `hub` | 8 workloads over 2 people, an AI and the system; journal of 2, 2 agents, 1 fault, fair | `LeaseRefined`, `JournalSettled`, `ScriptsAgree`, `SoleWriterBooks`, `CallReturns` |
| `computations` | every small input of each computation; a lane of 4 with windows of 2; generation windows of 2 | `QueriesExact`, `WalkComplete`, `MirroredOnce`, `DecisionWhole` |
| `mirrored_copy` | the routing of module events | **violated**: `CopyRecovers` |

The runs `control` and `rendezvous` also check their module's `TypeOK`; the other
modules' type invariants are proved (section 4).

**Bounds.** Two threads are the fewest that contend for the park slot, the
redirect, a rendezvous slot or the lane's lock. The program of `MCExactStop`
has a call, a conditional jump back and a return, so that a step has one or
two candidates, a step over differs from a step into, and every instruction runs
again. Its two slots are enough for the entry's slot to be given away while its
callback is compiled and a second breakpoint to be set beside it. Three requests over two slots reuse a slot while another is handled. Three
submits lap a ring of two, which is the smallest in which the oldest and the
newest slot differ. A window of two generations is left by the third occurrence,
and two receivers' pages of two are cut by a third record. In the hub a journal
of two evicts rows of calls in progress, and a hook capacity of one makes a batch
over two addresses fail half-way. In `hooks` the two functions are covered by one
routine, so that the nearest function and the routine's entry differ, and the
window of one instruction leaves one return out. A slab of two is full while both
threads are inside `submit`. In `host` the limits of calls, runs and
disturbances are shared by both plugins; two commands are the fewest that replace
a plugin, two plugins the fewest that disagree on a stop or a policy, and two stops
the fewest that let another one take the place of the one the callbacks saw. Two
commands come with one stop and two stops with one command (`MaxInputs = 3`); both
together are in the theorems on `PluginHost`. (To unload
two plugins with one command takes a third, which the run leaves out: with
`MaxCommands = 3` it finishes for `MaxCalls = 1` only. The theorems on `PluginHost`
cover it.) The counters that are unbounded in the code (identifiers,
generations, steps, submits) are bounded by constants in the guards.

**Fairness.** The breaker polls with a timeout and the server finishes what it
started; a callback returns; Pin holds a thread that reaches a safe point while
a stop is under way (strong fairness, since the thread may enter another
callback first). In `Rendezvous` the timed wait bounds every caller and the
host's loop keeps polling. In `EventLane` a producer leaves `submit` and the
host keeps ticking. In the hub every connection has a thread of its own, so a call
that has begun goes on (`WF` on each connection's `Work`), and the agent's
requests end, if only with an error, because the socket has time-outs. In
`Recorder` callbacks end, the drain thread runs, and a call the query server has
begun goes on. `hooks`, `host` and `computations` state safety only. No fairness
is assumed of clients, of hits, of steps that
land, or of plugins being loaded. Two liveness results rest on a bound as well:
`SlotComesBack` on the bounded number of requests (`take_pending` prefers low
slots and a slot that is always pending again could starve a higher one), and
`PluginCatchesUp` on the bounded number of submits (a lock that is always taken
could keep the host out).

**Deadlock** is not checked in `control`, where Pin may end the process, in
`event_lane`, where every plugin may have failed, and in the workload-driven runs
(`hub`, `computations`, `hooks`, `recorder`, `host`, and the two violations in the
modules of the second and the fourth), which end when their
workload is done; `CallReturns` and `DrainEnds` say that they end where they
should.

**What the properties do not claim.** Several hold under a condition that the
code needs and that the property spells out: `ServedStopIsFrozen` and
`ResumeOnlyFrozen` until a command is stored over an unfinished one, which takes a
stop slower than 10 s; `StopExact` for threads whose callback read its own address,
and `FreshCallbacks` except at the entry; `BreakpointArmed` while ACTIVE_COUNT is
exact, which the removal of a fired one-shot ends; `SoleWriterBooks` for one writing
connection, with no lost answer and no change of target, since only scripts have a
transaction around agent and books; `EnginesSettle` when `ENGINE_SET` and a policy
change do not overlap; `TraceExact` when no producer was still inside `submit` at
the reset of a session; `ReturnsPair` for frames that no edit outran and that
belong to a call still running: a frame that was left behind is told from that of
the next call at its depth by the stack pointer alone, which may be the same
(hooks.rs:976-1000). Frames are left behind by an unwinding and in two ways
that came out of the attempt to prove the property without them. A hook on a return
instruction changes the context and the hook is removed before the instruction is
executed again: the guard it left is taken by the call that reports the return
(engines.rs:1029), which is then not reported. And a script answers "return" at a
function that was reached by a jump (engines.rs:936-945): the frame of the function
that jumped stays. `LeftBehind` marks all three, and the last two workloads of
`hooks` reach the two. `MirroredOnce` says at most once, and never for what was over
at the registration, of every kind and in any order; that an occurrence is
delivered it says of those that are `Certain`: a windowed one with a surviving copy
while no generation a whole window ahead was delivered, a module event that is the
newest or that both lanes hold in front of every newer one, and the newest failure
of memory. One surviving copy is not enough for modules, as the
run `mirrored_copy` shows.

### Where code and comments disagree

Three runs expect a violation.

- `recorder_close`: the drain thread reads the claim counter, later finds the
  session disarmed and nobody in flight, and leaves: an event reserved, published
  and left between the two reads is neither written nor counted, and the session is
  called complete, against `record.rs:194-195` and `record.rs:326-327`.
- `exact_position`: a private step callback stays compiled after its step and takes
  its address from the candidate at its index. A second step with another successor
  under that index is claimed where the first one's was, and the thread is rewound
  onto an instruction it had not reached, against `stepper.rs:314-315` ("remain
  harmless") and `bp.rs:1-8` ("exact and side-effect-free"). Two edits do the same
  (`ExactStep.cfg` with `MaxId = 2` and `MaxSteps = 0`): a slot is given away while
  a thread is inside its old breakpoint's callback; and, with `Entry = 1`, the spent
  entry one-shot's slot is given away while its callback is still compiled.
- `mirrored_copy`: the priority copy of a module event is lost and that of the next
  one routed first; the main copy of the first is then suppressed as not newer,
  although its handler was never called, against `events.rs:266-268` ("either
  try-lock path can recover the other") and `events.rs:393-395` ("exactly once per
  handler").

Other statements that one may expect are refuted by adding them to a configuration:

1. `NeverResumesRunning` in `ControlChannel.cfg` (only a frozen application is
   resumed, without exception): a stop outlasts its wait, its late answer is taken
   for that of a RESUME that follows, and the next RESUME reaches a running
   application, which `control.rs:164-166` says must never happen.
2. `FalseMeansFailed` in `ControlChannel.cfg`: the answer can be erased between
   the store of CMD and the clear of ACK_SEM; the caller is told that a command
   that succeeded failed.
3. `CancelOnlyInTime` in `Rendezvous.cfg`: the post for a decision its caller
   already took wakes the slot's next caller, which gives up before its time.
   Nothing worse follows: `OwnDecision` holds.

## 4. Proofs

All theorems hold for every value of the constants that satisfies the module's
named assumption.

**ControlChannel** (`ChannelAssumption`). `TypeCorrect`. `StopIsFrozen` and
`ResumeIsLegal`, from `CommandInv`, for any number of slow stops. Neither property
is inductive: `CommandInv` says that, until a command is stored over an unfinished
one, one command is in flight at a time and an idle server has left none behind,
unless it is a stop that outlasted its wait (`OneCommand`), and that STOPPED and the
application agree except between the two halves of a stop or a resume
(`StoppedAgrees`); and that only a slow stop lets a command be stored so.
`ParkNeverBlocksStop`, from `ParkInv`, without any restriction: the
park slot's owner, PARK_SEM and SUSPENDING determine who can be waiting
(`ParkSlot`), and a suspension lasts from before the stop to after the resume
(`Suspension`), up to the step in which a late answer ends the process (`Doomed`).

**Rendezvous** (`RendezvousAssumption`). `TypeCorrect`, `DecisionIsOwn`,
`HandlerIsOwner`, `SlotsAreExclusive`, all from `SlotInv`: which states a caller's
slot may be in at each of its places, that it holds that caller's request, that no
two callers share a slot (`CallerSide`, `ExclusiveSlots`), and that only the slot
the scripting thread works on is HANDLING and agrees with its copy (`HandlerSide`). It follows that the generation check in `complete()`
never fails.

**ExactStop** (`ExactStopAssumption`). `TypeCorrect` and `StubHasNoStraggler`
from `BaseInv` (types, every compiled index in range, every address a real one,
the stub owned by the redirect's owner). All of it holds with the entry's one-shot,
any number of steps, and edits while the application runs. `StopIsExact`
(`StopExact`) from `Placed`: a thread that was not misled is on the instruction it
has to execute, is inside a callback for it, or is in the stub with its address in
the redirect, and the race for the redirect and the rewind keep that.
`CallbacksFresh` (`FreshCallbacks`) from `FreshInv`, which adds that only the
entry's breakpoint is a one-shot (`OneShotAtEntry`): a slot is given away only after
its address was flushed, or it was that one-shot's.

`NoBreakpointMissed` (`BreakpointArmed`) from `ArmedInv`, which adds that an active
slot is used, that no address has two live slots and that ACTIVE_COUNT is at most
their number (`TableExact`): once it is too small it stays so, and while it is exact
`any_active` is true whenever something has to be compiled. Without the
condition the property is false: removing a one-shot that has fired decrements ACTIVE_COUNT a
second time (bp.rs:681).

**EventLane** (`LaneAssumption`). `LaneTypes`, `PagesFaithful`,
`AccountingExact`, `LossesLapped` and `RingExclusive`, all from `LaneInv`: the ring
holds the newest `Capacity` stored events, each in its slot (`Retained`); a page is
a run of stored events without a hole (`PageRun`) that starts behind the slowest
plugin or where the ring had lapped it (`PageStart`); outside
a tick there is no page, and a plugin still to be served is loaded and has not
passed the page's beginning (`TickShape`); and what a
plugin got is a rising sequence of stored events up to its cursor (`Delivered`).

**HubControl and HubService** (`ControlAssumption`: the journal has room for a
row, finitely many connections, the system's connections are nobody else's;
`ServiceAssumption`: there is a first agent, `None` is neither a number nor a
session, callers are connections, a breakpoint is asked for at an address).
`LeaseImplemented` is the refinement: the gate and the mode implement
`ControlLease`, step by step. Its invariant `LeaseInv` says where a call may be
(`CallShape`), that a write in flight holds the gate (`GuardHeld`), and that all writes in flight are of the side that has the
lease (`OneSide`), which is `WritersEntitled`. `JournalTellsTruth` is
`JournalSettled`, from `JournalInv`: rows are numbered in rising order below the
next number (`Numbered`), so that `finish` completes its own row or none.
`ScriptRowsAgree` and `SoleWriterBooksTrue` are `ScriptsAgree` and `SoleWriterBooks`,
from `BooksInv`. Between its request and its books a tool leaves the two apart, so
the invariant says who is there. Scripts (`ScriptBooks`): only the holder of the
mutation lock is inside a script tool, the one row that may disagree with the agent is
the one it is about to write, and what it asked of the agent has happened.
Breakpoints and the recording (`BreakpointBooks`, `TraceBooks`) have no lock of
their own: an owned breakpoint exists unless its removal is about to be booked, and
the agent records exactly while the books have an active session unless a start or
a stop is about to be booked. That two such calls never overlap takes the lease:
`LeaseInv` puts every write in flight on a connection of a person or of the AI, and
with one such connection there is one write (`SoleWriter`). Every other tool is
shown to leave the scripts, the breakpoints and the recording alone (`Touches`).

**Hooks** (`HooksAssumption`: finitely many threads, addresses and the window are
natural numbers, nobody is called `None`, an engine request names a kind that has
a flag, as `set_engine_enabled` refuses any other). Two from `HooksInv`. `SnapshotsAlive`: the current
snapshot is the newest, what is retired or freed is older (`CellOK`, `WritersOK`),
and, whatever falls between a reader's announcement, load and search, who holds a
snapshot is announced and its snapshot is not freed, and when a writer has found the
count at zero, no reader holds one that is retired (`ReadersOK`): who is
announced after that test loads the pointer after the swap. The order of
announcement and load is what it rests on; the mutant that loads first breaks it.
`ReplaysActOnce`: a replay carries its guard until the hook's call is behind it,
and the count of guards is at least the number of threads that carry one
(`GuardsCounted`), so that no compiled call skips the look at them; a reported
return has taken its frame, and frames nest (`Nested`). It needs what the
instrumentation inserts at an instruction (`Inserted`) to hold of every list in
the code cache, however old (`CodeOK`). `CodeFollowsSets` is `CodeCurrent`, from
`CurrentInv`: what a writer inside the lock did, and that otherwise every logged
function is hooked (`Locked`); the snapshot a compilation searches says of its
address what the hook set says, unless some writer has still to throw that address
away (`SnapshotsCurrent`); and so does the compiled code, or a writer has published
an interest and not yet looked which code it touches (`CodeFollows`). What a writer
will throw away (`FlushOf`) is read off its step before it is computed, so that an
edit and its flush can be far apart. The window carries the argument for returns:
an edit changes the owner of a return only inside the window of a function it adds
or takes away (`OwnerShift`). `EnginesAgree` is `EnginesSettle`, from `EngineInv`:
unless something raced, one writer at most is between mask, flags and policy
(`OneEngaged`), and how far it has come tells what the flags are (`Stands`,
`FlagsSettled`); the ranges of a policy are thrown away after it is published
(`RangesCovered`); and code that does not capture what is due is going to be
thrown away (`CodeCaptures`), where a policy about to be replaced is no longer due:
between the flags and the policy the code may rightly miss it. `ReturnsPaired` is
`ReturnsPair`, from `PairInv`: a frame that is not stale is of a logged function
that was reported in the activation at the frame's level (`FrameTrue`), and when a
return instruction is under way the frame of its activation is the newest and the
call that takes it is still to come (`ReturnDue`), so that no activation ends with
its frame in place.

**Recorder and TraceIndex** (`RecorderAssumption`: a slab has a slot, a workload
records finitely many registers, and the word for no context is none of its
contexts). `TraceTold` is `TraceExact`, from `RecorderInv`:
its types; the claim counter counts the log, a thread between reservation and
publication has its own number, and a slot with a tag has the event reserved under
that number (`SlabClean`); and the file tells the log up to the run that is held
back, and that run up to the next number (`Tells`, `Holding`), with nothing missing
unless the session has failed (`SessionClean`). All of it holds for sessions that
began with nobody inside `submit`, as the property does. It ties the
file to the events reserved under its numbers as far as the drain thread came; that
it came to the end of what was reserved is not claimed, and `recorder_close` refutes
it.

`SnapshotsTrue` is `SnapshotsDecode`, from `FramesClean` over the same types. The
property alone is not inductive: a frame leaves out the registers that equal the
cached context, so it decodes only because the last complete frame that has such a
register says what the cache says. That is `Based`, and it holds except in one
interval: once the last part of a frame is in the log a reader has the new context,
while the cache still has the old one until the callback returns (`Finished`). The
rest says of every thread inside a frame what makes the two meet again: its header is
in the log as the newest of the thread, exactly the parts not submitted yet are
missing, or one part is missing for ever and the frame can no longer become complete
(`FrameTrue`, `PartsAt`); frame numbers of different threads differ, so that nobody
completes another's frame. The lemmas split on what a step of `submit` does to the
thread (`SubmitMoves`: go on, drop, log, take the next event, end) and on whose event
was logged (`LogThread`, `OtherThread`).

`DatabaseWhole` is
`SidecarWhole`, the first half of `AnswersWhole`, from `IndexInv`: an import that finds its version still there has
the beginning of it, at the second look the whole, and no version ever changes
(`ReaderOK`), whatever other connections do to the database meanwhile.

**PluginHost** with its tables (`HostAssumption`: a name appears once in the order;
the private key of a replacement, which begins with a NUL, and the words for nothing
are no names; no address is one of the words for other targets; trap slots and the
bound of identifiers are natural numbers). `HostTypeCorrect`, `HostOwnershipExact`
(`OwnershipExact`), `HostPolicyCurrent` (`PolicyCurrent`) and `HostStayWins`
(`StayWins`), for any set of plugins, addresses, specifications and bounds. One
inductive invariant, `HostInv`, carries all of them:

- `PhaseInv` says which plugin Python may be running in, phase by phase, that whoever
  is still to be called is loaded, and where a replacement is between its private and
  its public key. Python is called back in the middle of every other operation, so
  this is what makes the record that a `pb.*` call changes the right one; even type
  correctness depends on it.
- `BpInv` and `HookInv` look at one native point at a time (`Point`): its lease counts
  the subscriptions of the registry, the staged and the held plugin together; a point
  that exists is the debugger's, leased, in the queue of removals, or named by a
  removal that the query server reads after its client gave up; and a lease whose end
  does not remove the point is on a point of the debugger's. The last part is why
  `OwnershipExact` alone is not inductive: without it the last release could leave a
  point that nobody owns. An identifier not yet given out has no lease. The
  counting rests on lemmas about `Total` (it splits into a part and the rest, and one
  holder can be exchanged) and about `acquire`, `release` and `release_all` at one
  point and at every other.
- `TrapInv` gives every live trap an owner and keeps freed slots inactive.
- `PolicyInv` says that what is published is the merge of the running plugins'
  specifications and that these never overlap; between the validation of a
  replacement and its commit it says the same of the registry as it will be, since
  the roll-back publishes the old one again. `InterestInv` does it for interests and
  adds what a failure that is not yet quarantined leaves stale.
- `VotesInv` ties the merged decision to the set of votes it stands for.

Each action has two lemmas, `Type_X` and `Inv_X`. `StayWins` takes a second invariant,
`ActInv`: between the comparison and the request (`host.at = "act"`) the votes
agreed on the merged action, and the stop is the one that was compared.
`OnlyApplyActs` says that only `apply_stop_action` brings the host there, `ActStays`
that nobody resumes meanwhile, which is where the one connection enters, and
`ActStep` puts the two together.

**Only model-checked**: the liveness properties (`HitLeadsToStop`, `StepEnds`,
`SlotComesBack`, `PluginCatchesUp`, `CallReturns`, `DrainEnds`), which need fairness
and ENABLED; the walks of `AnswersWhole`, whose pages are defined by recursion over
a sequence (`SelectSeq`), which takes an induction the provers cannot do;
`WalkComplete` and `QueriesExact`, since `HubQueries` is written with recursive
operators as its loops are, and with them `MirroredOnce` and `DecisionWhole`, which
`Computations` checks in the same specification; the counterexamples.

## 5. Not modelled, and the plan

Left out for good: framing and encoding of the wire protocol, front ends,
generated bindings, the argument checks of the C bridge, symbol resolution,
disassembly, logging, the rendering of values and event dictionaries, and offline
replay: no shared state that other parts depend on, or pure I/O. Pin itself is
external: its stop, resume, semaphores, code cache and instruction execution are
modelled as the agent uses them.

Left out so far: the delivery of the exit and of a detach (`lifecycle.rs`), the
text of a script command's reply (`PluginHost` has the 60 s time-out and the late
reply that ends the next command's wait, but not which command a client takes it
for; `scripting/mod.rs`), what LAST_HIT reports between the resume and its clearing,
autoload and the adaptive sleep of the host, and the child's rewritten command
line.
