------------------------------- MODULE Recorder -------------------------------
(***************************************************************************)
(* The record channel of the agent (record.rs): application threads        *)
(* reserve numbered slots of a slab from analysis callbacks, a drain       *)
(* thread takes them in order, run-length encodes them and writes the      *)
(* trace file, and the query server starts, extends and stops sessions.    *)
(*                                                                         *)
(* Producers never wait.  The control thread takes part as a producer too: *)
(* it submits the marker of an added range.                                *)
(***************************************************************************)
EXTENDS Integers, Sequences, FiniteSets, FiniteSetsExt, SequencesExt

CONSTANTS
  None,
  Threads,        \* recorded application threads
  Control,        \* the query-server thread
  Capacity,       \* SLAB_CAP
  ContextSlots,   \* size of CONTEXT_STATE
  Workloads       \* bound: records [threads, sessions, events, values, frames, registers,
                  \* contexts, faults, adds, readers]; a context is a function of the registers

Producers == Threads \union {Control}

ASSUME RecorderAssumption ==
  /\ Capacity \in Nat \ {0}
  /\ \A x \in Workloads :
       /\ x = [threads |-> x.threads, sessions |-> x.sessions, events |-> x.events,
               values |-> x.values, frames |-> x.frames, registers |-> x.registers,
               contexts |-> x.contexts, faults |-> x.faults, adds |-> x.adds, readers |-> x.readers]
       /\ x.threads \subseteq Threads
       /\ IsFiniteSet(x.registers)
       /\ None \notin x.contexts

VARIABLES
  rec,        \* the session's atomics
  slab,       \* per slot the published number and the event
  scope,      \* RECORD_RANGE_LO/HI up to RECORD_RANGE_COUNT
  cache,      \* CONTEXT_STATE: per owning thread its last complete context
  frame,      \* CONTEXT_FRAME
  producer,   \* threads inside submit
  drain,      \* the drain thread
  file,       \* records handed to the writer
  control,    \* the query server inside start_spec and extend_ranges
  log,        \* history: the events reserved in this session
  clean,      \* history: no producer was inside when a session was reset
  sessions,   \* bound: sessions started
  load        \* bound: what is left to do

session == <<rec, slab, scope, cache, file, log, clean, sessions>>
recvars == <<rec, slab, scope, cache, frame, producer, drain, file, control, log, clean, sessions, load>>

Idle == [pc |-> "idle", todo |-> <<>>, slot |-> 0, complete |-> TRUE, context |-> None]
\* pending: the first event of the run not yet written, if there is one.
NoDrain == [pc |-> "off", next |-> 0, pending |-> <<>>, repeats |-> 0, broken |-> FALSE]

RecInit ==
  /\ rec = [armed |-> FALSE, done |-> TRUE, failed |-> FALSE, claim |-> 0, drained |-> 0,
            dropped |-> 0, written |-> 0, inflight |-> 0]
  /\ slab = [i \in 0..(Capacity - 1) |-> [tag |-> 0, event |-> None]]
  /\ scope = {} /\ cache = <<>> /\ frame = 0
  /\ producer = [p \in Producers |-> Idle]
  /\ drain = NoDrain
  /\ file = <<>> /\ control = "idle" /\ log = <<>> /\ clean = TRUE /\ sessions = 0
  /\ load \in Workloads

(***************************************************************************)
(* Producers                                                               *)
(***************************************************************************)

Exec(p, address, value) ==
  [kind |-> "exec", thread |-> p, address |-> address, value |-> value, frame |-> 0]
Marker(tag, n) ==
  [kind |-> "marker", thread |-> None, address |-> 0, value |-> <<tag, n>>, frame |-> 0]
Header(p, n, mask, context) ==
  [kind |-> "header", thread |-> p, address |-> 1, value |-> [mask |-> mask, context |-> context],
   frame |-> n]
Part(p, n, r, v) ==
  [kind |-> "part", thread |-> p, address |-> 1, value |-> <<r, v>>, frame |-> n]

\* armed_in_range: the session is live and the address inside its ranges.
ArmedInRange(address) == rec.armed /\ address \in scope

Inside(p, fields) == producer' = [producer EXCEPT ![p] = fields]
OnlyProducer == UNCHANGED <<drain, control, file, scope, clean, sessions>>

\* on_rec_exec, on_rec_exec_bytes, on_rec_memory, on_rec_mem_value,
\* on_rec_branch and submit_global: one event of an instruction in range.
Capture(p) ==
  /\ producer[p].pc = "idle" /\ load.events > 0
  /\ \E a \in {1, 2}, v \in load.values :
       /\ ArmedInRange(a)
       /\ Inside(p, [Idle EXCEPT !.pc = "enter", !.todo = <<Exec(p, a, v)>>])
  /\ load' = [load EXCEPT !.events = @ - 1]
  /\ UNCHANGED <<rec, slab, cache, frame, log>> /\ OnlyProducer

\* context_slot: the thread's own slot, or a free one.
HasSlot(p) == p \in DOMAIN cache \/ Cardinality(DOMAIN cache) < ContextSlots

Baseline(p) == ~HasSlot(p) \/ p \notin DOMAIN cache \/ cache[p] = None

\* on_rec_registers: everything for a baseline, else what differs from the last
\* complete frame, as a header and one event per register.
CaptureContext(p) ==
  /\ producer[p].pc = "idle" /\ load.frames > 0 /\ ArmedInRange(1)
  /\ \E context \in load.contexts :
       LET mask == IF Baseline(p) THEN load.registers ELSE {r \in load.registers : cache[p][r] # context[r]}
           parts == SetToSeq(mask)
       IN  /\ Inside(p, [Idle EXCEPT !.pc = "enter", !.context = context,
                  !.todo = <<Header(p, frame + 1, mask, context)>>
                           \o [i \in DOMAIN parts |-> Part(p, frame + 1, parts[i], context[parts[i]])]])
           /\ cache' = IF HasSlot(p) /\ p \notin DOMAIN cache
                       THEN [q \in DOMAIN cache \union {p} |-> IF q = p THEN None ELSE cache[q]]
                       ELSE cache
  /\ frame' = frame + 1
  /\ load' = [load EXCEPT !.frames = @ - 1]
  /\ UNCHANGED <<rec, slab, log>> /\ OnlyProducer

\* submit, first look at ARMED.
Enter(p) ==
  /\ producer[p].pc = "enter"
  /\ Inside(p, IF rec.armed THEN [producer[p] EXCEPT !.pc = "count"]
               ELSE [producer[p] EXCEPT !.pc = "next", !.complete = FALSE])
  /\ UNCHANGED <<rec, slab, cache, frame, log, load>> /\ OnlyProducer

Count(p) ==
  /\ producer[p].pc = "count"
  /\ rec' = [rec EXCEPT !.inflight = @ + 1]
  /\ Inside(p, [producer[p] EXCEPT !.pc = "recheck"])
  /\ UNCHANGED <<slab, cache, frame, log, load>> /\ OnlyProducer

\* Mutant: a producer that finds the session stopped returns without leaving.
RecheckReturns(p) ==
  /\ producer[p].pc = "recheck"
  /\ Inside(p, IF rec.armed THEN [producer[p] EXCEPT !.pc = "reserve"]
               ELSE [producer[p] EXCEPT !.pc = "next", !.complete = FALSE])
  /\ UNCHANGED <<rec, slab, cache, frame, log, load>> /\ OnlyProducer

\* ... and the second one, which closes the race with stop.
Recheck(p) ==
  /\ producer[p].pc = "recheck"
  /\ Inside(p, IF rec.armed THEN [producer[p] EXCEPT !.pc = "reserve"]
               ELSE [producer[p] EXCEPT !.pc = "leave", !.complete = FALSE])
  /\ UNCHANGED <<rec, slab, cache, frame, log, load>> /\ OnlyProducer

\* try_reserve: a full slab drops the event and takes no number.
Reserve(p) ==
  /\ producer[p].pc = "reserve"
  /\ IF rec.claim - rec.drained >= Capacity
     THEN /\ rec' = [rec EXCEPT !.dropped = @ + 1]
          /\ Inside(p, [producer[p] EXCEPT !.pc = "leave", !.complete = FALSE])
          /\ UNCHANGED log
     ELSE /\ rec' = [rec EXCEPT !.claim = @ + 1]
          /\ Inside(p, [producer[p] EXCEPT !.pc = "publish", !.slot = rec.claim])
          /\ log' = Append(log, Head(producer[p].todo))
  /\ UNCHANGED <<slab, cache, frame, load>> /\ OnlyProducer

Publish(p) ==
  /\ producer[p].pc = "publish"
  /\ slab' = [slab EXCEPT ![producer[p].slot % Capacity] =
                [tag |-> producer[p].slot + 1, event |-> Head(producer[p].todo)]]
  /\ Inside(p, [producer[p] EXCEPT !.pc = "leave"])
  /\ UNCHANGED <<rec, cache, frame, log, load>> /\ OnlyProducer

Leave(p) ==
  /\ producer[p].pc = "leave"
  /\ rec' = [rec EXCEPT !.inflight = @ - 1]
  /\ Inside(p, [producer[p] EXCEPT !.pc = "next"])
  /\ UNCHANGED <<slab, cache, frame, log, load>> /\ OnlyProducer

\* Mutant: the cached context moves on although events of the frame were lost.
CommitsAlways(p) == producer[p].context # None /\ p \in DOMAIN cache

\* Only a frame that was recorded completely becomes the base of the next one.
Commits(p) == producer[p].context # None /\ p \in DOMAIN cache /\ producer[p].complete

\* The callback submits its next event, or ends.
NextEvent(p) ==
  /\ producer[p].pc = "next"
  /\ IF Len(producer[p].todo) > 1
     THEN /\ Inside(p, [producer[p] EXCEPT !.pc = "enter", !.todo = Tail(@)])
          /\ UNCHANGED cache
     ELSE /\ Inside(p, Idle)
          /\ cache' = IF Commits(p) THEN [cache EXCEPT ![p] = producer[p].context] ELSE cache
  /\ UNCHANGED <<rec, slab, frame, log, load>> /\ OnlyProducer

(***************************************************************************)
(* The drain thread                                                        *)
(***************************************************************************)

\* Records of the file: number, event, and how often it is repeated.
Written(seq, event, count) == [seq |-> seq, event |-> event, count |-> count]
RepeatOf(event) == [event EXCEPT !.kind = "repeat"]

\* flush_run: the first event of a run, then how many more there were.
Run(first, repeats) ==
  <<first>>
  \o IF repeats > 0 THEN <<Written(first.seq + repeats, RepeatOf(first.event), repeats)>> ELSE <<>>

OnlyDrain == UNCHANGED <<slab, scope, cache, frame, producer, control, log, clean, sessions, load>>
Drains(fields) == drain' = fields
Faulty == "io" \in load.faults

\* drain_main: the header and the start marker, or fail_drain.
DrainHeader ==
  /\ drain.pc = "header"
  /\ \/ /\ file' = <<Written(0, Marker("start", 0), 0)>>
        /\ Drains([drain EXCEPT !.pc = "look"]) /\ UNCHANGED rec
     \/ /\ Faulty /\ UNCHANGED file
        /\ rec' = [rec EXCEPT !.failed = TRUE, !.armed = FALSE]
        /\ Drains([drain EXCEPT !.pc = "abort"])
  /\ OnlyDrain

\* fail_drain waits for the producers and counts what they left.
DrainAbort ==
  /\ drain.pc = "abort" /\ rec.inflight = 0
  /\ rec' = [rec EXCEPT !.dropped = @ + (rec.claim - rec.drained), !.drained = rec.claim, !.done = TRUE]
  /\ Drains([drain EXCEPT !.pc = "off"]) /\ UNCHANGED file
  /\ OnlyDrain

\* CLAIM is loaded ...
DrainLook ==
  /\ drain.pc = "look"
  /\ Drains([drain EXCEPT !.pc = IF drain.next < rec.claim THEN "slot" ELSE "caught_up"])
  /\ UNCHANGED <<rec, file>> /\ OnlyDrain

Slot == slab[drain.next % Capacity]

\* Mutant: two events are one run when their kind and thread agree.
SamePayloadKind(left, right) == left.kind = right.kind /\ left.thread = right.thread

SamePayload(left, right) == left.kind = right.kind /\ left = right

Continues(event) ==
  /\ Head(drain.pending).seq + drain.repeats = drain.next
  /\ SamePayload(Head(drain.pending).event, event)

\* ... a published slot is taken: it lengthens the run, or the run is written
\* and a new one begins.
DrainTake ==
  /\ drain.pc = "slot" /\ Slot.tag = drain.next + 1
  /\ LET taken == [drain EXCEPT !.pc = "look", !.next = @ + 1]
         begun == [taken EXCEPT !.pending = <<Written(drain.next + 1, Slot.event, 0)>>, !.repeats = 0]
         counted == [rec EXCEPT !.written = @ + 1, !.drained = drain.next + 1]
     IN  IF drain.pending = <<>>
         THEN Drains(begun) /\ rec' = counted /\ UNCHANGED file
         ELSE IF Continues(Slot.event)
         THEN Drains([taken EXCEPT !.repeats = @ + 1]) /\ rec' = counted /\ UNCHANGED file
         ELSE \/ /\ file' = file \o Run(Head(drain.pending), drain.repeats)
                 /\ Drains(begun) /\ rec' = counted
              \/ /\ Faulty /\ UNCHANGED file
                 /\ Drains([drain EXCEPT !.pc = "broken", !.pending = <<>>, !.broken = TRUE])
                 /\ rec' = [rec EXCEPT !.armed = FALSE]
  /\ OnlyDrain

\* A reserved slot without its event ...
DrainGap ==
  /\ drain.pc = "slot" /\ Slot.tag # drain.next + 1
  /\ Drains([drain EXCEPT !.pc = "gap"])
  /\ UNCHANGED <<rec, file>> /\ OnlyDrain

\* ... is waited for; after the stop, with nobody inside, it is given up.  ARMED
\* and then IN_FLIGHT are read in one step: nothing arms the recorder again
\* before this thread has ended, so both hold at the second read.
DrainGiveUp ==
  /\ drain.pc = "gap"
  /\ IF ~rec.armed /\ rec.inflight = 0
     THEN /\ rec' = [rec EXCEPT !.failed = TRUE, !.dropped = @ + 1, !.drained = drain.next + 1]
          /\ Drains([drain EXCEPT !.pc = "look", !.next = @ + 1])
     ELSE Drains([drain EXCEPT !.pc = "look"]) /\ UNCHANGED rec
  /\ UNCHANGED file /\ OnlyDrain

\* Nothing to take: over when disarmed and nobody is inside (as in DrainGiveUp).
DrainCaughtUp ==
  /\ drain.pc = "caught_up"
  /\ Drains([drain EXCEPT !.pc = IF ~rec.armed /\ rec.inflight = 0 THEN "finish" ELSE "look"])
  /\ UNCHANGED <<rec, file>> /\ OnlyDrain

\* The last run.
DrainFinish ==
  /\ drain.pc = "finish"
  /\ \/ /\ file' = IF drain.pending = <<>> THEN file
                   ELSE file \o Run(Head(drain.pending), drain.repeats)
        /\ Drains([drain EXCEPT !.pc = "close"])
     \/ /\ Faulty /\ drain.pending # <<>> /\ UNCHANGED file
        /\ Drains([drain EXCEPT !.pc = "broken", !.broken = TRUE])
  /\ UNCHANGED rec /\ OnlyDrain

\* After a write error the producers are waited for and the rest is counted.
DrainBroken ==
  /\ drain.pc = "broken" /\ rec.inflight = 0
  /\ rec' = [rec EXCEPT !.failed = TRUE, !.dropped = @ + Max({0, rec.claim - drain.next}),
                        !.drained = Max({rec.drained, rec.claim})]
  /\ Drains([drain EXCEPT !.pc = "close"]) /\ UNCHANGED file
  /\ OnlyDrain

\* The stop marker; DRAIN_DONE is set when the file is closed.
DrainClose ==
  /\ drain.pc = "close"
  /\ \/ /\ file' = Append(file, Written(drain.next + 1, Marker("stop", rec.written), 0))
        /\ rec' = [rec EXCEPT !.done = TRUE]
     \/ /\ Faulty /\ UNCHANGED file
        /\ rec' = [rec EXCEPT !.done = TRUE, !.failed = TRUE]
  /\ Drains([drain EXCEPT !.pc = "off"])
  /\ OnlyDrain

(***************************************************************************)
(* Session control                                                         *)
(***************************************************************************)

Faults(fault) == fault \in load.faults

\* start_spec: refused while recording or draining; the counters, the tags and
\* the contexts are reset, the window is published.
StartReset ==
  /\ control = "idle" /\ sessions < load.sessions
  /\ ~rec.armed /\ rec.done
  /\ rec' = [rec EXCEPT !.claim = 0, !.drained = 0, !.dropped = 0, !.written = 0, !.done = FALSE,
                        !.inflight = 0, !.failed = FALSE]
  /\ slab' = [i \in DOMAIN slab |-> [slab[i] EXCEPT !.tag = 0]]
  /\ cache' = <<>> /\ scope' = {1} /\ file' = <<>> /\ log' = <<>>
  /\ clean' = (clean /\ \A p \in Producers : producer[p].pc = "idle")
  /\ sessions' = sessions + 1 /\ control' = "arm"
  /\ UNCHANGED <<frame, producer, drain, load>>

\* ARMED is set before the drain thread is spawned.
StartArm ==
  /\ control = "arm"
  /\ rec' = [rec EXCEPT !.armed = TRUE] /\ control' = "spawn"
  /\ UNCHANGED <<slab, scope, cache, frame, producer, drain, file, log, clean, sessions, load>>

StartSpawn ==
  /\ control = "spawn"
  /\ \/ /\ drain' = [NoDrain EXCEPT !.pc = "header"] /\ control' = "flush" /\ UNCHANGED rec
     \/ /\ Faults("spawn")
        /\ rec' = [rec EXCEPT !.armed = FALSE, !.failed = TRUE]
        /\ control' = "unspawn" /\ UNCHANGED drain
  /\ UNCHANGED <<slab, scope, cache, frame, producer, file, log, clean, sessions, load>>

StartUnspawn ==
  /\ control = "unspawn" /\ rec.inflight = 0
  /\ rec' = [rec EXCEPT !.dropped = @ + (rec.claim - rec.drained), !.drained = rec.claim, !.done = TRUE]
  /\ control' = "idle"
  /\ UNCHANGED <<slab, scope, cache, frame, producer, drain, file, log, clean, sessions, load>>

\* The window's code is thrown away; a refusal fails and stops the session.
FlushWindow ==
  /\ control \in {"flush", "extend_flush"}
  /\ \/ control' = (IF control = "flush" THEN "idle" ELSE "mark") /\ UNCHANGED rec
     \/ /\ Faults("flush") /\ control' = "idle"
        /\ rec' = [rec EXCEPT !.failed = TRUE, !.armed = FALSE]
  /\ UNCHANGED <<slab, scope, cache, frame, producer, drain, file, log, clean, sessions, load>>

\* extend_ranges: the slot is filled before the count is published.
Extend ==
  /\ control = "idle" /\ rec.armed /\ load.adds > 0 /\ 2 \notin scope
  /\ scope' = scope \union {2} /\ control' = "extend_flush"
  /\ load' = [load EXCEPT !.adds = @ - 1]
  /\ UNCHANGED <<rec, slab, cache, frame, producer, drain, file, log, clean, sessions>>

\* The marker goes through submit like every event.
ExtendMark ==
  /\ control = "mark" /\ producer[Control].pc = "idle"
  /\ producer' = [producer EXCEPT ![Control] = [Idle EXCEPT !.pc = "enter", !.todo = <<Marker("scope", 2)>>]]
  /\ control' = "marking"
  /\ UNCHANGED <<rec, slab, scope, cache, frame, drain, file, log, clean, sessions, load>>

ExtendEnds ==
  /\ control = "marking" /\ producer[Control].pc = "idle"
  /\ control' = "idle"
  /\ UNCHANGED <<rec, slab, scope, cache, frame, producer, drain, file, log, clean, sessions, load>>

\* stop: the wait for the drain is bounded, so its end means nothing.
Stop ==
  /\ control = "idle" /\ rec.armed
  /\ rec' = [rec EXCEPT !.armed = FALSE]
  /\ UNCHANGED <<slab, scope, cache, frame, producer, drain, file, control, log, clean, sessions, load>>

(***************************************************************************)
(* The specification                                                       *)
(***************************************************************************)

\* session_state: what TRACE_STATUS answers.
SessionState ==
  CASE rec.armed -> "recording"
    [] ~rec.armed /\ ~rec.done -> "draining"
    [] ~rec.armed /\ rec.done /\ rec.failed -> "failed"
    [] ~rec.armed /\ rec.done /\ ~rec.failed -> IF sessions > 0 THEN "complete" ELSE "idle"

Submits(p) ==
  Enter(p) \/ Count(p) \/ Recheck(p) \/ Reserve(p) \/ Publish(p) \/ Leave(p) \/ NextEvent(p)

DrainStep ==
  \/ DrainHeader \/ DrainAbort \/ DrainLook \/ DrainTake \/ DrainGap \/ DrainGiveUp
  \/ DrainCaughtUp \/ DrainFinish \/ DrainBroken \/ DrainClose

ControlStep ==
  \/ StartReset \/ StartArm \/ StartSpawn \/ StartUnspawn \/ FlushWindow
  \/ Extend \/ ExtendMark \/ ExtendEnds \/ Stop

RecNext ==
  \/ \E p \in load.threads : Capture(p) \/ CaptureContext(p)
  \/ \E p \in Producers : Submits(p)
  \/ DrainStep
  \/ ControlStep

(***************************************************************************)
(* Properties                                                              *)
(***************************************************************************)

\* Record r is event n or repeats it; the session's own markers have no number.
Carries(r, n) ==
  \/ /\ r.event.kind # "repeat" /\ (r.event.kind # "marker" \/ r.event.value[1] = "scope")
     /\ r.seq = n
  \/ r.event.kind = "repeat" /\ r.seq - r.count < n /\ n <= r.seq

\* What a reader reconstructs: the events of a file by number.
Expanded(records) ==
  LET at(n) == CHOOSE i \in DOMAIN records : Carries(records[i], n)
      original(i) == IF records[i].event.kind = "repeat" THEN records[i - 1].event ELSE records[i].event
  IN  [n \in {m \in 1..Len(log) : \E i \in DOMAIN records : Carries(records[i], m)} |-> original(at(n))]

\* The run the drain thread has not written yet.
HeldBack ==
  IF drain.pending = <<>> \/ drain.pc = "close" THEN <<>> ELSE Run(Head(drain.pending), drain.repeats)

\* The first n events, each under its number; some may be missing from a session
\* that says it failed.
Holds(f, n) ==
  /\ \A k \in DOMAIN f : f[k].kind = log[k].kind /\ f[k] = log[k]
  /\ DOMAIN f \subseteq 1..n /\ (rec.failed \/ DOMAIN f = 1..n)

\* The file and the run still held are, number by number, the events reserved
\* under those numbers, up to the last the drain thread has taken; its numbers
\* rise, so that the hub can import it; a session that ends well holds every event
\* written, and says how many they are (record.rs:1130-1350).  That they are all
\* that were reserved is NothingLost, which is refuted.
TraceExact ==
  clean =>
    /\ \A i, j \in DOMAIN file : i < j => file[i].seq < file[j].seq
    /\ drain.pc # "off" /\ ~drain.broken => Holds(Expanded(file \o HeldBack), drain.next)
    /\ SessionState = "complete" =>
         /\ Last(file).event = Marker("stop", rec.written)
         /\ Holds(Expanded(file), rec.written)

\* The frames of a thread: header and the parts that were recorded.
Frames(p) == {i \in DOMAIN log : log[i].kind = "header" /\ log[i].thread = p}
PartsOf(i) == {log[j].value[1] : j \in {k \in DOMAIN log : log[k].kind = "part" /\ log[k].frame = log[i].frame}}
Complete(i) == PartsOf(i) = log[i].value.mask
PartValue(i, r) ==
  log[CHOOSE j \in DOMAIN log : log[j].kind = "part" /\ log[j].frame = log[i].frame
                                /\ log[j].value[1] = r].value[2]

\* A reader that skips incomplete frames and applies the others in order has the
\* thread's registers after each of them (record.rs:413-546).
SnapshotsDecode ==
  clean =>
    \A p \in Threads : \A i \in Frames(p) : Complete(i) =>
      \A r \in load.registers :
        LET sources == {j \in Frames(p) : j <= i /\ Complete(j) /\ r \in log[j].value.mask}
        IN  sources # {} /\ PartValue(Max(sources), r) = log[i].value.context[r]

\* A session that has been stopped is closed in the end, and a new one can be
\* started (record.rs:938-963, 1183-1350).
DrainEnds ==
  (SessionState = "draining" /\ control = "idle") ~> (SessionState \in {"complete", "failed"} \/ ~clean)

\* A session that ends well holds every event that was reserved: "trace_stop
\* waits for IN_FLIGHT before allowing the drainer to close the file"
\* (record.rs:326).
NothingLost == clean /\ SessionState = "complete" => rec.written = rec.claim
=============================================================================
