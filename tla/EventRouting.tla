----------------------------- MODULE EventRouting -----------------------------
(***************************************************************************)
(* How an occurrence that the agent publishes twice reaches a Python       *)
(* handler once (scripting/events.rs, dispatch_one and the route functions *)
(* of scripting/host.rs, and the producers).                               *)
(*                                                                         *)
(* Application threads stamp an occurrence with a generation and store one *)
(* copy in a side lane (priority or observation) and one in the main ring; *)
(* either store may fail, and threads overtake each other.  Once per tick  *)
(* the host pages both lanes and routes the pages to the receiver, which   *)
(* suppresses the copy it already had: by a window of generations for      *)
(* context changes and system calls, by the largest generation for modules *)
(* and memory exhaustion, by a flag for the start of the process.          *)
(*                                                                         *)
(* A behaviour follows one kind of event and one receiver: a handler of    *)
(* pb.on or, where there is one, the plugin's fixed callback.  A record    *)
(* that the ring overwrote before it was paged counts as not stored.       *)
(***************************************************************************)
EXTENDS Naturals, Sequences, SequencesExt, FiniteSets

CONSTANTS
  Threads,       \* the application threads that publish
  WindowBits,    \* generations a window remembers (65536)
  PageCap,       \* records in a page
  Routings       \* bound: the kinds, receivers, occurrences and losses followed

VARIABLES setting,  \* the kind of event and the receiver of this behaviour
          gen,      \* the last generation stamped
          lane,     \* the copies stored in each lane, in order
          slot,     \* OOM_PUBLISHED, the latest-value slot
          lost,     \* copies that were not stored
          prod,     \* where each producer is
          rcv,      \* the plugin's cursors and the receiver's suppression state
          tick,     \* the pages of the current tick
          got       \* the occurrences the receiver was called with, in order

routing == <<setting, gen, lane, slot, lost, prod, rcv, tick, got>>

Lanes == {"side", "main"}
Windowed == {"context", "syscall"}
Largest == {"module", "oom"}

\* The kinds of events, and those a plugin has a fixed callback for.  The
\* process starts once; other kinds recur.
EventKinds == Windowed \cup Largest \cup {"start", "hook"}
Fixed == Windowed \cup {"module"}

ASSUME RoutingsAssumption ==
    \A r \in Routings :
      /\ r.kind \in EventKinds /\ r.receiver \in {"named", "fixed"} /\ {r.occurrences, r.losses} \subseteq Nat
      /\ r.receiver = "fixed" => r.kind \in Fixed
      /\ r.kind = "start" => r.occurrences = 1

-----------------------------------------------------------------------------
(* Producers                                                               *)

IdleProducer == [at |-> "idle", g |-> 0]

\* A producer's steps after the stamp.  Only a memory failure writes the slot,
\* only it and the process start have no copy in the main ring.
Steps(kind) ==
    CASE kind = "oom" -> <<"slot", "writing", "side">>
      [] kind = "start" -> <<"side">>
      [] OTHER -> <<"side", "main">>

After(kind, step) ==
    LET s == Steps(kind)
        i == CHOOSE n \in DOMAIN s : s[n] = step
    IN IF i = Len(s) THEN IdleProducer.at ELSE s[i + 1]

\* The next occurrence.
Stamp(t) ==
    /\ prod[t].at = "idle"
    /\ gen < setting.occurrences
    /\ gen' = gen + 1
    /\ prod' = [prod EXCEPT ![t] = [at |-> Head(Steps(setting.kind)), g |-> gen + 1]]
    /\ UNCHANGED <<setting, lane, slot, lost, rcv, tick, got>>

\* A copy is stored, or lost to the lane's lock.
Submit(t, l) ==
    /\ prod[t].at = l
    /\ \/ lane' = [lane EXCEPT ![l] = Append(@, prod[t].g)] /\ UNCHANGED lost
       \/ lost < setting.losses /\ lost' = lost + 1 /\ UNCHANGED lane
    /\ prod' = [prod EXCEPT ![t].at = After(setting.kind, l)]
    /\ UNCHANGED <<setting, gen, slot, rcv, tick, got>>

\* OOM_WRITER: one failure writes the slot at a time, another one skips it.
SlotWriter == \E t \in Threads : prod[t].at = "writing"

OomSlot(t) ==
    /\ prod[t].at = "slot"
    /\ prod' = [prod EXCEPT ![t].at = IF SlotWriter THEN "side" ELSE "writing"]
    /\ UNCHANGED <<setting, gen, lane, slot, lost, rcv, tick, got>>

OomPublish(t) ==
    /\ prod[t].at = "writing"
    /\ slot' = prod[t].g
    /\ prod' = [prod EXCEPT ![t].at = After(setting.kind, "writing")]
    /\ UNCHANGED <<setting, gen, lane, lost, rcv, tick, got>>

\* The latest failure, 0 while the slot is being written.
oom_snapshot == IF SlotWriter THEN 0 ELSE slot

-----------------------------------------------------------------------------
(* Registration                                                            *)

NewWindow(ignore) == [ignore |-> ignore, highest |-> ignore, bits |-> {}]

\* What the plugin reads before its code runs, and what a handler reads when it
\* is registered: one native counter after the other, in this order.
LoadReads == <<"main", "side", "generation">>
HandlerReads(kind) ==
    IF kind \in Largest THEN <<"generation", "main", "side">> ELSE <<"main", "side", "generation">>

Unloaded ==
    [at |-> "absent", todo |-> <<>>, cursor |-> [l \in Lanes |-> 0], start |-> [l \in Lanes |-> 0],
     window |-> NewWindow(0), largest |-> 0, sticky |-> FALSE, once |-> FALSE,
     over |-> {}, from |-> 0, seen |-> 0]

\* History: the occurrences whose copies are all stored or lost by now.
Over == {g \in 1..gen : \A t \in Threads : prod[t].g = g => prod[t].at = "idle"}

\* A handler of pb.on has edges of its own, so the order of the plugin's reads
\* does not matter to it.
LoadPlugin ==
    /\ rcv.at = "absent"
    /\ rcv' = IF setting.receiver = "fixed"
              THEN [Unloaded EXCEPT !.at = "loading", !.todo = LoadReads, !.over = Over]
              ELSE [Unloaded EXCEPT !.at = "loaded", !.cursor = [l \in Lanes |-> Len(lane[l])]]
    /\ UNCHANGED <<setting, gen, lane, slot, lost, prod, tick, got>>

\* The generation a receiver starts after.  That of a memory failure is the one
\* in the slot.
StartGeneration == IF setting.kind = "oom" THEN oom_snapshot ELSE gen

ReadGeneration(g) == [rcv EXCEPT !.todo = Tail(@), !.largest = g, !.window = NewWindow(g)]

ReadCounter ==
    /\ rcv.todo # <<>>
    /\ LET read == Head(rcv.todo)
       IN IF read = "generation"
          THEN rcv' = ReadGeneration(StartGeneration)
          ELSE rcv' = IF rcv.at = "loading"
                      THEN [rcv EXCEPT !.todo = Tail(@), !.cursor[read] = Len(lane[read])]
                      ELSE [rcv EXCEPT !.todo = Tail(@), !.start[read] = Len(lane[read])]
    /\ UNCHANGED <<setting, gen, lane, slot, lost, prod, tick, got>>

\* The fixed callback is there when the plugin is.
Loaded ==
    /\ rcv.at = "loading" /\ rcv.todo = <<>>
    /\ rcv' = [rcv EXCEPT !.at = "on", !.from = gen]
    /\ UNCHANGED <<setting, gen, lane, slot, lost, prod, tick, got>>

\* pb.on, in pb_init or in any later callback.
Subscribe(once) ==
    /\ rcv.at = "loaded"
    /\ rcv' = [rcv EXCEPT !.at = "registering", !.todo = HandlerReads(setting.kind),
                          !.once = once, !.over = Over]
    /\ UNCHANGED <<setting, gen, lane, slot, lost, prod, tick, got>>

Subscribed ==
    /\ rcv.at = "registering" /\ rcv.todo = <<>>
    /\ rcv' = [rcv EXCEPT !.at = "on", !.from = gen]
    /\ UNCHANGED <<setting, gen, lane, slot, lost, prod, tick, got>>

-----------------------------------------------------------------------------
(* The tick                                                                *)

\* The lanes the plugin keeps a cursor on because of this receiver.
Consumes(l) == l = "side" \/ setting.kind \notin {"oom", "start", "hook"}

NoTick == [at |-> "idle", side |-> <<>>]

\* A page: the oldest records after the cursor, with their sequence numbers.
PageOf(l) ==
    LET after == rcv.cursor[l]
        upto == IF Len(lane[l]) < after + PageCap THEN Len(lane[l]) ELSE after + PageCap
    IN [i \in 1..(upto - after) |-> [seq |-> after + i, g |-> lane[l][after + i]]]

\* The side lane's lock may be busy: the tick goes on without its page.
PageSide ==
    /\ tick.at = "idle" /\ rcv.at = "on"
    /\ \/ tick' = [NoTick EXCEPT !.at = "paged", !.side = PageOf("side")]
       \/ tick' = [NoTick EXCEPT !.at = "paged"]
    /\ UNCHANGED <<setting, gen, lane, slot, lost, prod, rcv, got>>

\* The main ring is read through the query server, which may not answer.
MainPages == IF Consumes("main") THEN {PageOf("main"), <<>>} ELSE {<<>>}

\* A waiting command ends the tick.
TickCut ==
    /\ tick.at = "paged"
    /\ tick' = NoTick
    /\ UNCHANGED <<setting, gen, lane, slot, lost, prod, rcv, got>>

-----------------------------------------------------------------------------
(* Routing                                                                 *)

\* Mutant: the bits of the generations skipped over are not cleared
AdvancedKeeps(w, g) == [w EXCEPT !.highest = g]

\* The window moved up to the newer generation g: the bits of the generations
\* that enter it are cleared.
Advanced(w, g) ==
    [w EXCEPT !.highest = g,
              !.bits = IF g - w.highest >= WindowBits THEN {}
                       ELSE @ \ {v % WindowBits : v \in (w.highest + 1)..g}]

\* The window after g, or the same window when g is not accepted.
accept(w, g) ==
    LET moved == IF g > w.highest THEN Advanced(w, g) ELSE w
    IN CASE g <= w.ignore -> w
         [] g <= w.highest /\ w.highest - g >= WindowBits -> w
         [] g > w.ignore /\ g > w.highest - WindowBits /\ g % WindowBits \in moved.bits -> moved
         [] OTHER -> [moved EXCEPT !.bits = @ \cup {g % WindowBits}]

Accepts(w, g) ==
    /\ g > w.ignore
    /\ g + WindowBits > w.highest
    /\ g % WindowBits \notin (IF g > w.highest THEN Advanced(w, g) ELSE w).bits

\* The receiver wants event e of lane l ("synthetic" for the sticky state and
\* the slot).  Only pb.on handlers have edges, and none takes a hook from the
\* main ring.
after_registration_edge(r, l, seq) == l \notin Lanes \/ seq > r.start[l]

Wants(r, l, e) ==
    /\ after_registration_edge(r, l, e.seq)
    /\ CASE setting.kind \in Windowed -> Accepts(r.window, e.g)
         [] setting.kind \in Largest -> e.g > r.largest
         [] setting.kind = "start" -> ~r.sticky
         [] OTHER -> l # "main"

\* The suppression state after e, which a window keeps even when it refuses e.
Noted(r, l, e) ==
    IF ~after_registration_edge(r, l, e.seq) THEN r
    ELSE CASE setting.kind \in Windowed -> [r EXCEPT !.window = accept(@, e.g)]
           [] setting.kind \in Largest -> [r EXCEPT !.largest = IF e.g > @ THEN e.g ELSE @]
           [] setting.kind = "start" -> [r EXCEPT !.sticky = TRUE]
           [] OTHER -> r

\* One record: past the cursor, to the receiver.  The callback called as number
\* failAt raises, and nothing is routed any more.
route(acc, l, e, failAt) ==
    IF acc.failed THEN acc
    ELSE LET moved == IF l \in Lanes THEN [acc.r EXCEPT !.cursor[l] = e.seq] ELSE acc.r
             calls == acc.calls + 1
         IN IF Wants(moved, l, e)
            THEN [r |-> Noted(moved, l, e), got |-> Append(acc.got, e.g), calls |-> calls,
                  failed |-> calls = failAt]
            ELSE [acc EXCEPT !.r = Noted(moved, l, e)]

route_page(acc, l, page, failAt) ==
    FoldLeft(LAMBDA a, e : route(a, l, e, failAt), acc, page)

\* The records that no lane holds: the sticky process start, and the slot
\* unless it is being written.
Synthetic(g) == IF g = 0 THEN <<>> ELSE <<[seq |-> 0, g |-> g]>>

\* Sticky state, then the side page, the slot, and the main page.
dispatch_one(main, failAt) ==
    LET none == [r |-> rcv, got |-> got, calls |-> 0, failed |-> FALSE]
        sticky == route_page(none, "synthetic",
                             IF setting.kind = "start" THEN Synthetic(gen) ELSE <<>>, failAt)
        side == route_page(sticky, "side", tick.side, failAt)
        emergency == route_page(side, "synthetic", Synthetic(oom_snapshot), failAt)
    IN route_page(emergency, "main", main, failAt)

\* The handler of a plugin that failed is gone, and so is a once-only handler
\* that was called.
Dispatch(failAt) ==
    /\ tick.at = "paged"
    /\ \E main \in MainPages :
         LET done == dispatch_one(main, failAt)
             gone == done.failed \/ (done.calls > 0 /\ rcv.once)
         IN /\ failAt > 0 => done.failed
            /\ rcv' = [done.r EXCEPT !.at = IF gone THEN "gone" ELSE @, !.seen = gen]
            /\ got' = done.got
    /\ tick' = NoTick
    /\ UNCHANGED <<setting, gen, lane, slot, lost, prod>>

-----------------------------------------------------------------------------
RoutingInit ==
    /\ setting \in Routings
    /\ gen = 0 /\ slot = 0 /\ lost = 0
    /\ lane = [l \in Lanes |-> <<>>]
    /\ prod = [t \in Threads |-> IdleProducer]
    /\ rcv = Unloaded /\ tick = NoTick /\ got = <<>>

RoutingNext ==
    \/ \E t \in Threads : Stamp(t) \/ OomSlot(t) \/ OomPublish(t) \/ \E l \in Lanes : Submit(t, l)
    \/ LoadPlugin \/ ReadCounter \/ Loaded \/ Subscribed
    \/ \E once \in BOOLEAN : Subscribe(once)
    \/ PageSide \/ TickCut
    \/ \E failAt \in 0..1 : Dispatch(failAt)

-----------------------------------------------------------------------------
(* Properties                                                              *)

Stored(g) ==
    \/ g \in Range(lane.side)
    \/ setting.kind # "hook" /\ g \in Range(lane.main)

\* Nobody is publishing, and the tick has read everything.
Settled ==
    /\ rcv.at = "on" /\ tick.at = "idle" /\ rcv.seen = gen
    /\ \A t \in Threads : prod[t].at = "idle"
    /\ \A l \in Lanes : Consumes(l) => rcv.cursor[l] = Len(lane[l])

\* The copy of g in lane l is there, and none of a later one before it.
InOrder(l, g) ==
    \E i \in DOMAIN lane[l] :
      lane[l][i] = g /\ \A k \in 1..(i - 1) : lane[l][k] <= g

Newest(g) == Stored(g) /\ \A h \in Range(got) : h <= g

\* The occurrences that must reach the receiver: while a generation is in the
\* window, one copy is enough.  Of a kind that keeps the largest generation
\* only, the newest is certain, and a module also when both lanes have it in
\* order.
Certain(g) ==
    CASE setting.kind \in Windowed ->
           Stored(g) /\ \A h \in Range(got) : h < g + WindowBits
      [] setting.kind = "module" -> Newest(g) \/ \A l \in Lanes : InOrder(l, g)
      [] setting.kind = "oom" -> Newest(g)
      [] OTHER -> Stored(g)

\* In whichever lanes, order and ticks the copies arrive, and whatever counter
\* the registration read first, a receiver is called at most once for an
\* occurrence and never for one that was over before it registered.  When all
\* is read it was called for every occurrence since then that is Certain; one
\* surviving copy is not enough for modules and memory exhaustion.  The start
\* of the process reaches every handler once, however late it registers.
\* (GenerationWindow::accept, unseen_module_generation, EventSubscription::new,
\* dispatch_one.)
MirroredOnce ==
    /\ Cardinality(Range(got)) = Len(got)
    /\ setting.kind # "start" => Range(got) \cap rcv.over = {}
    /\ Settled =>
         /\ {g \in (rcv.from + 1)..gen : Certain(g)} \subseteq Range(got)
         /\ setting.kind = "start" /\ gen = 1 => got = <<1>>

\* "Either try-lock path can recover the other" and "Python must consume both
\* copies exactly once" (events.rs:266-268, 393-395): a module event of which
\* one copy survived reaches the handler.
CopyRecovers ==
    setting.kind = "module" /\ Settled =>
      \A g \in (rcv.from + 1)..gen : Stored(g) => g \in Range(got)
=============================================================================
