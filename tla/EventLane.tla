----------------------------- MODULE EventLane ------------------------------
(***************************************************************************)
(* One bounded event lane between the analysis callbacks and the plugins   *)
(* (ring.rs, event_channel.rs; priority.rs, observation.rs and the two     *)
(* lanes of hook_events.rs are instances) and the tick of the script host  *)
(* that drains it (scripting/host.rs).                                     *)
(*                                                                         *)
(* A producer only tries the lane's lock and drops its event when the lock *)
(* is taken.  The host copies one page, starting behind the slowest        *)
(* plugin, and hands it to every plugin, which skips what it already has.  *)
(*                                                                         *)
(* Simplifications:                                                        *)
(*  - an event is known by the number of its submit call;                  *)
(*  - every running plugin consumes this lane, and every event it sees     *)
(*    reaches one of its callbacks, which may raise;                       *)
(*  - the host's bounded spin is one attempt; the order in which a tick    *)
(*    visits the plugins is left open;                                     *)
(*  - a script command that waits for the host (send_waiting) may cut a    *)
(*    tick short at any of the points where the host looks for it.         *)
(***************************************************************************)
EXTENDS Naturals, Sequences

CONSTANTS
  Threads,      \* application threads, in analysis callbacks
  Plugins,
  None,         \* nobody holds the lock
  Host,         \* the script host thread
  Capacity,     \* CAPACITY
  PageCap,      \* PRIORITY_PAGE_CAP
  MaxSubmits,   \* bound on the number of submitted events
  MaxCommands   \* bound on the number of ticks cut short by a command

ASSUME LaneAssumption ==
  /\ Capacity \in Nat \ {0}
  /\ PageCap \in Nat \ {0}
  /\ MaxSubmits \in Nat
  /\ MaxCommands \in Nat
  /\ None \notin Threads
  /\ Host \notin Threads
  /\ Host # None

VARIABLES
  lock,      \* the lane's Pin mutex: who holds it
  events,    \* Ring::events
  total,     \* Ring::total
  edge,      \* retained_total
  submitted, \* EventChannel::submitted
  accepted,  \* history: the n-th event that was stored
  tpc,       \* where each application thread is in submit
  tevent,    \* the event it submits
  hpc,       \* where the host is in its tick
  after,     \* the smallest plugin cursor
  page,      \* TickShared::priority_events
  todo,      \* the plugins this tick has yet to visit
  commands,  \* number of ticks cut short so far
  pstate,    \* Plugin::state
  cursor,    \* Plugin::priority_cursor
  start,     \* history: the cursor the plugin was loaded with
  dropped,   \* Plugin::dropped
  got        \* history: the sequence numbers its callbacks were given

ringVars == <<events, total, accepted>>
producerVars == <<tpc, tevent, submitted, edge>>
hostVars == <<hpc, after, page, todo, commands>>
pluginVars == <<pstate, cursor, start, dropped, got>>
vars == <<lock, ringVars, producerVars, hostVars, pluginVars>>

Record(n, e) == [sequence |-> n, event |-> e]

Init ==
  /\ lock = None
  /\ events = [i \in 0..(Capacity - 1) |-> Record(0, 0)]
  /\ total = 0
  /\ edge = 0
  /\ submitted = 0
  /\ accepted = <<>>
  /\ tpc = [t \in Threads |-> "out"]
  /\ tevent = [t \in Threads |-> 0]
  /\ hpc = "idle"
  /\ after = 0
  /\ page = <<>>
  /\ todo = {}
  /\ commands = 0
  /\ pstate = [p \in Plugins |-> "absent"]
  /\ cursor = [p \in Plugins |-> 0]
  /\ start = [p \in Plugins |-> 0]
  /\ dropped = [p \in Plugins |-> 0]
  /\ got = [p \in Plugins |-> <<>>]

-----------------------------------------------------------------------------
(* submit(), in an analysis callback.                                      *)

Goto(t, label) == tpc' = [tpc EXCEPT ![t] = label]

\* submit returns; its event goes out of scope.
Return(t) ==
  /\ Goto(t, "out")
  /\ tevent' = [tevent EXCEPT ![t] = 0]

Submit(t) ==
  /\ tpc[t] = "out"
  /\ submitted < MaxSubmits
  /\ submitted' = submitted + 1
  /\ tevent' = [tevent EXCEPT ![t] = submitted + 1]
  /\ Goto(t, "try")
  /\ UNCHANGED <<lock, ringVars, edge, hostVars, pluginVars>>

\* pb_pin_mutex_try_lock: a taken lock drops the event.
TryLock(t) ==
  /\ tpc[t] = "try"
  /\ \/ /\ lock = None
        /\ lock' = t
        /\ Goto(t, "push")
        /\ UNCHANGED tevent
     \/ /\ lock # None
        /\ Return(t)
        /\ UNCHANGED lock
  /\ UNCHANGED <<ringVars, submitted, edge, hostVars, pluginVars>>

\* The slot of sequence number n.
SlotOf(n) == (n - 1) % Capacity

\* Ring::push
Push(t) ==
  /\ tpc[t] = "push"
  /\ total' = total + 1
  /\ events' = [events EXCEPT ![SlotOf(total + 1)] =
                   Record(total + 1, tevent[t])]
  /\ accepted' = Append(accepted, tevent[t])
  /\ Goto(t, "publish")
  /\ UNCHANGED <<lock, tevent, submitted, edge, hostVars, pluginVars>>

\* retained_total.store
PublishEdge(t) ==
  /\ tpc[t] = "publish"
  /\ edge' = total
  /\ Goto(t, "unlock")
  /\ UNCHANGED <<lock, ringVars, tevent, submitted, hostVars, pluginVars>>

Unlock(t) ==
  /\ tpc[t] = "unlock"
  /\ lock' = None
  /\ Return(t)
  /\ UNCHANGED <<ringVars, submitted, edge, hostVars, pluginVars>>

-----------------------------------------------------------------------------
(* The script host.                                                        *)

Running == {p \in Plugins : pstate[p] = "running"}

\* exec_one: the plugin's cursor starts at the lane's edge.
LoadPlugin(p) ==
  /\ hpc = "idle"
  /\ pstate[p] = "absent"
  /\ pstate' = [pstate EXCEPT ![p] = "running"]
  /\ cursor' = [cursor EXCEPT ![p] = edge]
  /\ start' = [start EXCEPT ![p] = edge]
  /\ UNCHANGED <<lock, ringVars, producerVars, hostVars, dropped, got>>

\* tick: the page starts behind the slowest running plugin.
BeginTick ==
  /\ hpc = "idle"
  /\ Running # {}
  /\ \E p \in Running :
       /\ \A q \in Running : cursor[p] <= cursor[q]
       /\ after' = cursor[p]
  /\ todo' = Running
  /\ hpc' = "spin"
  /\ UNCHANGED <<lock, ringVars, producerVars, page, commands, pluginVars>>

\* lock_spin
HostLock ==
  /\ hpc = "spin"
  /\ lock = None
  /\ lock' = Host
  /\ hpc' = "copy"
  /\ UNCHANGED <<ringVars, producerVars, after, page, todo, commands,
                 pluginVars>>

\* The lock stays taken past SPIN_LIMIT: no page in this tick.
HostBusy ==
  /\ hpc = "spin"
  /\ lock # None
  /\ hpc' = "dispatch"
  /\ UNCHANGED <<lock, ringVars, producerVars, after, page, todo, commands,
                 pluginVars>>

MinOf(a, b) == IF a <= b THEN a ELSE b
MaxOf(a, b) == IF a <= b THEN b ELSE a

\* Mutant: one slot too many counts as retained.
OldestOffByOne == total - MinOf(total, Capacity)

\* The first retained sequence number.
Oldest == total - MinOf(total, Capacity) + 1

\* Ring::page_into
PageInto ==
  LET first == MaxOf(after + 1, Oldest)
      last == MinOf(first + PageCap - 1, total)
  IN  [i \in 1..(IF first <= last THEN last - first + 1 ELSE 0) |->
         events[SlotOf(first + i - 1)]]

CopyPage ==
  /\ hpc = "copy"
  /\ page' = PageInto
  /\ hpc' = "release"
  /\ UNCHANGED <<lock, ringVars, producerVars, after, todo, commands,
                 pluginVars>>

\* Mutant: the lock is not released after the copy.
HostUnlockLeaks ==
  /\ hpc = "release"
  /\ hpc' = "dispatch"
  /\ UNCHANGED <<lock, ringVars, producerVars, after, page, todo, commands,
                 pluginVars>>

HostUnlock ==
  /\ hpc = "release"
  /\ lock' = None
  /\ hpc' = "dispatch"
  /\ UNCHANGED <<ringVars, producerVars, after, page, todo, commands,
                 pluginVars>>

\* Where the plugin's new records begin: a page is in the order of its
\* sequence numbers (PageIsFaithful), so what the plugin skips is a prefix.
FirstNew(p) ==
  CHOOSE k \in 1..(Len(page) + 1) :
    /\ \A i \in 1..(k - 1) : page[i].sequence <= cursor[p]
    /\ k <= Len(page) => page[k].sequence > cursor[p]

\* Mutant: a plugin is given only the newest record of a page.
UnseenNewest(p) ==
  SubSeq(page, MaxOf(FirstNew(p), Len(page)), Len(page))

\* The records of the page that the plugin has not seen.
Unseen(p) == SubSeq(page, FirstNew(p), Len(page))

\* Mutant: the gap is counted from the page's start.
MissedFromPage(p, new) ==
  IF new = <<>> THEN 0 ELSE new[1].sequence - after - 1

\* The gap in front of them.
Missed(p, new) ==
  IF new = <<>> THEN 0 ELSE new[1].sequence - cursor[p] - 1

\* dispatch_one: the plugin is given the first k new records; it goes into
\* the error state when a callback raises.
Dispatch(p) ==
  LET new == Unseen(p)
  IN  /\ hpc = "dispatch"
      /\ p \in todo
      /\ todo' = todo \ {p}
      /\ \E k \in 0..Len(new) :
           /\ \/ k = Len(new) /\ UNCHANGED pstate
              \/ k > 0 /\ pstate' = [pstate EXCEPT ![p] = "error"]
           /\ cursor' = [cursor EXCEPT ![p] =
                           IF k = 0 THEN @ ELSE new[k].sequence]
           /\ got' = [got EXCEPT ![p] =
                        @ \o [i \in 1..k |-> new[i].sequence]]
      /\ dropped' = [dropped EXCEPT ![p] = @ + Missed(p, new)]
      /\ UNCHANGED <<lock, ringVars, producerVars, hpc, after, page, commands,
                     start>>

\* The tick's locals die with the tick.
EndTick ==
  /\ hpc = "dispatch"
  /\ todo = {}
  /\ hpc' = "idle"
  /\ page' = <<>>
  /\ after' = 0
  /\ UNCHANGED <<lock, ringVars, producerVars, todo, commands, pluginVars>>

\* send_waiting() between the page and the last plugin
CutShort ==
  /\ hpc = "dispatch"
  /\ todo # {}
  /\ commands < MaxCommands
  /\ commands' = commands + 1
  /\ hpc' = "idle"
  /\ page' = <<>>
  /\ after' = 0
  /\ todo' = {}
  /\ UNCHANGED <<lock, ringVars, producerVars, pluginVars>>

-----------------------------------------------------------------------------
Producer(t) == TryLock(t) \/ Push(t) \/ PublishEdge(t) \/ Unlock(t)

HostStep ==
  \/ BeginTick
  \/ HostLock
  \/ HostBusy
  \/ CopyPage
  \/ HostUnlock
  \/ \E p \in Plugins : Dispatch(p)
  \/ EndTick

Next ==
  \/ \E t \in Threads : Submit(t) \/ Producer(t)
  \/ \E p \in Plugins : LoadPlugin(p)
  \/ HostStep
  \/ CutShort

Spec == Init /\ [][Next]_vars

\* A callback that entered submit leaves it; the host keeps ticking.
FairSpec ==
  /\ Spec
  /\ \A t \in Threads : WF_vars(Producer(t))
  /\ WF_vars(HostStep)

-----------------------------------------------------------------------------
Records == [sequence : Nat, event : Nat]

TypeOK ==
  /\ lock \in Threads \cup {Host, None}
  /\ events \in [0..(Capacity - 1) -> Records]
  /\ total \in Nat
  /\ edge \in Nat
  /\ submitted \in Nat
  /\ accepted \in Seq(Nat)
  /\ tpc \in [Threads -> {"out", "try", "push", "publish", "unlock"}]
  /\ tevent \in [Threads -> Nat]
  /\ hpc \in {"idle", "spin", "copy", "release", "dispatch"}
  /\ after \in Nat
  /\ page \in Seq(Records)
  /\ todo \subseteq Plugins
  /\ commands \in Nat
  /\ pstate \in [Plugins -> {"absent", "running", "error"}]
  /\ cursor \in [Plugins -> Nat]
  /\ start \in [Plugins -> Nat]
  /\ dropped \in [Plugins -> Nat]
  /\ got \in [Plugins -> Seq(Nat)]

\* A page is a run of the stored events in the order in which they were
\* stored, whatever producers and laps of the ring come between.
PageIsFaithful ==
  \A i \in DOMAIN page :
    /\ page[i].event = accepted[page[i].sequence]
    /\ i > 1 => page[i].sequence = page[i - 1].sequence + 1

\* Every plugin sees each event once and in order, and its dropped counter is
\* the exact number of the stored events it never saw, also when ticks are cut
\* short and when the plugins are at different places.
ExactAccounting ==
  \A p \in Plugins :
    /\ \A i \in 2..Len(got[p]) : got[p][i - 1] < got[p][i]
    /\ cursor[p] = start[p] + Len(got[p]) + dropped[p]

\* A stored event is lost to a running plugin only when the ring lapped it.
LostOnlyWhenLapped ==
  \A p \in Plugins : \A n \in (start[p] + 1)..cursor[p] :
    n + Capacity <= total \/ \E i \in DOMAIN got[p] : got[p][i] = n

\* The host catches up: a running plugin gets past every event that was stored
\* since it was loaded, however ticks are cut short.
PluginCatchesUp ==
  \A p \in Plugins : \A n \in 1..MaxSubmits :
    (total >= n /\ pstate[p] = "running") ~>
      (cursor[p] >= n \/ pstate[p] = "error")
=============================================================================
