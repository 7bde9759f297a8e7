---------------------------- MODULE ExecutionTrap ----------------------------
(***************************************************************************)
(* The table of execution traps (execution_trap.rs).  A trap is a range of *)
(* the application that stops the world before its first instruction runs. *)
(* The script host creates and removes traps; an application thread that   *)
(* enters a live range claims the one stop in flight, retires the one-shot *)
(* traps it hits and leaves the hit slots in a mask that the breaker       *)
(* publishes once every thread has stopped.                                *)
(*                                                                         *)
(* The table is one record, and every operation is an operator on it, so   *)
(* the module that owns the variable decides what happens between two of   *)
(* them.  All traps of the model cover the same range.                     *)
(***************************************************************************)
EXTENDS Naturals, FiniteSets

CONSTANT TrapSlots      \* MAX_EXECUTION_TRAPS, as 1..n

EmptySlot == [used |-> FALSE, id |-> 0, active |-> FALSE, oneShot |-> FALSE]

EmptyTraps ==
    [slots |-> [s \in TrapSlots |-> EmptySlot], mask |-> {}, claimed |-> FALSE, nextId |-> 1]

\* A slot the next trap may take: not live, and not waiting to be published.
FreeSlots(t) == {s \in TrapSlots : ~t.slots[s].active /\ s \notin t.mask}

ActiveTraps(t) == {t.slots[s].id : s \in {x \in TrapSlots : t.slots[x].active}}

\* Removes the traps with the identifiers ids, for one plugin all of them.
trap_remove(t, ids) ==
    [t EXCEPT !.slots = [s \in TrapSlots |->
        IF t.slots[s].used /\ t.slots[s].id \in ids
        THEN [t.slots[s] EXCEPT !.active = FALSE, !.used = s \in t.mask]
        ELSE t.slots[s]]]

\* The first free slot takes the new trap; a failed flush removes it again,
\* and only the identifier is spent.
trap_set(t, oneShot, flushed) ==
    LET s == CHOOSE x \in FreeSlots(t) : \A y \in FreeSlots(t) : x <= y
        armed == [t EXCEPT !.nextId = @ + 1,
                           !.slots[s] = [used |-> TRUE, id |-> t.nextId,
                                         active |-> TRUE, oneShot |-> oneShot]]
    IN IF flushed THEN armed ELSE trap_remove(armed, {t.nextId})

\* An application thread enters the range.  It returns at once when no trap is
\* live or another thread holds the claim.
CanClaim(t) == ~t.claimed /\ ActiveTraps(t) # {}

on_execute(t) ==
    LET hit == {s \in TrapSlots : t.slots[s].active}
    IN [t EXCEPT !.claimed = TRUE, !.mask = hit,
                 !.slots = [s \in TrapSlots |->
                     IF s \in hit /\ t.slots[s].oneShot
                     THEN [t.slots[s] EXCEPT !.active = FALSE] ELSE t.slots[s]]]

\* The breaker has stopped every thread: the hits become events.
publish_stopped(t) == [t EXCEPT !.mask = {}]

trap_on_resume(t) == [t EXCEPT !.mask = {}, !.claimed = FALSE]
=============================================================================
