----------------------------- MODULE PluginLeases -----------------------------
(***************************************************************************)
(* Who keeps a native breakpoint or hook alive for the scripts             *)
(* (subscriptions.rs and decisions.rs).  A lease counts the subscriptions  *)
(* on a native point and remembers whether the scripts created it; at zero *)
(* a script-created point is queued, and a later tick removes it.  A new   *)
(* subscription takes a point back out of the queue.                       *)
(*                                                                         *)
(* Breakpoint leases are indexed by identifier and hook leases by address; *)
(* both have the same rules, so an ownership record o holds one lease per  *)
(* point in o.lease and the queued removals in o.queue.                    *)
(***************************************************************************)
EXTENDS Naturals, FiniteSets

NoLease == [n |-> 0, atZero |-> FALSE]

EmptyLeases(points) == [lease |-> [p \in points |-> NoLease], queue |-> {}]

acquire(o, p, created) ==
    LET revived == p \in o.queue
        old == o.lease[p]
    IN [lease |-> [o.lease EXCEPT ![p] = [n |-> old.n + 1,
                                          atZero |-> old.atZero \/ created \/ revived]],
        queue |-> o.queue \ {p}]

\* The last subscription of a point the scripts created asks for its removal.
release_removes(o, p) == o.lease[p].n = 1 /\ o.lease[p].atZero

release(o, p) ==
    LET old == o.lease[p]
    IN [o EXCEPT !.lease[p] = IF old.n <= 1 THEN NoLease ELSE [old EXCEPT !.n = @ - 1]]

queue_removal(o, p) == [o EXCEPT !.queue = @ \cup {p}]

release_or_queue(o, p) ==
    IF release_removes(o, p) THEN queue_removal(release(o, p), p) ELSE release(o, p)

take_removals(o) == [o EXCEPT !.queue = {}]

has_external_owner(o, p) == o.lease[p].n > 0 /\ ~o.lease[p].atZero

mark_external_owner(o, p) == [o EXCEPT !.lease[p].atZero = FALSE]

\* Gives back times[p] subscriptions of every point p.  The code gives them back
\* one at a time; the first n of a lease of n count, and the last of these is
\* the one that may queue the removal.
release_all(o, times) ==
    LET last == {p \in DOMAIN times : 0 < times[p] /\ o.lease[p].n <= times[p]}
    IN [lease |-> [p \in DOMAIN o.lease |->
                      IF p \in last THEN NoLease
                      ELSE IF p \in DOMAIN times THEN [o.lease[p] EXCEPT !.n = @ - times[p]]
                      ELSE o.lease[p]],
        queue |-> o.queue \cup {p \in last : o.lease[p].n > 0 /\ o.lease[p].atZero}]

\* The sum of the values of f: the size of a set with f[x] units of every x.
Total(f) == Cardinality(UNION {{x} \X (1..f[x]) : x \in DOMAIN f})
=============================================================================
