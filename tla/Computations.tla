----------------------------- MODULE Computations -----------------------------
(***************************************************************************)
(* The computations that a query, a Python event or an interceptor's       *)
(* answer goes through, each in behaviours of its own: what the hub        *)
(* computes (HubQueries), which occurrences reach a handler (EventRouting) *)
(* and what several interceptors decide together (InterceptMerge).         *)
(***************************************************************************)
EXTENDS HubQueries, EventRouting, InterceptMerge

\* An intercepted event is decided.
InterceptDispatch ==
  /\ job.kind = "decision" /\ result = None
  /\ result' = IF job.event = "child.follow" THEN dispatch_child(job.handlers, job.ports)
               ELSE dispatch(job.event, job.handlers, job.tid)
  /\ UNCHANGED <<job, total, walk>>

\* The query and the decision leave the lanes of the routing alone.
NoRouting ==
  /\ setting = [kind |-> "none", receiver |-> "none", occurrences |-> 0, losses |-> 0]
  /\ gen = 0 /\ slot = 0 /\ lost = 0
  /\ lane = [l \in Lanes |-> <<>>]
  /\ prod = [t \in Threads |-> IdleProducer]
  /\ rcv = Unloaded /\ tick = NoTick /\ got = <<>>

ComputationInit ==
  /\ Init
  /\ IF job.kind = "routing" THEN RoutingInit ELSE NoRouting

ComputationNext ==
  \/ (Next \/ InterceptDispatch) /\ UNCHANGED routing
  \/ job.kind = "routing" /\ RoutingNext /\ UNCHANGED vars

ComputationSpec == ComputationInit /\ [][ComputationNext]_<<vars, routing>>

-----------------------------------------------------------------------------
(* Properties                                                              *)

\* Every computation of the hub gives what its reference definition gives:
\* matching a name against a pattern, pairing entries with returns, merging
\* trace scopes, cutting a prototype into parameters, reading a typed value,
\* and refusing a script whose callbacks do not say why they are there
\* (hook_query.rs, hook_signature.rs, service.rs).
QueriesExact ==
  /\ PatternExact /\ CallsNest /\ ScopeExact
  /\ SplitExact /\ TypedExact /\ DescriptionRequired

\* Two responses that set no field to different values.
Agree(r, s) == \A f \in DOMAIN r \cap DOMAIN s : r[f] = s[f]

\* A decision of several interceptors is taken whole or not at all.  It sets
\* exactly what the handlers asked for, whatever order they are called in, and
\* Pin accepts it as a whole although only the single answers were validated;
\* if a handler failed or two of them disagree it sets nothing, and some plugin
\* is put in the error state, none that was neither wrong itself nor in
\* disagreement with another one.  Once-only handlers are used up either way.
\* (merge_response, validate_response and dispatch of interceptors/*.rs.)
DecisionWhole ==
  Done("decision") /\ job.event # "child.follow" =>
    LET called == {h \in job.handlers : h.tid \in {0, job.tid}}
        response(h) == parse_response(job.event, h.answer)
        wrong == {h \in called : response(h) = Rejected}
        disagree(h) == \E g \in called \ wrong : ~Agree(response(g), response(h))
        asked == UNION {{<<f, response(h)[f]>> : f \in DOMAIN response(h)} : h \in called}
    IN  /\ result.removed = {h.order : h \in {g \in called : g.once}}
        /\ \A h \in wrong : h.plugin \in result.errors
        /\ IF wrong # {} \/ \E h \in called \ wrong : disagree(h)
           THEN /\ result.decision = EmptyResponse /\ result.errors # {}
                /\ \A p \in result.errors :
                     \E h \in called : h.plugin = p /\ (h \in wrong \/ disagree(h))
           ELSE /\ result.errors = {}
                /\ {<<f, result.decision[f]>> : f \in DOMAIN result.decision} = asked
                /\ validate_response(job.event, result.decision)
=============================================================================
