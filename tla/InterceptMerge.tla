---------------------------- MODULE InterceptMerge ----------------------------
(***************************************************************************)
(* How the answers of several Python interceptors become one decision      *)
(* (scripting/interceptors: hook.rs, syscall.rs, exception.rs, debugger.rs *)
(* and child.rs).                                                          *)
(*                                                                         *)
(* An answer is what a callback returned: Raises, or a function from the   *)
(* keys of its dictionary to values (no key for None).  A response is a    *)
(* function from the fields it sets to values, the masks of the code.      *)
(* Registers are "ret", the one a function returns in, and "ip"; "arg"     *)
(* stands for an element of the list of arguments.                         *)
(***************************************************************************)
EXTENDS Naturals, Sequences, SequencesExt, FiniteSets

Raises == [raised |-> TRUE]
Rejected == [rejected |-> TRUE]

\* InterceptResponse::EMPTY
EmptyResponse == [f \in {} |-> 0]

Registers == {"ret", "ip"}

\* The order in which merge_response goes through the fields of a response.
FieldOrder == <<"action", "pass", "number", "return_value", "errno", "ret", "ip", "arg">>

-----------------------------------------------------------------------------
(* One answer                                                              *)

Has(answer, key) == key \in DOMAIN answer
Only(answer, keys) == [f \in DOMAIN answer \cap keys |-> answer[f]]

\* hook.entry and hook.return.  The return value is a register, and an answer
\* that gives both must agree with itself; only the action "return" is kept.
parse_hook(event, answer) ==
    LET illegal ==
            \/ Has(answer, "action") /\ answer.action \notin {"continue", "return"}
            \/ event = "hook.return" /\ Has(answer, "action") /\ answer.action = "return"
            \/ event = "hook.return" /\ Has(answer, "arg")
            \/ /\ Has(answer, "return_value") /\ Has(answer, "ret")
               /\ answer.return_value # answer.ret
        skips == Has(answer, "action") /\ answer.action = "return"
        fields == (DOMAIN answer \cap (Registers \cup {"arg"}))
                    \cup (IF Has(answer, "return_value") THEN {"ret"} ELSE {})
                    \cup (IF skips THEN {"action"} ELSE {})
    IN IF illegal THEN Rejected
       ELSE [f \in fields |-> IF f = "ret" /\ Has(answer, "return_value")
                              THEN answer.return_value ELSE answer[f]]

\* syscall.entry and syscall.exit: each has fields of its own.
parse_syscall(event, answer) ==
    LET entry == {"number", "arg"}
        exit == {"return_value", "errno"}
        wrong == IF event = "syscall.entry" THEN exit ELSE entry
    IN IF DOMAIN answer \cap wrong # {} THEN Rejected ELSE Only(answer, entry \cup exit)

\* exception.handle reads registers and nothing else.
parse_exception(answer) == Only(answer, Registers)

\* What Pin allows at a debugger event: an asynchronous break cannot be kept
\* from the debugger, and a new instruction pointer needs exactly that.
validate_response(event, r) ==
    /\ event = "debugger.async_break" => ~(Has(r, "pass") /\ ~r.pass)
    /\ event \in {"debugger.breakpoint", "debugger.single_step"} /\ Has(r, "ip") =>
         Has(r, "pass") /\ ~r.pass

\* The destination is given as a flag, as an action, or as both if they agree.
parse_debugger(event, answer) ==
    LET named == Has(answer, "action")
        asAction == named /\ answer.action = "pass"
        fields == (DOMAIN answer \cap (Registers \cup {"pass"}))
                    \cup (IF named THEN {"pass"} ELSE {})
        r == [f \in fields |-> IF f = "pass" /\ named THEN asAction ELSE answer[f]]
    IN IF \/ named /\ answer.action \notin {"pass", "squash"}
          \/ named /\ Has(answer, "pass") /\ answer.pass # asAction
       THEN Rejected
       ELSE IF validate_response(event, r) THEN r ELSE Rejected

HookEvents == {"hook.entry", "hook.return"}
SyscallEvents == {"syscall.entry", "syscall.exit"}

parse_response(event, answer) ==
    CASE answer = Raises -> Rejected
      [] answer # Raises /\ event \in HookEvents -> parse_hook(event, answer)
      [] answer # Raises /\ event \in SyscallEvents -> parse_syscall(event, answer)
      [] answer # Raises /\ event = "exception.handle" -> parse_exception(answer)
      [] OTHER -> parse_debugger(event, answer)

-----------------------------------------------------------------------------
(* All answers                                                             *)

\* Mutant: a later handler overrules an earlier one
ResponseOverwritten(acc, f, v) ==
    IF ~acc.ok THEN acc
    ELSE [acc EXCEPT !.response = [g \in DOMAIN @ \cup {f} |-> IF g = f THEN v ELSE @[g]]]

\* response_set, merge_optional_word and set_pass_decision: a field keeps its
\* value, and another one is an error that ends the merge where it is.
response_set(acc, f, v) ==
    CASE ~acc.ok -> acc
      [] acc.ok /\ Has(acc.response, f) -> [acc EXCEPT !.ok = (acc.response[f] = v)]
      [] OTHER -> [acc EXCEPT !.response = [g \in DOMAIN @ \cup {f} |-> IF g = f THEN v ELSE @[g]]]

merge_response(aggregate, response) ==
    FoldLeft(LAMBDA acc, f : IF Has(response, f) THEN response_set(acc, f, response[f]) ELSE acc,
             [response |-> aggregate, ok |-> TRUE], FieldOrder)

\* One callback.  What a merge had set before it failed stays in the aggregate
\* for the next handler to disagree with.
CallHandler(acc, event, h) ==
    LET response == parse_response(event, h.answer)
        merged == IF response = Rejected THEN [response |-> acc.aggregate, ok |-> FALSE]
                  ELSE merge_response(acc.aggregate, response)
    IN [aggregate |-> merged.response,
        valid |-> acc.valid /\ merged.ok,
        errors |-> IF merged.ok THEN acc.errors ELSE acc.errors \cup {h.plugin},
        removed |-> IF h.once THEN acc.removed \cup {h.order} ELSE acc.removed]

NoAnswers == [aggregate |-> EmptyResponse, valid |-> TRUE, errors |-> {}, removed |-> {}]

\* The handlers of the request's thread, by plugin and then in the order they
\* were registered (orders are unique).
matching_handlers(handlers, tid) ==
    SetToSortSeq({h \in handlers : h.tid \in {0, tid}},
                 LAMBDA a, b : a.plugin < b.plugin \/ (a.plugin = b.plugin /\ a.order < b.order))

\* dispatch: every handler is called, also after an error; after one the
\* program goes on as if nobody had answered.
dispatch(event, handlers, tid) ==
    LET all == FoldLeft(LAMBDA acc, h : CallHandler(acc, event, h), NoAnswers,
                        matching_handlers(handlers, tid))
    IN [decision |-> IF all.valid THEN all.aggregate ELSE EmptyResponse,
        errors |-> all.errors, removed |-> all.removed]

\* child.follow: all must agree, and the child needs a port of its own.
dispatch_child(handlers, ports) ==
    LET agrees(h) == h.answer # Raises /\ Has(h.answer, "follow") /\ h.answer.follow
        fails(h) == h.answer = Raises \/ ~Has(h.answer, "follow")
    IN [follow |-> handlers # {} /\ (\A h \in handlers : agrees(h)) /\ ports,
        errors |-> {h.plugin : h \in {g \in handlers : fails(g)}},
        removed |-> {h.order : h \in {g \in handlers : g.once}}]
=============================================================================
