---------------------------- MODULE MCComputations ---------------------------
(* Computations for TLC: every small input of each computation. *)
EXTENDS Computations

Upto(S, n) == UNION {[1..k -> S] : k \in 0..n}
Rows == [kind : {"entry", "return", "hit"}, key : {"f", "g"}]
Edges == {[kind |-> 6, reason |-> 4, generation |-> 1], [kind |-> 6, reason |-> 1, generation |-> 2],
          [kind |-> 33, reason |-> 0, generation |-> 1], [kind |-> 33, reason |-> 0, generation |-> 2]}
Spans == {r \in (0..4) \X (0..5) : r[2] >= r[1]}
Source == {"t", "q", "esc", "nl", "#", "(", ")", "kw", "breakpoint", "intercept"}
Sources == {<<"breakpoint">> \o t : t \in Upto(Source, 4)}
  \union {s \o <<m, "kw", "q", "t", "q">> \o t \o <<")">> :
            s \in Upto(Source, 2), t \in Upto(Source, 2), m \in {"breakpoint", "intercept"}}
Words == {0, 1, 2, 3, 7, 8, 15, 16, 127, 128, 255, 256, 32767, 32768, 65535}

\* Answers that set up to two of the fields.
Values == [action |-> {"return", "squash", "pass"}, pass |-> BOOLEAN,
            number |-> {1, 2}, return_value |-> {1, 2}, errno |-> {1}, ret |-> {1, 2}, ip |-> {1},
            arg |-> {1}, follow |-> BOOLEAN]
One(f) == {f :> v : v \in Values[f]}
Answers(fields) == {Raises, EmptyResponse} \union UNION {One(f) : f \in fields}
  \union UNION {{x @@ y : x \in One(p[1]), y \in One(p[2])} : p \in {q \in fields \X fields : q[1] # q[2]}}
Asked == [e \in {"hook.entry", "hook.return", "syscall.entry", "syscall.exit", "exception.handle",
                 "debugger.breakpoint", "debugger.async_break", "child.follow"} |->
  CASE e \in HookEvents -> {"action", "ret", "arg", "return_value"}
    [] e \in SyscallEvents -> {"number", "arg", "return_value", "errno"}
    [] e = "exception.handle" -> {"ret", "ip", "number"}
    [] e = "child.follow" -> {"follow", "number"}
    [] OTHER -> {"action", "pass", "ip", "ret"}]
\* Two handlers of one plugin and one of another; the third of one thread only.
Handlers(a, b, c) == {[plugin |-> 1, order |-> 1, once |-> FALSE, tid |-> 0, answer |-> a],
                      [plugin |-> 2, order |-> 2, once |-> TRUE, tid |-> 0, answer |-> b],
                      [plugin |-> 1, order |-> 3, once |-> FALSE, tid |-> 1, answer |-> c]}
Single(e) == {a \in Answers(Asked[e]) : Cardinality(DOMAIN a) <= 1}
DecisionJobs(e, tids, handlers) ==
  [kind : {"decision"}, event : {e}, tid : tids, ports : {e # "child.follow", TRUE}, handlers : handlers]
Decisions == UNION {DecisionJobs(e, {1}, {Handlers(a, b, c) : a, b \in Answers(Asked[e]), c \in Single(e)}) :
                      e \in DOMAIN Asked}
OtherThread == UNION {DecisionJobs(e, {2}, {Handlers(a, b, Raises) : a, b \in Single(e)}) :
                      e \in DOMAIN Asked}

MCRoutings == {
  [kind |-> "context", receiver |-> "named", occurrences |-> 3, losses |-> 0],
  [kind |-> "context", receiver |-> "named", occurrences |-> 2, losses |-> 1],
  [kind |-> "syscall", receiver |-> "fixed", occurrences |-> 2, losses |-> 1],
  [kind |-> "module", receiver |-> "named", occurrences |-> 2, losses |-> 1],
  [kind |-> "module", receiver |-> "fixed", occurrences |-> 2, losses |-> 1],
  [kind |-> "oom", receiver |-> "named", occurrences |-> 2, losses |-> 1],
  [kind |-> "start", receiver |-> "named", occurrences |-> 1, losses |-> 1],
  [kind |-> "hook", receiver |-> "named", occurrences |-> 2, losses |-> 1]}

MCJobs == [
  pattern |-> [kind : {"pattern"}, pattern : Upto({"a", "b", "*", "?"}, 4), value : Upto({"a", "b"}, 4)],
  hook_events |-> [kind : {"hook_events"}, events : Upto(Rows, 4),
                   spec : [after : {0, 1}, phases : {{}}, keys : {{}, {"f"}}, order : {"asc", "desc"},
                           limit : {2}]],
  scope |-> [kind : {"scope"}, ranges : {{}} \union {{r, s, u} : r, s, u \in Spans}, size : {4}],
  parameters |-> [kind : {"parameters"}, text : Upto({"(", ")", ",", "t"}, 6)],
  typed |-> [kind : {"typed"}, value : Words, size : 0..8, signed : BOOLEAN],
  exceptions |-> [kind : {"exceptions"}, events : Upto(Edges, 4)],
  describe |-> [kind : {"describe"}, text : Sources],
  walk |-> [kind : {"walk"}, matching : SUBSET (1..6), limit : 1..2],
  decision |-> Decisions,
  other_thread |-> OtherThread,
  routing |-> {[kind |-> "routing"]}]

\* One module event overtakes another whose first copy was lost.
ModuleRoutings == {[kind |-> "module", receiver |-> "named", occurrences |-> 2, losses |-> 1]}
RoutingJobs == [routing |-> {[kind |-> "routing"]}]

ThreadSymmetry == Permutations(Threads)
=============================================================================
