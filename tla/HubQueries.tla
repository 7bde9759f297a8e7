------------------------------ MODULE HubQueries ------------------------------
(***************************************************************************)
(* What the hub computes from the agent's answers: name patterns, calls    *)
(* paired from entry and return rows, summaries, trace scopes, prototype   *)
(* parameters, typed values, exception routes, the check on scripts an AI  *)
(* submits, and the walk of an event index over a lane that keeps moving.  *)
(*                                                                         *)
(* Text is a sequence of tokens: one per character, or per word where only *)
(* whole words matter.  Every algorithm is written as the loop in the code *)
(* and compared with a definition that has no loop.                        *)
(***************************************************************************)
EXTENDS Integers, Sequences, FiniteSets, SequencesExt, FiniteSetsExt

CONSTANTS
  None,
  Jobs,           \* bound: for each kind of computation the inputs it is given
  LaneCapacity,   \* records a lane keeps (32768)
  Window,         \* records asked for at a time (4096)
  ScanCap,        \* records a query looks at (32768)
  MaxTotal        \* bound: records submitted to the lane

VARIABLES
  job,       \* the computation of this behaviour
  result,    \* its result, None before
  total,     \* lane: the last sequence number
  walk       \* the index query in progress

vars == <<job, result, total, walk>>

Failed == [failed |-> TRUE]

(***************************************************************************)
(* Name patterns                                                           *)
(***************************************************************************)

\* wildcard_match's loop: p and v are the next positions, star the last star
\* (0 for none) and retry the value position it has taken.
RECURSIVE WildcardLoop(_, _, _, _, _, _)
WildcardLoop(pattern, value, p, v, star, retry) ==
  LET here == IF p <= Len(pattern) THEN pattern[p] ELSE None
  IN  IF v > Len(value) THEN \A i \in p..Len(pattern) : pattern[i] = "*"
      ELSE IF here = "?" \/ here = value[v]
           THEN WildcardLoop(pattern, value, p + 1, v + 1, star, retry)
      ELSE IF here = "*" THEN WildcardLoop(pattern, value, p + 1, v, p, v)
      ELSE IF star # 0 THEN WildcardLoop(pattern, value, star + 1, retry + 1, star, retry + 1)
      ELSE FALSE

wildcard_match(pattern, value) == WildcardLoop(pattern, value, 1, 1, 0, 1)

\* A pattern matches when the value can be cut into one piece per token.
RECURSIVE Fits(_, _)
Fits(pattern, value) ==
  IF pattern = <<>> THEN value = <<>>
  ELSE IF Head(pattern) = "*"
       THEN \E n \in 0..Len(value) : Fits(Tail(pattern), SubSeq(value, n + 1, Len(value)))
  ELSE /\ value # <<>>
       /\ Head(pattern) \in {"?", Head(value)}
       /\ Fits(Tail(pattern), Tail(value))

MatchPattern ==
  /\ job.kind = "pattern" /\ result = None
  /\ result' = [matched |-> wildcard_match(job.pattern, job.value)]
  /\ UNCHANGED <<job, total, walk>>

(***************************************************************************)
(* Hook event queries                                                      *)
(***************************************************************************)

\* QuerySpec::matches on the fields the model keeps: a row's position is its
\* sequence number.
Selected(events, spec) ==
  {i \in DOMAIN events : /\ i > spec.after
                         /\ spec.phases # {} => events[i].kind \in spec.phases
                         /\ spec.keys # {} => events[i].key \in spec.keys}

\* Mutant: the oldest open entry.
OpenEntryOldest(stack) == Head(stack)

\* The entry a return closes: the newest one still open.
OpenEntry(stack) == Last(stack)

\* pair_calls' loop over the selected rows, oldest first, with a stack of open
\* entries per thread and address.
RECURSIVE PairLoop(_, _, _, _)
PairLoop(events, rows, stacks, calls) ==
  IF rows = {} THEN
    calls \union UNION {{[entry |-> e, ret |-> 0] : e \in ToSet(stacks[k])} : k \in DOMAIN stacks}
  ELSE
    LET i == Min(rows)
        k == events[i].key
        rest == rows \ {i}
    IN  CASE events[i].kind = "hit" ->
               PairLoop(events, rest, stacks, calls \union {[entry |-> i, ret |-> 0]})
          [] events[i].kind = "entry" ->
               PairLoop(events, rest, [stacks EXCEPT ![k] = Append(@, i)], calls)
          [] events[i].kind = "return" /\ stacks[k] # <<>> ->
               PairLoop(events, rest, [stacks EXCEPT ![k] = Front(@)],
                        calls \union {[entry |-> OpenEntry(stacks[k]), ret |-> i]})
          [] OTHER ->
               PairLoop(events, rest, stacks, calls \union {[entry |-> 0, ret |-> i]})

\* call_from_parts: the number a call is sorted by.
CallSequence(call) == IF call.entry # 0 THEN call.entry ELSE call.ret

pair_calls(events, rows) ==
  LET keys == {events[i].key : i \in DOMAIN events}
  IN  PairLoop(events, rows, [k \in keys |-> <<>>], {})

\* summarize: one group per key, in order of their counts.
summarize(events, rows) ==
  LET keys == {events[i].key : i \in rows}
      group(k) == {i \in rows : events[i].key = k}
  IN  {[key |-> k, count |-> Cardinality(group(k)),
        first |-> Min(group(k)), last |-> Max(group(k))] : k \in keys}

\* query: the rows, sorted by their number, reversed when asked, cut to the limit.
Page(number, order, limit) ==
  LET asc == SetToSortSeq(DOMAIN number, LAMBDA x, y : number[x] < number[y])
      ordered == IF order = "desc" THEN Reverse(asc) ELSE asc
  IN  SubSeq(ordered, 1, IF limit < Len(ordered) THEN limit ELSE Len(ordered))

HookEventsQuery ==
  /\ job.kind = "hook_events" /\ result = None
  /\ LET rows == Selected(job.events, job.spec)
         calls == pair_calls(job.events, rows)
     IN  result' =
           [events |-> Page([i \in rows |-> i], job.spec.order, job.spec.limit),
            calls |-> Page([c \in calls |-> CallSequence(c)], job.spec.order, job.spec.limit),
            groups |-> summarize(job.events, rows)]
  /\ UNCHANGED <<job, total, walk>>

(***************************************************************************)
(* Trace scopes                                                            *)
(***************************************************************************)

\* trace_scope_query's normalisation: sorted, then folded into the last range
\* when a range begins inside it or right behind it.
FoldRange(done, r) ==
  IF done # <<>> /\ r[1] <= Last(done)[2]
  THEN Append(Front(done), <<Last(done)[1], IF r[2] > Last(done)[2] THEN r[2] ELSE Last(done)[2]>>)
  ELSE Append(done, r)

Before(r, s) == r[1] < s[1] \/ (r[1] = s[1] /\ r[2] < s[2])

\* Rejected when a range is empty or leaves the module; no range is the module.
trace_scope(ranges, size) ==
  IF \E r \in ranges : r[2] <= r[1] \/ r[2] > size THEN Failed
  ELSE LET asked == IF ranges = {} THEN {<<0, size>>} ELSE ranges
       IN  [ranges |-> FoldLeft(FoldRange, <<>>, SetToSortSeq(asked, Before))]

TraceScope ==
  /\ job.kind = "scope" /\ result = None
  /\ result' = trace_scope(job.ranges, job.size)
  /\ UNCHANGED <<job, total, walk>>

(***************************************************************************)
(* Prototypes and typed values                                             *)
(***************************************************************************)

\* split_parameters' loop: commas outside brackets separate.
RECURSIVE SplitLoop(_, _, _, _, _)
SplitLoop(text, i, start, depth, done) ==
  IF i > Len(text)
  THEN LET parts == Append(done, SubSeq(text, start, Len(text)))
       IN  IF depth # 0 \/ <<>> \in ToSet(parts) THEN Failed ELSE [parts |-> parts]
  ELSE CASE text[i] = "(" -> SplitLoop(text, i + 1, start, depth + 1, done)
         [] text[i] = ")" -> IF depth = 0 THEN Failed
                             ELSE SplitLoop(text, i + 1, start, depth - 1, done)
         [] text[i] = "," /\ depth = 0 ->
              SplitLoop(text, i + 1, i + 1, depth, Append(done, SubSeq(text, start, i - 1)))
         [] OTHER -> SplitLoop(text, i + 1, start, depth, done)

split_parameters(text) == SplitLoop(text, 1, 1, 0, <<>>)

SplitParameters ==
  /\ job.kind = "parameters" /\ result = None
  /\ result' = split_parameters(job.text)
  /\ UNCHANGED <<job, total, walk>>

\* A byte has ByteBits bits (8) and a word eight bytes.
ByteBits == 2
WordBits == 8 * ByteBits

mask_width(value, size) ==
  CASE size = 0 -> 0
    [] size \in 1..7 -> value % 2^(size * ByteBits)
    [] OTHER -> value

\* sign_extend: shifted up to the word's top bit and arithmetically back.
sign_extend(value, size) ==
  LET bits == (IF size < 1 THEN 1 ELSE IF size > 8 THEN 8 ELSE size) * ByteBits
      shifted == (value * 2^(WordBits - bits)) % 2^WordBits
      signed == IF shifted >= 2^(WordBits - 1) THEN shifted - 2^WordBits ELSE shifted
  IN  signed \div 2^(WordBits - bits)

\* typed_value for the kinds that are read as numbers.
TypedValue ==
  /\ job.kind = "typed" /\ result = None
  /\ LET masked == mask_width(job.value, job.size)
     IN  result' = [value |-> IF job.signed THEN sign_extend(masked, job.size) ELSE masked]
  /\ UNCHANGED <<job, total, walk>>

(***************************************************************************)
(* Exception routes                                                        *)
(***************************************************************************)

\* exception_monitor: a kind-33 row is joined to the exception edge of its
\* generation; a later one of the same generation replaces an earlier one.
Disposition(events, generation) ==
  LET mine == {i \in DOMAIN events : events[i].kind = 33 /\ events[i].generation = generation}
  IN  IF mine = {} THEN 0 ELSE Max(mine)

exception_rows(events) ==
  {[sequence |-> i, disposition |-> Disposition(events, events[i].generation)] :
     i \in {j \in DOMAIN events : events[j].kind = 6 /\ events[j].reason = 4}}

ExceptionMonitor ==
  /\ job.kind = "exceptions" /\ result = None
  /\ result' = [rows |-> exception_rows(job.events)]
  /\ UNCHANGED <<job, total, walk>>

(***************************************************************************)
(* The check on scripts an AI submits                                      *)
(***************************************************************************)
(* Tokens: "breakpoint" is pb.breakpoint( and "intercept" pb.intercept(,   *)
(* "kw" is description=, "q" a quote, "esc" a backslash, "nl" the end of a *)
(* line, "t" a visible character, and "(" ")" "#" themselves.  Left out:   *)
(* square and curly brackets, which hide a keyword as round ones do, blank *)
(* literals and the bound of 512 bytes on a literal.                       *)

Methods == {"breakpoint", "intercept"}
Opening == {"("} \union Methods

At3(text, i) == \A d \in 0..2 : i + d <= Len(text) /\ text[i + d] = "q"

\* mask_python_comments_and_strings: the positions that are code.
RECURSIVE MaskLoop(_, _, _, _)
MaskLoop(text, i, state, code) ==
  IF i > Len(text) THEN code
  ELSE CASE state = "comment" ->
              IF text[i] = "nl" THEN MaskLoop(text, i + 1, "code", code \union {i})
              ELSE MaskLoop(text, i + 1, "comment", code)
         [] state \in {"string", "triple"} ->
              CASE text[i] = "esc" -> MaskLoop(text, i + 2, state, code)
                [] state = "triple" /\ At3(text, i) -> MaskLoop(text, i + 3, "code", code)
                [] state = "string" /\ text[i] = "q" -> MaskLoop(text, i + 1, "code", code)
                [] OTHER -> MaskLoop(text, i + 1, state, code)
         [] OTHER ->
              CASE text[i] = "#" -> MaskLoop(text, i + 1, "comment", code)
                [] At3(text, i) -> MaskLoop(text, i + 3, "triple", code)
                [] text[i] = "q" -> MaskLoop(text, i + 1, "string", code)
                [] OTHER -> MaskLoop(text, i + 1, "code", code \union {i})

mask_python(text) == MaskLoop(text, 1, "code", {})

\* find_matching_parenthesis from a call (which opens one), over code only.
RECURSIVE CloseLoop(_, _, _, _)
CloseLoop(text, code, i, depth) ==
  IF i > Len(text) THEN 0
  ELSE CASE i \in code /\ text[i] \in Opening -> CloseLoop(text, code, i + 1, depth + 1)
         [] i \in code /\ text[i] = ")" /\ depth = 1 -> i
         [] i \in code /\ text[i] = ")" -> CloseLoop(text, code, i + 1, depth - 1)
         [] OTHER -> CloseLoop(text, code, i + 1, depth)

\* find_top_level_keyword between the call and its end.
RECURSIVE KeywordLoop(_, _, _, _, _)
KeywordLoop(text, code, i, close, depth) ==
  IF i >= close THEN 0
  ELSE CASE i \in code /\ text[i] \in Opening -> KeywordLoop(text, code, i + 1, close, depth + 1)
         [] i \in code /\ text[i] = ")" -> KeywordLoop(text, code, i + 1, close, depth - 1)
         [] i \in code /\ text[i] = "kw" /\ depth = 0 -> i
         [] OTHER -> KeywordLoop(text, code, i + 1, close, depth)

\* nonempty_python_string_literal, read from the unmasked source.
RECURSIVE LiteralLoop(_, _, _)
LiteralLoop(text, i, visible) ==
  IF i > Len(text) \/ text[i] \in {"esc", "nl"} THEN FALSE
  ELSE IF text[i] = "q" THEN visible
  ELSE LiteralLoop(text, i + 1, TRUE)

string_literal(text, i) ==
  i <= Len(text) /\ text[i] = "q" /\ ~At3(text, i) /\ LiteralLoop(text, i + 1, FALSE)

\* The calls of one method, in order; the search goes on behind a call that is
\* documented, and stops at one that never closes.
RECURSIVE DescribeLoop(_, _, _, _)
DescribeLoop(text, code, method, cursor) ==
  LET calls == {i \in code : i >= cursor /\ text[i] = method}
  IN  IF calls = {} THEN TRUE
      ELSE LET open == Min(calls)
               close == CloseLoop(text, code, open + 1, 1)
               kw == KeywordLoop(text, code, open + 1, close, 0)
           IN  IF close = 0 THEN TRUE
               ELSE /\ kw # 0 /\ string_literal(text, kw + 1)
                    /\ DescribeLoop(text, code, method, close + 1)

\* One pass for each method, with a cursor of its own.
validate_descriptions(text) ==
  \A method \in Methods : DescribeLoop(text, mask_python(text), method, 1)

DescribeCheck ==
  /\ job.kind = "describe" /\ result = None
  /\ result' = [accepted |-> validate_descriptions(job.text)]
  /\ UNCHANGED <<job, total, walk>>

(***************************************************************************)
(* The event index                                                         *)
(***************************************************************************)

\* Mutant: the row asked to stop before is returned again.
LanePageInclusive(before) ==
  LET b == IF before = 0 THEN 0 ELSE IF before <= total + 1 THEN before ELSE total + 1
      floor(n) == IF n < 0 THEN 0 ELSE n
      after == IF b = 0 THEN floor(total - Window) ELSE floor(b - Window)
      oldest == total - (IF total < LaneCapacity THEN total ELSE LaneCapacity) + 1
      first == IF after + 1 > oldest THEN after + 1 ELSE oldest
      end == IF first + Window - 1 < total THEN first + Window - 1 ELSE total
  IN  first..end

\* handle_hook_events_newest and HookRing::page_into: the rows strictly older
\* than before (0 for the newest), among those the ring still keeps.
LanePage(before) ==
  LET b == IF before = 0 THEN 0 ELSE IF before <= total + 1 THEN before ELSE total + 1
      floor(n) == IF n < 0 THEN 0 ELSE n
      after == IF b = 0 THEN floor(total - Window) ELSE floor(b - (Window + 1))
      oldest == total - (IF total < LaneCapacity THEN total ELSE LaneCapacity) + 1
      first == IF after + 1 > oldest THEN after + 1 ELSE oldest
      end == IF first + Window - 1 < total THEN first + Window - 1 ELSE total
  IN  {s \in first..end : b = 0 \/ s < b}

IdleWalk == [pc |-> "start", before |-> 0, from |-> 0, scanned |-> 0, got |-> <<>>, seen |-> <<>>,
             missed |-> FALSE]

\* A producer's record lands in the lane.
LaneGrows ==
  /\ job.kind = "walk" /\ walk.pc # "done"
  /\ total < MaxTotal
  /\ total' = total + 1
  /\ UNCHANGED <<job, result, walk>>

\* The caller asks, with the position the last answer gave it.
IndexCall ==
  /\ job.kind = "walk" /\ walk.pc \in {"start", "next"}
  /\ walk' = [walk EXCEPT !.pc = "scan", !.scanned = 0, !.got = <<>>,
                          !.from = IF walk.pc = "start" THEN total ELSE @]
  /\ UNCHANGED <<job, result, total>>

\* One window of event_index_query: newest first, until the limit is reached.
ScanWindow(page) ==
  LET hits == {s \in page : s \in job.matching}
      room == job.limit - Len(walk.got)
      newest == Page([s \in hits |-> s], "desc", room)
      got == walk.got \o newest
      scanned == walk.scanned + Cardinality(page)
  IN  IF page = {}
      THEN [walk EXCEPT !.pc = "done", !.seen = @ \o walk.got]
      ELSE IF Len(got) = job.limit
      THEN [walk EXCEPT !.pc = "next", !.before = Last(got), !.seen = @ \o got]
      ELSE IF Min(page) <= 1 \/ scanned >= ScanCap
      THEN [walk EXCEPT !.pc = "done", !.seen = @ \o got]
      ELSE [walk EXCEPT !.before = Min(page), !.scanned = scanned, !.got = got]

IndexWindow ==
  /\ job.kind = "walk" /\ walk.pc = "scan"
  /\ walk' = ScanWindow(LanePage(walk.before))
  /\ UNCHANGED <<job, result, total>>

\* The lane's lock could not be had: the window comes back empty.
IndexLockMissed ==
  /\ job.kind = "walk" /\ walk.pc = "scan"
  /\ walk' = [ScanWindow({}) EXCEPT !.missed = TRUE]
  /\ UNCHANGED <<job, result, total>>

(***************************************************************************)
(* The specification                                                       *)
(***************************************************************************)

Init == /\ \E kind \in DOMAIN Jobs : job \in Jobs[kind]
        /\ result = None /\ total = 0 /\ walk = IdleWalk

Next ==
  \/ MatchPattern \/ HookEventsQuery \/ TraceScope \/ SplitParameters \/ TypedValue
  \/ ExceptionMonitor \/ DescribeCheck
  \/ LaneGrows \/ IndexCall \/ IndexWindow \/ IndexLockMissed

Spec == Init /\ [][Next]_vars

(***************************************************************************)
(* Properties                                                              *)
(***************************************************************************)

Done(kind) == job.kind = kind /\ result # None

\* Backtracking to the last star alone loses no match (hook_query.rs:657-685).
PatternExact == Done("pattern") => result.matched = Fits(job.pattern, job.value)

\* Every selected row is in exactly one call, and a return closes the entry
\* that encloses it: same thread and address, and the rows of that key between
\* them pair among themselves (hook_query.rs:293-366).
CallsNest ==
  Done("hook_events") =>
    LET rows == Selected(job.events, job.spec)
        calls == pair_calls(job.events, rows)
        key(i) == job.events[i].key
        between(c, k) == {i \in rows : c.entry < i /\ i < c.ret /\ key(i) = k
                                       /\ job.events[i].kind # "hit"}
    IN  /\ \A i \in rows : \E c \in calls : i \in {c.entry, c.ret}
        /\ \A c, d \in calls :
             c # d => {c.entry, c.ret} \intersect {d.entry, d.ret} \subseteq {0}
        /\ \A c \in calls : c.entry # 0 /\ c.ret # 0 =>
             /\ c.entry < c.ret /\ key(c.entry) = key(c.ret)
             /\ \A i \in between(c, key(c.ret)) :
                  \E d \in calls : /\ i \in {d.entry, d.ret}
                                   /\ {d.entry, d.ret} \subseteq between(c, key(c.ret))
        /\ FoldSet(LAMBDA g, n : n + g.count, 0, result.groups) = Cardinality(rows)

\* The ranges recorded are the ones asked for, each address once
\* (service.rs:1784-1835): same addresses, ascending, never touching.
ScopeExact ==
  Done("scope") /\ result # Failed =>
    LET covered(R) == UNION {r[1]..(r[2] - 1) : r \in R}
        asked == IF job.ranges = {} THEN {<<0, job.size>>} ELSE job.ranges
    IN  /\ covered(ToSet(result.ranges)) = covered(asked)
        /\ \A i \in 1..(Len(result.ranges) - 1) : result.ranges[i][2] < result.ranges[i + 1][1]

\* Parameters are cut exactly at the commas outside every bracket, and put
\* together they give the text again (hook_signature.rs:278-307).
SplitExact ==
  Done("parameters") =>
    LET text == job.text
        count(c, n) == Cardinality({i \in 1..n : text[i] = c})
        depth(n) == count("(", n) - count(")", n)
        balanced == depth(Len(text)) = 0 /\ \A n \in DOMAIN text : depth(n) >= 0
        cuts == {i \in DOMAIN text : text[i] = "," /\ depth(i) = 0}
    IN  IF result = Failed
        THEN ~balanced \/ text = <<>>
             \/ \E i \in cuts : i = 1 \/ i = Len(text) \/ i + 1 \in cuts
        ELSE /\ balanced /\ Len(result.parts) = Cardinality(cuts) + 1
             /\ FlattenSeq([i \in DOMAIN result.parts |->
                  IF i = 1 THEN result.parts[i] ELSE <<",">> \o result.parts[i]]) = text

\* A captured slot is shown as the number the callee saw: congruent to the raw
\* word at the type's width, and in the type's range (hook_signature.rs:632-650).
TypedExact ==
  Done("typed") /\ job.size \in 1..8 =>
    LET m == 2^(job.size * ByteBits)
    IN  /\ (result.value - job.value) % m = 0
        /\ IF job.signed THEN -(m \div 2) <= result.value /\ result.value < m \div 2
           ELSE 0 <= result.value /\ result.value < m

\* Where the reader is at each position, from the whole prefix: the check's
\* masking of comments and strings agrees with reading one token at a time.
Lexed(text) ==
  LET step(s, i) ==
        IF s.skip > 0 THEN [s EXCEPT !.skip = @ - 1, !.code = @]
        ELSE CASE s.mode = "comment" ->
                    IF text[i] = "nl" THEN [s EXCEPT !.mode = "code", !.code = @ \union {i}] ELSE s
               [] s.mode = "code" ->
                    IF text[i] = "#" THEN [s EXCEPT !.mode = "comment"]
                    ELSE IF At3(text, i) THEN [s EXCEPT !.mode = "triple", !.skip = 2]
                    ELSE IF text[i] = "q" THEN [s EXCEPT !.mode = "string"]
                    ELSE [s EXCEPT !.code = @ \union {i}]
               [] text[i] = "esc" -> [s EXCEPT !.skip = 1]
               [] s.mode = "triple" -> IF At3(text, i) THEN [s EXCEPT !.mode = "code", !.skip = 2] ELSE s
               [] OTHER -> IF text[i] = "q" THEN [s EXCEPT !.mode = "code"] ELSE s
  IN  FoldLeft(step, [mode |-> "code", skip |-> 0, code |-> {}], [i \in DOMAIN text |-> i]).code

\* A script is accepted only if every callback it registers says why: each
\* call in code that is closed carries description= at its own level, before a
\* literal with something in it (service.rs:2764-2964), also when it is nested in
\* a call of the other method.  One nested in the arguments of its own method is
\* not looked at, nor are those of a method with a call that never closes.
DescriptionRequired ==
  Done("describe") /\ result.accepted =>
    LET text == job.text
        code == Lexed(text)
        depth(a, b) == Cardinality({i \in code \intersect (a..b) : text[i] \in Opening})
                       - Cardinality({i \in code \intersect (a..b) : text[i] = ")"})
        closes(o, c) == /\ text[c] = ")" /\ c \in code /\ o < c /\ depth(o, c) = 0
                        /\ \A n \in o..(c - 1) : depth(o, n) > 0
        Calls(m) == {p \in code : text[p] = m}
        inside(m, o) == \E p \in Calls(m), c \in code : closes(p, c) /\ p < o /\ o < c
        opens(m) == \E p \in Calls(m) : ~\E c \in code : closes(p, c)
    IN  \A m \in Methods : \A o \in Calls(m), c \in code :
          closes(o, c) /\ ~inside(m, o) /\ ~opens(m) =>
            \E k \in (o + 1)..(c - 1) :
              /\ k \in code /\ text[k] = "kw" /\ depth(o, k) = 1
              /\ text[k + 1] = "q" /\ text[k + 2] \notin {"q", "nl", "esc"}

\* Walking an index page by page, each answer from where the last one ended:
\* no row twice, newest first, and when the walk says it is exhausted it has
\* seen every matching row that was there when it began and that the lane
\* still keeps, unless a window was lost to the lane's lock
\* (service.rs:1508-1575, query_server.rs:141-178).
WalkComplete ==
  job.kind = "walk" =>
    /\ \A i \in 1..(Len(walk.seen) - 1) : walk.seen[i] > walk.seen[i + 1]
    /\ walk.pc = "done" /\ ~walk.missed =>
         \A s \in job.matching :
           s <= walk.from /\ s > total - LaneCapacity => s \in ToSet(walk.seen)
=============================================================================
