---------------------------- MODULE NativePolicies ----------------------------
(***************************************************************************)
(* The four policies Python plugins configure and Pin callbacks execute    *)
(* (native_policies.rs): instrumentation, memory translation, code fetch   *)
(* and XED decoding.  Each kind merges what the running plugins specified  *)
(* into one published value and then flushes translated code.              *)
(*                                                                         *)
(* specs is a function from the running plugins to what they specified     *)
(* (NoSpec for nothing); a specification is a set of items: the events to  *)
(* instrument, the ranges translated or overlaid, the decoder features and *)
(* their values.  A published policy is the union of the items.            *)
(***************************************************************************)
EXTENDS Naturals, FiniteSets

CONSTANTS NoSpec,
          Opposite(_)    \* the same decoder feature with the other value

PolicyKinds == {"instrumentation", "memory_translation", "code_fetch", "xed_decode"}

Merged(specs) == UNION {specs[p] : p \in {x \in DOMAIN specs : specs[x] # NoSpec}}

Overlap(specs) ==
    \E p, q \in DOMAIN specs : /\ p # q
                               /\ specs[p] # NoSpec /\ specs[q] # NoSpec
                               /\ specs[p] \cap specs[q] # {}

Disagree(specs) == \E item \in Merged(specs) : Opposite(item) \in Merged(specs)

\* The outcome of publishing: the value now in force and whether the caller
\* gets an error.  flushed says whether Pin accepted the flush.
Outcome(value, failed) == [value |-> value, failed |-> failed]

\* Replace, then flush what the old and the new value cover: a refused flush is
\* an error, but the new value stays.
ReplaceThenFlush(old, new, flushed) == Outcome(new, ~flushed /\ old \cup new # {})

instrumentation_publish(specs, old, flushed) ==
    ReplaceThenFlush(old, Merged(specs), flushed)

memory_translation_publish(specs, old, flushed) ==
    IF Overlap(specs) THEN Outcome(old, TRUE)
    ELSE ReplaceThenFlush(old, Merged(specs), flushed)

code_fetch_publish(specs, old, flushed) ==
    IF Overlap(specs) THEN Outcome(old, TRUE)
    ELSE ReplaceThenFlush(old, Merged(specs), flushed)

\* Decoding is global: disagreement is refused, and a refused flush puts the
\* previous value back.
xed_decode_publish(specs, old, flushed) ==
    CASE Disagree(specs) -> Outcome(old, TRUE)
      [] ~Disagree(specs) /\ Merged(specs) = old -> Outcome(old, FALSE)
      [] OTHER -> Outcome(IF flushed THEN Merged(specs) ELSE old, ~flushed)

publish(kind, specs, old, flushed) ==
    CASE kind = "instrumentation" -> instrumentation_publish(specs, old, flushed)
      [] kind = "memory_translation" -> memory_translation_publish(specs, old, flushed)
      [] kind = "code_fetch" -> code_fetch_publish(specs, old, flushed)
      [] OTHER -> xed_decode_publish(specs, old, flushed)

\* Every kind is published whatever the others answer.
publish_all(specs, old, flushed) ==
    [k \in PolicyKinds |-> publish(k, specs[k], old[k], flushed)]

publish_checked_fails(specs, old, flushed) ==
    \E k \in PolicyKinds : publish_all(specs, old, flushed)[k].failed

refresh_best_effort(specs, old, flushed) ==
    [k \in PolicyKinds |-> publish_all(specs, old, flushed)[k].value]
=============================================================================
