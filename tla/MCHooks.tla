------------------------------- MODULE MCHooks -------------------------------
\* Two functions: 1 returns at 2, 3 returns at 4; Pin sees one routine that
\* covers both.  Each workload lets one group of operations meet the threads.
EXTENDS Hooks

CONSTANTS t1, t2, w1, w2

MCRetOf == (1 :> 2) @@ (3 :> 4)
MCRoutine == (2 :> <<1, 5>>) @@ (4 :> <<1, 5>>)

By(w, op, arg) == [by |-> w, op |-> op, arg |-> arg]
Row(kinds, range) == [kinds |-> kinds, range |-> range, threads |-> {}]

One(calls) == (t1 :> calls) @@ (t2 :> {})

MCWorkloads == {
  \* two writers edit hooks under a running thread
  [ops |-> {By(w1, "set", {1}), By(w1, "set_batch", {1, 3}), By(w2, "remove", {1}),
            By(w2, "set_plain_batch", {2})},
   edits |-> 3, moves |-> {}, calls |-> One({1})],
  [ops |-> {By(w1, "set_batch", {3}), By(w2, "set_batch", {1}), By(w2, "clear", {}),
            By(w1, "remove", {3})},
   edits |-> 3, moves |-> {}, calls |-> One({3})],
  \* the capacity
  [ops |-> {By(w1, "set_plain_batch", {1, 2, 4}), By(w2, "set_batch", {3})},
   edits |-> 2, moves |-> {}, calls |-> One({1})],
  \* rules, interests and signatures on hooked functions
  [ops |-> {By(w1, "set_batch", {1}), By(w2, "publish_interests", {<<1, FALSE>>, <<1, TRUE>>}),
            By(w2, "publish_interests", {}), By(w1, "set_rule", 1), By(w2, "clear_rules", None)},
   edits |-> 3, moves |-> {}, calls |-> One({1})],
  [ops |-> {By(w1, "set_batch", {1, 3}), By(w1, "set_signature", 1), By(w1, "remove_signature", 1),
            By(w2, "publish_interests", {<<1, TRUE>>, <<2, TRUE>>}), By(w2, "set_plain_batch", {2})},
   edits |-> 3, moves |-> {}, calls |-> One({1})],
  \* two threads share the replay guards
  [ops |-> {By(w1, "set_plain_batch", {1, 2}), By(w1, "set_rule", 1), By(w1, "set_rule", 2)},
   edits |-> 2, moves |-> {}, calls |-> (t1 :> {1}) @@ (t2 :> {1})],
  \* how activations end
  [ops |-> {By(w1, "set_batch", {1}), By(w1, "set_batch", {1, 3})},
   edits |-> 1, moves |-> {"tail", "exit"}, calls |-> One({1, 3})],
  [ops |-> {By(w1, "set_batch", {1})}, edits |-> 1, moves |-> {"unwind"}, calls |-> One({1, 3})],
  \* a return that is hooked, replayed and unhooked; a script that returns from
  \* a function reached by a jump
  [ops |-> {By(w1, "set_batch", {1}), By(w1, "set_plain_batch", {2}), By(w1, "set_rule", 2),
            By(w1, "remove", {2})},
   edits |-> 4, moves |-> {}, calls |-> One({1, 3})],
  [ops |-> {By(w1, "set_batch", {1}), By(w1, "set_plain_batch", {3}),
            By(w1, "publish_interests", {<<3, FALSE>>})},
   edits |-> 3, moves |-> {"tail"}, calls |-> One({1, 3})],
  \* the engines
  [ops |-> {By(w1, "policies", {Row({"exec", "routine"}, {1, 2})}), By(w1, "policies", {}),
            By(w2, "engine", [kind |-> "exec", on |-> TRUE]),
            By(w2, "engine", [kind |-> "exec", on |-> FALSE])},
   edits |-> 3, moves |-> {}, calls |-> One({1})]}
==============================================================================
