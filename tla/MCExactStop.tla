---------------------------- MODULE MCExactStop -----------------------------
EXTENDS ExactStop, TLC

\* 1: call 3;  2: conditional jump to 1, else 3;  3: ret
ProgramSucc == <<{3}, {1, 3}, {2}>>
ProgramFallthrough == 1 :> 2

\* Every instruction is reached by a jump: traces of their own.
OwnTraces == [a \in 1..3 |-> {a}]

ThreadSymmetry == Permutations(Threads)
=============================================================================
