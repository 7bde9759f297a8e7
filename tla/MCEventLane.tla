---------------------------- MODULE MCEventLane -----------------------------
EXTENDS EventLane, TLC

ThreadSymmetry == Permutations(Threads)
=============================================================================
