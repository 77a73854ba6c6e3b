---------------------------- MODULE MCMpmcQueue ----------------------------
EXTENDS MpmcQueue, TLC

Symmetry == Permutations(Producers) \cup Permutations(Consumers)
              \cup Permutations(Values)
=============================================================================
