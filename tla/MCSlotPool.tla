----------------------------- MODULE MCSlotPool -----------------------------
EXTENDS SlotPool, TLC
CONSTANTS t1, t2, a1, a2, f1, f2
Symmetry == Permutations(Threads) \cup Permutations(Activations) \cup Permutations(Cached)
=============================================================================
