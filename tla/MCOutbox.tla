------------------------------ MODULE MCOutbox ------------------------------
EXTENDS Outbox, TLC
CONSTANTS a, b, c1, c2, t1, t2
Symmetry ==
    Permutations(Relays) \cup Permutations(Contexts) \cup Permutations(Transactions)
=============================================================================
