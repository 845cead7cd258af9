----------------------------- MODULE MCEmission -----------------------------
EXTENDS Emission, TLC
CONSTANTS h1, h2
MCLayers == [c \in Chains |-> IF c = Emitter THEN 2 ELSE 1]
MCHooks == [c \in Chains |-> IF c = Emitter THEN 2 ELSE 0]
Symmetry == Permutations(Handlers)
=============================================================================
