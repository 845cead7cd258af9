----------------------------- MODULE MCScopeTree -----------------------------
EXTENDS ScopeTree, TLC
CONSTANTS c1, c2, app, job, request, block
\* job and request both require the application's scope; job is shared as well.
MCRequires == app :> None @@ job :> app @@ request :> app @@ block :> request
Symmetry == Permutations(Contexts)
=============================================================================
