---------------------------- MODULE MCScopeCache ----------------------------
EXTENDS ScopeCache, TLC
CONSTANTS t1, t2, pool, repo
MCDeps == repo :> {pool} @@ pool :> {}
CyclicDeps == repo :> {pool} @@ pool :> {repo}
Symmetry == Permutations(Callers)
=============================================================================
