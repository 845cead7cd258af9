SPECIFICATION Spec
CONSTANTS
    t1 = t1
    t2 = t2
    pool = pool
    repo = repo
    None = None
    Callers = {t1, t2}
    Entries = {pool, repo}
    Resources = {pool}
    Deps <- MCDeps
    MaxActivations = 2
    MaxDepth = 2
    MaxFailures = 1
INVARIANTS
    
    
    NoCycle

    
SYMMETRY Symmetry
