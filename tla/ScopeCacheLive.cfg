SPECIFICATION FairSpec
CONSTANTS
    t1 = t1
    t2 = t2
    pool = pool
    repo = repo
    None = None
    Callers = {t1, t2}
    Entries = {pool, repo}
    Resources = {pool, repo}
    Deps <- MCDeps
    MaxActivations = 1
    MaxDepth = 2
    MaxFailures = 1
INVARIANT
    DependentsExitFirst
PROPERTY
    EveryCallReturns
