SPECIFICATION Spec
CONSTANTS
    c1 = c1
    c2 = c2
    app = app
    job = job
    request = request
    block = block
    None = None
    Contexts = {c1, c2}
    Scopes = {app, job, request, block}
    Shared = {app, job}
    Requires <- MCRequires
    MaxActivations = 5
INVARIANTS
    ParentOutlivesDependents
    DependentsCounted
    InnermostFirst
SYMMETRY Symmetry
PROPERTY
    ImplementsTree
CHECK_DEADLOCK FALSE
