SPECIFICATION Spec
CONSTANTS
    t1 = t1
    t2 = t2
    a1 = a1
    a2 = a2
    f1 = f1
    f2 = f2
    None = None
    Threads = {t1, t2}
    Activations = {a1, a2}
    Cached = {f1, f2}
SYMMETRY Symmetry
INVARIANTS
    NoForeignValue
    LiveActivationsServe
CHECK_DEADLOCK FALSE
