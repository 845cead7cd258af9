SPECIFICATION Spec
CONSTANTS
    r1 = r1
    r2 = r2
    Requests = {r1, r2}
    Configurations <- MCConfigurations
INVARIANTS
    ScopesEndWithCause
    ChecksGuard
    ChainsFollowCauses
CHECK_DEADLOCK FALSE
