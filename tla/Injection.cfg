SPECIFICATION Spec
CONSTANTS
    endpoint = endpoint
    service = service
    repo = repo
    settings = settings
    Callables = {endpoint, service, repo, settings}
    Threads = {t1, t2}
    Contexts = {c1, c2}
    Configurations <- MCConfigurations
INVARIANTS
    OwnOverride
    OverridesEnd
    ResolutionSound
CHECK_DEADLOCK FALSE
