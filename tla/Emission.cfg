SPECIFICATION EmissionSpec
CONSTANTS
    h1 = h1
    h2 = h2
    Emitter = emit
    Handlers = {h1, h2}
    LayerCount <- MCLayers
    HookCount <- MCHooks
    MaxFailures = 2
    MaxCancels = 1
INVARIANTS
    UnwoundInnermostFirst
    ErrorsStand
    HandlersAccounted
PROPERTY
    EmitReturns
CHECK_DEADLOCK FALSE
