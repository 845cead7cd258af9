SPECIFICATION Spec
CONSTANTS
    Types <- AllTypes
    Values <- AllValues
    Encoders = {"set", "Color"}
    Handlers <- Registered
INVARIANTS
    DecodesTheType
