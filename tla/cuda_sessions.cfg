\* Two sessions of two layers: walks of one and of both, with and without the fused kernel, one memory fault.
CONSTANTS
    s1 = s1
    s2 = s2
    Sessions = {s1, s2}
    NumLayers = 2
    PageSize = 2
    Budget = 3
    Prompts <- ShortPrompts
    Generated = {1}
    Kernels = {TRUE, FALSE}
    MaxWalks = 3
    MaxFaults = 1
SPECIFICATION Spec
CHECK_DEADLOCK FALSE
SYMMETRY Symmetric
INVARIANTS
    SlotsExclusive
    MarkersExact
    PoolHoldsContext
    AttendsContext
