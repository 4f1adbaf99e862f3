\* Two sessions decode together with the fused kernel.
CONSTANTS
    s1 = s1
    s2 = s2
    Sessions = {s1, s2}
    NumLayers = 1
    PageSize = 2
    Budget = 0
    Prompts <- ShortPrompts
    Generated = {1}
    Kernels = {TRUE}
    MaxWalks = 3
    MaxFaults = 0
SPECIFICATION Spec
CHECK_DEADLOCK FALSE
INVARIANTS
    OneRowPerToken
