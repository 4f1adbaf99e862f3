\* Three calls at once on forked sessions and one prefix cache.
CONSTANTS
    c1 = c1
    c2 = c2
    c3 = c3
    c4 = c4
    s1 = s1
    s2 = s2
    s3 = s3
    x = x
    y = y
    Calls = {c1, c2, c3}
    Sessions = {s1, s2, s3}
    Session <- ForkedSessions
    Tokens = {x, y}
    Prompts <- PrefixPrompts
    UseCache <- AllCached
    MaxNew = 1
    NumLayers = 2
    Capacity = 1
    Serial = FALSE
SPECIFICATION Spec
SYMMETRY ForkSymmetry
CHECK_DEADLOCK FALSE
INVARIANTS
    SnapshotsExact
PROPERTIES
    ImplementsGeneration
