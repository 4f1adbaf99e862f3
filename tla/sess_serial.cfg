\* Four calls, one after another, two of them on one session.
CONSTANTS
    c1 = c1
    c2 = c2
    c3 = c3
    c4 = c4
    s1 = s1
    s2 = s2
    s3 = s3
    x = x
    y = y
    Calls = {c1, c2, c3, c4}
    Sessions = {s1, s2}
    Session <- SerialSessions
    Tokens = {x, y}
    Prompts <- NestedPrompts
    UseCache <- AllCached
    MaxNew = 1
    NumLayers = 2
    Capacity = 2
    Serial = TRUE
SPECIFICATION Spec
CHECK_DEADLOCK FALSE
INVARIANTS
    TypeOK
    LongestPrefixFound
    LeastRecentFirst
    NeverRaises
    OwnedContextExact
