\* Two calls on the template session at once, a third on its fork.
CONSTANTS
    c1 = c1
    c2 = c2
    c3 = c3
    c4 = c4
    s1 = s1
    s2 = s2
    s3 = s3
    x = x
    y = y
    Calls = {c1, c2, c3}
    Sessions = {s1, s2}
    Session <- SharedSession
    Tokens = {x, y}
    Prompts <- MixedPrompts
    UseCache <- AllCached
    MaxNew = 1
    NumLayers = 1
    Capacity = 2
    Serial = FALSE
SPECIFICATION Spec
CHECK_DEADLOCK FALSE
INVARIANTS
    OwnedContextExact
