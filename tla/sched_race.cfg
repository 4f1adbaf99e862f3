\* Another thread cancels while the loop runs; a session may raise.
CONSTANTS
    r1 = r1
    r2 = r2
    r3 = r3
    r4 = r4
    a = a
    b = b
    c = c
    d = d
    Threads = {run, main}
    Submitters = {main}
    Cancellers = {main}
    Runners = {run}
    Requests = {r1, r2, r3}
    Ids = {a, b, c}
    Id <- ThreeIds
    Priority <- RacePriorities
    MaxNew <- RaceLengths
    PromptLen <- ThreePrompts
    Calls <- RaceCalls
    MaxBatch = 2
    MaxQueue = 2
    MaxTokens = 9
    Aging = TRUE
    Preemptive = TRUE
    RuntimeFails = TRUE
SPECIFICATION Spec
INVARIANTS
    NoLoss
    SlotBound
