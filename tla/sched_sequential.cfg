\* One thread submits, cancels and runs, in any order: the documented use.
CONSTANTS
    r1 = r1
    r2 = r2
    r3 = r3
    r4 = r4
    a = a
    b = b
    c = c
    d = d
    Threads = {main}
    Submitters = {main}
    Cancellers = {main}
    Runners = {main}
    Requests = {r1, r2, r3, r4}
    Ids = {a, b, c, d}
    Id <- FourIds
    Priority <- FourPriorities
    MaxNew <- FourLengths
    PromptLen <- FourPrompts
    Calls <- PlainCalls
    MaxBatch = 2
    MaxQueue = 3
    MaxTokens = 3
    Aging = TRUE
    Preemptive = TRUE
    RuntimeFails = FALSE
SPECIFICATION Spec
INVARIANTS
    TypeOK
    AtMostOnce
    ResultsExact
    NoIdleSlotWhilePaused
    CountersBalance
