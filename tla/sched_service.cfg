\* Two submitters, one of which may wait for room, against a fair loop with two slots.
CONSTANTS
    r1 = r1
    r2 = r2
    r3 = r3
    r4 = r4
    a = a
    b = b
    c = c
    d = d
    Threads = {run, s1, s2}
    Submitters = {s1, s2}
    Cancellers = {}
    Runners = {run}
    Requests = {r1, r2, r3}
    Ids = {a, b, c}
    Id <- ThreeIds
    Priority <- ThreePriorities
    MaxNew <- LongLengths
    PromptLen <- LongPrompts
    Calls <- WaitingCalls
    MaxBatch = 2
    MaxQueue = 1
    MaxTokens = 3
    Aging = TRUE
    Preemptive = TRUE
    RuntimeFails = FALSE
SPECIFICATION FairSpec
INVARIANTS
    AdmissionNeverStale
PROPERTIES
    FifoWithinPriority
    ImplementsLifecycle
    EveryRequestAnswered
    BlockedSubmitReturns
