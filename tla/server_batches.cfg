\* Three batch requests without priorities on one scheduler, whose queue has room for two prompts.
CONSTANTS
    r1 = r1
    r2 = r2
    r3 = r3
    r4 = r4
    a = a
    b = b
    c = c
    d = d
    Threads = {h1, h2}
    Submitters = {h1, h2}
    Cancellers = {}
    Runners = {h1, h2}
    Requests = {r1, r2, r3, r4}
    Ids = {a, b, c, d}
    Id <- PostIds
    Priority <- PostPriorities
    MaxNew <- PostLengths
    PromptLen <- PostPrompts
    Calls <- ThreePosts
    MaxBatch = 2
    MaxQueue = 2
    MaxTokens = 3
    Aging = TRUE
    Preemptive = TRUE
    RuntimeFails = TRUE
SPECIFICATION ServerSpec
INVARIANTS
    EachAnsweredOnce
PROPERTIES
    EveryPostAnswered
CHECK_DEADLOCK FALSE
