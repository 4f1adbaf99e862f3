\* Appends of one to three tokens to two layers, prefixes restored, policies replaced.
CONSTANTS
    Layers = {0, 1}
    PageSize = 2
    PageBytes = 8
    Policies <- SomePolicies
    MaxRun = 4
    MaxTokens = 6
SPECIFICATION Spec
INVARIANTS
    TypeOK
    PagesTile
    PageIdsUnique
    MarkersNamePages
    OldestSpilledFirst
PROPERTIES
    BudgetKept
