\* GGUF files cut after any byte, and .npz directories; any order of calls.
CONSTANTS
    Sources <- AllSources
    Quants = {"none", "int4", "fp8"}
    EpsInverse = 256
    ZeroLimit = 16384
SPECIFICATION WeightsSpec
INVARIANTS
    ReadsWhatWasWritten
    OneWeight
    RowsRoundTrip
CHECK_DEADLOCK FALSE
