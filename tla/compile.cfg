\* Decoders, ONNX and StableHLO graphs through every pass, for every choice of modes, targets and quantization.
CONSTANTS
    Models <- SomeModels
    Options <- SomeOptions
SPECIFICATION Spec
CHECK_DEADLOCK FALSE
INVARIANTS
    TypeOK
    MeaningPreserved
    RuntimesAgree
    TypesMatchRuntime
    PlanHoldsGraph
    ScheduleExact
