CONSTANTS
    Settings <- TwoBackends
    Default <- Here
    Pages = {"home", "tasks", "directives", "sandbox", "telemetry", "settings"}
    Keys = {"all", "d1"}
    Has <- HereAlone
    Own = {"all"}
    Slots <- Overlapping
    MaxVersion = 1
    MaxSteps = 2
SPECIFICATION Spec
INVARIANTS
    ListenersAgree
    OneTimerEach
PROPERTY ViewsCatchUp
CHECK_DEADLOCK FALSE
