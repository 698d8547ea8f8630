CONSTANTS
    MaxGestures = 2
    MaxMounts = 2
    Previews = {p1, p2}
    DevItems = {w1}
    Decisions = {"APPROVE", "REJECT"}
    Stock = d0
    Ids = {d1, d2}
    None = None
SYMMETRY Symmetry
SPECIFICATION Spec
INVARIANTS
    ShownIsBacked
    BusyMeansPending
    BatchCovers
    RunsWereAsked
    CreatedOnce
    OneRowPerTask
    ReceiptsAreReal
CHECK_DEADLOCK FALSE
