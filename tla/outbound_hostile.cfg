\* Two callers of one dispatch, an operator, a fault and a restart.
CONSTANTS
  c1 = c1
  c2 = c2
  d1 = d1
  d2 = d2
  Caller = {c1, c2}
  Dispatch = {d1}
  Reconcilable = {d1}
  Amount <- UnitAmounts
  Cap = 1
  MaxConcurrency = 1
  ResumeTargets = {"PENDING", "APPROVED"}
  Limit <- HostileLimit
SPECIFICATION FairSpec
INVARIANTS
  SuccessIsReal
  DecidedSinceRestart
PROPERTY CallsEnd
CHECK_DEADLOCK FALSE
