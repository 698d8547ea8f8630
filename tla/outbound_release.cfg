\* The provider rejects a dispatch.
CONSTANTS
  c1 = c1
  c2 = c2
  d1 = d1
  d2 = d2
  Caller = {c1}
  Dispatch = {d1}
  Reconcilable = {}
  Amount <- UnitAmounts
  Cap = 2
  MaxConcurrency = 1
  ResumeTargets = {"PENDING", "APPROVED"}
  Limit <- HeldLimit
SPECIFICATION Spec
INVARIANT FailureReleases
CHECK_DEADLOCK FALSE
