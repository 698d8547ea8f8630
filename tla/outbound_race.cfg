\* A dispatch is retried while its first call is under way.
CONSTANTS
  c1 = c1
  c2 = c2
  d1 = d1
  d2 = d2
  Caller = {c1, c2}
  Dispatch = {d1}
  Reconcilable = {d1}
  Amount <- UnitAmounts
  Cap = 2
  MaxConcurrency = 1
  ResumeTargets = {"PENDING", "APPROVED"}
  Limit <- RacingLimit
SPECIFICATION Spec
INVARIANT EffectOnce
CHECK_DEADLOCK FALSE
