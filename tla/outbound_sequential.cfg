\* One caller, two dispatches, lost answers, holds and resumptions.
CONSTANTS
  c1 = c1
  c2 = c2
  d1 = d1
  d2 = d2
  Caller = {c1}
  Dispatch = {d1, d2}
  Reconcilable = {d1}
  Amount <- UnitAmounts
  Cap = 3
  MaxConcurrency = 1
  ResumeTargets = {"PENDING", "APPROVED"}
  Limit <- SequentialLimit
SPECIFICATION Spec
INVARIANTS
  TypeOK
  EffectOnce
  RepeatsWereResumed
  SpendCovered
CHECK_DEADLOCK FALSE
