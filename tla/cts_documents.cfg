\* Every operation, blind saves included, under READ COMMITTED.
CONSTANTS
  Task = {t1}
  Client = {c1, c2}
  Lock = {l1}
  MaxRetries = 1
  Ops = {"resume", "advance", "failure", "recover", "retry", "lock", "governance",
         "reserve", "settle"}
  Targets = {"PENDING", "GRANTED", "FAILED"}
  Serializable = FALSE
  MaxAttempts = 1
  MaxServiceRetries = 1
  Amounts = {1}
  Cap = 2
  MaxSpent = 1
  MaxVersion = 3
  MaxFailures = 2
  MaxRestarts = 1
SPECIFICATION Spec
SYMMETRY Symmetry
CONSTRAINT LedgerEarly
INVARIANTS
  TypeOK
  AuditTrailLegal
  ReasonsMatchStatus
  RetriesCounted
  AttemptsBounded
  CommittedBacked
CHECK_DEADLOCK FALSE
