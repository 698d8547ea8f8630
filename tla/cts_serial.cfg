\* Swaps only, on a database that refuses an UPDATE of a row changed since
\* the SELECT of its transaction.
CONSTANTS
  Task = {t1}
  Client = {c1, c2}
  Lock = {}
  MaxRetries = 1
  Ops = {"transition", "hold", "resume", "failure", "recover"}
  Targets = {"PENDING", "GRANTED", "IN_PROGRESS"}
  Serializable = TRUE
  MaxAttempts = 2
  MaxServiceRetries = 1
  Amounts = {1}
  Cap = 1
  MaxSpent = 1
  MaxVersion = 3
  MaxFailures = 2
  MaxRestarts = 1
SPECIFICATION FairSpec
PROPERTIES
  ImplementsLifecycle
  HistoryAppendOnly
  CallsReturn
CHECK_DEADLOCK FALSE
