\* The same swaps under READ COMMITTED: a stored checkpoint is overwritten.
CONSTANTS
  Task = {t1}
  Client = {c1, c2}
  Lock = {}
  MaxRetries = 1
  Ops = {"transition", "hold"}
  Targets = {"GRANTED"}
  Serializable = FALSE
  MaxAttempts = 3
  MaxServiceRetries = 1
  Amounts = {1}
  Cap = 1
  MaxSpent = 1
  MaxVersion = 2
  MaxFailures = 1
  MaxRestarts = 0
SPECIFICATION Spec
PROPERTY HistoryAppendOnly
CHECK_DEADLOCK FALSE
