SPECIFICATION Spec
CONSTANTS
  e1 = e1  e2 = e2  w1 = w1  w2 = w2  p1 = p1  feed_synced = feed_synced
  Endpoints = {e1}
  BadUrl = {}
  Events = {feed_synced}
  Workers = {w1, w2}
  Callers = {}
  Testers = {}
  Url <- MCUrl
  MaxAttempts = 2
  DisableAfter = 2
  EmitLimit = 1
  BatchLimit = 1
  MaxEmits = 2
  MaxDispatches = 0
  MaxLost = 2
SYMMETRY Symmetry
INVARIANTS TypeOK RowsExclusive SentWasReceived DeadWasExhausted RetryBudget
PROPERTIES WorkerDisablesOnDeath
CHECK_DEADLOCK FALSE
