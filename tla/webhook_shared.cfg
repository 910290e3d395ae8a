SPECIFICATION Spec
CONSTANTS
  e1 = e1  e2 = e2  w1 = w1  w2 = w2  p1 = p1  p2 = p2  feed_synced = feed_synced
  Endpoints = {e1, e2}
  BadUrl = {e2}
  Events = {feed_synced}
  Workers = {w1}
  Callers = {p1, p2}
  Testers = {p2}
  Url <- MCUrl
  MaxAttempts = 2
  DisableAfter = 2
  EmitLimit = 2
  BatchLimit = 2
  MaxEmits = 1
  MaxDispatches = 1
  MaxLost = 1
PROPERTIES ImplementsContract
CHECK_DEADLOCK FALSE
