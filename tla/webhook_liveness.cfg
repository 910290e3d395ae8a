SPECIFICATION FairSpec
CONSTANTS
  e1 = e1  e2 = e2  w1 = w1  w2 = w2  p1 = p1  feed_synced = feed_synced
  Endpoints = {e1}
  BadUrl = {}
  Events = {feed_synced}
  Workers = {w1}
  Callers = {}
  Testers = {}
  Url <- MCUrl
  MaxAttempts = 8
  DisableAfter = 20
  EmitLimit = 20
  BatchLimit = 50
  MaxEmits = 1
  MaxDispatches = 0
  MaxLost = 1
INVARIANTS OutageSurvived
PROPERTIES EveryDeliverySettles
CHECK_DEADLOCK FALSE
