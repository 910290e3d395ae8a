SPECIFICATION FairSpec
CONSTANTS
  a1 = a1  a2 = a2  q1 = q1  q2 = q2  u1 = u1  detail = detail  trust = trust
  Processes = {a1, a2}
  Requests = {q1}
  Publishers = {u1}
  Keys = {detail, trust}
  Tags = {"apps"}
  TagsOf <- MCOneTag
  Ttl <- MCOneTtl
  MaxEntries = 1
  Latency = 1
  Horizon = 3
  MaxWrites = 1
INVARIANTS TypeOK StalenessBounded
PROPERTIES EveryoneCatchesUp
