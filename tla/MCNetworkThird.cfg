\* Three nodes, the third of which need not agree and may refuse.
SPECIFICATION FairSpec
CONSTANTS
  Validators = {v1, v2, v3}
  Quorums = {{v1, v2}}
  RequestIds = {r1}
  Absent = Absent
  Nobody = Nobody
  CodeSpace = 1
  CodeStrings <- EqualCodes
  Retention = 2
  CodeLifetime = 1
  Epoch = 3
  MaxClock = 3
  MaxSubmits = 1
  MaxCrashes = 0
  MaxFaults = 0
INVARIANTS
  NodesEarn
PROPERTIES
  NetworkLinks
  GoodSubmitLinks
