\* Two nodes that must agree, and a client that submits again after a fault.
\* The clock stands still, so that no code expires.
SPECIFICATION FairSpec
CONSTANTS
  Validators = {v1, v2}
  Quorums <- Majorities
  RequestIds = {r1}
  Absent = Absent
  Nobody = Nobody
  CodeSpace = 1
  CodeStrings <- EqualCodes
  Retention = 2
  CodeLifetime = 1
  Epoch = 3
  MaxClock = 3
  MaxSubmits = 2
  MaxCrashes = 0
  MaxFaults = 1
INVARIANTS
  IndInv
  LinkNeedsCodes
PROPERTIES
  NodesKeepPromise
  GoodSubmitLinks
