\* A broadcast request, random codes, a registry that changes, and a crash.
SPECIFICATION Spec
CONSTANTS
  Absent = Absent
  r1 = r1
  r2 = r2
  v1 = v1
  v2 = v2
  v3 = v3
  s1 = s1
  s2 = s2
  RequestIds = {r1}
  OwnRequests = {}
  PeerRequests = {r1}
  Submits = {s1}
  Validators = {v1, v2}
  Quorums <- Majority
  Mode = "YesSMSUnknownCode"
  Me = v1
  Indexes <- Two
  Registries <- Leaving
  CodeStrings <- Strings
  CodeSpace = 2
  CodeLifetime = 1
  Retention = 0
  Epoch = 2
  InitWaiting = 1
  Interval = 2
  MaxClock = 5
  MaxCrashes = 1
INVARIANTS
  TypeOK
  IndInv
PROPERTIES
  CodeStable
  VoteNeedsCode
