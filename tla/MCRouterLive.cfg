\* A request of a peer, a submit and a crash under fairness; random codes.
SPECIFICATION FairSpec
CONSTANTS
  Absent = Absent
  r1 = r1
  r2 = r2
  v1 = v1
  v2 = v2
  v3 = v3
  s1 = s1
  s2 = s2
  RequestIds = {r1}
  OwnRequests = {}
  PeerRequests = {r1}
  Submits = {s1}
  Validators = {v1, v2}
  Quorums <- Majority
  Mode = "YesSMSUnknownCode"
  Me = v1
  Indexes <- One
  Registries <- Steady1
  CodeStrings <- RightCode
  CodeSpace = 2
  CodeLifetime = 1
  Retention = 0
  Epoch = 2
  InitWaiting = 0
  Interval = 2
  MaxClock = 4
  MaxCrashes = 1
PROPERTIES
  KeepsPromise
  QuorumLeadsToFinished
