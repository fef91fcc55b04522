\* A request that arrives while the job is at the end of a period.
SPECIFICATION FairSpec
CONSTANTS
  Absent = Absent
  r1 = r1
  r2 = r2
  v1 = v1
  v2 = v2
  v3 = v3
  s1 = s1
  s2 = s2
  RequestIds = {r1}
  OwnRequests = {r1}
  PeerRequests = {}
  Submits = {}
  Validators = {v1}
  Quorums <- Majority
  Mode = "NoSMSKnownCode"
  Me = v1
  Indexes <- One
  Registries <- Alone
  CodeStrings <- RightCode
  CodeSpace = 2
  CodeLifetime = 1
  Retention = 1
  Epoch = 2
  InitWaiting = 0
  Interval = 2
  MaxClock = 3
  MaxCrashes = 0
PROPERTIES
  RegisterIsSent
