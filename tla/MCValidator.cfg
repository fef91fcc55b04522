\* A request that is registered or broadcast, stops, kills and restarts.
SPECIFICATION ProcessSpec
CONSTANTS
  Absent = Absent
  r1 = r1
  r2 = r2
  v1 = v1
  v2 = v2
  s1 = s1
  c1 = c1
  c2 = c2
  RequestIds = {r1}
  OwnRequests = {}
  PeerRequests = {r1}
  Submits = {s1}
  Validators = {v1, v2}
  Quorums <- Majority
  Mode = "YesSMSUnknownCode"
  Me = v1
  Indexes <- Places
  Registries <- Steady
  CodeStrings <- Strings
  CodeSpace = 1
  CodeLifetime = 1
  Retention = 0
  Epoch = 1
  InitWaiting = 1
  Interval = 1
  MaxClock = 3
  MaxCrashes = 2
  Signals = {c1}
  Timeout = 1
  MaxConnections = 1
INVARIANTS
  JobIsPass
  SecondCodeNeedsKill
CHECK_DEADLOCK FALSE
