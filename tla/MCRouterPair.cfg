\* Two requests share the passes of the job; timers accept their codes.
SPECIFICATION FairSpec
CONSTANTS
  Absent = Absent
  r1 = r1
  r2 = r2
  v1 = v1
  v2 = v2
  v3 = v3
  s1 = s1
  s2 = s2
  RequestIds = {r1, r2}
  OwnRequests = {r1}
  PeerRequests = {r2}
  Submits = {}
  Validators = {v1, v2}
  Quorums <- Majority
  Mode = "NoSMSNoCode"
  Me = v1
  Indexes <- One
  Registries <- Steady1
  CodeStrings <- RightCode
  CodeSpace = 2
  CodeLifetime = 1
  Retention = 1
  Epoch = 2
  InitWaiting = 0
  Interval = 2
  MaxClock = 3
  MaxCrashes = 0
PROPERTIES
  JobsDrain
  TimerStandsIn
