\* A peer and one that may come, a submit, a failure, and two changes: moves,
\* removals, hosts that stop or answer in the place of another, restarts.
SPECIFICATION FairSpec
CONSTANTS
  v1 = v1
  v2 = v2
  v3 = v3
  e2 = e2
  e3 = e3
  Validators = {v1, v2, v3}
  Me = v1
  Endpoints = {e2, e3}
  NoEndpoint = NoEndpoint
  PeerObjects = {o1, o2, o3}
  Submits = {s1}
  Job = Job
  Nobody = Nobody
  InitialRegistry <- Pair
  InitialHosts <- PairAtHome
  MaxChanges = 2
  MaxFailures = 1
INVARIANTS
  IndInv
  ListIsRegistry
PROPERTIES
  AbnormalIsKept
  HealthyPeerReturns
  SilentPeerIsDropped
