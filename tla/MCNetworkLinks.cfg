\* Two nodes that must agree: one submit, with a crash and the expiry of the
\* codes at any time.
SPECIFICATION Spec
CONSTANTS
  Validators = {v1, v2}
  Quorums <- Majorities
  RequestIds = {r1}
  Absent = Absent
  Nobody = Nobody
  CodeSpace = 2
  CodeStrings <- FirstCodes
  Retention = 2
  CodeLifetime = 1
  Epoch = 3
  MaxClock = 4
  MaxSubmits = 1
  MaxCrashes = 1
  MaxFaults = 0
SYMMETRY NodeSymmetry
INVARIANTS
  IndInv
  LinkNeedsCodes
  MappingInv
PROPERTIES
  NodesKeepPromise
