SPECIFICATION Spec
CONSTANTS
  v1 = v1
  v2 = v2
  c1 = c1
  c2 = c2
  i1 = i1
  i2 = i2
  Keys = {"k"}
  Bodies = {v1, v2}
  Absent = Absent
  Empty = Empty
  None = None
  Clients = {c1, c2}
  Instances = {i1, i2}
  InstanceOf <- TwoProcesses
  Generation <- NoGenerations
  TTLs = {1}
  ReplaceMayFail = TRUE
  MaxTime = 2
  MaxLocks = 3
  MaxJournal = 3
  MaxCrashes = 2
  MaxTorn = 1
  MaxPolls = 1
CHECK_DEADLOCK FALSE
SYMMETRY Symmetry
CONSTRAINT Scenarios
INVARIANT TypeOK AckedSurvives FencesNeverRegress AdvisoryHolderOwnsFence
PROPERTY NoLostUpdate ReadsNeverGoBack LandsUnderCurrentFence
