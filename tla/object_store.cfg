SPECIFICATION Spec
CONSTANTS
  v1 = v1
  v2 = v2
  c1 = c1
  c2 = c2
  i1 = i1
  i2 = i2
  Keys = {"k"}
  Bodies = {v1, v2}
  Absent = Absent
  None = None
  Clients = {c1, c2}
  Instances = {i1, i2}
  InstanceOf <- TwoProcesses
  Generation <- NoGenerations
  TTLs = {2}
  MaxTime = 2
  MaxLocks = 2
  MaxAttempts = 2
  MaxPolls = 1
  MaxFailures = 1
CHECK_DEADLOCK FALSE
SYMMETRY Symmetry
CONSTRAINT Scenarios
INVARIANT TypeOK EntryIsDurable
PROPERTY ImplementsContract FencesNeverRegress
