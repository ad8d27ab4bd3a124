SPECIFICATION Spec
CONSTANTS
  v1 = v1
  v2 = v2
  c1 = c1
  c2 = c2
  i1 = i1
  i2 = i2
  Keys = {"k"}
  Bodies = {v1, v2}
  Absent = Absent
  None = None
  Clients = {c1, c2}
  Instances = {i1, i2}
  InstanceOf <- TwoProcesses
  Generation <- NoGenerations
  TTLs = {1}
  MaxTime = 1
  MaxLocks = 1
  MaxAttempts = 1
  MaxPolls = 0
  MaxFailures = 0
CHECK_DEADLOCK FALSE
PROPERTY NoLandingAfterExpiry
