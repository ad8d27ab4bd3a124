SPECIFICATION FairSpec
CONSTANTS
  v1 = v1
  v2 = v2
  c1 = c1
  c2 = c2
  i1 = i1
  i2 = i2
  Keys = {"k"}
  Bodies = {v1, v2}
  Absent = Absent
  None = None
  Clients = {c1, c2}
  Instances = {i1, i2}
  InstanceOf <- TwoProcesses
  Generation <- RisingBodies
  TTLs = {1}
  MaxTime = 1
  MaxLocks = 2
  Lost = Lost
  MaxPolls = 1
  MaxFailures = 1
CHECK_DEADLOCK FALSE
CONSTRAINT Scenarios
INVARIANT SettleSeesWinner
PROPERTY ImplementsContract GenerationsRise CallsReturn
