SPECIFICATION Spec
CONSTANTS
  v1 = v1
  v2 = v2
  s1 = s1
  s2 = s2
  r1 = r1
  r2 = r2
  Bodies = {v1, v2}
  Absent = Absent
  None = None
  Servers = {s1}
  RegistryOf <- OneRegistry
  MaxLocks = 1
CHECK_DEADLOCK FALSE
INVARIANT NoToolBeforeAck
