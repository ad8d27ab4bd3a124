SPECIFICATION Spec
CONSTANTS
  a = a
  b = b
  c = c
  p = p
  q = q
  u = u
  v = v
  w = w
  Runs = {a, b}
  None = None
  RegistryOf <- SharedByTwo
  NKeys = 2
  Bodies = {v}
  Secrets = {}
  Absent = Absent
  TTL = 3
  Interval = 1
  Reacquires = 2
  OldDocs = {"data", "held", "released"}
  MaxTime = 5
  MaxFaults = 0
  MaxCrashes = 0
CHECK_DEADLOCK FALSE
INVARIANT TakeoverStopsWrites
