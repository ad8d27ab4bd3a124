SPECIFICATION Spec
CONSTANTS
  a = a
  b = b
  c = c
  p = p
  q = q
  u = u
  v = v
  w = w
  Runs = {a, b, c}
  None = None
  RegistryOf <- SharedByTwo
  NKeys = 2
  Bodies = {u, v, w}
  Secrets = {w}
  Absent = Absent
  TTL = 2
  Interval = 1
  Reacquires = 2
  OldDocs = {"data", "held", "released"}
  MaxTime = 3
  MaxFaults = 1
  MaxCrashes = 1
CHECK_DEADLOCK FALSE
SYMMETRY Symmetry
CONSTRAINT Scenarios
INVARIANT TypeOK CutoverMeansComplete AtMostOneKeyAfterTakeover
PROPERTY LiveLeaseIsKept LostMeansTaken NoCutoverAfterTakeover
