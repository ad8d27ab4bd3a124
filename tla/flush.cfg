SPECIFICATION FairSpec
CONSTANTS
  a = a
  b = b
  s = s
  t = t
  x = x
  y = y
  z = z
  None = None
  Writers = {a, b}
  Sections = {s, t}
  Contents = {x, z}
  Secrets = {z}
  MaxAttempts = 2
  ParkTries = 2
  MaxCalls = 1
  MaxOthers = 1
CHECK_DEADLOCK FALSE
CONSTRAINT UpToNames
INVARIANT TypeOK NothingLostSilently
PROPERTY OverwritesOnlyWhatWasSeen FlushesEnd
