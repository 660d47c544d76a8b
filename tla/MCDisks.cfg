SPECIFICATION Spec
CONSTANTS
  HdRequests = {h1, h2}
  HdSectors = {0, 2, 4}
  HdNrSects = 4
  HdMaxErrors = 3
  TimerClients = {t1, t2, t3, t4}
  TimerMax = 3
  TIME_REQUESTS = 3
  r1 = r1
  r2 = r2
  FdRequests = {r1, r2}
  FdAsk <- MCFdAsk
  FdDrives = {0, 1}
  FdTracks = {1}
  FdBad = 2
  FdMaxErrors = 1
  FdSpinUp = 2
  FdOffDelay = 4
  FdOpTicks = 1
  FdFaults = 1
  FdChanges = 1
  FdAnyTime = FALSE
INVARIANTS DisksTypeOK HdOutcomeHonest  TimersNeverEarly
 
CHECK_DEADLOCK FALSE
