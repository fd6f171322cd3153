\* One job that reads a second stream after the one whose records are modelled.
SPECIFICATION Spec
CONSTANTS
  j1 = j1
  r1 = r1
  r2 = r2
  o1 = o1
  o2 = o2
  j2 = j2
  Jobs = {j1}
  Runs = {r1, r2}
  NoRun = NoRun
  NoJob = NoJob
  Owners = {o1, o2}
  NoOwner = NoOwner
  Owner <- MCOwnerEach
  From <- MCNull
  To <- MCNull
  MaxHead = 2
  PageSize = 1
  OffsetCursor = FALSE
  CountsPages = TRUE
  MoreStreams = TRUE
  MaxAttempts = 2
  MaxStalls = 1
  Faults = {}
  MaxFaults = 0
  MaxRequests = 0
INVARIANT
  WatermarkCoversSource
CHECK_DEADLOCK FALSE
