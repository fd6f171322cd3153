\* One job under fairness: failures, crashes, lost acknowledgements, retries.
SPECIFICATION FairSpec
CONSTANTS
  j1 = j1
  r1 = r1
  r2 = r2
  o1 = o1
  o2 = o2
  j2 = j2
  Jobs = {j1}
  Runs = {r1, r2}
  NoRun = NoRun
  NoJob = NoJob
  Owners = {o1, o2}
  NoOwner = NoOwner
  Owner <- MCOwnerEach
  From <- MCNull
  To <- MCNull
  MaxHead = 1
  PageSize = 1
  OffsetCursor = FALSE
  CountsPages = TRUE
  MoreStreams = FALSE
  MaxAttempts = 2
  MaxStalls = 1
  Faults = {"error", "lostAck", "crash"}
  MaxFaults = 3
  MaxRequests = 2
PROPERTY
  RetryableFailureIsRetried
CHECK_DEADLOCK FALSE
