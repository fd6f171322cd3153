\* One session, two tabs: a refresh, and "sign out everywhere" meanwhile.
SPECIFICATION Spec
CONSTANTS
  MaxSessions = 1
  Slots = 2
  MaxRequests = 2
  MaxFaults = 0
  WebLocks = {1}
  Expiring = {}
  OtherKinds = {}
  Kinds = {"refresh", "logout-all"}
INVARIANT
  RevokedStaysRevoked
CHECK_DEADLOCK FALSE
