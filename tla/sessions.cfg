\* Two sessions of one user, two handlers at a time, three requests.
SPECIFICATION Spec
CONSTANTS
  MaxSessions = 2
  Slots = 2
  MaxRequests = 3
  MaxFaults = 1
  WebLocks = {1}
  Expiring = {1}
  OtherKinds = {"refresh", "select"}
  Kinds = {"refresh", "select", "verify", "confirm", "disable", "step-up",
           "reauth", "logout", "logout-all", "revoke", "reset", "list"}
INVARIANTS
  TypeOK
  RevocationStands
  StepUpStaysInItsWorkspace
  NoFalseReuse
PROPERTIES
  TokenIsSpentOnce
CHECK_DEADLOCK FALSE
