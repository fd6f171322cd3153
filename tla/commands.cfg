\* Two checkouts and two saves, two requests at a time, two faults.
SPECIFICATION Spec
CONSTANTS
  checkout1 = checkout1
  checkout2 = checkout2
  save1 = save1
  save2 = save2
  Checkouts = {checkout1, checkout2}
  Rerunnable = {checkout1, checkout2}
  Saves = {save1, save2}
  Commands = {checkout1, checkout2, save1, save2}
  NoCheckout = none
  Slots = 2
  MaxRequests = 4
  MaxFaults = 2
SYMMETRY Alike
INVARIANTS
  OneExecution
  SuccessIsBacked
  NoLostUpdate
  OneOpenCheckout
  PaidOnce
CHECK_DEADLOCK FALSE
