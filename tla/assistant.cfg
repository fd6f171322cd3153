\* Two generation runs of one workspace, two workers.
SPECIFICATION Spec
CONSTANTS
  MaxGenerations = 2
  Slots = 2
  MaxAttempts = 2
  MaxStalls = 1
  MaxFaults = 2
  Troubled = {1}
INVARIANTS
  TypeOK
  ExclusiveWhileLeased
  CancelStands
  OneActiveRun
  CompletedIsAnswered
  PaidAnswerIsCharged
PROPERTIES
  OutcomeIsFinal
  EveryRunSettles
CHECK_DEADLOCK FALSE
