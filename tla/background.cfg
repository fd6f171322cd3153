\* Every part of the background work, with two worker processes.
SPECIFICATION Spec
CONSTANTS
  Workers = {w1, w2}
  MaxFaults = 2
  MaxMails = 1
  MailAttempts = 5
  Codes = {c1, c2}
  MaxJobs = 2
  MaxHours = 2
  RunAttempts = 2
  RunStallLimit = 1
  NoRunner = none
  MaxEvents = 3
  EventAttempts = 2
  EventStalls = 1
  MaxStripeFaults = 1
  NoWorker = none
  MaxBuckets = 2
  MaxDispatchFaults = 1
  WebhookEvents = {1}
  Receivers = {r1, r2}
  NoEvent = 0
  JobAttempts = 2
  JobStalls = 1
  NoProcess = none
  MaxJobFaults = 2
  Systems = 3
INVARIANTS
  TypeOK
  OneBodyPerMail
  OneOpenJob
  ScheduledOncePerHour
  RowTellsTheRun
  RowCoversApplied
  RowMatchesObject
  EvidenceIsStored
PROPERTIES
  EveryMailEnds
  FreshJobIsResolved
  StripeIsMirrored
  EveryEventIsApplied
  DueConnectionIsDispatched
  EveryEventIsSynced
  ApprovedEndsPartial
CHECK_DEADLOCK FALSE
