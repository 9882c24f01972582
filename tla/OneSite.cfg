SPECIFICATION FairSpec
CONSTANTS
  a = a
  b = b
  j1 = j1
  j2 = j2
  j3 = j3
  j4 = j4
  Site = {a}
  Job = {j1, j2, j3, j4}
  NoSite = NoSite
  NoJob = NoJob
  Pages <- OneSitePages
  Unreadable <- OneSiteUnreadable
  ResultsWanted = 2
  MaxRetries = 1
  QueueSize = 2
  AckMode = "implicit"
  Failures = {"retryable", "fatal", "abrupt", "store", "conflict"}
  MaxRestarts = 1
INVARIANTS
  NoJobLost
  CompletedIsExhausted
  WithinLimit
PROPERTIES
  ImplementsDelivery
  NoRedelivery
  CursorFollowsProgress
  IterationEnds
