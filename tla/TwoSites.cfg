SPECIFICATION CollectedSpec
CONSTANTS
  a = a
  b = b
  j1 = j1
  j2 = j2
  Site = {a, b}
  Job = {j1, j2}
  NoSite = NoSite
  NoJob = NoJob
  Pages <- TwoSitesPages
  Unreadable <- TwoSitesUnreadable
  ResultsWanted = 2
  MaxRetries = 0
  QueueSize = 1
  AckMode = "explicit"
  Failures = {"fatal"}
  MaxRestarts = 1
SYMMETRY TwoSitesSymmetry
INVARIANTS
  SiteCompleteCounts
  CompleteMeansAllDelivered
  SearchCompleteIsLast
  FinishAccepts
  OutcomeIsAcknowledged
PROPERTIES
  CompletedStays
