SPECIFICATION Spec
CONSTANTS
  j1 = j1
  j2 = j2
  j3 = j3
  j4 = j4
  j5 = j5
  Bad = Bad
  NoJob = NoJob
  Board = {"indeed", "zip_recruiter"}
  Job = {j1, j2, j3, j4, j5}
  Listings <- StableListings
  Offsets = {0, 1, 3}
  PageSize = 2
  ResultsWanted = 3
  MaxPages = 3
  PageCap = 3
  QueueSize = 2
  Turnover = FALSE
  MaxRestarts = 1
INVARIANT
  OffsetApplied
