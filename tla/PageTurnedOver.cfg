SPECIFICATION Spec
CONSTANTS
  j1 = j1
  j2 = j2
  j3 = j3
  j4 = j4
  j5 = j5
  Bad = Bad
  NoJob = NoJob
  Board = {"indeed", "zip_recruiter", "glassdoor", "google", "bayt", "naukri", "bdjobs"}
  Job = {j1, j2, j3, j4, j5}
  Listings <- OtherListings
  Offsets = {0}
  PageSize = 2
  ResultsWanted = 4
  MaxPages = 3
  PageCap = 3
  QueueSize = 2
  Turnover = TRUE
  MaxRestarts = 1
PROPERTIES
  PageFollowsProgress
