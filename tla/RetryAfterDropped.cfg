SPECIFICATION Spec
CONSTANTS
  u1 = u1
  u2 = u2
  User = {u1}
  Factory <- Factories
  Ability = {"nothing", "filters"}
  Default <- NoCapabilities
  Override = {2}
  MaxEpoch = 1
  MaxRetryAfter = 6
  RetryBackoff = 1
  Statuses = {429}
  Waits <- SomeWaits
  MaxRetries = 1
  Nothing = Nothing
INVARIANTS
  RetryAfterHonoured
