\* The offerer, whose connection fails once or twice; delays 1, 2, 3.
CONSTANTS
  Offerer = TRUE
  Backoff = TRUE
  MaxAttempts = 2
  LongestDelay = 3
  InitialDelay = 1
  MaxDelay = 3
  Scaled <- Doubled
  EventCap = 2
  MaxChanges = 4
SPECIFICATION FairSpec
PROPERTY FailureIsResolved
