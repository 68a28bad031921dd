\* The offerer with two attempts; delays 5, 3, 2: the first exceeds the maximum.
CONSTANTS
  Offerer = TRUE
  Backoff = TRUE
  MaxAttempts = 2
  LongestDelay = 5
  InitialDelay = 5
  MaxDelay = 3
  Scaled <- Reduced
  EventCap = 2
  MaxChanges = 8
SPECIFICATION FairSpec
INVARIANTS
  AnnouncedInOrder
  DelayFollowsAttempt
PROPERTIES
  AttemptHasCause
  ShutdownEnds
  SignalingCloseEnds
