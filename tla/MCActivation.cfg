\* Three requests, two failing steps and one killed run.
SPECIFICATION FairSpec
CONSTANTS
  MaxRequests = 3
  Kept = 2
  None = None
  MaxFaults = 2
  MaxCrashes = 1
INVARIANTS
  ReleasesAreSound
  FailureIsUndone
PROPERTIES
  PlainRollbackGoesBack
  InboxFrees
CHECK_DEADLOCK FALSE
