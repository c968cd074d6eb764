\* One client with two intents, each sent up to twice.
SPECIFICATION FairSpec
CONSTANTS
  MaxIntents = 2
  Sends = 2
  MaxRevision = 3
  MaxLate = 1
  None = None
INVARIANTS
  TypeOK
  ToldIsTrue
PROPERTIES
  KeepsPromise
  ViewNeverGoesBack
  EveryChangeIsSeen
\* A client that left a room that is gone has nothing more to do.
CHECK_DEADLOCK FALSE
