\* One room, one click, sent up to three times.
SPECIFICATION FairSpec
CONSTANTS
  Room = {r1}
  MaxIntents = 1
  Sends = 3
  MaxRevision = 3
  None = None
INVARIANTS
  TypeOK
PROPERTIES
  SessionIsKept
  KeepsPromise
  ResendsStayInRound
  EveryChangeReachesThePage
CHECK_DEADLOCK FALSE
