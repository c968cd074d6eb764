\* One room, three players of whom two are steady, one round.
SPECIFICATION FairSpec
CONSTANTS
  Answer <- MCAnswer
  Prompt = {q1}
  None = None
  Slots <- MCSlots
  HandSize = 2
  MinPlayers = 2
  MaxPlayers = 3
  Deals <- MCDeals
  Steady = {1, 2}
PROPERTIES
  SilenceIsPassedOver
  RoundsFinish
\* A room really stops: once its file is gone nothing more happens to it.
CHECK_DEADLOCK FALSE
