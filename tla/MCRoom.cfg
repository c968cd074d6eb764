\* The safety of one room: three players, two rounds.
SPECIFICATION Spec
CONSTANTS
  Answer <- MCAnswer
  Prompt = {q1, q2}
  None = None
  Slots <- MCSlots
  HandSize = 2
  MinPlayers = 2
  MaxPlayers = 3
  Deals <- MCDeals
INVARIANTS
  TypeOK
  RoundIsSound
  BooksBalance
PROPERTIES
  RevisionFollowsTable
  DecisionsKept
  ImplementsTable
\* A room really stops: once its file is gone nothing more happens to it.
SYMMETRY MCSymmetry
VIEW MCView
CHECK_DEADLOCK FALSE
