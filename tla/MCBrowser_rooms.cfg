\* Two rooms: the page may go to the other while its click is under way, and the end of
\* the first room then forgets the session of the second.  Ends in a counterexample.
SPECIFICATION Spec
CONSTANTS
  Room = {r1, r2}
  MaxIntents = 1
  Sends = 2
  MaxRevision = 2
  None = None
PROPERTIES
  SessionIsKept
CHECK_DEADLOCK FALSE
