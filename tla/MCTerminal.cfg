\* Three revisions, two options, prompts for one answer or two.
SPECIFICATION FairSpec
CONSTANTS
  a = a
  b = b
  Option = {a, b}
  Courses <- ThreeCourses
  Sends = 2
  MaxRevision = 3
  MaxQueue = 2
  None = None
INVARIANTS
  ChosenIsOnOffer
  EventsBringTheTable
PROPERTIES
  LeaveTrapsNobody
\* A closed table has nothing more to do.
CHECK_DEADLOCK FALSE
