\* The documentation says that a host who leaves stops hosting.
SPECIFICATION Spec
CONSTANTS
  MaxIntents = 1
  Sends = 2
  MaxRevision = 3
  MaxLate = 0
  None = None
INVARIANT
  LeaverDoesNotHost
CHECK_DEADLOCK FALSE
