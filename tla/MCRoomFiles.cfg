\* Two requests at a time, one of which may die.
SPECIFICATION FairSpec
CONSTANTS
  Request = {r1, r2}
  File = {f1, f2, f3, f4}
  None = None
  MaxCrashes = 1
INVARIANTS
  BuildsArePrivate
PROPERTIES
  NeverReplaced
  DirectoryIsCleaned
VIEW MCView
