\* Two packs, one of them bundled, two runs of the commands, two rebuilds.
SPECIFICATION Spec
CONSTANTS
  Pack = {a, b}
  Bundled = {b}
  Run = {c1, c2}
  Builder = {l1, l2}
  Retries = 2
  Earlier = Earlier
  None = None
INVARIANTS
  PacksAreWhole
  IndexFollowsCatalog
  PublishedIsServed
SYMMETRY MCSymmetry
CHECK_DEADLOCK FALSE
