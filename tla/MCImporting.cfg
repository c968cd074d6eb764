\* Two packs, two runs that want both in opposite order.
SPECIFICATION Spec
CONSTANTS
  a = a
  b = b
  i1 = i1
  i2 = i2
  Pack = {a, b}
  Bundled = {a, b}
  Importer = {i1, i2}
  Wanted <- WhatTheyWant
  Inode = {n1, n2, n3, n4}
  None = None
INVARIANTS
  RollbackIsExact
PROPERTIES
  ImportsAreNotOverwritten
SYMMETRY MCSymmetry
CHECK_DEADLOCK FALSE
