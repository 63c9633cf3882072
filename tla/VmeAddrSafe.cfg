\* A32 on a 32 bit CPU: the space is as large as size_t.  A board answers at 2.
SPECIFICATION Spec
CONSTANTS
  a = a
  b = b
  Owners = {a, b}
  Last = 3
  Modulo = 4
  Devices = {2}
  Alignments = {1, 2}
INVARIANTS Disjoint FreeMerged AddressesKept AnswersTrue
PROPERTIES SpaceSpec
CHECK_DEADLOCK FALSE
