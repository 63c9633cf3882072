\* One programmer that writes from the second erase block on; images of one and
\* of two program blocks, both padded, and one that is too long.
SPECIFICATION Spec
CONSTANTS
  p = p
  x = x
  y = y
  Progs = {p}
  Offset <- SecondBlock
  Capacity = 6
  Reach = 6
  EraseLen = 2
  BlockLen = 2
  Images <- SomeWords
  Zero = x
  Blank = Blank
  Garbage = Garbage
INVARIANTS IInv NoStaleAbort
PROPERTIES SuccessIsProgrammed CommandsInRange AbortEnds
CHECK_DEADLOCK FALSE
