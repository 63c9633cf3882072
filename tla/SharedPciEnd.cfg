\* A driver searches with a list that DEVPCI_END ends.
\* A system whose scan ran out of memory does nothing more.
SPECIFICATION Spec
CONSTANTS
  NoOne = NoOne
  Threads = {t1, t2}
  BarCount = 3
  Width = 4
  Buses <- Crates
  Builds <- Systems
  Implements <- Tables
  Handlers = {isr}
  Fields = {"device", "vendor"}
  AnyId = AnyId
  Lists <- IdLists
  Behind <- Memories
  SearchFirst = TRUE
INVARIANT FindAsDocumented
CHECK_DEADLOCK FALSE
SYMMETRY ThreadSymmetry
