\* Two threads probe BARs, access the configuration space and use interrupts.
\* A system whose scan ran out of memory does nothing more.
SPECIFICATION Spec
CONSTANTS
  NoOne = NoOne
  Threads = {t1, t2}
  BarCount = 3
  Width = 4
  Buses <- Crates
  Builds <- Systems
  Implements <- Tables
  Handlers = {isr}
  Fields = {"device", "vendor"}
  AnyId = AnyId
  Lists <- IdLists
  Behind <- Memories
  SearchFirst = TRUE
INVARIANTS IInv ToldTheTruth StaysConnected
CHECK_DEADLOCK FALSE
SYMMETRY ThreadSymmetry
