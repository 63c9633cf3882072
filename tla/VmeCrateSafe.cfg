\* Two device supports or shells on four kinds of systems.  They make MaxCalls
\* calls, and may then stop.
SPECIFICATION Spec
CONSTANTS
  Threads = {d1, d2}
  Vectors = {v1, v2}
  d1 = d1
  d2 = d2
  v1 = v1
  v2 = v2
  Cards <- Crate
  Reach <- Bridge
  Answers <- Answering
  Word = 67108864
  Accesses <- Typed
  LevelOf <- OneLevel
  Requests <- Levels
  Functions = {7, 8}
  Windows <- Asked
  DevLists <- Lists
  Slots <- SlotsAsked
  Builds = {"RTEMS", "vxWorks", "vxWorksPPC", "vxWorksX86"}
  MaxCalls = 4
INVARIANTS IInv RoraOnce CsrExact
SYMMETRY Symmetry
CHECK_DEADLOCK FALSE
