\* Two threads map an I/O port BAR and two memory BARs.
SPECIFICATION Spec
CONSTANTS
  t1 = t1
  t2 = t2
  NoOne = NoOne
  Null = Null
  Failed = Failed
  Error = Error
  Threads = {t1, t2}
  BarCount = 3
  Kind <- IoMem
  Kernels = {"compact", "generic_msi"}
  Users <- Shared
INVARIANTS IInv PointerValid LockCounted ShowsItsBar
CHECK_DEADLOCK FALSE
