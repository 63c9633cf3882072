\* Records that share registers are processed by scan threads.
\* When no record could be initialised nothing is processed.
SPECIFICATION Spec
CONSTANTS
  r1 = r1
  r2 = r2
  r3 = r3
  Records = {r1, r2, r3}
  Cpus = {"big", "little", "ppc", "x86"}
  ByteBits = 2
  BarSize = 4
  Wrap = 16
  Databases <- Links
  Values <- Inputs
INVARIANTS IInv NothingLost ReadsTruth
CHECK_DEADLOCK FALSE
