\* Two callback priorities and five interrupts.
SPECIFICATION FairSpec
CONSTANTS
  low = low
  high = high
  Nowhere = Nowhere
  Prios = {low, high}
  Modulo = 4
  MaxIrqs = 5
INVARIANTS WaitForExact QueuedIsSeen QuietIsCurrent
PROPERTIES InterruptIsSeen
CHECK_DEADLOCK FALSE
