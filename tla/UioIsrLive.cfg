\* One driver thread, one handler that is connected again and again.
SPECIFICATION FairSpec
CONSTANTS
  c1 = c1
  c2 = c2
  h1 = h1
  h2 = h2
  i1 = i1
  i2 = i2
  NoOne = NoOne
  Clients = {c1}
  Handlers = {h1}
  Isrs = {i1, i2}
  Callers <- SharedCallers
PROPERTIES RunningThreadStops EveryInterruptSeen
CHECK_DEADLOCK FALSE
