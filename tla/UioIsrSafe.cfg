\* Two driver threads with a handler each, on one device.
SPECIFICATION Spec
CONSTANTS
  c1 = c1
  c2 = c2
  h1 = h1
  h2 = h2
  i1 = i1
  i2 = i2
  NoOne = NoOne
  Clients = {c1, c2}
  Handlers = {h1, h2}
  Isrs = {i1, i2}
  Callers <- OwnCallers
INVARIANTS NoUseAfterFree IInv
PROPERTIES StopIsFinal ServiceSpec
CHECK_DEADLOCK FALSE
