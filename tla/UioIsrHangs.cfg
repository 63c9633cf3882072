\* One driver thread and one handler.
SPECIFICATION FairSpec
CONSTANTS
  c1 = c1
  c2 = c2
  h1 = h1
  h2 = h2
  i1 = i1
  i2 = i2
  NoOne = NoOne
  Clients = {c1}
  Handlers = {h1}
  Isrs = {i1}
  Callers <- SharedCallers
PROPERTIES DisconnectReturns
CHECK_DEADLOCK FALSE
