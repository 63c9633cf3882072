\* Two device supports search a bus with a host bridge and two cards.
SPECIFICATION FairSpec
CONSTANTS
  t1 = t1
  t2 = t2
  linux = linux
  virtual = virtual
  NoOne = NoOne
  NoDriver = NoDriver
  NoDevice = NoDevice
  NoAddr = NoAddr
  NoSlot = NoSlot
  AnyId = AnyId
  Threads = {t1, t2}
  Drivers = {linux, virtual}
  Linux = linux
  NameOf <- Names
  Native = "native"
  Implements <- Functions
  Fields = {"vendor", "device"}
  BarCount = 2
  PageSize = 4
  LenMod = 16
  Listings <- BusListings
  Slots <- TwoSlots
  Requests <- Plan
  MaxCalls <- Calls
  MayFail <- CardMayFail
INVARIANTS IInv FoundIsInstance ListMatchesBus
PROPERTIES ServiceSpec CallsReturn
CHECK_DEADLOCK FALSE
