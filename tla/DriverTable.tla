----------------------------- MODULE DriverTable -----------------------------
(* How the functions of pciApp/devLibPCI.c forward a call with a device to   *)
(* the table of an OS driver, which may leave functions out, and how the     *)
(* drivers match a device with a list of identifiers.                        *)
EXTENDS Integers

CONSTANTS
  BarCount,   \* PCIBARCOUNT
  Implements, \* Implements[d]: the optional functions of driver d
  Fields,     \* the members of epicsPCIID
  AnyId       \* DEVPCI_ANY_*

\* devLibPCIMatch(): an entry of a list against the identifiers of a device.
Match(entry, id) == \A f \in Fields : entry[f] \in {AnyId, id[f]}

\* checkCfgAccess(): the access must be aligned, and the function be there.
CheckCfgAccess(d, offset, width) ==
  IF offset % width # 0 THEN "S_dev_badArgument"
  ELSE IF "config" \notin Implements[d] THEN "S_dev_badFunction" ELSE "ok"

\* devPCIEnableInterrupt(), devPCIDisableInterrupt(): the test is of the
\* configuration access, the call is of another function.
CheckSwitch(d) == IF "config" \in Implements[d] THEN "ok" ELSE "S_dev_badFunction"

\* What the library answers to a request by itself; "ok": the driver is called.
Refusal(d, r) ==
  CASE r.op = "bar" -> IF r.bar >= BarCount THEN "S_dev_badArgument" ELSE "ok"
    [] r.op = "config" -> CheckCfgAccess(d, r.offset, r.width)
    [] r.op = "switch" -> CheckSwitch(d)
    [] OTHER -> "ok"

\* The driver is called through a pointer it left empty.
NullCall(d, r) ==
  /\ Refusal(d, r) = "ok"
  /\ r.op \in {"config", "switch"}
  /\ r.op \notin Implements[d]
=============================================================================
