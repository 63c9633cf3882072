----------------------------- MODULE MCSharedPci -----------------------------
(* Instances of SharedPci for TLC: a card with two functions and a gap, the  *)
(* second with a wide BAR, and a bridge.                                     *)
EXTENDS SharedPci, FiniteSets, TLC

\* A value with the four bits of n.
Word(n) == {i \in 0 .. 3 : (n \div 2 ^ i) % 2 = 1}
Mem(v) == [kind |-> "mem", size |-> 2, value |-> Word(v)]
Io(v) == [kind |-> "io", size |-> 1, value |-> Word(v)]
Wide(size, v) == [kind |-> "wide", size |-> size, value |-> Word(v)]
High(v) == [kind |-> "high", size |-> 0, value |-> Word(v)]
None == [kind |-> "mem", size |-> 2, value |-> {}]

Card(multi, irq, bars) == [id |-> [device |-> 5, vendor |-> 1], multi |-> multi, bridge |-> FALSE, irq |-> irq, bars |-> bars]
Bridge == [id |-> [device |-> 7, vendor |-> 1], multi |-> FALSE, bridge |-> TRUE, irq |-> 0, bars |-> <<Mem(8), None, Mem(12)>>]

Crates ==
  { (<<0, 0, 0>> :> Bridge
       @@ <<0, 1, 0>> :> Card(TRUE, 1, <<Io(6), Wide(3, 8), High(1)>>)
       @@ <<0, 1, 1>> :> Card(FALSE, 1, <<Mem(12), None, None>>)
       @@ <<0, 1, 3>> :> Card(FALSE, 1, <<Mem(4), None, None>>)),
    (<<0, 0, 0>> :> Card(FALSE, 0, <<None, Wide(4, 0), High(1)>>)
       @@ <<0, 0, 1>> :> Card(FALSE, 1, <<Mem(4), None, None>>)
       @@ <<1, 31, 0>> :> Card(TRUE, 1, <<Wide(2, 4), High(0), None>>)) }

\* A table that moves the first level only.
Moved == [i \in {0} |-> i + 2]
All == {"pciIntConnect", "pciIntDisconnect", "sysBusToLocalAdrs", "sysInumTbl", "sysInumTblNumEnt"}

Systems ==
  { [os |-> "vxWorks", symbols |-> All \cup {"pciIntDisconnect2"}, inum |-> Moved, space |-> TRUE, shared |-> TRUE, wide |-> FALSE],
    [os |-> "vxWorks", symbols |-> All \ {"sysInumTblNumEnt"}, inum |-> Moved, space |-> FALSE, shared |-> TRUE, wide |-> TRUE],
    [os |-> "vxWorks", symbols |-> {}, inum |-> Moved, space |-> TRUE, shared |-> TRUE, wide |-> FALSE],
    [os |-> "RTEMS", symbols |-> {}, inum |-> <<>>, space |-> FALSE, shared |-> TRUE, wide |-> FALSE],
    [os |-> "RTEMS", symbols |-> {}, inum |-> <<>>, space |-> FALSE, shared |-> FALSE, wide |-> FALSE] }

Id(device, vendor) == [device |-> device, vendor |-> vendor]
IdLists ==
  { <<Id(5, AnyId), Id(AnyId, 1), Id(0, 0)>>, <<Id(7, 1), Id(5, 2), Id(LastDevice, 0)>>, <<Id(7, 1), Id(0, 0)>> }
Memories == { <<Id(0, 0)>>, <<Id(5, 1), Id(0, 0)>> }

Tables == [d \in {"vxWorks", "RTEMS"} |-> IF d = "vxWorks" THEN {"config", "switch"} ELSE {"config"}]

ThreadSymmetry == Permutations(Threads)
=============================================================================
