------------------------------ MODULE MCLinuxBus ------------------------------
(* An instance of LinuxBus for TLC: a host bridge and two cards of one kind, *)
(* the first with a BAR as large as the lengths can count, the second with   *)
(* attributes that cannot be read; or one card and the host bridge, last.    *)
EXTENDS LinuxBus

CONSTANTS linux, virtual, t1, t2

\* Both search and use what they found, one goes on after that.
Calls == [t \in Threads |-> IF t = t1 THEN 3 ELSE 2]

Names == [d \in Drivers |-> IF d = linux THEN "native" ELSE "virtual"]

Functions == [d \in Drivers |-> IF d = linux THEN {"config", "switch"} ELSE {}]

Line(start, stop) == [start |-> start, stop |-> stop, io |-> FALSE, wide |-> FALSE]

Host == [addr |-> <<0, 0, 0, 0>>, attrs |-> Fields, lines |-> <<>>,
         id |-> [f \in Fields |-> 1]]

CardMayFail == {<<0, 1, 0, 0>>}

CardA == [addr |-> <<0, 1, 0, 0>>, attrs |-> Fields, lines |-> <<Line(4, 7), Line(8, 23)>>,
          id |-> [f \in Fields |-> 2]]

CardB == [addr |-> <<1, 1, 0, 0>>, attrs |-> {"vendor"}, lines |-> <<Line(0, 0)>>,
          id |-> [f \in Fields |-> 2]]

\* Up the bus from the host bridge, and down to it.
BusListings == {<<Host, CardA, CardB>>, <<CardA, Host>>}

ASSUME OrderAssumption == InBusOrder

\* Two labels for the slot of one card.
TwoSlots == << [label |-> "s1", addr |-> <<0, 1, 0>>], [label |-> "s2", addr |-> <<0, 1, 0>>] >>

Vendor(v) == [f \in Fields |-> IF f = "vendor" THEN v ELSE AnyId]

Exact(v) == [f \in Fields |-> v]

\* One device support searches with a callback, maps a BAR and connects an
\* interrupt.
CallsOfOne ==
  { FindCB(<<Vendor(2)>>),
    [op |-> "bar", bar |-> 0], [op |-> "isr"] }

\* The other one searches by slot and instance with a list that matches a card
\* twice, and by address, and uses the card in other ways too.
CallsOfOther ==
  { FindSpec(<<Exact(2), Vendor(2)>>,
             <<[key |-> "slot", value |-> "s1"], [key |-> "instance", value |-> 2], [key |-> "unknown"]>>),
    FindSpec(<<Vendor(2)>>, <<[key |-> "word"]>>),
    FindBDF(<<Vendor(2)>>, 257, 0, 0),
    [op |-> "bar", bar |-> 0], [op |-> "bar", bar |-> BarCount],
    [op |-> "config", offset |-> 1, width |-> 2], [op |-> "switch"] }

\* The older call, and two ways to write the same address.
ASSUME SameAddressAssumption ==
  \A n \in 0 .. 3 :
    /\ FindBDF(<<>>, 256 * n + 1, 0, 0) = FindSpec(<<>>, <<[key |-> "dbdf", value |-> <<n, 1, 0, 0>>]>>)
    /\ FindBDF(<<>>, n, 0, 0) = FindSpec(<<>>, <<[key |-> "bdf", value |-> <<n, 0, 0>>]>>)

Plan == [t \in Threads |-> IF t = t1 THEN CallsOfOne ELSE CallsOfOther]
=============================================================================
