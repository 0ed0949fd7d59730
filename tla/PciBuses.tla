------------------------------- MODULE PciBuses -------------------------------
(***************************************************************************)
(* Configuration cycles through PCI bridges (devices/common/pci/pcihost.cpp *)
(* and pcibridgebase.cpp) while the firmware numbers the buses.  A cycle   *)
(* for a bus goes down the tree of bridges by their secondary and          *)
(* subordinate bus numbers, which the firmware is still writing, with such *)
(* cycles.                                                                 *)
(***************************************************************************)
EXTENDS Naturals, Sequences, FiniteSets

CONSTANTS Bridges,    \* the bridges below the host
          Host,
          BridgeDevs, \* bridge_devs of the host and of each bridge
          MaxBus      \* 255

VARIABLES secondary_bus, subordinate_bus,
          scan,       \* external: the buses being scanned, the host's first
          scanned,    \* external: the bridges that have been met
          last_bus    \* external: the last number given
busVars == <<secondary_bus, subordinate_bus, scan, scanned, last_bus>>

Buses == Bridges \cup {Host}

\* pci_register_device puts a bridge on one bus, once.
ASSUME BridgeTree ==
    /\ IsFiniteSet(Bridges) /\ MaxBus \in Nat /\ Cardinality(Bridges) <= MaxBus
    /\ Host \notin Bridges /\ BridgeDevs \in [Buses -> Seq(Bridges)]
    /\ \A b \in Bridges : \E x \in Buses : \E i \in DOMAIN BridgeDevs[x] : BridgeDevs[x][i] = b
    /\ \A x, y \in Buses : \A i \in DOMAIN BridgeDevs[x], j \in DOMAIN BridgeDevs[y] :
          BridgeDevs[x][i] = BridgeDevs[y][j] => x = y /\ i = j

\* Mutant: the subordinate bus is not looked at.
LeadsAnywhere(b, bus) == secondary_bus[b] <= bus /\ secondary_bus[b] > 0

\* pci_find_device: the first bridge that has the bus or leads to it decides.
LeadsTo(b, bus) == /\ secondary_bus[b] <= bus
                   /\ secondary_bus[b] = bus \/ subordinate_bus[b] >= bus

Leading(x, bus) == {i \in DOMAIN BridgeDevs[x] : LeadsTo(BridgeDevs[x][i], bus)}
FirstLeading(x, bus) == BridgeDevs[x][CHOOSE i \in Leading(x, bus) : \A j \in Leading(x, bus) : i <= j]

FindBus(bus) ==
    LET from[x \in Buses] ==
            IF Leading(x, bus) = {} THEN Host
            ELSE IF secondary_bus[FirstLeading(x, bus)] = bus THEN FirstLeading(x, bus)
            ELSE from[FirstLeading(x, bus)]
    IN  IF bus = 0 THEN Host ELSE from[Host]

BusOf(x) == IF x = Host THEN 0 ELSE secondary_bus[x]

\* pci_cfg_write of PCI_CFG_PRIMARY_BUS, by a cycle for the bus of x: the bridge
\* in the same slot of the bus that the cycle finds.
Written(x, b) ==
    LET i == CHOOSE i \in DOMAIN BridgeDevs[x] : BridgeDevs[x][i] = b
        y == FindBus(BusOf(x))
    IN  IF i \in DOMAIN BridgeDevs[y] THEN {BridgeDevs[y][i]} ELSE {}

SetBuses(x, b, sec, sub) ==
    /\ secondary_bus' = [c \in Bridges |-> IF c \in Written(x, b) THEN sec ELSE secondary_bus[c]]
    /\ subordinate_bus' = [c \in Bridges |-> IF c \in Written(x, b) THEN sub ELSE subordinate_bus[c]]

\* The firmware (external): a bridge gets the next number and leads to all the
\* numbers above it until what is behind it has been scanned.
Descend ==
    LET x == scan[Len(scan)]
    IN  \E i \in DOMAIN BridgeDevs[x] :
          LET b == BridgeDevs[x][i]
          IN  /\ b \notin scanned
              /\ SetBuses(x, b, last_bus + 1, MaxBus)
              /\ scan' = Append(scan, b)
              /\ scanned' = scanned \cup {b}
              /\ last_bus' = last_bus + 1

Ascend ==
    LET b == scan[Len(scan)]
        x == scan[Len(scan) - 1]
    IN  /\ Len(scan) > 1
        /\ \A i \in DOMAIN BridgeDevs[b] : BridgeDevs[b][i] \in scanned
        /\ SetBuses(x, b, secondary_bus[b], last_bus)
        /\ scan' = SubSeq(scan, 1, Len(scan) - 1)
        /\ UNCHANGED <<scanned, last_bus>>

BusInit ==
    /\ secondary_bus = [b \in Bridges |-> 0] /\ subordinate_bus = [b \in Bridges |-> 0]
    /\ scan = <<Host>> /\ scanned = {} /\ last_bus = 0

BusNext == Descend \/ Ascend
BusSpec == BusInit /\ [][BusNext]_busVars

-----------------------------------------------------------------------------
(* Properties. *)

\* At every point of the scan, in whatever order the slots are visited and the
\* bridges were registered, a cycle for a number that has been given reaches the
\* bus that got it, and a cycle for a number not given reaches none.
BusesReached ==
    \A bus \in 1 .. MaxBus :
       IF bus \in {secondary_bus[b] : b \in scanned}
       THEN FindBus(bus) \in scanned /\ secondary_bus[FindBus(bus)] = bus
       ELSE FindBus(bus) = Host
=============================================================================
