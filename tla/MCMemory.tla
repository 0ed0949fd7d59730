------------------------------ MODULE MCMemory ------------------------------
(* Instances for TLC of address translation, of the physical address map   *)
(* and of the numbering of PCI buses.  They are independent of each other: *)
(* part says which of the three moves.                                     *)
EXTENDS Mmu, AddressMap, PciBuses
VARIABLE part

(* Translation: two segments that share the slots of one page index, so    *)
(* that primary slots and the single way are fought over; both may name    *)
(* the same virtual segment.  Block 2 is a device, block 3 is unmapped.    *)
MCRegion == [b \in 0 .. 3 |-> CASE b = 2 -> "mmio" [] b = 3 -> "none" [] OTHER -> "mem"]

MCMsrValues == {[ir |-> TRUE, dr |-> TRUE, pr |-> FALSE], [ir |-> FALSE, dr |-> TRUE, pr |-> TRUE]}

Sr(vsid, ks, kp, n, t) == [vsid |-> vsid, ks |-> ks, kp |-> kp, n |-> n, t |-> t]
MCSrValues == {Sr(0, FALSE, TRUE, FALSE, FALSE), Sr(3, FALSE, FALSE, FALSE, TRUE)}

Pte(valid, block, pp, r, c) == [valid |-> valid, phys |-> <<block, 0>>, pp |-> pp, r |-> r, c |-> c]
MCPteValues == {Pte(FALSE, 0, 0, FALSE, FALSE), Pte(TRUE, 1, 1, FALSE, FALSE)}

Bat(ks, kp, prot, seg, block) ==
    [valid |-> TRUE, ks |-> ks, kp |-> kp, prot |-> prot, seg |-> seg, block |-> block]
MCBatValues == {Bat(TRUE, FALSE, 1, 0, 2)}

(* Address map: a device with two register apertures of one size, as BAR0  *)
(* and BAR2 of the NV40 are, a second one with a ROM, and GrandCentral.    *)
MCSizeOf == [a0 |-> 1, a2 |-> 1, brom |-> 2, gc |-> 2]
MCDevOf  == [a0 |-> "A", a2 |-> "A", brom |-> "B", gc |-> "G"]

(* Buses: two bridges behind the host, three behind these, one deeper.     *)
MCBridgeDevs == [host |-> <<"p", "q">>, p |-> <<"r", "s">>, q |-> <<"t">>, r |-> <<>>,
                 s |-> <<"u">>, t |-> <<>>, u |-> <<>>]

-----------------------------------------------------------------------------
\* A part that does not move has one initial state.
StillMmu == is_601 /\ sdr1 = 0 /\ pte = [p \in DOMAIN pte |-> Pte(FALSE, 0, 0, FALSE, FALSE)]

MemoryInit ==
    /\ MmuInit /\ MapInit /\ BusInit
    /\ part \in {"mmu", "map", "buses"}
    /\ part # "mmu" => StillMmu

MemoryNext ==
    \/ part = "mmu"   /\ MmuNext /\ UNCHANGED <<part, mapVars, busVars>>
    \/ part = "map"   /\ MapNext /\ UNCHANGED <<part, mmuVars, busVars>>
    \/ part = "buses" /\ BusNext /\ UNCHANGED <<part, mmuVars, mapVars>>

MemorySpec == MemoryInit /\ [][MemoryNext]_<<part, mmuVars, mapVars, busVars>>
=============================================================================
