------------------------------ MODULE AddressMap ------------------------------
(***************************************************************************)
(* The physical address map of MemCtrlBase (devices/memctrl/memctrlbase.cpp) *)
(* and the base address registers that move PCI devices about in it        *)
(* (devices/common/pci/pcibase.cpp, and change_one_bar of the devices).    *)
(* address_map is a sequence of regions ordered by start; find_range takes *)
(* the first that holds the address.  An address is a block of the size of *)
(* the smallest aperture, and 0 means "not set", as in the code.           *)
(***************************************************************************)
EXTENDS Naturals, Sequences, SequencesExt

CONSTANTS Top,      \* the addresses are 0 .. Top - 1
          RamSize,  \* RAM is the region 0 .. RamSize - 1
          Bars,     \* the base address registers of all devices
          DevOf,    \* the device of each
          SizeOf,   \* the size each decodes, a power of two
          Roms,     \* those that are expansion ROM registers
          Fixed     \* those of GrandCentral, which never gives a region back

VARIABLES address_map, bars,
          aperture,  \* the place each register asked for last
          granted    \* history: the registers whose region must be there, see Grants
mapVars == <<address_map, bars, aperture, granted>>

ASSUME MapAssumption ==
    /\ Top \in Nat /\ RamSize \in 1 .. Top /\ Roms \cup Fixed \subseteq Bars
    /\ \A b \in Bars : SizeOf[b] \in 1 .. Top

Sizing == Top  \* all ones, written to find out the size

Entry(start, size, dev) == [start |-> start, end |-> start + size - 1, dev |-> dev]
Overlaps(e, f) == e.end >= f.start /\ e.start <= f.end

IsRangeFree(m, e) == \A i \in DOMAIN m : ~Overlaps(e, m[i])

\* std::upper_bound: the first region that starts after the address.
UpperBound(m, start) ==
    LET after == {i \in 1 .. Len(m) : m[i].start > start}
    IN  IF after = {} THEN Len(m) + 1 ELSE Min(after)

\* add_mem_region: nothing is added over an existing region.
AddRegion(m, e) ==
    IF IsRangeFree(m, e) THEN InsertAt(m, UpperBound(m, e.start), e) ELSE m

\* remove_mmio_region.  The code goes through the whole map; regions do not
\* overlap, so there is no second one of this range.
RemoveRegion(m, e) == RemoveFirst(m, e)

FindRange(m, addr) == SelectInSeq(m, LAMBDA e : addr >= e.start /\ addr <= e.end)

ApertureOf(b, addr) == Entry(addr, SizeOf[b], DevOf[b])

\* Registers of one device and one size, as BAR0 and BAR2 of the NV40 are.  At
\* one address remove_mmio_region, which knows a region by its range and its
\* device, cannot tell the regions of the two apart.
Twins(b, c) == b # c /\ DevOf[b] = DevOf[c] /\ SizeOf[b] = SizeOf[c]

\* The history when b is set to addr, whose range is free or not: a register is
\* granted its place if the range was free and no twin had asked for it, until
\* the register is set again or a twin asks for the same place.
Grants(b, addr, free) ==
    [c \in Bars |-> IF c = b
                    THEN free /\ \A d \in Bars : Twins(b, d) => aperture[d] # addr
                    ELSE granted[c] /\ ~(Twins(b, c) /\ aperture[c] = addr)]

\* Mutant: the old region stays.
MoveKeepsOld(b, addr) ==
    /\ address_map' = IF addr = 0 THEN address_map ELSE AddRegion(address_map, ApertureOf(b, addr))
    /\ granted' = Grants(b, addr, addr # 0 /\ IsRangeFree(address_map, ApertureOf(b, addr)))
    /\ aperture' = [aperture EXCEPT ![b] = addr]

\* change_one_bar, and map_exp_rom_mem and unmap_exp_rom_mem, which do the same:
\* the old region goes before the new one is asked for, and aperture records
\* what was asked for, granted or not.
Move(b, addr) ==
    LET m == IF aperture[b] = 0 THEN address_map ELSE RemoveRegion(address_map, ApertureOf(b, aperture[b]))
    IN  /\ address_map' = IF addr = 0 THEN m ELSE AddRegion(m, ApertureOf(b, addr))
        /\ granted' = Grants(b, addr, addr # 0 /\ IsRangeFree(m, ApertureOf(b, addr)))
        /\ aperture' = [aperture EXCEPT ![b] = addr]

\* GrandCentral::notify_bar_change: the old region stays, and 0 is asked for like
\* any other address.
MoveFixed(b, addr) ==
    /\ address_map' = AddRegion(address_map, ApertureOf(b, addr))
    /\ granted' = Grants(b, addr, IsRangeFree(address_map, ApertureOf(b, addr)))
    /\ aperture' = [aperture EXCEPT ![b] = addr]

Decoded(b, value) == value - (value % SizeOf[b])
Stay == UNCHANGED <<address_map, aperture, granted>>

\* set_bar_value: the device is not told of a sizing write.
SetBarValue(b, value) ==
    /\ b \notin Roms
    /\ bars' = [bars EXCEPT ![b] = IF value = Sizing THEN Sizing ELSE Decoded(b, value)]
    /\ IF value = Sizing \/ aperture[b] = Decoded(b, value) THEN Stay
       ELSE IF b \in Fixed THEN MoveFixed(b, Decoded(b, value)) ELSE Move(b, Decoded(b, value))

\* pci_wr_exp_rom_bar: bit 0 enables the ROM.
WriteRomBar(b, value, enable) ==
    LET addr == IF enable THEN Decoded(b, value) ELSE 0
    IN  /\ b \in Roms
        /\ bars' = [bars EXCEPT ![b] = IF value = Sizing THEN Sizing ELSE Decoded(b, value)]
        /\ IF value = Sizing \/ aperture[b] = addr THEN Stay ELSE Move(b, addr)

MapInit ==
    /\ address_map = <<Entry(0, RamSize, "ram")>>
    /\ bars = [b \in Bars |-> 0]
    /\ aperture = [b \in Bars |-> 0]
    /\ granted = [b \in Bars |-> FALSE]

MapNext == \E b \in Bars, value \in 0 .. Top :
               \/ SetBarValue(b, value)
               \/ \E enable \in BOOLEAN : WriteRomBar(b, value, enable)

MapSpec == MapInit /\ [][MapNext]_mapVars

-----------------------------------------------------------------------------
(* Properties. *)

\* However the guest moves the devices about, sizes them and lays one over
\* another: no two regions of the map overlap, a region belongs to a register
\* that its device decodes now (GrandCentral's old places excepted), and a
\* register set while its range was free is answered there by its device,
\* whatever is refused in the meantime, until it is moved again or a twin, of the
\* same device and size, asks for the same place.  For twins the code does not
\* do more: BAR2 of an NV40 set to where BAR0 is gets no region, and when it is
\* moved on, remove_mmio_region takes the region of BAR0.
RegionsFollowBars ==
    /\ \A i, j \in DOMAIN address_map : Overlaps(address_map[i], address_map[j]) => i = j
    /\ \A i \in DOMAIN address_map \ {1} : \E b \in Bars :
          /\ address_map[i].dev = DevOf[b]
          /\ b \in Fixed \/ address_map[i] = ApertureOf(b, aperture[b])
    /\ \A b \in Bars : granted[b] =>
          \A addr \in aperture[b] .. aperture[b] + SizeOf[b] - 1 :
             /\ FindRange(address_map, addr) # 0
             /\ address_map[FindRange(address_map, addr)] = ApertureOf(b, aperture[b])
=============================================================================
