--------------------------------- MODULE Mmu ---------------------------------
(***************************************************************************)
(* Address translation (cpu/ppc/ppcmmu.cpp): the block and page            *)
(* translations of the guest, and the software TLBs in front of them.      *)
(*                                                                         *)
(* Each side ("I" fetches, "D" data) has a table for each of three modes:  *)
(* 1 untranslated, 2 supervisor, 3 user.  A table has, for each page       *)
(* index, a primary slot (way 0) and the ways of the secondary TLB; a full *)
(* set may lose any way (TreeLru has the choice).  An effective address is *)
(* a page <<segment, index>>, a physical one a page <<block, index>>.      *)
(*                                                                         *)
(* The registers and the page tables are the guest's.  It must follow a    *)
(* change of a register by a context synchronisation and a change of a     *)
(* page table entry by tlbie; unsynced and unflushed record what it owes.  *)
(***************************************************************************)
EXTENDS Naturals, FiniteSets

CONSTANTS
    Segments, Indexes,  \* effective pages; segments also number the blocks
    Region,             \* what find_range says of a block: ram, mmio or none
    Ways,               \* the secondary TLB's TLB2_WAYS, numbered from 1
    Cpus,               \* values of is_601 to start from
    Vsids, Tables,      \* segment ids; page tables SDR1 may point at
    SrValues,           \* segment registers the guest may load
    PteValues,          \* page table entries the guest may write
    BatValues,          \* BAT registers the guest may load
    IoOverBlocks,       \* may the guest make a block-mapped segment I/O?
    MsrValues,          \* the MSRs the guest uses
    MaxChanges,         \* bound on the guest's changes of the context
    MaxMisses           \* bound on the refills

\* An I/O segment's id names the block it leads to.
ASSUME MmuAssumption ==
    /\ Region \in [DOMAIN Region -> {"mem", "mmio", "none"}]
    /\ \A v \in SrValues :
          /\ v \in [vsid : Vsids \cup DOMAIN Region, ks : BOOLEAN, kp : BOOLEAN,
                    n : BOOLEAN, t : BOOLEAN]
          /\ v.vsid \in IF v.t THEN DOMAIN Region ELSE Vsids
    /\ PteValues \subseteq [valid : BOOLEAN, phys : (DOMAIN Region) \X Indexes, pp : 0 .. 3,
                             r : BOOLEAN, c : BOOLEAN]
    /\ BatValues \subseteq [valid : BOOLEAN, ks : BOOLEAN, kp : BOOLEAN, prot : 0 .. 3,
                             seg : Segments, block : DOMAIN Region]
    /\ IoOverBlocks \in BOOLEAN

VARIABLES
    is_601, msr, sr, sdr1, bat, pte,
    tlb,        \* the slots of all TLBs
    tracked,    \* how often gTrackedIEntries, gTrackedDEntries hold a slot
    pending,    \* gPending{I,D}InvalidationSources
    callbacks,  \* gCtxSyncCallbacks, by the side each invalidates
    unsynced, unflushed, changes, misses

context == <<is_601, msr, sr, sdr1, bat>>
mmuVars == <<is_601, msr, sr, sdr1, bat, pte, tlb, tracked, pending, callbacks,
             unsynced, unflushed, changes, misses>>

Sides == {"I", "D"}
Pages == Segments \X Indexes
Slots == Sides \X (1 .. 3) \X Indexes \X ({0} \cup Ways)

Invalid == [tag |-> <<>>, src |-> "none", writable |-> FALSE, setC |-> FALSE,
            kind |-> "mem", phys |-> <<>>, tracked |-> FALSE]

Translated == {"BAT", "PAT"}  \* TLBE_FROM_TRANSLATION

\* mmu_change_mode: the table in use.
Mode(side) == IF ~(IF side = "I" THEN msr.ir ELSE msr.dr) THEN 1 ELSE IF msr.pr THEN 3 ELSE 2

Slot(side, ea, way) == <<side, Mode(side), ea[2], way>>

--------------------------------------------------------------------------------
(* The guest's translation, in one of the modes. *)

Key(mode, ks, kp) == IF mode = 3 THEN kp ELSE ks

\* access_conv: the protection of a 601 block, as a PowerPC one.
Prot601(key, prot) == IF key THEN <<0, 1, 2, 1>>[prot + 1] ELSE <<2, 2, 2, 1>>[prot + 1]

\* The block translation of a page: protection and physical page.
Block601(mode, ea) ==
    {[prot |-> Prot601(Key(mode, b.ks, b.kp), b.prot), phys |-> <<b.block, ea[2]>>] :
        b \in {x \in {bat["I"]} : x.valid /\ x.seg = ea[1] /\ ~sr[ea[1]].t}}

BlockPpc(side, mode, ea) ==
    {[prot |-> b.prot, phys |-> <<b.block, ea[2]>>] :
        b \in {x \in {bat[side]} : x.seg = ea[1] /\ Key(mode, x.ks, x.kp)}}

Block(side, mode, ea) == IF is_601 THEN Block601(mode, ea) ELSE BlockPpc(side, mode, ea)

PteOf(ea) == <<sdr1, sr[ea[1]].vsid, ea[2]>>

\* page_address_translation: the PTE's protection with the key, or none for
\* an access that raises ISI or DSI.
Page(side, mode, ea, write) ==
    LET s == sr[ea[1]]
        p == pte[PteOf(ea)]
        key == Key(mode, s.ks, s.kp)
        fault == \/ s.n /\ side = "I"
                 \/ ~p.valid
                 \/ key /\ p.pp = 0
                 \/ key /\ p.pp = 1 /\ write
                 \/ p.pp = 3 /\ write
    IN  IF s.t THEN {[phys |-> <<s.vsid, ea[2]>>, prot |-> 0, c |-> TRUE]}
        ELSE IF fault THEN {}
        ELSE {[phys |-> p.phys, prot |-> (IF key THEN 4 ELSE 0) + p.pp, c |-> p.c]}

\* and its update of the R and C bits, for an access that raises nothing.
Recorded(table, side, mode, ea, write) ==
    IF sr[ea[1]].t \/ Page(side, mode, ea, write) = {} THEN table
    ELSE [table EXCEPT ![PteOf(ea)].r = TRUE, ![PteOf(ea)].c = @ \/ write]

\* The translation of itlb2_refill and dtlb2_refill: the entry to cache, or
\* none when the access faults.
Translation(side, mode, ea, write) ==
    LET entry(src, phys, writable, setC) ==
          [tag |-> ea, src |-> src, phys |-> phys, writable |-> side = "D" /\ writable,
           setC |-> side = "D" /\ setC, kind |-> Region[phys[1]], tracked |-> FALSE]
    IN  IF mode = 1 THEN {entry("none", ea, TRUE, TRUE)}
        ELSE IF Block(side, mode, ea) # {}
          THEN {entry("BAT", b.phys, b.prot = 2, TRUE) :
                  b \in {x \in Block(side, mode, ea) : x.prot # 0 /\ ~(write /\ x.prot \in {1, 3})}}
          ELSE {entry("PAT", p.phys, p.prot \in {0, 1, 2, 6}, write \/ p.c) :
                  p \in Page(side, mode, ea, write)}

--------------------------------------------------------------------------------
(* The TLBs. *)

\* track_translated_entry, for an entry just written into a slot of m.
Track(m, s) ==
    IF m.tlb[s].src \notin Translated \/ m.tlb[s].tracked THEN m
    ELSE [m EXCEPT !.tlb[s].tracked = TRUE, !.tracked[s] = @ + 1]

\* Writing a slot keeps its tracked flag (refill, promote_tlb_entry).
Fill(m, s, entry) ==
    Track([m EXCEPT !.tlb[s] = [entry EXCEPT !.tracked = m.tlb[s].tracked]], s)

\* tlb2_target_entry: an invalid way first.
Targets(side, ea) ==
    LET set  == {Slot(side, ea, w) : w \in Ways}
        free == {s \in set : tlb[s].tag = <<>>}
    IN  IF free # {} THEN free ELSE set

Hits(side, ea, ways) == {s \in {Slot(side, ea, w) : w \in ways} : tlb[s].tag = ea}

Machine == [tlb |-> tlb, tracked |-> tracked, pte |-> pte]

Becomes(m) ==
    /\ tlb' = m.tlb
    /\ tracked' = m.tracked
    /\ pte' = m.pte
    /\ UNCHANGED <<context, pending, callbacks, unsynced, unflushed, changes>>

\* prepare_dtlb_write marks the entry of a slot, and on a primary hit the
\* secondary one as well.
Dirtied(m, ss) ==
    [m EXCEPT !.tlb = [s \in DOMAIN @ |->
        IF s \in ss THEN [@[s] EXCEPT !.setC = TRUE] ELSE @[s]]]

\* Mutant: the C bit is not recorded in the page table.
StoreHitUnrecorded(ea, s, ss) ==
    IF ~tlb[s].writable \/ tlb[s].setC THEN Machine ELSE Dirtied(Machine, ss)

\* A store through the entry of a slot: it raises DSI, or the slots of ss learn
\* that the C bit is set.
StoreHit(ea, s, ss) ==
    IF ~tlb[s].writable \/ tlb[s].setC \/ Page("D", Mode("D"), ea, TRUE) = {} THEN Machine
    ELSE Dirtied([Machine EXCEPT !.pte = Recorded(@, "D", Mode("D"), ea, TRUE)], ss)

\* Only memory is promoted into the primary TLB, and by a store only what it
\* may write.
Promote(m, side, ea, entry, write) ==
    IF entry.kind = "mem" /\ (write => entry.writable)
    THEN Fill(m, Slot(side, ea, 0), entry) ELSE m

\* mmu_translate_imem, mmu_read_vmem, mmu_write_vmem.
PrimaryHit(side, ea, write) ==
    /\ \E s \in Hits(side, ea, {0}) :
         Becomes(IF write THEN StoreHit(ea, s, {s} \cup Hits(side, ea, Ways)) ELSE Machine)
    /\ UNCHANGED misses

SecondaryHit(side, ea, write) ==
    /\ Hits(side, ea, {0}) = {}
    /\ \E s \in Hits(side, ea, Ways) :
         LET m == IF write THEN StoreHit(ea, s, {s}) ELSE Machine
         IN  Becomes(Promote(m, side, ea, m.tlb[s], write))
    /\ UNCHANGED misses

\* Unmapped pages are not cached, but a fetch from one empties its primary slot.
Miss(side, ea, write) ==
    /\ Hits(side, ea, {0} \cup Ways) = {}
    /\ misses < MaxMisses
    /\ misses' = misses + 1
    /\ \E e \in Translation(side, Mode(side), ea, write), s \in Targets(side, ea) :
         LET walked == [Machine EXCEPT !.pte =
                          IF e.src = "PAT" THEN Recorded(@, side, Mode(side), ea, write) ELSE @]
         IN  Becomes(CASE e.kind = "none" /\ side = "D" -> walked
                       [] e.kind = "none" /\ side = "I" -> Fill(walked, Slot(side, ea, 0), Invalid)
                       [] OTHER -> Promote(Fill(walked, s, e), side, ea, e, write))

Accesses(side, ea, write) ==
    PrimaryHit(side, ea, write) \/ SecondaryHit(side, ea, write) \/ Miss(side, ea, write)

\* ABORT_F ends the emulator on an instruction fetch from a device.
Fetch(ea) == /\ \A e \in Translation("I", Mode("I"), ea, FALSE) : e.kind # "mmio"
             /\ Accesses("I", ea, FALSE)
Load(ea)  == Accesses("D", ea, FALSE)
Store(ea) == Accesses("D", ea, TRUE)

--------------------------------------------------------------------------------
(* The guest's changes of the context. *)

Changing == /\ ~msr.pr
            /\ changes < MaxChanges
            /\ changes' = changes + 1
            /\ UNCHANGED misses

\* schedule_tlb_invalidation for some sides.
Schedule(sides, sources) ==
    /\ pending' = [s \in Sides |-> IF s \in sides THEN pending[s] \cup sources ELSE pending[s]]
    /\ callbacks' = callbacks \cup {s \in sides : pending[s] = {}}

\* mtsr, mtsrin and a write of SDR1: mmu_pat_ctx_changed.
Mtsr(seg, value) ==
    /\ Changing
    /\ value # sr[seg]
    /\ IoOverBlocks \/ ~(is_601 /\ value.t /\ bat["I"].valid /\ bat["I"].seg = seg)
    /\ sr' = [sr EXCEPT ![seg] = value]
    /\ Schedule(Sides, {"PAT"})
    /\ unsynced' = TRUE
    /\ UNCHANGED <<is_601, msr, sdr1, bat, pte, tlb, tracked, unflushed>>

MtSdr1(table) ==
    /\ Changing
    /\ table # sdr1
    /\ sdr1' = table
    /\ Schedule(Sides, {"PAT"})
    /\ unsynced' = TRUE
    /\ UNCHANGED <<is_601, msr, sr, bat, pte, tlb, tracked, unflushed>>

\* A write of a BAT register: ppc_ibat_update, ppc_dbat_update and
\* mpc601_bat_update, whose BATs serve both sides.
MtBat(side, value) ==
    LET sides == IF is_601 THEN Sides ELSE {side}
    IN  /\ Changing
        /\ value # bat[side]
        /\ bat' = [s \in Sides |-> IF s \in sides THEN value ELSE bat[s]]
        /\ Schedule(sides, Translated)
        /\ unsynced' = TRUE
        /\ UNCHANGED <<is_601, msr, sr, sdr1, pte, tlb, tracked, unflushed>>

\* mtmsr switches the tables at once and synchronises nothing.
Mtmsr(value) ==
    /\ ~msr.pr
    /\ msr' = value
    /\ UNCHANGED <<is_601, sr, sdr1, bat, pte, tlb, tracked, pending, callbacks,
                   unsynced, unflushed, changes, misses>>

\* tlb_invalidate_tracked_entries of the sides whose callback is queued.
Synced(sides) ==
    LET dropped == {s \in Slots : s[1] \in sides /\ tracked[s] > 0 /\ tlb[s].src \in pending[s[1]]}
        bare    == {s \in Slots : /\ s[1] \in sides /\ pending[s[1]] # {} /\ tracked[s] > 0
                                  /\ tlb[s].src \notin Translated}
    IN  /\ tlb' = [s \in Slots |->
             IF s \in dropped THEN [tlb[s] EXCEPT !.tag = <<>>, !.tracked = FALSE]
             ELSE IF s \in bare THEN [tlb[s] EXCEPT !.tracked = FALSE] ELSE tlb[s]]
        /\ tracked' = [s \in Slots |-> IF s \in dropped \cup bare THEN 0 ELSE tracked[s]]
        /\ pending' = [s \in Sides |-> IF s \in sides THEN {} ELSE pending[s]]
        /\ callbacks' = {}

\* isync, sc, rfi and the taking of an exception: do_ctx_sync, and for the
\* last three a new MSR.
ContextSync(value) ==
    /\ msr' = value
    /\ Synced(callbacks)
    /\ unsynced' = FALSE
    /\ UNCHANGED <<is_601, sr, sdr1, bat, pte, unflushed, changes, misses>>

\* The guest's store into a page table.
ChangePte(p, value) ==
    /\ Changing
    /\ p[1] = sdr1
    /\ pte[p] # value
    /\ pte' = [pte EXCEPT ![p] = value]
    /\ unflushed' = unflushed \cup {p[3]}
    /\ UNCHANGED <<context, tlb, tracked, pending, callbacks, unsynced>>

\* Mutant: only the page of the given segment.
FlushedBySegment(ea, s) == tlb[s].tag = ea

\* tlb_flush_entry: the page's index in every segment, side and mode.
Flushed(ea, s) == tlb[s].tag # <<>> /\ tlb[s].tag[2] = ea[2]

Tlbie(ea) ==
    /\ ~msr.pr
    /\ tlb' = [s \in Slots |-> IF Flushed(ea, s) THEN [tlb[s] EXCEPT !.tag = <<>>] ELSE tlb[s]]
    /\ unflushed' = unflushed \ {ea[2]}
    /\ UNCHANGED <<context, pte, tracked, pending, callbacks, unsynced, changes, misses>>

--------------------------------------------------------------------------------

\* ppc_mmu_init: empty TLBs, and the invalidations its BAT updates schedule.
\* The guest's page tables may be in memory already.
MmuInit ==
    /\ is_601 \in Cpus
    /\ msr = [ir |-> FALSE, dr |-> FALSE, pr |-> FALSE]
    /\ sr \in {[s \in Segments |-> v] : v \in {x \in SrValues : ~x.t}}
    /\ sdr1 \in Tables
    /\ bat = [s \in Sides |-> [valid |-> FALSE, ks |-> FALSE, kp |-> FALSE, prot |-> 0,
                               seg |-> 0, block |-> 0]]
    /\ pte \in [Tables \X Vsids \X Indexes -> PteValues]
    /\ tlb = [s \in Slots |-> Invalid]
    /\ tracked = [s \in Slots |-> 0]
    /\ pending = [s \in Sides |-> Translated]
    /\ callbacks = Sides
    /\ unsynced = TRUE
    /\ unflushed = {}
    /\ changes = 0
    /\ misses = 0

MmuNext ==
    \/ \E ea \in Pages : Fetch(ea) \/ Load(ea) \/ Store(ea) \/ Tlbie(ea)
    \/ \E seg \in Segments, v \in SrValues : Mtsr(seg, v)
    \/ \E t \in Tables : MtSdr1(t)
    \/ \E side \in Sides, v \in BatValues : MtBat(side, v)
    \/ \E v \in MsrValues : Mtmsr(v) \/ ContextSync(v)
    \/ \E p \in DOMAIN pte, v \in PteValues : ChangePte(p, v)

MmuSpec == MmuInit /\ [][MmuNext]_mmuVars

--------------------------------------------------------------------------------
(* Properties. *)

\* Nothing the guest still owes for this page: it has synchronised since its
\* last register write, and flushed the page since it last wrote its PTE.
Promised(ea) == ~unsynced /\ ea[2] \notin unflushed

\* What a TLB slot holds is what the guest's registers and page table say, as
\* if there were no TLB: whatever was cached, promoted, evicted or left tracked
\* by accesses in any mode, a guest that synchronises and flushes as the
\* architecture asks never reaches another page, and never stores through an
\* entry where a store must raise an exception (or the reverse).
Coherent ==
    \A s \in Slots : (tlb[s].tag # <<>> /\ Promised(tlb[s].tag)) =>
      LET e == tlb[s]
      IN  \E t \in Translation(s[1], s[2], e.tag, FALSE) :
            /\ <<e.src, e.phys, e.kind>> = <<t.src, t.phys, t.kind>>
            /\ s[1] = "D" => (e.writable <=> Translation("D", s[2], e.tag, TRUE) # {})

\* The guest's paging relies on the R and C bits: a cached page has its R bit
\* set, and an entry through which stores go without a walk has its C bit set,
\* also when a load cached it first, in another mode, or before the guest
\* cleared the bits and flushed the page.
ReferencesRecorded ==
    \A s \in Slots :
      LET e == tlb[s]
      IN  (e.tag # <<>> /\ e.src = "PAT" /\ Promised(e.tag) /\ ~sr[e.tag[1]].t) =>
            /\ pte[PteOf(e.tag)].r
            /\ e.setC => pte[PteOf(e.tag)].c

================================================================================
