---------------------------- MODULE Memory_proofs ----------------------------
(***************************************************************************)
(* Proofs about address translation (Mmu), for any number of segments,     *)
(* page indexes, ways, page tables and register values, and any number of  *)
(* changes and refills; about the address map (AddressMap), for any bars;  *)
(* and about PCI bus numbers (PciBuses), for any tree of bridges.          *)
(***************************************************************************)
EXTENDS Mmu, AddressMap, PciBuses, FiniteSetTheorems, WellFoundedInduction, SequenceTheorems, TLAPS

-----------------------------------------------------------------------------
(* The inductive invariant of the TLBs. *)

EntryFields == {"tag", "src", "writable", "setC", "kind", "phys", "tracked"}
PteIndexes  == Tables \X Vsids \X Indexes
PteRecords  == [valid : BOOLEAN, phys : (DOMAIN Region) \X Indexes, pp : 0 .. 3,
                r : BOOLEAN, c : BOOLEAN]

\* The registers and the page tables hold values the guest may load.
ContextOk ==
    /\ sr \in [Segments -> SrValues]
    /\ sdr1 \in Tables
    /\ DOMAIN bat = Sides
    /\ \A side \in Sides : bat[side].prot \in 0 .. 3
    /\ pte \in [PteIndexes -> PteRecords]

\* What is still to be invalidated is queued, and nothing is once the guest
\* has synchronised.
SyncOk ==
    /\ pending \in [Sides -> SUBSET Translated]
    /\ callbacks = {s \in Sides : pending[s] # {}}
    /\ ~unsynced => callbacks = {}

\* An entry says what the translation of its slot's side and mode says.
Agrees(s, e) ==
    \E t \in Translation(s[1], s[2], e.tag, FALSE) :
        /\ <<e.src, e.phys, e.kind>> = <<t.src, t.phys, t.kind>>
        /\ s[1] = "D" => (e.writable <=> Translation("D", s[2], e.tag, TRUE) # {})

\* Its page table entry has the R bit, and the C bit if stores do not walk.
Marked(e, table) ==
    (e.src = "PAT" /\ ~sr[e.tag[1]].t) =>
        table[PteOf(e.tag)].r /\ (e.setC => table[PteOf(e.tag)].c)

\* An entry is valid and no invalidation that would drop it is due.
InForce(s, e) == e.tag # <<>> /\ e.src \notin pending[s[1]] /\ e.tag[2] \notin unflushed

EntryOk(s, e, table) ==
    /\ DOMAIN e = EntryFields
    /\ e.tag = <<>> \/ e.tag \in Pages
    /\ InForce(s, e) => (~IoOverBlocks => Agrees(s, e)) /\ Marked(e, table)

\* A translated entry in use is flagged, and a flagged one is in the list that
\* the next invalidation goes through.
TrackedOk(e, count) ==
    /\ e.tracked \in BOOLEAN
    /\ count \in Nat
    /\ e.tracked => count > 0
    /\ e.tag # <<>> /\ e.src \in Translated => e.tracked

MachineOk(m) ==
    /\ DOMAIN m = {"tlb", "tracked", "pte"}
    /\ DOMAIN m.tlb = Slots
    /\ DOMAIN m.tracked = Slots
    /\ m.pte \in [PteIndexes -> PteRecords]
    /\ \A s \in Slots : EntryOk(s, m.tlb[s], m.pte) /\ TrackedOk(m.tlb[s], m.tracked[s])

MmuInv == ContextOk /\ SyncOk /\ MachineOk(Machine)

-----------------------------------------------------------------------------
(* The operators on slots. *)

\* The tracked flag is not part of what an entry says.
LEMMA FlagIsApart ==
    ASSUME NEW s, NEW e, NEW table, NEW f, EntryOk(s, e, table)
    PROVE  EntryOk(s, [e EXCEPT !.tracked = f], table)
<1> DEFINE d == [e EXCEPT !.tracked = f]
<1>1. DOMAIN d = EntryFields /\ d.tag = e.tag /\ d.src = e.src /\ d.phys = e.phys
      /\ d.kind = e.kind /\ d.writable = e.writable /\ d.setC = e.setC
    BY DEF EntryOk, EntryFields
<1> HIDE DEF d
<1>2. InForce(s, d) = InForce(s, e)
    BY <1>1 DEF InForce
<1>3. Agrees(s, e) => Agrees(s, d)
    BY <1>1 DEF Agrees
<1>4. Marked(e, table) => Marked(d, table)
    BY <1>1 DEF Marked
<1>5. EntryOk(s, d, table)
    BY <1>1, <1>2, <1>3, <1>4 DEF EntryOk
<1> QED
    BY <1>5 DEF d

\* track_translated_entry after a slot was written: the slot holds the entry,
\* flagged if it was translated, and the other slots are as they were.
LEMMA FillIsOk ==
    ASSUME NEW m, MachineOk(m), NEW s \in Slots, NEW e, EntryOk(s, e, m.pte)
    PROVE  MachineOk(Fill(m, s, e)) /\ Fill(m, s, e).pte = m.pte
<1> DEFINE d  == [e EXCEPT !.tracked = m.tlb[s].tracked]
           m1 == [m EXCEPT !.tlb[s] = d]
           d2 == [d EXCEPT !.tracked = TRUE]
           m2 == [m1 EXCEPT !.tlb[s].tracked = TRUE, !.tracked[s] = @ + 1]
<1>1. EntryOk(s, d, m.pte) /\ EntryOk(s, d2, m.pte)
    BY FlagIsApart
<1>2. DOMAIN m = {"tlb", "tracked", "pte"} /\ DOMAIN m.tlb = Slots /\ DOMAIN m.tracked = Slots
    BY DEF MachineOk
<1>3. /\ DOMAIN m1 = DOMAIN m /\ m1.tracked = m.tracked /\ m1.pte = m.pte
      /\ DOMAIN m1.tlb = Slots
      /\ m1.tlb[s] = d
      /\ \A r \in Slots \ {s} : m1.tlb[r] = m.tlb[r]
    BY <1>2
<1>4. DOMAIN e = EntryFields /\ d.tracked = m.tlb[s].tracked /\ d2.tracked = TRUE
      /\ d2.src = d.src /\ d2.tag = d.tag
    BY DEF EntryOk, EntryFields
<1>5. /\ DOMAIN m2 = DOMAIN m /\ m2.pte = m.pte
      /\ DOMAIN m2.tlb = Slots /\ DOMAIN m2.tracked = Slots
      /\ m2.tlb[s] = d2 /\ m2.tracked[s] = m.tracked[s] + 1
      /\ \A r \in Slots \ {s} : m2.tlb[r] = m.tlb[r] /\ m2.tracked[r] = m.tracked[r]
    BY <1>2, <1>3
<1>6. Fill(m, s, e) = IF d.src \notin Translated \/ d.tracked THEN m1 ELSE m2
    BY <1>3 DEF Fill, Track
<1>7. m.tracked[s] \in Nat /\ m.tlb[s].tracked \in BOOLEAN /\ (m.tlb[s].tracked => m.tracked[s] > 0)
    BY DEF MachineOk, TrackedOk
<1> HIDE DEF d, d2, m1, m2
<1>8. CASE d.src \notin Translated \/ d.tracked
    <2>1. TrackedOk(d, m.tracked[s])
        BY <1>4, <1>7, <1>8 DEF TrackedOk
    <2>2. MachineOk(m1)
        BY <1>1, <1>2, <1>3, <2>1 DEF MachineOk
    <2> QED
        BY <2>2, <1>3, <1>6, <1>8
<1>9. CASE ~(d.src \notin Translated \/ d.tracked)
    <2>1. m.tracked[s] + 1 \in Nat /\ m.tracked[s] + 1 > 0
        BY <1>7
    <2>2. TrackedOk(d2, m.tracked[s] + 1)
        BY <1>4, <2>1 DEF TrackedOk
    <2>3. MachineOk(m2)
        BY <1>1, <1>2, <1>5, <2>2 DEF MachineOk
    <2> QED
        BY <2>3, <1>5, <1>6, <1>9
<1> QED
    BY <1>8, <1>9

-----------------------------------------------------------------------------
(* Walks of the page table. *)

\* A table that differs from the page table in R and C bits set since.
Later(table) ==
    /\ table \in [PteIndexes -> PteRecords]
    /\ \A p \in PteIndexes :
          /\ table[p].valid = pte[p].valid /\ table[p].pp = pte[p].pp /\ table[p].phys = pte[p].phys
          /\ (pte[p].r => table[p].r) /\ (pte[p].c => table[p].c)

\* The page table entry of a page in an ordinary segment exists.
LEMMA PteExists ==
    ASSUME ContextOk, NEW ea \in Pages, ~sr[ea[1]].t
    PROVE  PteOf(ea) \in PteIndexes
<1>1. ea[1] \in Segments /\ ea[2] \in Indexes
    BY DEF Pages
<1>2. sr[ea[1]] \in SrValues /\ sdr1 \in Tables
    BY <1>1 DEF ContextOk
<1>3. sr[ea[1]].vsid \in Vsids
    BY <1>2, MmuAssumption
<1> QED
    BY <1>1, <1>2, <1>3 DEF PteOf, PteIndexes

\* page_address_translation sets the R bit of the page it translates, and the
\* C bit for a store, and changes nothing else in the page table.
LEMMA WalkRecords ==
    ASSUME ContextOk, NEW side, NEW mode, NEW ea \in Pages, NEW write \in BOOLEAN
    PROVE  LET table == Recorded(pte, side, mode, ea, write)
           IN  /\ Later(table)
               /\ (~sr[ea[1]].t /\ Page(side, mode, ea, write) # {}) =>
                     /\ table[PteOf(ea)].r
                     /\ (write \/ pte[PteOf(ea)].c) => table[PteOf(ea)].c
<1> DEFINE table == Recorded(pte, side, mode, ea, write)
<1>1. pte \in [PteIndexes -> PteRecords]
    BY DEF ContextOk
<1>2. CASE sr[ea[1]].t \/ Page(side, mode, ea, write) = {}
    <2>1. table = pte
        BY <1>2 DEF Recorded
    <2> HIDE DEF table
    <2> QED
        BY <1>1, <1>2, <2>1 DEF Later, table
<1>3. CASE ~sr[ea[1]].t /\ Page(side, mode, ea, write) # {}
    <2> DEFINE q == PteOf(ea)
               d == [pte[q] EXCEPT !.r = TRUE, !.c = pte[q].c \/ write]
    <2>1. q \in PteIndexes
        BY <1>3, PteExists
    <2>2. table = [[pte EXCEPT ![q].r = TRUE] EXCEPT ![q].c = @ \/ write]
        BY <1>3 DEF Recorded
    <2> HIDE DEF q
    <2>3. pte[q] \in PteRecords
        BY <1>1, <2>1
    <2>4. d \in PteRecords /\ d.r = TRUE /\ d.c = (pte[q].c \/ write)
          /\ d.valid = pte[q].valid /\ d.pp = pte[q].pp /\ d.phys = pte[q].phys
        BY <2>3 DEF PteRecords
    <2>5. DOMAIN table = PteIndexes /\ table[q] = d /\ \A p \in PteIndexes \ {q} : table[p] = pte[p]
        BY <1>1, <2>1, <2>2, <2>3 DEF PteRecords
    <2>6. table = [p \in PteIndexes |-> IF p = q THEN d ELSE pte[p]]
        BY <1>1, <2>1, <2>2, <2>3 DEF PteRecords
    <2> HIDE DEF table, d
    <2>7. table \in [PteIndexes -> PteRecords]
        BY <1>1, <2>4, <2>6
    <2>8. Later(table)
        BY <1>1, <2>4, <2>5, <2>7 DEF Later
    <2>9. table[q].r /\ (write \/ pte[q].c => table[q].c)
        BY <2>4, <2>5
    <2> QED
        BY <2>8, <2>9 DEF table, q
<1>4. sr[ea[1]].t \in BOOLEAN
    <2>1. ea[1] \in Segments
        BY DEF Pages
    <2>2. sr[ea[1]] \in SrValues
        BY <2>1 DEF ContextOk
    <2> QED
        BY <2>2, MmuAssumption
<1> QED
    BY <1>2, <1>3, <1>4

\* Bits set in the page table make no entry wrong.
LEMMA LaterIsOk ==
    ASSUME ContextOk, NEW table, Later(table), NEW s, NEW e, EntryOk(s, e, pte)
    PROVE  EntryOk(s, e, table)
<1>1. SUFFICES ASSUME InForce(s, e), Marked(e, pte), e.src = "PAT", ~sr[e.tag[1]].t
               PROVE  table[PteOf(e.tag)].r /\ (e.setC => table[PteOf(e.tag)].c)
    BY DEF EntryOk, Marked
<1>2. PteOf(e.tag) \in PteIndexes
    BY <1>1, PteExists DEF EntryOk, InForce
<1> QED
    BY <1>1, <1>2 DEF Later, Marked

-----------------------------------------------------------------------------
(* Refills. *)

\* A page has one block translation at most, of one of four protections.
LEMMA BlockIsOne ==
    ASSUME ContextOk, NEW side \in Sides, NEW mode, NEW ea
    PROVE  /\ \A b \in Block(side, mode, ea) : b.prot \in 0 .. 3
           /\ \A b, c \in Block(side, mode, ea) : b = c
<1>1. bat["I"].prot \in 0 .. 3 /\ bat[side].prot \in 0 .. 3
    BY DEF ContextOk, Sides
<1>2. \A key : Prot601(key, bat["I"].prot) \in 0 .. 3
    <2>1. bat["I"].prot = 0 \/ bat["I"].prot = 1 \/ bat["I"].prot = 2 \/ bat["I"].prot = 3
        BY <1>1
    <2> QED
        BY <2>1 DEF Prot601
<1>3. CASE is_601
    BY <1>2, <1>3 DEF Block, Block601
<1>4. CASE ~is_601
    BY <1>1, <1>4 DEF Block, BlockPpc
<1> QED
    BY <1>3, <1>4

\* An entry of the translation of a page, by where it comes from.
FromNothing(e, side, ea) ==
    /\ DOMAIN e = EntryFields
    /\ e.tag = ea /\ e.src = "none" /\ e.phys = ea /\ e.kind = Region[ea[1]]
    /\ e.writable <=> side = "D"

FromBlock(e, side, ea, b) ==
    /\ DOMAIN e = EntryFields
    /\ e.tag = ea /\ e.src = "BAT" /\ e.phys = b.phys /\ e.kind = Region[b.phys[1]]
    /\ e.writable <=> side = "D" /\ b.prot = 2

FromPage(e, side, ea, write, p) ==
    /\ DOMAIN e = EntryFields
    /\ e.tag = ea /\ e.src = "PAT" /\ e.phys = p.phys /\ e.kind = Region[p.phys[1]]
    /\ e.writable <=> side = "D" /\ p.prot \in {0, 1, 2, 6}
    /\ e.setC <=> side = "D" /\ (write \/ p.c)

Allowed(side, mode, ea, write) ==
    {x \in Block(side, mode, ea) : x.prot # 0 /\ ~(write /\ x.prot \in {1, 3})}

BySource(side, mode, ea, write) ==
    /\ mode = 1 =>
          /\ Translation(side, mode, ea, write) # {}
          /\ \A e \in Translation(side, mode, ea, write) : FromNothing(e, side, ea)
    /\ mode # 1 /\ Block(side, mode, ea) # {} =>
          /\ \A e \in Translation(side, mode, ea, write) :
                \E b \in Allowed(side, mode, ea, write) : FromBlock(e, side, ea, b)
          /\ \A b \in Allowed(side, mode, ea, write) :
                \E e \in Translation(side, mode, ea, write) : FromBlock(e, side, ea, b)
    /\ mode # 1 /\ Block(side, mode, ea) = {} =>
          /\ \A e \in Translation(side, mode, ea, write) :
                \E p \in Page(side, mode, ea, write) : FromPage(e, side, ea, write, p)
          /\ \A p \in Page(side, mode, ea, write) :
                \E e \in Translation(side, mode, ea, write) : FromPage(e, side, ea, write, p)

LEMMA TranslationCases ==
    \A side, mode, ea : \A write \in BOOLEAN : BySource(side, mode, ea, write)
<1> SUFFICES ASSUME NEW side, NEW mode, NEW ea, NEW write \in BOOLEAN
             PROVE  BySource(side, mode, ea, write)
    OBVIOUS
<1>1. CASE mode = 1
    <2> DEFINE d == [tag |-> ea, src |-> "none", phys |-> ea, writable |-> side = "D" /\ TRUE,
                     setC |-> side = "D" /\ TRUE, kind |-> Region[ea[1]], tracked |-> FALSE]
    <2>1. Translation(side, mode, ea, write) = {d}
        BY <1>1 DEF Translation
    <2>2. FromNothing(d, side, ea)
        BY DEF FromNothing, EntryFields
    <2> QED
        BY <1>1, <2>1, <2>2 DEF BySource
<1>2. CASE mode # 1 /\ Block(side, mode, ea) # {}
    <2> DEFINE d(b) == [tag |-> ea, src |-> "BAT", phys |-> b.phys, writable |-> side = "D" /\ b.prot = 2,
                        setC |-> side = "D" /\ TRUE, kind |-> Region[b.phys[1]], tracked |-> FALSE]
    <2>1. Translation(side, mode, ea, write) = {d(b) : b \in Allowed(side, mode, ea, write)}
        BY <1>2 DEF Translation, Allowed
    <2>2. \A b : FromBlock(d(b), side, ea, b)
        BY DEF FromBlock, EntryFields
    <2> HIDE DEF d
    <2> QED
        BY <1>2, <2>1, <2>2 DEF BySource
<1>3. CASE mode # 1 /\ Block(side, mode, ea) = {}
    <2> DEFINE d(p) == [tag |-> ea, src |-> "PAT", phys |-> p.phys,
                        writable |-> side = "D" /\ p.prot \in {0, 1, 2, 6},
                        setC |-> side = "D" /\ (write \/ p.c), kind |-> Region[p.phys[1]],
                        tracked |-> FALSE]
    <2>1. Translation(side, mode, ea, write) = {d(p) : p \in Page(side, mode, ea, write)}
        BY <1>3 DEF Translation
    <2>2. \A p : FromPage(d(p), side, ea, write, p)
        BY DEF FromPage, EntryFields
    <2> HIDE DEF d
    <2> QED
        BY <1>3, <2>1, <2>2 DEF BySource
<1> QED
    BY <1>1, <1>2, <1>3

\* The same in the next state.
LEMMA TranslationCasesNext ==
    \A side, mode, ea : \A write \in BOOLEAN : BySource(side, mode, ea, write)'
<1> DEFINE All == \A side, mode, ea : \A write \in BOOLEAN : BySource(side, mode, ea, write)
<1>1. All
    BY TranslationCases
<1>2. All'
    BY <1>1, PTL
<1> QED
    BY <1>2

\* The page translation of an access is that of a load of the page, for data a
\* store is allowed exactly if the protection says so, and its C bit is the one
\* in the page table.
PageRight(side, mode, ea, p) ==
    /\ \E q \in Page(side, mode, ea, FALSE) : q.phys = p.phys
    /\ side = "D" => (p.prot \in {0, 1, 2, 6} <=> Page("D", mode, ea, TRUE) # {})
    /\ ~sr[ea[1]].t => p.c = pte[PteOf(ea)].c

LEMMA PageIsRight ==
    ASSUME ContextOk, NEW side \in Sides, NEW mode, NEW ea \in Pages, NEW write \in BOOLEAN,
           side = "I" => ~write,
           NEW p \in Page(side, mode, ea, write)
    PROVE  PageRight(side, mode, ea, p)
<1> DEFINE s == sr[ea[1]]
           t == pte[PteOf(ea)]
           key == Key(mode, s.ks, s.kp)
           fault(w) == \/ s.n /\ side = "I"
                       \/ ~t.valid
                       \/ key /\ t.pp = 0
                       \/ key /\ t.pp = 1 /\ w
                       \/ t.pp = 3 /\ w
           io == [phys |-> <<s.vsid, ea[2]>>, prot |-> 0, c |-> TRUE]
           ok == [phys |-> t.phys, prot |-> (IF key THEN 4 ELSE 0) + t.pp, c |-> t.c]
<1>1. /\ s.t => \A w : Page(side, mode, ea, w) = {io}
      /\ ~s.t => \A w : Page(side, mode, ea, w) = IF fault(w) THEN {} ELSE {ok}
    BY DEF Page
<1>2. ok.phys = t.phys /\ ok.c = t.c /\ ok.prot = (IF key THEN 4 ELSE 0) + t.pp /\ io.prot = 0
    OBVIOUS
<1>3. ~s.t => t.pp \in 0 .. 3
    <2>1. ~s.t => PteOf(ea) \in PteIndexes
        BY PteExists
    <2> QED
        BY <2>1 DEF ContextOk, PteRecords
<1> HIDE DEF s, t, key, io, ok
<1>4. CASE s.t
    <2>1. p = io
        BY <1>1, <1>4
    <2> QED
        BY <1>1, <1>2, <1>4, <2>1 DEF s, PageRight
<1>5. CASE ~s.t
    <2>1. p = ok /\ ~fault(write)
        BY <1>1, <1>5
    <2>2. ~fault(FALSE)
        BY <2>1
    <2>3. ok \in Page(side, mode, ea, FALSE)
        BY <1>1, <1>5, <2>2
    <2>4. t.pp = 0 \/ t.pp = 1 \/ t.pp = 2 \/ t.pp = 3
        BY <1>3, <1>5
    <2>5. side = "D" => (ok.prot \in {0, 1, 2, 6} <=> ~fault(TRUE))
        BY <1>2, <2>1, <2>4
    <2>6. side = "D" => (p.prot \in {0, 1, 2, 6} <=> Page("D", mode, ea, TRUE) # {})
        BY <1>1, <1>5, <2>1, <2>5
    <2> QED
        BY <1>2, <2>1, <2>3, <2>6 DEF s, t, PageRight
<1> QED
    BY <1>4, <1>5

\* What a refill caches is what the registers and the page table say, and its
\* C bit is the page's.
LEMMA RefillIsRight ==
    ASSUME ContextOk, NEW s, s[1] \in Sides, NEW ea \in Pages, NEW write \in BOOLEAN,
           s[1] = "I" => ~write,
           NEW e \in Translation(s[1], s[2], ea, write)
    PROVE  /\ DOMAIN e = EntryFields /\ e.tag = ea
           /\ Agrees(s, e)
           /\ e.src = "PAT" => Page(s[1], s[2], ea, write) # {}
           /\ e.src = "PAT" /\ ~sr[ea[1]].t /\ e.setC => write \/ pte[PteOf(ea)].c
<1> DEFINE side == s[1]
           mode == s[2]
<1>1. CASE mode = 1
    <2>1. FromNothing(e, side, ea)
        BY <1>1, TranslationCases DEF BySource
    <2>2. PICK t \in Translation(side, mode, ea, FALSE) : FromNothing(t, side, ea)
        BY <1>1, TranslationCases DEF BySource
    <2>3. Translation("D", mode, ea, TRUE) # {}
        BY <1>1, TranslationCases DEF BySource
    <2>4. Agrees(s, e)
        BY <2>1, <2>2, <2>3 DEF Agrees, FromNothing
    <2> QED
        BY <2>1, <2>4 DEF FromNothing
<1>2. CASE mode # 1 /\ Block(side, mode, ea) # {}
    <2>1. PICK b \in Allowed(side, mode, ea, write) : FromBlock(e, side, ea, b)
        BY <1>2, TranslationCases DEF BySource
    <2>2. b \in Allowed(side, mode, ea, FALSE)
        BY DEF Allowed
    <2>3. PICK t \in Translation(side, mode, ea, FALSE) : FromBlock(t, side, ea, b)
        BY <1>2, <2>2, TranslationCases DEF BySource
    <2>4. b.prot \in 1 .. 3
        BY BlockIsOne DEF Allowed
    <2>5. b.prot = 2 <=> b \in Allowed(side, mode, ea, TRUE)
        BY <2>4 DEF Allowed
    <2>6. Allowed(side, mode, ea, TRUE) # {} => b \in Allowed(side, mode, ea, TRUE)
        BY BlockIsOne DEF Allowed
    <2>7. b.prot = 2 <=> Translation(side, mode, ea, TRUE) # {}
        BY <1>2, <2>5, <2>6, TranslationCases DEF BySource
    <2>8. Agrees(s, e)
        BY <2>1, <2>3, <2>7 DEF Agrees, FromBlock
    <2> QED
        BY <2>1, <2>8 DEF FromBlock
<1>3. CASE mode # 1 /\ Block(side, mode, ea) = {}
    <2>1. PICK p \in Page(side, mode, ea, write) : FromPage(e, side, ea, write, p)
        BY <1>3, TranslationCases DEF BySource
    <2>2. /\ \E q \in Page(side, mode, ea, FALSE) : q.phys = p.phys
          /\ side = "D" => (p.prot \in {0, 1, 2, 6} <=> Page("D", mode, ea, TRUE) # {})
          /\ ~sr[ea[1]].t => p.c = pte[PteOf(ea)].c
        <3>1. PageRight(side, mode, ea, p)
            BY PageIsRight
        <3> QED
            BY <3>1 DEF PageRight
    <2>3. PICK q \in Page(side, mode, ea, FALSE) : q.phys = p.phys
        BY <2>2
    <2>4. PICK t \in Translation(side, mode, ea, FALSE) : FromPage(t, side, ea, FALSE, q)
        BY <1>3, TranslationCases DEF BySource
    <2>5. side = "D" => (Page("D", mode, ea, TRUE) # {} <=> Translation("D", mode, ea, TRUE) # {})
        BY <1>3, TranslationCases DEF BySource
    <2>6. <<e.src, e.phys, e.kind>> = <<t.src, t.phys, t.kind>> /\ e.tag = ea
        BY <2>1, <2>3, <2>4 DEF FromPage
    <2>7. side = "D" => (e.writable <=> Translation("D", mode, ea, TRUE) # {})
        BY <2>1, <2>2, <2>5 DEF FromPage
    <2>8. Agrees(s, e)
        BY <2>4, <2>6, <2>7 DEF Agrees
    <2> QED
        BY <2>1, <2>2, <2>8 DEF FromPage
<1> QED
    BY <1>1, <1>2, <1>3

-----------------------------------------------------------------------------
(* Steps that change nothing but the slots and R and C bits. *)

\* The page table entry of a page still says the same, R and C bits apart.
Unmoved(ea) ==
    ~sr[ea[1]].t => LET p == pte[PteOf(ea)]
                        q == pte'[PteOf(ea)]
                    IN  q.valid = p.valid /\ q.pp = p.pp /\ q.phys = p.phys

\* Such a page translates as before.
LEMMA PageIsStable ==
    ASSUME UNCHANGED <<sr, sdr1>>, NEW side, NEW mode, NEW ea, Unmoved(ea), NEW write \in BOOLEAN
    PROVE  /\ Page(side, mode, ea, write)' = {} <=> Page(side, mode, ea, write) = {}
           /\ \A p \in Page(side, mode, ea, write), q \in Page(side, mode, ea, write)' :
                 q.phys = p.phys
<1>1. PteOf(ea)' = PteOf(ea)
    BY DEF PteOf
<1>2. CASE sr[ea[1]].t
    BY <1>2 DEF Page
<1>3. CASE ~sr[ea[1]].t
    <2> DEFINE t == pte[PteOf(ea)]
               u == pte'[PteOf(ea)]
    <2>1. u.valid = t.valid /\ u.pp = t.pp /\ u.phys = t.phys
        BY <1>3 DEF Unmoved
    <2>2. Page(side, mode, ea, write)' = {} <=> Page(side, mode, ea, write) = {}
        BY <1>1, <1>3, <2>1 DEF Page
    <2>3. \A p \in Page(side, mode, ea, write) : p.phys = t.phys
        BY <1>3 DEF Page
    <2>4. \A p \in Page(side, mode, ea, write)' : p.phys = u.phys
        BY <1>1, <1>3 DEF Page
    <2> QED
        BY <2>1, <2>2, <2>3, <2>4
<1> QED
    BY <1>2, <1>3

\* An entry keeps agreeing if the block it was made from is the same, or the
\* page and no block took its place.
LEMMA AgreementIsStable ==
    ASSUME NEW s, NEW e, Agrees(s, e),
           e.src = "BAT" => Block(s[1], s[2], e.tag)' = Block(s[1], s[2], e.tag),
           e.src = "PAT" => /\ UNCHANGED <<sr, sdr1>>
                            /\ Unmoved(e.tag)
                            /\ Block(s[1], s[2], e.tag)' = Block(s[1], s[2], e.tag)
    PROVE  Agrees(s, e)'
<1> DEFINE side == s[1]
           mode == s[2]
           ea   == e.tag
<1>1. PICK t \in Translation(side, mode, ea, FALSE) :
         /\ <<e.src, e.phys, e.kind>> = <<t.src, t.phys, t.kind>>
         /\ side = "D" => (e.writable <=> Translation("D", mode, ea, TRUE) # {})
    BY DEF Agrees
<1>2. e.src = t.src
    BY <1>1
<1>3. BySource(side, mode, ea, FALSE) /\ BySource("D", mode, ea, TRUE)
    BY TranslationCases
<1>4. BySource(side, mode, ea, FALSE)' /\ BySource("D", mode, ea, TRUE)'
    BY TranslationCasesNext
<1>5. SUFFICES /\ \E u \in Translation(side, mode, ea, FALSE)' :
                     u.src = t.src /\ u.phys = t.phys /\ u.kind = t.kind
               /\ side = "D" =>
                     (Translation("D", mode, ea, TRUE)' # {} <=> Translation("D", mode, ea, TRUE) # {})
    BY <1>1 DEF Agrees
<1>6. CASE mode = 1
    <2>1. FromNothing(t, side, ea)
        BY <1>3, <1>6 DEF BySource
    <2>2. PICK u \in Translation(side, mode, ea, FALSE)' : FromNothing(u, side, ea)
        BY <1>4, <1>6 DEF BySource, FromNothing
    <2>3. Translation("D", mode, ea, TRUE)' # {} /\ Translation("D", mode, ea, TRUE) # {}
        BY <1>3, <1>4, <1>6 DEF BySource
    <2> QED
        BY <2>1, <2>2, <2>3 DEF FromNothing
<1>7. CASE mode # 1 /\ Block(side, mode, ea) # {}
    <2>1. PICK b \in Allowed(side, mode, ea, FALSE) : FromBlock(t, side, ea, b)
        BY <1>3, <1>7 DEF BySource
    <2>2. Block(side, mode, ea)' = Block(side, mode, ea)
        BY <1>2, <2>1 DEF FromBlock
    <2>3. \A w \in BOOLEAN : Allowed(side, mode, ea, w)' = Allowed(side, mode, ea, w)
        BY <2>2 DEF Allowed
    <2>4. PICK u \in Translation(side, mode, ea, FALSE)' : FromBlock(u, side, ea, b)
        <3>1. \A c \in Allowed(side, mode, ea, FALSE)' :
                 \E u \in Translation(side, mode, ea, FALSE)' : FromBlock(u, side, ea, c)
            BY <1>4, <1>7, <2>2 DEF BySource, FromBlock
        <3> QED
            BY <2>3, <3>1
    <2>5. u.src = t.src /\ u.phys = t.phys /\ u.kind = t.kind
        BY <2>1, <2>4 DEF FromBlock
    <2>6. ASSUME side = "D"
          PROVE  Translation("D", mode, ea, TRUE)' # {} <=> Translation("D", mode, ea, TRUE) # {}
        <3>1. Translation("D", mode, ea, TRUE) # {} <=> Allowed("D", mode, ea, TRUE) # {}
            BY <1>3, <1>7, <2>6 DEF BySource
        <3>2. Translation("D", mode, ea, TRUE)' # {} <=> Allowed("D", mode, ea, TRUE)' # {}
            BY <1>4, <1>7, <2>2, <2>6 DEF BySource
        <3> QED
            BY <2>3, <2>6, <3>1, <3>2
    <2> QED
        BY <2>4, <2>5, <2>6
<1>8. CASE mode # 1 /\ Block(side, mode, ea) = {}
    <2>1. PICK p \in Page(side, mode, ea, FALSE) : FromPage(t, side, ea, FALSE, p)
        BY <1>3, <1>8 DEF BySource
    <2>2. UNCHANGED <<sr, sdr1>> /\ Unmoved(ea) /\ Block(side, mode, ea)' = {}
        BY <1>2, <1>8, <2>1 DEF FromPage
    <2>3. /\ Page(side, mode, ea, FALSE)' = {} <=> Page(side, mode, ea, FALSE) = {}
          /\ \A q \in Page(side, mode, ea, FALSE)' : q.phys = p.phys
        BY <2>2, PageIsStable, ZenonT(40)
    <2>4. PICK q \in Page(side, mode, ea, FALSE)' : q.phys = p.phys
        BY <2>3
    <2>5. PICK u \in Translation(side, mode, ea, FALSE)' : FromPage(u, side, ea, FALSE, q)
        BY <1>4, <1>8, <2>2 DEF BySource, FromPage
    <2>6. u.src = t.src /\ u.phys = t.phys /\ u.kind = t.kind
        BY <2>1, <2>4, <2>5 DEF FromPage
    <2>7. Page("D", mode, ea, TRUE)' = {} <=> Page("D", mode, ea, TRUE) = {}
        BY <2>2, PageIsStable
    <2>8. ASSUME side = "D"
          PROVE  Translation("D", mode, ea, TRUE)' # {} <=> Translation("D", mode, ea, TRUE) # {}
        BY <1>3, <1>4, <1>8, <2>2, <2>7, <2>8 DEF BySource
    <2> QED
        BY <2>5, <2>6, <2>8
<1> QED
    BY <1>6, <1>7, <1>8

\* The registers are unchanged: an entry keeps agreeing if its page has not moved.
LEMMA SameContext ==
    ASSUME UNCHANGED <<is_601, sr, sdr1, bat>>, NEW s, NEW e, Agrees(s, e), Unmoved(e.tag)
    PROVE  Agrees(s, e)'
<1>1. Block(s[1], s[2], e.tag)' = Block(s[1], s[2], e.tag)
    BY DEF Block, Block601, BlockPpc
<1> QED
    BY <1>1, AgreementIsStable

\* An access keeps the invariant if its machine does.
LEMMA BecomesOk ==
    ASSUME MmuInv, NEW m, MachineOk(m), Later(m.pte), Becomes(m)
    PROVE  MmuInv'
<1>1. /\ tlb' = m.tlb /\ tracked' = m.tracked /\ pte' = m.pte
      /\ UNCHANGED <<is_601, msr, sr, sdr1, bat, pending, callbacks, unsynced, unflushed>>
    BY DEF Becomes, context
<1>2. ContextOk /\ ContextOk'
    BY <1>1 DEF MmuInv, ContextOk, Later
<1>3. SyncOk'
    BY <1>1 DEF MmuInv, SyncOk
<1>4. ASSUME NEW s \in Slots
      PROVE  (EntryOk(s, tlb[s], pte) /\ TrackedOk(tlb[s], tracked[s]))'
    <2> DEFINE e == m.tlb[s]
    <2>1. EntryOk(s, e, m.pte) /\ TrackedOk(e, m.tracked[s])
        BY DEF MachineOk
    <2> HIDE DEF e
    <2>2. InForce(s, e)' = InForce(s, e)
        BY <1>1 DEF InForce
    <2>3. ASSUME InForce(s, e), ~IoOverBlocks PROVE Agrees(s, e)'
        <3>1. e.tag \in Pages /\ Agrees(s, e)
            BY <2>1, <2>3 DEF EntryOk, InForce
        <3>2. ~sr[e.tag[1]].t => PteOf(e.tag) \in PteIndexes
            BY <1>2, <3>1, PteExists
        <3>3. Unmoved(e.tag)
            BY <1>1, <3>2 DEF Unmoved, Later
        <3> QED
            BY <1>1, <3>1, <3>3, SameContext
    <2>4. Marked(e, m.pte) => Marked(e, pte)'
        BY <1>1 DEF Marked, PteOf
    <2>5. EntryOk(s, e, pte)'
        BY <2>1, <2>2, <2>3, <2>4 DEF EntryOk
    <2>6. TrackedOk(e, tracked[s])'
        BY <1>1, <2>1 DEF TrackedOk
    <2> QED
        BY <1>1, <2>5, <2>6 DEF e, EntryOk, InForce, Agrees, Marked, TrackedOk
<1>5. MachineOk(Machine)'
    BY <1>1, <1>2, <1>4 DEF MachineOk, Machine, ContextOk
<1> QED
    BY <1>2, <1>3, <1>5 DEF MmuInv

-----------------------------------------------------------------------------
(* Accesses. *)

\* The slots of one side and mode may hold the same entries.
LEMMA SameTable ==
    ASSUME NEW s, NEW r, r[1] = s[1], r[2] = s[2], NEW e, NEW table, EntryOk(s, e, table)
    PROVE  EntryOk(r, e, table)
BY DEF EntryOk, InForce, Agrees

\* The slots an access looks at.
LEMMA SlotsOfAccess ==
    ASSUME NEW side \in Sides, NEW ea \in Pages, NEW w \in {0} \cup Ways
    PROVE  /\ Slot(side, ea, w) \in Slots
           /\ Slot(side, ea, w)[1] = side /\ Slot(side, ea, w)[2] = Mode(side)
<1>1. Mode(side) \in 1 .. 3
    BY DEF Mode
<1>2. ea[2] \in Indexes
    BY DEF Pages
<1> HIDE DEF Mode
<1> QED
    BY <1>1, <1>2 DEF Slot, Slots

\* As long as nothing was walked the page table is its own later table.
LEMMA MachineIsOk ==
    ASSUME MmuInv
    PROVE  MachineOk(Machine) /\ Later(Machine.pte) /\ Machine.pte = pte /\ Machine.tlb = tlb
           /\ Machine.tracked = tracked
BY DEF MmuInv, ContextOk, Later, Machine

\* prepare_dtlb_write: the slots marked hold the page whose C bit is set now.
LEMMA StoreHitIsOk ==
    ASSUME MmuInv, NEW ea \in Pages, NEW s, NEW ss, \A r \in ss : tlb[r].tag = ea
    PROVE  MachineOk(StoreHit(ea, s, ss)) /\ Later(StoreHit(ea, s, ss).pte)
<1> DEFINE walks == ~(~tlb[s].writable \/ tlb[s].setC \/ Page("D", Mode("D"), ea, TRUE) = {})
           table == Recorded(pte, "D", Mode("D"), ea, TRUE)
           m     == [Machine EXCEPT !.pte = Recorded(@, "D", Mode("D"), ea, TRUE)]
           d     == Dirtied(m, ss)
<1>1. CASE ~walks
    BY <1>1, MachineIsOk DEF StoreHit
<1>2. CASE walks
    <2>1. ContextOk /\ MachineOk(Machine)
        BY DEF MmuInv
    <2>2. /\ Later(table)
          /\ ~sr[ea[1]].t => table[PteOf(ea)].r /\ table[PteOf(ea)].c
        BY <1>2, <2>1, WalkRecords
    <2>3. StoreHit(ea, s, ss) = d
        BY <1>2 DEF StoreHit
    <2>4. DOMAIN m = {"tlb", "tracked", "pte"} /\ m.tlb = tlb /\ m.tracked = tracked /\ m.pte = table
        BY DEF Machine
    <2>5. DOMAIN tlb = Slots /\ DOMAIN tracked = Slots
        BY <2>1 DEF MachineOk, Machine
    <2> HIDE DEF m, table
    <2>6. /\ DOMAIN d = {"tlb", "tracked", "pte"} /\ d.pte = table /\ d.tracked = tracked
          /\ d.tlb = [r \in Slots |-> IF r \in ss THEN [tlb[r] EXCEPT !.setC = TRUE] ELSE tlb[r]]
        BY <2>4, <2>5 DEF Dirtied
    <2> HIDE DEF d
    <2>7. ASSUME NEW r \in Slots
          PROVE  EntryOk(r, d.tlb[r], d.pte) /\ TrackedOk(d.tlb[r], d.tracked[r])
        <3> DEFINE e == tlb[r]
                   f == [e EXCEPT !.setC = TRUE]
        <3>1. EntryOk(r, e, pte) /\ TrackedOk(e, tracked[r])
            BY <2>1 DEF MachineOk, Machine
        <3>2. EntryOk(r, e, table)
            BY <2>1, <2>2, <3>1, LaterIsOk
        <3>3. CASE r \notin ss
            BY <2>6, <3>1, <3>2, <3>3
        <3>4. CASE r \in ss
            <4>1. d.tlb[r] = f /\ e.tag = ea
                BY <2>6, <3>4
            <4> HIDE DEF e
            <4>2. DOMAIN f = EntryFields /\ f.tag = e.tag /\ f.src = e.src /\ f.phys = e.phys
                  /\ f.kind = e.kind /\ f.writable = e.writable /\ f.tracked = e.tracked
                BY <3>1 DEF EntryOk, EntryFields
            <4> HIDE DEF f
            <4>3. InForce(r, f) = InForce(r, e) /\ (Agrees(r, e) => Agrees(r, f))
                BY <4>2 DEF InForce, Agrees
            <4>4. Marked(f, table)
                BY <2>2, <4>1, <4>2 DEF Marked
            <4>5. EntryOk(r, f, table)
                BY <3>2, <4>2, <4>3, <4>4 DEF EntryOk
            <4>6. TrackedOk(f, tracked[r])
                BY <3>1, <4>2 DEF TrackedOk
            <4> QED
                BY <2>6, <4>1, <4>5, <4>6
        <3> QED
            BY <3>3, <3>4
    <2>8. MachineOk(d)
        BY <2>2, <2>5, <2>6, <2>7 DEF MachineOk, Later
    <2> QED
        BY <2>2, <2>3, <2>6, <2>8
<1> QED
    BY <1>1, <1>2

\* promote_tlb_entry copies an entry of the same side and mode.
LEMMA PromoteIsOk ==
    ASSUME NEW m, MachineOk(m), NEW side \in Sides, NEW ea \in Pages, NEW write, NEW e,
           EntryOk(Slot(side, ea, 0), e, m.pte)
    PROVE  MachineOk(Promote(m, side, ea, e, write)) /\ Promote(m, side, ea, e, write).pte = m.pte
<1>1. Slot(side, ea, 0) \in Slots
    BY SlotsOfAccess
<1> QED
    BY <1>1, FillIsOk DEF Promote

LEMMA PrimaryHitIsOk ==
    ASSUME MmuInv, NEW side \in Sides, NEW ea \in Pages, NEW write \in BOOLEAN,
           PrimaryHit(side, ea, write)
    PROVE  MmuInv'
<1>1. PICK s \in Hits(side, ea, {0}) :
         Becomes(IF write THEN StoreHit(ea, s, {s} \cup Hits(side, ea, Ways)) ELSE Machine)
    BY DEF PrimaryHit
<1>2. \A r \in {s} \cup Hits(side, ea, Ways) : tlb[r].tag = ea
    BY <1>1 DEF Hits
<1>3. CASE write
    <2> DEFINE m == StoreHit(ea, s, {s} \cup Hits(side, ea, Ways))
    <2>1. MachineOk(m) /\ Later(m.pte) /\ Becomes(m)
        BY <1>1, <1>2, <1>3, StoreHitIsOk
    <2> HIDE DEF m
    <2> QED
        BY <2>1, BecomesOk
<1>4. CASE ~write
    BY <1>1, <1>4, MachineIsOk, BecomesOk
<1> QED
    BY <1>3, <1>4

LEMMA SecondaryHitIsOk ==
    ASSUME MmuInv, NEW side \in Sides, NEW ea \in Pages, NEW write \in BOOLEAN,
           SecondaryHit(side, ea, write)
    PROVE  MmuInv'
<1>1. PICK s \in Hits(side, ea, Ways) :
         LET m == IF write THEN StoreHit(ea, s, {s}) ELSE Machine
         IN  Becomes(Promote(m, side, ea, m.tlb[s], write))
    BY DEF SecondaryHit
<1> DEFINE m == IF write THEN StoreHit(ea, s, {s}) ELSE Machine
           n == Promote(m, side, ea, m.tlb[s], write)
<1>2. tlb[s].tag = ea /\ s \in Slots /\ s[1] = side /\ s[2] = Mode(side)
    <2>1. PICK w \in Ways : s = Slot(side, ea, w)
        BY DEF Hits
    <2>2. tlb[s].tag = ea
        BY DEF Hits
    <2> QED
        BY <2>1, <2>2, SlotsOfAccess
<1>3. MachineOk(m) /\ Later(m.pte)
    BY <1>2, StoreHitIsOk, MachineIsOk
<1>4. Becomes(n)
    BY <1>1
<1> HIDE DEF m
<1>5. EntryOk(s, m.tlb[s], m.pte)
    BY <1>2, <1>3 DEF MachineOk
<1>6. EntryOk(Slot(side, ea, 0), m.tlb[s], m.pte)
    BY <1>2, <1>5, SlotsOfAccess, SameTable
<1>7. MachineOk(n) /\ n.pte = m.pte
    BY <1>3, <1>6, PromoteIsOk
<1> HIDE DEF n
<1> QED
    BY <1>3, <1>4, <1>7, BecomesOk

LEMMA MissIsOk ==
    ASSUME MmuInv, NEW side \in Sides, NEW ea \in Pages, NEW write \in BOOLEAN,
           side = "I" => ~write, Miss(side, ea, write)
    PROVE  MmuInv'
<1> DEFINE mode == Mode(side)
           walked(e) == [Machine EXCEPT !.pte =
                           IF e.src = "PAT" THEN Recorded(@, side, mode, ea, write) ELSE @]
<1>1. PICK e \in Translation(side, mode, ea, write), s \in Targets(side, ea) :
         Becomes(CASE e.kind = "none" /\ side = "D" -> walked(e)
                   [] e.kind = "none" /\ side = "I" -> Fill(walked(e), Slot(side, ea, 0), Invalid)
                   [] OTHER -> Promote(Fill(walked(e), s, e), side, ea, e, write))
    BY DEF Miss
<1> DEFINE table == IF e.src = "PAT" THEN Recorded(pte, side, mode, ea, write) ELSE pte
           m == walked(e)
<1>2. ContextOk /\ MachineOk(Machine) /\ Later(pte)
    BY MachineIsOk DEF MmuInv
<1>3. s \in Slots /\ s[1] = side /\ s[2] = mode
    <2>1. PICK w \in Ways : s = Slot(side, ea, w)
        BY DEF Targets
    <2> QED
        BY <2>1, SlotsOfAccess
<1>4. /\ DOMAIN e = EntryFields /\ e.tag = ea
      /\ Agrees(s, e)
      /\ e.src = "PAT" => Page(side, mode, ea, write) # {}
      /\ e.src = "PAT" /\ ~sr[ea[1]].t /\ e.setC => write \/ pte[PteOf(ea)].c
    <2>1. e \in Translation(s[1], s[2], ea, write)
        BY <1>3
    <2> HIDE DEF mode
    <2> QED
        BY <1>2, <1>3, <2>1, RefillIsRight
<1> HIDE DEF mode
<1>5. Later(table)
    BY <1>2, WalkRecords
<1>6. Marked(e, table)
    <2>1. SUFFICES ASSUME e.src = "PAT", ~sr[ea[1]].t
                   PROVE  table[PteOf(ea)].r /\ (e.setC => table[PteOf(ea)].c)
        BY <1>4 DEF Marked
    <2>2. table = Recorded(pte, side, mode, ea, write)
        BY <2>1
    <2> QED
        BY <1>2, <1>4, <2>1, <2>2, WalkRecords
<1> HIDE DEF table
<1>7. EntryOk(s, e, table) /\ EntryOk(Slot(side, ea, 0), e, table)
    <2>1. EntryOk(s, e, table)
        BY <1>4, <1>6 DEF EntryOk
    <2>2. Slot(side, ea, 0)[1] = s[1] /\ Slot(side, ea, 0)[2] = s[2]
        BY <1>3, SlotsOfAccess DEF mode
    <2> QED
        BY <2>1, <2>2, SameTable
<1>8. MachineOk(m) /\ m.pte = table
    <2>1. DOMAIN m = {"tlb", "tracked", "pte"} /\ m.tlb = tlb /\ m.tracked = tracked /\ m.pte = table
        BY DEF Machine, table
    <2>2. \A r \in Slots : EntryOk(r, tlb[r], table)
        BY <1>2, <1>5, LaterIsOk DEF MachineOk, Machine
    <2> HIDE DEF m
    <2> QED
        BY <1>2, <1>5, <2>1, <2>2 DEF MachineOk, Machine, Later
<1>9. Slot(side, ea, 0) \in Slots /\ EntryOk(Slot(side, ea, 0), Invalid, table)
    BY SlotsOfAccess DEF EntryOk, Invalid, EntryFields, InForce
<1> HIDE DEF m, walked
<1>10. CASE e.kind = "none" /\ side = "D"
    <2>1. Becomes(m)
        BY <1>1, <1>10 DEF m
    <2> QED
        BY <1>5, <1>8, <2>1, BecomesOk
<1>11. CASE e.kind = "none" /\ side = "I"
    <2> DEFINE n == Fill(m, Slot(side, ea, 0), Invalid)
    <2>1. MachineOk(n) /\ n.pte = table
        BY <1>8, <1>9, FillIsOk
    <2>2. Becomes(n)
        BY <1>1, <1>11 DEF m
    <2> HIDE DEF n
    <2> QED
        BY <1>5, <2>1, <2>2, BecomesOk
<1>12. CASE e.kind # "none"
    <2> DEFINE f == Fill(m, s, e)
               n == Promote(f, side, ea, e, write)
    <2>1. MachineOk(f) /\ f.pte = table
        BY <1>3, <1>7, <1>8, FillIsOk
    <2>2. Becomes(n)
        BY <1>1, <1>12 DEF m
    <2> HIDE DEF f
    <2>3. MachineOk(n) /\ n.pte = table
        BY <1>7, <2>1, PromoteIsOk
    <2> HIDE DEF n
    <2> QED
        BY <1>5, <2>2, <2>3, BecomesOk
<1> QED
    BY <1>10, <1>11, <1>12 DEF Sides

-----------------------------------------------------------------------------
(* The guest's changes of the context. *)

\* schedule_tlb_invalidation queues a callback for each side it gives a source.
LEMMA ScheduleIsOk ==
    ASSUME SyncOk, NEW sides \in SUBSET Sides, NEW sources \in SUBSET Translated, sources # {},
           Schedule(sides, sources), unsynced' = TRUE
    PROVE  /\ SyncOk'
           /\ \A side \in Sides : pending[side] \subseteq pending'[side]
           /\ \A side \in sides : sources \subseteq pending'[side]
<1>1. /\ pending' = [s \in Sides |-> IF s \in sides THEN pending[s] \cup sources ELSE pending[s]]
      /\ callbacks' = callbacks \cup {s \in sides : pending[s] = {}}
    BY DEF Schedule
<1>2. pending' \in [Sides -> SUBSET Translated]
    BY <1>1 DEF SyncOk
<1>3. callbacks' = {s \in Sides : pending'[s] # {}}
    BY <1>1 DEF SyncOk
<1> QED
    BY <1>1, <1>2, <1>3 DEF SyncOk

\* A step that writes no slot keeps the invariant if it keeps what is in force
\* right.
LEMMA SlotsAreKept ==
    ASSUME MmuInv, ContextOk', SyncOk', UNCHANGED <<tlb, tracked>>,
           \A s \in Slots : \A e : (e.tag \in Pages /\ InForce(s, e)' /\ e = tlb[s]) =>
              /\ InForce(s, e)
              /\ Agrees(s, e) /\ ~IoOverBlocks => Agrees(s, e)'
              /\ Marked(e, pte) => Marked(e, pte)'
    PROVE  MmuInv'
<1>1. ASSUME NEW s \in Slots
      PROVE  (EntryOk(s, tlb[s], pte) /\ TrackedOk(tlb[s], tracked[s]))'
    <2>0. PICK e : e = tlb[s]
        OBVIOUS
    <2>1. EntryOk(s, e, pte) /\ TrackedOk(e, tracked[s])
        BY <2>0 DEF MmuInv, MachineOk, Machine
    <2>2. ASSUME InForce(s, e)'
          PROVE  (~IoOverBlocks => Agrees(s, e)') /\ Marked(e, pte)'
        <3>1. e.tag \in Pages
            BY <2>1, <2>2 DEF EntryOk, InForce
        <3>2. /\ InForce(s, e)
              /\ Agrees(s, e) /\ ~IoOverBlocks => Agrees(s, e)'
              /\ Marked(e, pte) => Marked(e, pte)'
            BY <2>0, <2>2, <3>1
        <3> QED
            BY <2>1, <3>2 DEF EntryOk
    <2>3. EntryOk(s, e, pte)'
        BY <2>1, <2>2 DEF EntryOk
    <2>4. TrackedOk(e, tracked[s])'
        BY <2>1 DEF TrackedOk
    <2> QED
        BY <2>0, <2>3, <2>4 DEF EntryOk, InForce, Agrees, Marked, TrackedOk
<1>2. DOMAIN tlb = Slots /\ DOMAIN tracked = Slots
    BY DEF MmuInv, MachineOk, Machine
<1>3. MachineOk(Machine)'
    BY <1>1, <1>2 DEF MachineOk, Machine, ContextOk
<1> QED
    BY <1>3 DEF MmuInv

\* An entry that agrees came from nothing, from a block or from a page.
LEMMA SourceOfEntry ==
    ASSUME NEW s, NEW e, Agrees(s, e)
    PROVE  /\ e.src \in {"none", "BAT", "PAT"}
           /\ e.src = "BAT" => Block(s[1], s[2], e.tag) # {}
<1>1. PICK t \in Translation(s[1], s[2], e.tag, FALSE) : e.src = t.src
    BY DEF Agrees
<1>2. BySource(s[1], s[2], e.tag, FALSE)
    BY TranslationCases
<1> QED
    <2>1. CASE s[2] = 1
        BY <1>1, <1>2, <2>1 DEF BySource, FromNothing
    <2>2. CASE s[2] # 1 /\ Block(s[1], s[2], e.tag) # {}
        BY <1>1, <1>2, <2>2 DEF BySource, FromBlock
    <2>3. CASE s[2] # 1 /\ Block(s[1], s[2], e.tag) = {}
        BY <1>1, <1>2, <2>3 DEF BySource, FromPage
    <2> QED
        BY <2>1, <2>2, <2>3

\* mtsr and mtsrin.  A block entry survives: on the 601 too, as long as no
\* segment mapped by a block becomes an I/O segment.
LEMMA MtsrIsOk ==
    ASSUME MmuInv, NEW seg \in Segments, NEW value \in SrValues, Mtsr(seg, value)
    PROVE  MmuInv'
<1>1. /\ sr' = [sr EXCEPT ![seg] = value]
      /\ Schedule(Sides, {"PAT"}) /\ unsynced' = TRUE
      /\ IoOverBlocks \/ ~(is_601 /\ value.t /\ bat["I"].valid /\ bat["I"].seg = seg)
      /\ UNCHANGED <<is_601, msr, sdr1, bat, pte, tlb, tracked, unflushed>>
    BY DEF Mtsr
<1>2. SyncOk' /\ \A side \in Sides : pending[side] \subseteq pending'[side] /\ "PAT" \in pending'[side]
    BY <1>1, ScheduleIsOk DEF MmuInv, Translated
<1>3. ContextOk'
    BY <1>1 DEF MmuInv, ContextOk
<1>4. ASSUME NEW s \in Slots, NEW e, e.tag \in Pages, InForce(s, e)'
      PROVE  /\ InForce(s, e)
             /\ Agrees(s, e) /\ ~IoOverBlocks => Agrees(s, e)'
             /\ Marked(e, pte) => Marked(e, pte)'
    <2>1. s[1] \in Sides
        BY DEF Slots
    <2>2. e.src # "PAT" /\ InForce(s, e)
        BY <1>1, <1>2, <1>4, <2>1 DEF InForce
    <2>3. Marked(e, pte)'
        BY <2>2 DEF Marked
    <2>4. ASSUME Agrees(s, e), ~IoOverBlocks PROVE Agrees(s, e)'
        <3>1. ASSUME e.src = "BAT" PROVE Block(s[1], s[2], e.tag)' = Block(s[1], s[2], e.tag)
            <4>1. Block(s[1], s[2], e.tag) # {}
                BY <2>4, <3>1, SourceOfEntry
            <4>2. CASE ~is_601
                BY <1>1, <4>2 DEF Block, BlockPpc
            <4>3. CASE is_601
                <5>1. bat["I"].valid /\ bat["I"].seg = e.tag[1] /\ ~sr[e.tag[1]].t
                    BY <4>1, <4>3 DEF Block, Block601
                <5>2. ~sr'[e.tag[1]].t
                    BY <1>1, <2>4, <4>3, <5>1 DEF MmuInv, ContextOk
                <5> QED
                    BY <1>1, <4>3, <5>1, <5>2 DEF Block, Block601
            <4> QED
                BY <4>2, <4>3
        <3> QED
            BY <2>2, <2>4, <3>1, AgreementIsStable
    <2> QED
        BY <2>2, <2>3, <2>4
<1> QED
    BY <1>1, <1>2, <1>3, <1>4, SlotsAreKept

\* A write of SDR1.
LEMMA MtSdr1IsOk ==
    ASSUME MmuInv, NEW table \in Tables, MtSdr1(table)
    PROVE  MmuInv'
<1>1. /\ sdr1' = table
      /\ Schedule(Sides, {"PAT"}) /\ unsynced' = TRUE
      /\ UNCHANGED <<is_601, msr, sr, bat, pte, tlb, tracked, unflushed>>
    BY DEF MtSdr1
<1>2. SyncOk' /\ \A side \in Sides : pending[side] \subseteq pending'[side] /\ "PAT" \in pending'[side]
    BY <1>1, ScheduleIsOk DEF MmuInv, Translated
<1>3. ContextOk'
    BY <1>1 DEF MmuInv, ContextOk
<1>4. ASSUME NEW s \in Slots, NEW e, e.tag \in Pages, InForce(s, e)'
      PROVE  /\ InForce(s, e)
             /\ Agrees(s, e) /\ ~IoOverBlocks => Agrees(s, e)'
             /\ Marked(e, pte) => Marked(e, pte)'
    <2>1. s[1] \in Sides
        BY DEF Slots
    <2>2. e.src # "PAT" /\ InForce(s, e)
        BY <1>1, <1>2, <1>4, <2>1 DEF InForce
    <2>3. Marked(e, pte)'
        BY <2>2 DEF Marked
    <2>4. Block(s[1], s[2], e.tag)' = Block(s[1], s[2], e.tag)
        BY <1>1 DEF Block, Block601, BlockPpc
    <2> QED
        BY <2>2, <2>3, <2>4, AgreementIsStable
<1> QED
    BY <1>1, <1>2, <1>3, <1>4, SlotsAreKept

\* A write of a BAT register drops what was translated on the sides it serves,
\* pages too: the new block may cover them.
LEMMA MtBatIsOk ==
    ASSUME MmuInv, NEW side \in Sides, NEW value \in BatValues, MtBat(side, value)
    PROVE  MmuInv'
<1> DEFINE sides == IF is_601 THEN Sides ELSE {side}
<1>1. /\ bat' = [s \in Sides |-> IF s \in sides THEN value ELSE bat[s]]
      /\ Schedule(sides, Translated) /\ unsynced' = TRUE
      /\ UNCHANGED <<is_601, msr, sr, sdr1, pte, tlb, tracked, unflushed>>
    BY DEF MtBat
<1>2. sides \in SUBSET Sides
    OBVIOUS
<1> HIDE DEF sides
<1>3. /\ SyncOk'
      /\ \A d \in Sides : pending[d] \subseteq pending'[d]
      /\ \A d \in sides : Translated \subseteq pending'[d]
    BY <1>1, <1>2, ScheduleIsOk DEF MmuInv, Translated
<1>4. ContextOk'
    <2>1. value.prot \in 0 .. 3
        BY MmuAssumption
    <2> QED
        BY <1>1, <2>1 DEF MmuInv, ContextOk
<1>5. ASSUME NEW s \in Slots, NEW e, e.tag \in Pages, InForce(s, e)'
      PROVE  /\ InForce(s, e)
             /\ Agrees(s, e) /\ ~IoOverBlocks => Agrees(s, e)'
             /\ Marked(e, pte) => Marked(e, pte)'
    <2>1. s[1] \in Sides
        BY DEF Slots
    <2>2. InForce(s, e) /\ (s[1] \in sides => e.src \notin Translated)
        BY <1>1, <1>3, <1>5, <2>1 DEF InForce
    <2>3. Marked(e, pte) => Marked(e, pte)'
        BY <1>1 DEF Marked, PteOf
    <2>4. ASSUME Agrees(s, e) PROVE Agrees(s, e)'
        <3>1. CASE s[1] \in sides
            <4>1. e.src # "BAT" /\ e.src # "PAT"
                BY <2>2, <3>1 DEF Translated
            <4> QED
                BY <2>4, <4>1, AgreementIsStable
        <3>2. CASE s[1] \notin sides
            <4>1. ~is_601 /\ bat'[s[1]] = bat[s[1]]
                BY <1>1, <2>1, <3>2 DEF sides
            <4>2. Block(s[1], s[2], e.tag)' = Block(s[1], s[2], e.tag)
                BY <1>1, <4>1 DEF Block, BlockPpc
            <4>3. Unmoved(e.tag)
                BY <1>1 DEF Unmoved
            <4> QED
                BY <1>1, <2>4, <4>2, <4>3, AgreementIsStable
        <3> QED
            BY <3>1, <3>2
    <2> QED
        BY <2>2, <2>3, <2>4
<1> QED
    BY <1>1, <1>3, <1>4, <1>5, SlotsAreKept

\* The guest's store into a page table makes wrong only entries of its index,
\* which it has to flush.
LEMMA ChangePteIsOk ==
    ASSUME MmuInv, NEW p \in DOMAIN pte, NEW value \in PteValues, ChangePte(p, value)
    PROVE  MmuInv'
<1>1. /\ pte' = [pte EXCEPT ![p] = value]
      /\ unflushed' = unflushed \cup {p[3]}
      /\ UNCHANGED <<is_601, msr, sr, sdr1, bat, tlb, tracked, pending, callbacks, unsynced>>
    BY DEF ChangePte, context
<1>2. ContextOk /\ ContextOk'
    <2>1. value \in PteRecords
        BY MmuAssumption DEF PteRecords
    <2>2. pte' \in [PteIndexes -> PteRecords]
        BY <1>1, <2>1 DEF MmuInv, ContextOk
    <2> QED
        BY <1>1, <2>2 DEF MmuInv, ContextOk
<1>3. SyncOk'
    BY <1>1 DEF MmuInv, SyncOk
<1>4. ASSUME NEW s \in Slots, NEW e, e.tag \in Pages, InForce(s, e)'
      PROVE  /\ InForce(s, e)
             /\ Agrees(s, e) /\ ~IoOverBlocks => Agrees(s, e)'
             /\ Marked(e, pte) => Marked(e, pte)'
    <2>1. InForce(s, e) /\ e.tag[2] # p[3]
        BY <1>1, <1>4 DEF InForce
    <2>2. PteOf(e.tag)' = PteOf(e.tag) /\ PteOf(e.tag)[3] = e.tag[2]
        BY <1>1 DEF PteOf
    <2>3. ~sr[e.tag[1]].t => pte'[PteOf(e.tag)] = pte[PteOf(e.tag)]
        <3>1. ~sr[e.tag[1]].t => PteOf(e.tag) \in PteIndexes
            BY <1>2, <1>4, PteExists
        <3>2. PteOf(e.tag) # p
            BY <2>1, <2>2
        <3> QED
            BY <1>1, <1>2, <3>1, <3>2 DEF ContextOk
    <2>4. Unmoved(e.tag)
        BY <2>3 DEF Unmoved
    <2>5. Marked(e, pte) => Marked(e, pte)'
        BY <1>1, <2>2, <2>3 DEF Marked
    <2> QED
        BY <1>1, <2>1, <2>4, <2>5, SameContext
<1> QED
    BY <1>1, <1>2, <1>3, <1>4, SlotsAreKept

\* mtmsr: the slots belong to a mode, whichever is in use.
LEMMA MtmsrIsOk ==
    ASSUME MmuInv, NEW value, Mtmsr(value)
    PROVE  MmuInv'
<1>1. UNCHANGED <<is_601, sr, sdr1, bat, pte, tlb, tracked, pending, callbacks, unsynced, unflushed>>
    BY DEF Mtmsr
<1>2. ContextOk' /\ SyncOk'
    BY <1>1 DEF MmuInv, ContextOk, SyncOk
<1>3. ASSUME NEW s \in Slots, NEW e, e.tag \in Pages, InForce(s, e)'
      PROVE  /\ InForce(s, e)
             /\ Agrees(s, e) /\ ~IoOverBlocks => Agrees(s, e)'
             /\ Marked(e, pte) => Marked(e, pte)'
    <2>1. InForce(s, e)
        BY <1>1, <1>3 DEF InForce
    <2>2. Unmoved(e.tag)
        BY <1>1 DEF Unmoved
    <2>3. Marked(e, pte) => Marked(e, pte)'
        BY <1>1 DEF Marked, PteOf
    <2> QED
        BY <1>1, <2>1, <2>2, <2>3, SameContext
<1> QED
    BY <1>1, <1>2, <1>3, SlotsAreKept

\* A step that only drops entries, or their flags, keeps the invariant if what
\* it leaves in force was in force, and flagged entries stay in the list.
LEMMA SlotsAreDropped ==
    ASSUME MmuInv, SyncOk', UNCHANGED <<is_601, sr, sdr1, bat, pte>>,
           DOMAIN tlb' = Slots, DOMAIN tracked' = Slots,
           \A s \in Slots :
              /\ \/ tlb'[s] = tlb[s]
                 \/ tlb'[s] = [tlb[s] EXCEPT !.tag = <<>>]
                 \/ tlb'[s] = [tlb[s] EXCEPT !.tag = <<>>, !.tracked = FALSE]
                 \/ tlb'[s] = [tlb[s] EXCEPT !.tracked = FALSE] /\ tlb[s].src \notin Translated
              /\ tracked'[s] = tracked[s] \/ (tracked'[s] = 0 /\ ~tlb'[s].tracked)
              /\ (tlb'[s].tag # <<>> /\ tlb'[s].src \notin pending'[s[1]]
                    /\ tlb'[s].tag[2] \notin unflushed') => InForce(s, tlb[s])
    PROVE  MmuInv'
<1>1. ContextOk'
    BY DEF MmuInv, ContextOk
<1>2. ASSUME NEW s \in Slots
      PROVE  (EntryOk(s, tlb[s], pte) /\ TrackedOk(tlb[s], tracked[s]))'
    <2>1. PICK e, d : e = tlb[s] /\ d = tlb'[s]
        OBVIOUS
    <2>2. EntryOk(s, e, pte) /\ TrackedOk(e, tracked[s])
        BY <2>1 DEF MmuInv, MachineOk, Machine
    <2>3. /\ DOMAIN d = EntryFields
          /\ d.src = e.src /\ d.phys = e.phys /\ d.kind = e.kind /\ d.writable = e.writable
          /\ d.setC = e.setC
          /\ d.tag = e.tag \/ d.tag = <<>>
          /\ d.tracked = e.tracked \/ (d.tracked = FALSE /\ (d.tag = <<>> \/ d.src \notin Translated))
        BY <2>1, <2>2 DEF EntryOk, EntryFields
    <2>4. ASSUME InForce(s, d)'
          PROVE  (~IoOverBlocks => Agrees(s, d)') /\ Marked(d, pte)'
        <3>1. d.tag = e.tag /\ InForce(s, e)
            BY <2>1, <2>3, <2>4 DEF InForce
        <3>2. (~IoOverBlocks => Agrees(s, e)) /\ Marked(e, pte)
            BY <2>2, <3>1 DEF EntryOk
        <3>3. Agrees(s, e) => Agrees(s, d)
            BY <2>3, <3>1 DEF Agrees
        <3>4. Unmoved(d.tag)
            BY DEF Unmoved
        <3>5. Marked(d, pte)'
            BY <2>3, <3>1, <3>2 DEF Marked, PteOf
        <3> QED
            BY <3>2, <3>3, <3>4, <3>5, SameContext
    <2>5. EntryOk(s, d, pte)'
        BY <2>2, <2>3, <2>4 DEF EntryOk
    <2>6. TrackedOk(d, tracked[s])'
        <3>1. tracked'[s] = tracked[s] \/ (tracked'[s] = 0 /\ ~d.tracked)
            BY <2>1
        <3>2. tracked[s] \in Nat /\ 0 \in Nat
            BY <2>2 DEF TrackedOk
        <3>3. tracked'[s] \in Nat
            BY <3>1, <3>2
        <3> QED
            BY <2>2, <2>3, <3>1, <3>3 DEF TrackedOk
    <2> QED
        BY <2>1, <2>5, <2>6 DEF EntryOk, InForce, Agrees, Marked, TrackedOk
<1>3. MachineOk(Machine)'
    BY <1>1, <1>2 DEF MachineOk, Machine, ContextOk
<1> QED
    BY <1>1, <1>3 DEF MmuInv

\* tlbie drops every entry of the page's index, which is what an unflushed
\* change of a page table entry may have made wrong.
LEMMA TlbieIsOk ==
    ASSUME MmuInv, NEW ea \in Pages, Tlbie(ea)
    PROVE  MmuInv'
<1>1. /\ tlb' = [s \in Slots |-> IF Flushed(ea, s) THEN [tlb[s] EXCEPT !.tag = <<>>] ELSE tlb[s]]
      /\ unflushed' = unflushed \ {ea[2]}
      /\ UNCHANGED <<is_601, msr, sr, sdr1, bat, pte, tracked, pending, callbacks, unsynced>>
    BY DEF Tlbie, context
<1>2. SyncOk'
    BY <1>1 DEF MmuInv, SyncOk
<1>3. DOMAIN tlb' = Slots /\ DOMAIN tracked' = Slots
    BY <1>1 DEF MmuInv, MachineOk, Machine
<1>4. ASSUME NEW s \in Slots
      PROVE  /\ tlb'[s] = tlb[s] \/ tlb'[s] = [tlb[s] EXCEPT !.tag = <<>>]
             /\ (tlb'[s].tag # <<>> /\ tlb'[s].src \notin pending'[s[1]]
                   /\ tlb'[s].tag[2] \notin unflushed') => InForce(s, tlb[s])
    <2>1. DOMAIN tlb[s] = EntryFields
        BY DEF MmuInv, MachineOk, Machine, EntryOk
    <2>2. CASE Flushed(ea, s)
        <3>1. tlb'[s] = [tlb[s] EXCEPT !.tag = <<>>]
            BY <1>1, <2>2
        <3> QED
            BY <2>1, <3>1 DEF EntryFields
    <2>3. CASE ~Flushed(ea, s)
        BY <1>1, <2>3 DEF Flushed, InForce
    <2> QED
        BY <2>2, <2>3
<1> QED
    BY <1>1, <1>2, <1>3, <1>4, SlotsAreDropped

\* do_ctx_sync: the entries an invalidation is due for are all in the lists.
LEMMA ContextSyncIsOk ==
    ASSUME MmuInv, NEW value, ContextSync(value)
    PROVE  MmuInv'
<1> DEFINE dropped == {s \in Slots : s[1] \in callbacks /\ tracked[s] > 0 /\ tlb[s].src \in pending[s[1]]}
           bare    == {s \in Slots : /\ s[1] \in callbacks /\ pending[s[1]] # {} /\ tracked[s] > 0
                                     /\ tlb[s].src \notin Translated}
<1>1. /\ tlb' = [s \in Slots |->
             IF s \in dropped THEN [tlb[s] EXCEPT !.tag = <<>>, !.tracked = FALSE]
             ELSE IF s \in bare THEN [tlb[s] EXCEPT !.tracked = FALSE] ELSE tlb[s]]
      /\ tracked' = [s \in Slots |-> IF s \in dropped \cup bare THEN 0 ELSE tracked[s]]
      /\ pending' = [s \in Sides |-> IF s \in callbacks THEN {} ELSE pending[s]]
      /\ callbacks' = {}
      /\ UNCHANGED <<is_601, sr, sdr1, bat, pte, unflushed>>
    BY DEF ContextSync, Synced
<1>2. /\ pending \in [Sides -> SUBSET Translated]
      /\ callbacks = {s \in Sides : pending[s] # {}}
    BY DEF MmuInv, SyncOk
<1>3. pending' = [s \in Sides |-> {}] /\ unflushed' = unflushed
    BY <1>1, <1>2
<1>4. SyncOk'
    BY <1>1, <1>3 DEF SyncOk
<1>5. ASSUME NEW s \in Slots
      PROVE  /\ \/ tlb'[s] = tlb[s]
                \/ tlb'[s] = [tlb[s] EXCEPT !.tag = <<>>, !.tracked = FALSE]
                \/ tlb'[s] = [tlb[s] EXCEPT !.tracked = FALSE] /\ tlb[s].src \notin Translated
             /\ tracked'[s] = tracked[s] \/ (tracked'[s] = 0 /\ ~tlb'[s].tracked)
             /\ (tlb'[s].tag # <<>> /\ tlb'[s].src \notin pending'[s[1]]
                   /\ tlb'[s].tag[2] \notin unflushed') => InForce(s, tlb[s])
    <2>1. DOMAIN tlb[s] = EntryFields /\ TrackedOk(tlb[s], tracked[s]) /\ s[1] \in Sides
        BY DEF MmuInv, MachineOk, Machine, EntryOk, Slots
    <2>2. CASE s \in dropped
        <3>1. tlb'[s] = [tlb[s] EXCEPT !.tag = <<>>, !.tracked = FALSE] /\ tracked'[s] = 0
            BY <1>1, <2>2
        <3>2. tlb'[s].tag = <<>> /\ tlb'[s].tracked = FALSE
            BY <2>1, <3>1 DEF EntryFields
        <3> QED
            BY <3>1, <3>2
    <2>3. CASE s \notin dropped /\ s \in bare
        <3>1. tlb'[s] = [tlb[s] EXCEPT !.tracked = FALSE] /\ tracked'[s] = 0 /\ tlb[s].src \notin Translated
            BY <1>1, <2>3
        <3>2. tlb'[s].tracked = FALSE /\ tlb'[s].tag = tlb[s].tag /\ tlb'[s].src = tlb[s].src
            BY <2>1, <3>1 DEF EntryFields
        <3>3. tlb[s].src \notin pending[s[1]]
            BY <1>2, <2>1, <3>1
        <3>4. (tlb'[s].tag # <<>> /\ tlb'[s].tag[2] \notin unflushed') => InForce(s, tlb[s])
            BY <1>3, <3>2, <3>3 DEF InForce
        <3> QED
            BY <3>1, <3>2, <3>4
    <2>4. CASE s \notin dropped /\ s \notin bare
        <3>1. tlb'[s] = tlb[s] /\ tracked'[s] = tracked[s]
            BY <1>1, <2>4
        <3>2. tlb[s].tag # <<>> => tlb[s].src \notin pending[s[1]]
            <4>1. tlb[s].tag # <<>> /\ tlb[s].src \in pending[s[1]] => tracked[s] > 0 /\ s[1] \in callbacks
                BY <1>2, <2>1 DEF TrackedOk
            <4> QED
                BY <2>4, <4>1
        <3>3. (tlb'[s].tag # <<>> /\ tlb'[s].tag[2] \notin unflushed') => InForce(s, tlb[s])
            BY <1>3, <3>1, <3>2 DEF InForce
        <3> QED
            BY <3>1, <3>3
    <2> QED
        BY <2>2, <2>3, <2>4
<1> HIDE DEF dropped, bare
<1>6. DOMAIN tlb' = Slots /\ DOMAIN tracked' = Slots
    BY <1>1
<1> QED
    BY <1>1, <1>4, <1>5, <1>6, SlotsAreDropped

-----------------------------------------------------------------------------
(* The theorems. *)

LEMMA MmuInvInit == MmuInit => MmuInv
<1> SUFFICES ASSUME MmuInit PROVE MmuInv
    OBVIOUS
<1>1. ContextOk
    <2>1. 0 \in 0 .. 3
        OBVIOUS
    <2>2. \A side \in Sides : bat[side].prot = 0
        BY DEF MmuInit
    <2>3. pte \in [PteIndexes -> PteRecords]
        BY MmuAssumption DEF MmuInit, PteIndexes, PteRecords
    <2> QED
        BY <2>1, <2>2, <2>3 DEF MmuInit, ContextOk
<1>2. SyncOk
    BY DEF MmuInit, SyncOk, Translated
<1>3. \A s \in Slots : EntryOk(s, Invalid, pte) /\ TrackedOk(Invalid, 0)
    BY DEF EntryOk, TrackedOk, InForce, Invalid, EntryFields
<1>4. MachineOk(Machine)
    BY <1>1, <1>3 DEF MmuInit, MachineOk, Machine, ContextOk
<1> QED
    BY <1>1, <1>2, <1>4 DEF MmuInv

LEMMA MmuInvStep == MmuInv /\ [MmuNext]_mmuVars => MmuInv'
<1> SUFFICES ASSUME MmuInv, [MmuNext]_mmuVars PROVE MmuInv'
    OBVIOUS
<1>1. ASSUME NEW ea \in Pages, NEW side \in Sides, NEW write \in BOOLEAN, side = "I" => ~write,
             Accesses(side, ea, write)
      PROVE  MmuInv'
    BY <1>1, PrimaryHitIsOk, SecondaryHitIsOk, MissIsOk DEF Accesses
<1>2. ASSUME NEW ea \in Pages, Fetch(ea) \/ Load(ea) \/ Store(ea) PROVE MmuInv'
    <2>1. "I" \in Sides /\ "D" \in Sides
        BY DEF Sides
    <2> QED
        BY <1>1, <1>2, <2>1 DEF Fetch, Load, Store
<1>3. CASE UNCHANGED mmuVars
    <2>1. UNCHANGED <<is_601, sr, sdr1, bat, pte, tlb, tracked, pending, callbacks, unsynced, unflushed>>
        BY <1>3 DEF mmuVars
    <2>2. SyncOk'
        BY <2>1 DEF MmuInv, SyncOk
    <2>3. DOMAIN tlb' = Slots /\ DOMAIN tracked' = Slots
        BY <2>1 DEF MmuInv, MachineOk, Machine
    <2>4. \A s \in Slots : (tlb'[s].tag # <<>> /\ tlb'[s].src \notin pending'[s[1]]
                              /\ tlb'[s].tag[2] \notin unflushed') => InForce(s, tlb[s])
        BY <2>1 DEF InForce
    <2> QED
        BY <2>1, <2>2, <2>3, <2>4, SlotsAreDropped
<1>4. CASE MmuNext
    <2>1. CASE \E ea \in Pages : Fetch(ea) \/ Load(ea) \/ Store(ea) \/ Tlbie(ea)
        BY <1>2, <2>1, TlbieIsOk
    <2>2. CASE \E seg \in Segments, v \in SrValues : Mtsr(seg, v)
        BY <2>2, MtsrIsOk
    <2>3. CASE \E t \in Tables : MtSdr1(t)
        BY <2>3, MtSdr1IsOk
    <2>4. CASE \E side \in Sides, v \in BatValues : MtBat(side, v)
        BY <2>4, MtBatIsOk
    <2>5. CASE \E v \in MsrValues : Mtmsr(v) \/ ContextSync(v)
        BY <2>5, MtmsrIsOk, ContextSyncIsOk
    <2>6. CASE \E p \in DOMAIN pte, v \in PteValues : ChangePte(p, v)
        BY <2>6, ChangePteIsOk
    <2> QED
        BY <1>4, <2>1, <2>2, <2>3, <2>4, <2>5, <2>6 DEF MmuNext
<1> QED
    BY <1>3, <1>4

\* What the invariant says of the slots once the guest owes nothing.
LEMMA MmuInvPromised ==
    ASSUME MmuInv, NEW s \in Slots, tlb[s].tag # <<>>, Promised(tlb[s].tag)
    PROVE  InForce(s, tlb[s]) /\ EntryOk(s, tlb[s], pte)
<1>1. s[1] \in Sides /\ EntryOk(s, tlb[s], pte)
    BY DEF MmuInv, MachineOk, Machine, Slots
<1>2. pending[s[1]] = {}
    BY <1>1 DEF MmuInv, SyncOk, Promised
<1> QED
    BY <1>1, <1>2 DEF Promised, InForce

\* A guest that synchronises and flushes as the architecture asks sees no TLB:
\* every slot holds what its registers and page tables say, provided it makes
\* no block-mapped segment of a 601 an I/O segment (mmu_pat_ctx_changed leaves
\* block entries alone).
THEOREM TlbsCoherent == ~IoOverBlocks => (MmuSpec => []Coherent)
<1> SUFFICES ASSUME ~IoOverBlocks PROVE MmuSpec => []Coherent
    OBVIOUS
<1>1. MmuInv => Coherent
    <2> SUFFICES ASSUME MmuInv, NEW s \in Slots, tlb[s].tag # <<>>, Promised(tlb[s].tag)
                 PROVE  Agrees(s, tlb[s])
        BY DEF Coherent, Agrees
    <2> QED
        BY MmuInvPromised DEF EntryOk
<1> QED
    BY <1>1, MmuInvInit, MmuInvStep, PTL DEF MmuSpec

\* A cached page has its R bit set in the page table, and stores go without a
\* walk only where its C bit is set: page_address_translation and
\* prepare_dtlb_write leave no access of a flushed, synchronised page out.
THEOREM ReferencesKept == MmuSpec => []ReferencesRecorded
<1>1. MmuInv => ReferencesRecorded
    <2> SUFFICES ASSUME MmuInv, NEW s \in Slots, tlb[s].tag # <<>>, tlb[s].src = "PAT",
                        Promised(tlb[s].tag), ~sr[tlb[s].tag[1]].t
                 PROVE  /\ pte[PteOf(tlb[s].tag)].r
                        /\ tlb[s].setC => pte[PteOf(tlb[s].tag)].c
        BY DEF ReferencesRecorded
    <2>1. Marked(tlb[s], pte)
        BY MmuInvPromised DEF EntryOk
    <2> QED
        BY <2>1 DEF Marked
<1> QED
    BY <1>1, MmuInvInit, MmuInvStep, PTL DEF MmuSpec

-----------------------------------------------------------------------------
(* Sequences: what inserting and removing an element gives. *)

\* A set of numbers that is not empty has a least element.
LEMMA LeastNumber ==
    ASSUME NEW T \in SUBSET Nat, T # {}
    PROVE  Min(T) \in T /\ \A y \in T : Min(T) <= y
<1>1. PICK x \in T : \A y \in T : ~(<<y, x>> \in OpToRel(<, Nat))
    BY NatLessThanWellFounded, WFMin
<1>2. \A y \in T : <<y, x>> \in Nat \X Nat /\ ~(y < x)
    BY <1>1 DEF OpToRel
<1>3. \A y \in T : x <= y
    <2> SUFFICES ASSUME NEW y \in T PROVE x <= y
        OBVIOUS
    <2>1. x \in Nat /\ y \in Nat /\ ~(y < x)
        BY <1>2
    <2> QED
        BY <2>1
<1> QED
    BY <1>3 DEF Min

\* n is m with e at k.
HasInserted(m, k, e, n) ==
    /\ Len(n) = Len(m) + 1
    /\ \A i \in 1 .. k - 1 : n[i] = m[i]
    /\ n[k] = e
    /\ \A i \in k + 1 .. Len(m) + 1 : n[i] = m[i - 1]

LEMMA InsertedAt ==
    ASSUME NEW S, NEW m \in Seq(S), NEW e \in S, NEW k \in 1 .. Len(m) + 1
    PROVE  InsertAt(m, k, e) \in Seq(S) /\ HasInserted(m, k, e, InsertAt(m, k, e))
<1> DEFINE a == SubSeq(m, 1, k - 1)
           b == SubSeq(m, k, Len(m))
<1>1. Len(m) \in Nat /\ \A i \in 1 .. Len(m) : m[i] \in S
    OBVIOUS
<1>2. /\ a \in Seq(S) /\ Len(a) = k - 1
      /\ \A i \in 1 .. k - 1 : a[i] = m[i]
    BY <1>1, SubSeqProperties
<1>3. /\ b \in Seq(S) /\ Len(b) = Len(m) - k + 1
      /\ \A i \in 1 .. Len(m) - k + 1 : b[i] = m[k + i - 1]
    BY <1>1, SubSeqProperties
<1>4. InsertAt(m, k, e) = (a \o <<e>>) \o b
    BY DEF InsertAt
<1> HIDE DEF a, b
<1>5. <<e>> \in Seq(S) /\ Len(<<e>>) = 1 /\ <<e>>[1] = e
    OBVIOUS
<1> DEFINE c == a \o <<e>>
<1>6. c \in Seq(S) /\ Len(c) = k /\ c[k] = e /\ \A i \in 1 .. k - 1 : c[i] = m[i]
    <2>1. /\ c \in Seq(S) /\ Len(c) = Len(a) + Len(<<e>>)
          /\ \A i \in 1 .. Len(a) + Len(<<e>>) : c[i] = IF i <= Len(a) THEN a[i] ELSE <<e>>[i - Len(a)]
        BY <1>2, <1>5, ConcatProperties
    <2> HIDE DEF c
    <2>2. Len(a) + Len(<<e>>) = k
        BY <1>1, <1>2, <1>5
    <2>3. c[k] = e
        BY <1>1, <1>2, <1>5, <2>1, <2>2
    <2>4. \A i \in 1 .. k - 1 : c[i] = m[i]
        BY <1>1, <1>2, <2>1, <2>2
    <2> QED
        BY <2>1, <2>2, <2>3, <2>4
<1> HIDE DEF c
<1>7. /\ c \o b \in Seq(S) /\ Len(c \o b) = Len(m) + 1
      /\ \A i \in 1 .. Len(m) + 1 : (c \o b)[i] = IF i <= k THEN c[i] ELSE b[i - k]
    <2>1. /\ c \o b \in Seq(S) /\ Len(c \o b) = Len(c) + Len(b)
          /\ \A i \in 1 .. Len(c) + Len(b) : (c \o b)[i] = IF i <= Len(c) THEN c[i] ELSE b[i - Len(c)]
        BY <1>3, <1>6, ConcatProperties
    <2>2. Len(c) = k /\ Len(c) + Len(b) = Len(m) + 1
        BY <1>1, <1>3, <1>6
    <2> QED
        BY <2>1, <2>2
<1>8. \A i \in k + 1 .. Len(m) + 1 : b[i - k] = m[i - 1]
    BY <1>1, <1>3
<1> QED
    BY <1>1, <1>4, <1>6, <1>7, <1>8 DEF c, HasInserted

\* n is m without the element at k.
HasRemoved(m, k, n) ==
    /\ Len(n) = Len(m) - 1
    /\ \A i \in 1 .. k - 1 : n[i] = m[i]
    /\ \A i \in k .. Len(m) - 1 : n[i] = m[i + 1]

LEMMA RemovedAt ==
    ASSUME NEW S, NEW m \in Seq(S), NEW k \in 1 .. Len(m)
    PROVE  RemoveAt(m, k) \in Seq(S) /\ HasRemoved(m, k, RemoveAt(m, k))
<1> DEFINE a == SubSeq(m, 1, k - 1)
           b == SubSeq(m, k + 1, Len(m))
<1>1. Len(m) \in Nat /\ \A i \in 1 .. Len(m) : m[i] \in S
    OBVIOUS
<1>2. /\ a \in Seq(S) /\ Len(a) = k - 1
      /\ \A i \in 1 .. k - 1 : a[i] = m[i]
    BY <1>1, SubSeqProperties
<1>3. /\ b \in Seq(S) /\ Len(b) = Len(m) - k
      /\ \A i \in 1 .. Len(m) - k : b[i] = m[k + i]
    BY <1>1, SubSeqProperties
<1>4. RemoveAt(m, k) = a \o b
    BY DEF RemoveAt
<1> HIDE DEF a, b
<1>5. /\ a \o b \in Seq(S) /\ Len(a \o b) = Len(m) - 1
      /\ \A i \in 1 .. Len(m) - 1 : (a \o b)[i] = IF i <= k - 1 THEN a[i] ELSE b[i - (k - 1)]
    BY <1>1, <1>2, <1>3, ConcatProperties
<1>6. \A i \in k .. Len(m) - 1 : b[i - (k - 1)] = m[i + 1]
    BY <1>1, <1>3
<1> QED
    BY <1>1, <1>2, <1>4, <1>5, <1>6 DEF HasRemoved

-----------------------------------------------------------------------------
(* The inductive invariant of the address map. *)

MapRegions == [start : Nat, end : Nat, dev : {"ram"} \cup {DevOf[b] : b \in Bars}]

\* A sequence of regions, RAM first, of which no two overlap.
MapOk(m) ==
    /\ m \in Seq(MapRegions)
    /\ Len(m) >= 1
    /\ m[1].start = 0 /\ m[1].end = RamSize - 1
    /\ \A i \in DOMAIN m : m[i].start <= m[i].end
    /\ \A i, j \in DOMAIN m : Overlaps(m[i], m[j]) => i = j

\* A region other than RAM is the aperture of a register, or an old place of
\* GrandCentral's.
Owned(m) ==
    \A i \in DOMAIN m \ {1} : \E b \in Bars :
        /\ m[i].dev = DevOf[b]
        /\ b \in Fixed \/ m[i] = ApertureOf(b, aperture[b])

\* What was granted is still in the map, and no twin is at its place: removing
\* a region of another register cannot take it.
GrantedOk ==
    \A b \in Bars : granted[b] =>
        /\ \E i \in DOMAIN address_map : address_map[i] = ApertureOf(b, aperture[b])
        /\ \A d \in Bars : Twins(b, d) => aperture[d] # aperture[b]

MapInv ==
    /\ MapOk(address_map)
    /\ aperture \in [Bars -> Nat]
    /\ granted \in [Bars -> BOOLEAN]
    /\ Owned(address_map)
    /\ GrantedOk

\* add_mem_region keeps the regions apart, RAM first and everything that was
\* there, and adds what it is asked for if its range is free.
Added(m, e, n) ==
    /\ MapOk(n)
    /\ \A i \in DOMAIN n \ {1} : n[i] = e \/ \E j \in DOMAIN m \ {1} : n[i] = m[j]
    /\ \A j \in DOMAIN m : \E i \in DOMAIN n : n[i] = m[j]
    /\ IsRangeFree(m, e) => \E i \in DOMAIN n : n[i] = e

LEMMA AddRegionIsOk ==
    ASSUME NEW m, MapOk(m), NEW e \in MapRegions, e.start <= e.end
    PROVE  Added(m, e, AddRegion(m, e))
<1> DEFINE k == UpperBound(m, e.start)
           n == InsertAt(m, k, e)
<1>1. /\ m \in Seq(MapRegions) /\ Len(m) \in Nat /\ Len(m) >= 1 /\ DOMAIN m = 1 .. Len(m)
      /\ m[1].start = 0 /\ e.start \in Nat /\ e.end \in Nat
    BY DEF MapOk, MapRegions
<1>2. CASE ~IsRangeFree(m, e)
    BY <1>2 DEF AddRegion, Added
<1>3. CASE IsRangeFree(m, e)
    <2>1. k \in 2 .. Len(m) + 1
        <3> DEFINE after == {i \in 1 .. Len(m) : m[i].start > e.start}
        <3>1. after \in SUBSET Nat /\ after \subseteq 2 .. Len(m)
            BY <1>1
        <3>2. CASE after = {}
            BY <1>1, <3>2 DEF UpperBound
        <3>3. CASE after # {}
            <4>1. k = Min(after)
                BY <3>3 DEF UpperBound
            <4>2. Min(after) \in after
                BY <3>1, <3>3, LeastNumber
            <4> HIDE DEF after, k
            <4>3. k \in 2 .. Len(m)
                BY <3>1, <4>1, <4>2
            <4> QED
                BY <1>1, <4>3
        <3> QED
            BY <3>2, <3>3
    <2> HIDE DEF k
    <2>2. k \in 1 .. Len(m) + 1
        BY <1>1, <2>1
    <2>3. /\ n \in Seq(MapRegions) /\ Len(n) = Len(m) + 1
          /\ \A i \in 1 .. k - 1 : n[i] = m[i]
          /\ n[k] = e
          /\ \A i \in k + 1 .. Len(m) + 1 : n[i] = m[i - 1]
        <3>1. n \in Seq(MapRegions) /\ HasInserted(m, k, e, n)
            BY <1>1, <2>2, InsertedAt
        <3> QED
            BY <3>1 DEF HasInserted
    <2> HIDE DEF n
    <2>4. DOMAIN n = 1 .. Len(m) + 1
        BY <2>3
    \* old(i) is where the region at i was.
    <2> DEFINE old(i) == IF i < k THEN i ELSE i - 1
    <2>5. \A i \in DOMAIN n : i # k => old(i) \in DOMAIN m /\ n[i] = m[old(i)]
        BY <1>1, <2>1, <2>3, <2>4
    <2>6. \A i, j \in DOMAIN n : i # k /\ j # k /\ old(i) = old(j) => i = j
        BY <1>1, <2>1, <2>4
    <2>7. \A i \in DOMAIN n : i # k /\ i # 1 => old(i) # 1
        BY <1>1, <2>1, <2>4
    <2>8. \A j \in DOMAIN m : \E i \in DOMAIN n : i # k /\ n[i] = m[j]
        <3> SUFFICES ASSUME NEW j \in DOMAIN m PROVE \E i \in DOMAIN n : i # k /\ n[i] = m[j]
            OBVIOUS
        <3>1. CASE j < k
            BY <1>1, <2>1, <2>3, <2>4, <3>1
        <3>2. CASE ~(j < k)
            <4>1. j + 1 \in k + 1 .. Len(m) + 1 /\ j + 1 \in DOMAIN n /\ j + 1 # k /\ (j + 1) - 1 = j
                BY <1>1, <2>1, <2>4, <3>2
            <4> QED
                BY <2>3, <4>1
        <3> QED
            BY <3>1, <3>2
    <2> HIDE DEF old
    <2>9. \A j \in DOMAIN m : ~Overlaps(e, m[j]) /\ ~Overlaps(m[j], e)
        <3> SUFFICES ASSUME NEW j \in DOMAIN m PROVE ~Overlaps(e, m[j]) /\ ~Overlaps(m[j], e)
            OBVIOUS
        <3>1. m[j].start \in Nat /\ m[j].end \in Nat
            <4>1. m[j] \in MapRegions
                BY <1>1, ElementOfSeq
            <4> QED
                BY <4>1 DEF MapRegions
        <3>2. ~Overlaps(e, m[j])
            BY <1>3 DEF IsRangeFree
        <3> QED
            BY <1>1, <3>1, <3>2 DEF Overlaps
    <2>10. \A i, j \in DOMAIN n : Overlaps(n[i], n[j]) => i = j
        BY <2>3, <2>5, <2>6, <2>9 DEF MapOk
    <2>11. \A i \in DOMAIN n : n[i].start <= n[i].end
        BY <2>3, <2>5 DEF MapOk
    <2>12. n[1] = m[1] /\ Len(n) >= 1 /\ k \in DOMAIN n
        BY <1>1, <2>1, <2>3, <2>4
    <2>13. MapOk(n)
        BY <2>3, <2>10, <2>11, <2>12 DEF MapOk
    <2>14. \A i \in DOMAIN n \ {1} : n[i] = e \/ \E j \in DOMAIN m \ {1} : n[i] = m[j]
        BY <2>3, <2>5, <2>7
    <2>15. AddRegion(m, e) = n
        BY <1>3 DEF AddRegion, n, k
    <2> QED
        BY <2>3, <2>8, <2>12, <2>13, <2>14, <2>15 DEF Added
<1> QED
    BY <1>2, <1>3

\* remove_mmio_region takes out the one region it is asked to and nothing else.
Removed(m, e, n) ==
    /\ MapOk(n)
    /\ \A i \in DOMAIN n : n[i] # e
    /\ \A i \in DOMAIN n \ {1} : \E j \in DOMAIN m \ {1} : n[i] = m[j]
    /\ \A j \in DOMAIN m : m[j] # e => \E i \in DOMAIN n : n[i] = m[j]

LEMMA RemoveRegionIsOk ==
    ASSUME NEW m, MapOk(m), NEW e, e.start # 0
    PROVE  Removed(m, e, RemoveRegion(m, e))
<1> DEFINE at == {i \in 1 .. Len(m) : m[i] = e}
           k  == Min(at)
           n  == RemoveAt(m, k)
<1>1. /\ m \in Seq(MapRegions) /\ Len(m) \in Nat /\ Len(m) >= 1 /\ DOMAIN m = 1 .. Len(m)
      /\ m[1].start = 0 /\ m[1] # e
    BY DEF MapOk
<1>2. CASE at = {}
    <2>1. RemoveRegion(m, e) = m
        BY <1>2 DEF RemoveRegion, RemoveFirst
    <2> QED
        BY <1>1, <1>2, <2>1 DEF Removed
<1>3. CASE at # {}
    <2>1. RemoveRegion(m, e) = n
        BY <1>3 DEF RemoveRegion, RemoveFirst, SelectInSeq
    <2>2. at \in SUBSET Nat
        OBVIOUS
    <2>3. k \in at
        BY <1>3, <2>2, LeastNumber
    <2>4. k \in 2 .. Len(m) /\ m[k] = e /\ k \in 1 .. Len(m)
        BY <1>1, <2>3
    <2> HIDE DEF k
    <2>5. /\ n \in Seq(MapRegions) /\ Len(n) = Len(m) - 1
          /\ \A i \in 1 .. k - 1 : n[i] = m[i]
          /\ \A i \in k .. Len(m) - 1 : n[i] = m[i + 1]
        <3>1. n \in Seq(MapRegions) /\ HasRemoved(m, k, n)
            BY <1>1, <2>4, RemovedAt
        <3> QED
            BY <3>1 DEF HasRemoved
    <2> HIDE DEF n, at
    <2>6. DOMAIN n = 1 .. Len(m) - 1
        BY <2>5
    <2> DEFINE old(i) == IF i < k THEN i ELSE i + 1
    <2>7. \A i \in DOMAIN n : old(i) \in DOMAIN m /\ old(i) # k /\ n[i] = m[old(i)]
        BY <1>1, <2>4, <2>5, <2>6
    <2>8. \A i, j \in DOMAIN n : old(i) = old(j) => i = j
        BY <1>1, <2>4, <2>6
    <2>9. \A i \in DOMAIN n : i # 1 => old(i) # 1
        BY <1>1, <2>4, <2>6
    <2>10. \A j \in DOMAIN m : j # k => \E i \in DOMAIN n : n[i] = m[j]
        <3> SUFFICES ASSUME NEW j \in DOMAIN m, j # k PROVE \E i \in DOMAIN n : n[i] = m[j]
            OBVIOUS
        <3>1. CASE j < k
            BY <1>1, <2>4, <2>5, <2>6, <3>1
        <3>2. CASE ~(j < k)
            <4>1. j - 1 \in k .. Len(m) - 1 /\ j - 1 \in DOMAIN n /\ (j - 1) + 1 = j
                BY <1>1, <2>4, <2>6, <3>2
            <4> QED
                BY <2>5, <4>1
        <3> QED
            BY <3>1, <3>2
    <2> HIDE DEF old
    <2>11. \A j \in DOMAIN m : m[j] = e => j = k
        <3> SUFFICES ASSUME NEW j \in DOMAIN m, m[j] = e PROVE j = k
            OBVIOUS
        <3>1. m[j] \in MapRegions /\ m[j].start <= m[j].end
            BY <1>1, ElementOfSeq DEF MapOk
        <3>2. Overlaps(m[j], m[k])
            BY <2>4, <3>1 DEF Overlaps, MapRegions
        <3> QED
            BY <1>1, <2>4, <3>2 DEF MapOk
    <2>12. \A i, j \in DOMAIN n : Overlaps(n[i], n[j]) => i = j
        BY <2>7, <2>8 DEF MapOk
    <2>13. \A i \in DOMAIN n : n[i].start <= n[i].end
        BY <2>7 DEF MapOk
    <2>14. n[1] = m[1] /\ Len(n) >= 1
        BY <1>1, <2>4, <2>5
    <2>15. MapOk(n)
        BY <2>5, <2>12, <2>13, <2>14 DEF MapOk
    <2>16. \A i \in DOMAIN n : n[i] # e
        BY <2>7, <2>11
    <2>17. \A i \in DOMAIN n \ {1} : \E j \in DOMAIN m \ {1} : n[i] = m[j]
        BY <2>7, <2>9
    <2>18. \A j \in DOMAIN m : m[j] # e => \E i \in DOMAIN n : n[i] = m[j]
        BY <2>4, <2>10
    <2> QED
        BY <2>1, <2>15, <2>16, <2>17, <2>18 DEF Removed
<1> QED
    BY <1>2, <1>3

\* An aperture is a region of the map's kind and tells its register from all
\* that are not its twins.
LEMMA ApertureIsOk ==
    ASSUME NEW b \in Bars, NEW x \in Nat
    PROVE  /\ ApertureOf(b, x) \in MapRegions
           /\ ApertureOf(b, x).start = x /\ ApertureOf(b, x).dev = DevOf[b]
           /\ ApertureOf(b, x).end = x + SizeOf[b] - 1
           /\ x <= x + SizeOf[b] - 1
           /\ \A c \in Bars, y \in Nat :
                 ApertureOf(b, x) = ApertureOf(c, y) => x = y /\ (b = c \/ Twins(c, b))
<1>1. SizeOf[b] \in Nat /\ SizeOf[b] >= 1
    BY MapAssumption
<1>2. x + SizeOf[b] - 1 \in Nat /\ x <= x + SizeOf[b] - 1
    BY <1>1
<1>3. /\ ApertureOf(b, x).start = x /\ ApertureOf(b, x).dev = DevOf[b]
      /\ ApertureOf(b, x).end = x + SizeOf[b] - 1
    BY DEF ApertureOf, Entry
<1>4. ApertureOf(b, x) \in MapRegions
    BY <1>2 DEF ApertureOf, Entry, MapRegions
<1>5. ASSUME NEW c \in Bars, NEW y \in Nat, ApertureOf(b, x) = ApertureOf(c, y)
      PROVE  x = y /\ (b = c \/ Twins(c, b))
    <2>1. x = y /\ DevOf[b] = DevOf[c] /\ x + SizeOf[b] - 1 = y + SizeOf[c] - 1
        BY <1>5 DEF ApertureOf, Entry
    <2>2. SizeOf[c] \in Nat
        BY MapAssumption
    <2>3. SizeOf[b] = SizeOf[c]
        BY <1>1, <2>1, <2>2
    <2> QED
        BY <2>1, <2>3 DEF Twins
<1> QED
    BY <1>2, <1>3, <1>4, <1>5

\* The registers decode multiples of their sizes.
LEMMA DecodedIsNat ==
    ASSUME NEW b \in Bars, NEW value \in Nat
    PROVE  Decoded(b, value) \in Nat
<1>1. SizeOf[b] \in Nat /\ SizeOf[b] >= 1
    BY MapAssumption
<1>2. value % SizeOf[b] \in Nat /\ value % SizeOf[b] <= value
    BY <1>1
<1> QED
    BY <1>2 DEF Decoded

\* m is what register b leaves of the map when it moves: some of the regions,
\* its own not among them unless it never gives one back, and all the others.
LeftBy(b, m) ==
    /\ \A i \in DOMAIN m \ {1} : \E j \in DOMAIN address_map \ {1} : m[i] = address_map[j]
    /\ b \in Fixed \/ \A i \in DOMAIN m \ {1} : m[i] # ApertureOf(b, aperture[b])
    /\ \A j \in DOMAIN address_map : address_map[j] # ApertureOf(b, aperture[b]) =>
          \E i \in DOMAIN m : m[i] = address_map[j]

\* A register moves: what it leaves of the map is m, and n is the map with its
\* new region if that was granted.
LEMMA PlacedIsOk ==
    ASSUME MapInv, NEW b \in Bars, NEW addr \in Nat, NEW m, MapOk(m),
           LeftBy(b, m), NEW n, n = m \/ Added(m, ApertureOf(b, addr), n),
           NEW g \in BOOLEAN, g => \E i \in DOMAIN n : n[i] = ApertureOf(b, addr),
           address_map' = n, aperture' = [aperture EXCEPT ![b] = addr], granted' = Grants(b, addr, g)
    PROVE  MapInv'
<1>1. /\ MapOk(n)
      /\ \A i \in DOMAIN n \ {1} : n[i] = ApertureOf(b, addr) \/ \E j \in DOMAIN m \ {1} : n[i] = m[j]
      /\ \A j \in DOMAIN m : \E i \in DOMAIN n : n[i] = m[j]
    BY DEF Added
<1>2. aperture \in [Bars -> Nat] /\ granted \in [Bars -> BOOLEAN]
    BY DEF MapInv
<1>3. aperture' \in [Bars -> Nat] /\ granted' \in [Bars -> BOOLEAN]
    BY <1>2 DEF Grants
<1>4. /\ aperture'[b] = addr /\ \A c \in Bars \ {b} : aperture'[c] = aperture[c]
      /\ granted'[b] => g /\ \A d \in Bars : Twins(b, d) => aperture[d] # addr
      /\ \A c \in Bars \ {b} : granted'[c] => granted[c] /\ ~(Twins(b, c) /\ aperture[c] = addr)
    BY <1>2 DEF Grants
<1>5. Owned(address_map)'
    <2>1. SUFFICES ASSUME NEW i \in DOMAIN n \ {1}
                   PROVE  \E c \in Bars : /\ n[i].dev = DevOf[c]
                                          /\ c \in Fixed \/ n[i] = ApertureOf(c, aperture'[c])
        BY DEF Owned, ApertureOf, Entry
    <2>2. CASE n[i] = ApertureOf(b, addr)
        BY <1>4, <2>2, ApertureIsOk
    <2>3. CASE \E j \in DOMAIN m \ {1} : n[i] = m[j]
        <3>1. PICK j \in DOMAIN m \ {1} : n[i] = m[j]
            BY <2>3
        <3>2. PICK l \in DOMAIN address_map \ {1} : m[j] = address_map[l]
            BY DEF LeftBy
        <3>3. PICK c \in Bars : /\ address_map[l].dev = DevOf[c]
                                /\ c \in Fixed \/ address_map[l] = ApertureOf(c, aperture[c])
            BY DEF MapInv, Owned
        <3>4. c = b => c \in Fixed
            BY <3>2, <3>3 DEF LeftBy
        <3> QED
            BY <1>4, <3>1, <3>2, <3>3, <3>4
    <2> QED
        BY <1>1, <2>2, <2>3
<1>6. GrantedOk'
    <2>1. SUFFICES ASSUME NEW c \in Bars, granted'[c]
                   PROVE  /\ \E i \in DOMAIN n : n[i] = ApertureOf(c, aperture'[c])
                          /\ \A d \in Bars : Twins(c, d) => aperture'[d] # aperture'[c]
        BY DEF GrantedOk, ApertureOf, Entry, Twins
    <2>2. CASE c = b
        <3>1. \A d \in Bars : Twins(b, d) => d \in Bars \ {b}
            BY DEF Twins
        <3> QED
            BY <1>4, <2>1, <2>2, <3>1
    <2>3. CASE c # b
        <3>1. PICK j \in DOMAIN address_map : address_map[j] = ApertureOf(c, aperture[c])
            BY <1>4, <2>1, <2>3 DEF MapInv, GrantedOk
        <3>2. aperture[b] \in Nat /\ aperture[c] \in Nat
            BY <1>2
        <3>3. \A d \in Bars : Twins(c, d) => aperture[d] # aperture[c]
            BY <1>4, <2>1, <2>3 DEF MapInv, GrantedOk
        <3>4. address_map[j] # ApertureOf(b, aperture[b])
            BY <2>3, <3>1, <3>2, <3>3, ApertureIsOk
        <3>5. PICK i \in DOMAIN m : m[i] = address_map[j]
            BY <3>4 DEF LeftBy
        <3>6. \E l \in DOMAIN n : n[l] = ApertureOf(c, aperture'[c])
            BY <1>1, <1>4, <2>3, <3>1, <3>5
        <3>7. Twins(c, b) => Twins(b, c)
            BY DEF Twins
        <3>8. \A d \in Bars : Twins(c, d) => aperture'[d] # aperture'[c]
            BY <1>4, <2>1, <2>3, <3>3, <3>7
        <3> QED
            BY <3>6, <3>8
    <2> QED
        BY <2>2, <2>3
<1>7. MapOk(address_map)'
    BY <1>1 DEF MapOk, Overlaps
<1> QED
    BY <1>3, <1>5, <1>6, <1>7 DEF MapInv

LEMMA MoveIsOk ==
    ASSUME MapInv, NEW b \in Bars, NEW addr \in Nat, Move(b, addr)
    PROVE  MapInv'
<1> DEFINE old == ApertureOf(b, aperture[b])
           new == ApertureOf(b, addr)
           m   == IF aperture[b] = 0 THEN address_map ELSE RemoveRegion(address_map, old)
           n   == IF addr = 0 THEN m ELSE AddRegion(m, new)
           g   == addr # 0 /\ IsRangeFree(m, new)
<1>1. address_map' = n /\ aperture' = [aperture EXCEPT ![b] = addr] /\ granted' = Grants(b, addr, g)
    BY DEF Move
<1>2. MapOk(address_map) /\ aperture[b] \in Nat
    BY DEF MapInv
<1>3. new \in MapRegions /\ new.start <= new.end /\ old.start = aperture[b] /\ old.start <= old.end
      /\ old \in MapRegions
    BY <1>2, ApertureIsOk
<1> HIDE DEF old, new
<1>4. /\ MapOk(m)
      /\ \A i \in DOMAIN m \ {1} : \E j \in DOMAIN address_map \ {1} : m[i] = address_map[j]
      /\ \A i \in DOMAIN m \ {1} : m[i] # old
      /\ \A j \in DOMAIN address_map : address_map[j] # old => \E i \in DOMAIN m : m[i] = address_map[j]
    <2>1. CASE aperture[b] = 0
        <3>1. m = address_map
            BY <2>1
        <3>2. ASSUME NEW i \in DOMAIN address_map, address_map[i] = old PROVE i = 1
            <4>1. /\ 1 \in DOMAIN address_map /\ address_map[1].start = 0
                  /\ address_map[1].end = RamSize - 1
                BY <1>2 DEF MapOk
            <4>2. RamSize \in Nat /\ RamSize >= 1 /\ old.start = 0 /\ old.end \in Nat
                BY <1>3, <2>1, MapAssumption DEF MapRegions
            <4>3. Overlaps(address_map[i], address_map[1])
                BY <3>2, <4>1, <4>2 DEF Overlaps
            <4> QED
                BY <1>2, <4>1, <4>3 DEF MapOk
        <3> HIDE DEF m
        <3> QED
            BY <1>2, <3>1, <3>2
    <2>2. CASE aperture[b] # 0
        <3>1. m = RemoveRegion(address_map, old)
            BY <2>2
        <3>2. Removed(address_map, old, m)
            BY <1>2, <1>3, <2>2, <3>1, RemoveRegionIsOk
        <3> HIDE DEF m
        <3> QED
            BY <3>2 DEF Removed
    <2> QED
        BY <2>1, <2>2
<1> HIDE DEF m
<1>5. n = m \/ Added(m, new, n)
    BY <1>3, <1>4, AddRegionIsOk
<1>6. g \in BOOLEAN /\ (g => \E i \in DOMAIN n : n[i] = new)
    <2>1. CASE addr = 0
        BY <2>1
    <2>2. CASE addr # 0
        <3>1. Added(m, new, n)
            BY <1>3, <1>4, <2>2, AddRegionIsOk
        <3> HIDE DEF n
        <3> QED
            BY <2>2, <3>1 DEF Added
    <2> QED
        BY <2>1, <2>2
<1> HIDE DEF n, g
<1>7. LeftBy(b, m)
    BY <1>4 DEF old, LeftBy
<1>8. /\ n = m \/ Added(m, ApertureOf(b, addr), n)
      /\ g => \E i \in DOMAIN n : n[i] = ApertureOf(b, addr)
    BY <1>5, <1>6 DEF new
<1>9. PICK m0 : m0 = m
    OBVIOUS
<1>10. PICK n0 : n0 = n
    OBVIOUS
<1>11. PICK g0 : g0 = g
    OBVIOUS
<1>12. MapOk(m0) /\ LeftBy(b, m0) /\ (n0 = m0 \/ Added(m0, ApertureOf(b, addr), n0)) /\ g0 \in BOOLEAN
      /\ (g0 => \E i \in DOMAIN n0 : n0[i] = ApertureOf(b, addr))
    BY <1>4, <1>6, <1>7, <1>8, <1>9, <1>10, <1>11
<1>13. address_map' = n0 /\ aperture' = [aperture EXCEPT ![b] = addr] /\ granted' = Grants(b, addr, g0)
    BY <1>1, <1>10, <1>11
<1> QED
    BY <1>12, <1>13, PlacedIsOk

LEMMA MoveFixedIsOk ==
    ASSUME MapInv, NEW b \in Bars, b \in Fixed, NEW addr \in Nat, MoveFixed(b, addr)
    PROVE  MapInv'
<1> DEFINE m   == address_map
           new == ApertureOf(b, addr)
           n   == AddRegion(m, new)
           g   == IsRangeFree(m, new)
<1>1. address_map' = n /\ aperture' = [aperture EXCEPT ![b] = addr] /\ granted' = Grants(b, addr, g)
    BY DEF MoveFixed
<1>2. MapOk(m)
    BY DEF MapInv
<1>3. Added(m, new, n)
    BY <1>2, ApertureIsOk, AddRegionIsOk
<1>4. g \in BOOLEAN /\ (g => \E i \in DOMAIN n : n[i] = new)
    <2>1. g \in BOOLEAN
        BY DEF IsRangeFree
    <2> HIDE DEF n
    <2> QED
        BY <1>3, <2>1 DEF Added
<1> HIDE DEF n, g
<1>5. LeftBy(b, m)
    BY DEF LeftBy
<1> QED
    BY <1>1, <1>2, <1>3, <1>4, <1>5, PlacedIsOk

LEMMA MapInvInit == MapInit => MapInv
<1> SUFFICES ASSUME MapInit PROVE MapInv
    OBVIOUS
<1> DEFINE e == Entry(0, RamSize, "ram")
<1>1. RamSize \in Nat /\ RamSize >= 1 /\ 0 \in Nat /\ RamSize - 1 \in Nat
    BY MapAssumption
<1>2. e \in MapRegions /\ e.start = 0 /\ e.end = RamSize - 1
    BY <1>1 DEF Entry, MapRegions
<1>3. address_map = <<e>>
    BY DEF MapInit
<1> HIDE DEF e
<1>4. address_map \in Seq(MapRegions) /\ Len(address_map) = 1 /\ address_map[1] = e /\ DOMAIN address_map = {1}
    BY <1>2, <1>3
<1>5. MapOk(address_map)
    BY <1>1, <1>2, <1>4 DEF MapOk
<1> QED
    BY <1>1, <1>4, <1>5 DEF MapInit, MapInv, Owned, GrantedOk

LEMMA MapInvStep == MapInv /\ [MapNext]_mapVars => MapInv'
<1> SUFFICES ASSUME MapInv, [MapNext]_mapVars PROVE MapInv'
    OBVIOUS
<1>1. ASSUME UNCHANGED <<address_map, aperture, granted>> PROVE MapInv'
    BY <1>1 DEF MapInv, MapOk, Owned, GrantedOk, Overlaps, ApertureOf, Entry
<1>2. ASSUME NEW b \in Bars, NEW value \in 0 .. Top, SetBarValue(b, value) PROVE MapInv'
    <2>1. value \in Nat
        BY MapAssumption
    <2> QED
        BY <1>1, <1>2, <2>1, DecodedIsNat, MoveIsOk, MoveFixedIsOk DEF SetBarValue, Stay
<1>3. ASSUME NEW b \in Bars, NEW value \in 0 .. Top, NEW enable \in BOOLEAN, WriteRomBar(b, value, enable)
      PROVE  MapInv'
    <2>1. value \in Nat
        BY MapAssumption
    <2>2. (IF enable THEN Decoded(b, value) ELSE 0) \in Nat
        BY <2>1, DecodedIsNat
    <2> QED
        BY <1>1, <1>3, <2>2, MoveIsOk DEF WriteRomBar, Stay
<1> QED
    BY <1>1, <1>2, <1>3 DEF MapNext, mapVars

\* However the guest moves, sizes and overlays its devices, for any number of
\* them and any sizes, equal ones of one device included: no regions of
\* add_mem_region overlap, each belongs to a register of its device that decodes
\* it now, and a granted one is found by find_range until its register is moved
\* again or a twin asks for its place.
THEOREM RegionsKept == MapSpec => []RegionsFollowBars
<1>1. MapInv => RegionsFollowBars
    <2> SUFFICES ASSUME MapInv, NEW b \in Bars, granted[b],
                        NEW addr \in aperture[b] .. aperture[b] + SizeOf[b] - 1
                 PROVE  /\ FindRange(address_map, addr) # 0
                        /\ address_map[FindRange(address_map, addr)] = ApertureOf(b, aperture[b])
        BY DEF MapInv, MapOk, Owned, RegionsFollowBars
    <2> DEFINE m  == address_map
               at == {i \in 1 .. Len(m) : addr >= m[i].start /\ addr <= m[i].end}
    <2>1. /\ m \in Seq(MapRegions) /\ DOMAIN m = 1 .. Len(m) /\ aperture[b] \in Nat
          /\ \A i, j \in DOMAIN m : Overlaps(m[i], m[j]) => i = j
        BY DEF MapInv, MapOk
    <2>2. PICK i \in DOMAIN m : m[i] = ApertureOf(b, aperture[b])
        BY DEF MapInv, GrantedOk
    <2>3. m[i].start = aperture[b] /\ m[i].end = aperture[b] + SizeOf[b] - 1
        BY <2>1, <2>2, ApertureIsOk
    <2>4. i \in at
        BY <2>1, <2>3
    <2>5. at \in SUBSET Nat
        OBVIOUS
    <2>6. Min(at) \in at
        BY <2>4, <2>5, LeastNumber
    <2>7. FindRange(m, addr) = Min(at)
        BY <2>4 DEF FindRange, SelectInSeq
    <2>8. m[Min(at)] \in MapRegions /\ m[i] \in MapRegions
        BY <2>1, <2>6, ElementOfSeq
    <2>9. Overlaps(m[Min(at)], m[i])
        <3>1. \A x, y, z, u, v \in Int : u <= x /\ x <= v /\ y <= x /\ x <= z => v >= y /\ u <= z
            OBVIOUS
        <3>2. addr \in Int
            BY <2>1
        <3> QED
            BY <2>4, <2>6, <2>8, <3>1, <3>2 DEF Overlaps, MapRegions
    <2>10. Min(at) = i
        BY <2>1, <2>6, <2>9
    <2> QED
        BY <2>1, <2>2, <2>7, <2>10
<1> QED
    BY <1>1, MapInvInit, MapInvStep, PTL DEF MapSpec
-----------------------------------------------------------------------------
(* Configuration cycles while the buses are numbered: the inductive invariant. *)

\* b is in a slot of the bus of x.
OnBus(x, b) == \E i \in DOMAIN BridgeDevs[x] : BridgeDevs[x][i] = b

\* The scan has reached x and n is a number behind it.
Behind(x, n) ==
    IF x = Host THEN TRUE ELSE x \in scanned /\ secondary_bus[x] < n /\ n <= subordinate_bus[x]

BusTypes ==
    /\ secondary_bus \in [Bridges -> Nat] /\ subordinate_bus \in [Bridges -> Nat]
    /\ scanned \in SUBSET Bridges
    /\ last_bus \in Nat /\ last_bus = Cardinality(scanned)

\* The stack of the scan goes down from the host, to higher numbers.
StackOk ==
    /\ scan \in Seq(Buses) /\ Len(scan) > 0 /\ scan[1] = Host
    /\ \A i \in 2 .. Len(scan) : scan[i] \in scanned /\ OnBus(scan[i - 1], scan[i])
    /\ \A i, j \in 1 .. Len(scan) : i < j => BusOf(scan[i]) < BusOf(scan[j])

\* Bridges have no number before they are met, and different ones after it.
NumbersOk ==
    /\ \A b \in Bridges \ scanned : secondary_bus[b] = 0 /\ subordinate_bus[b] = 0
    /\ \A b \in scanned : /\ secondary_bus[b] \in 1 .. last_bus
                          /\ secondary_bus[b] <= subordinate_bus[b]
    /\ \A b, c \in scanned : secondary_bus[b] = secondary_bus[c] => b = c

\* A bridge being scanned leads to all numbers above, the others only to ones given.
OpenEnded ==
    /\ \A i \in 2 .. Len(scan) : subordinate_bus[scan[i]] = MaxBus
    /\ \A b \in scanned : (\A i \in 1 .. Len(scan) : scan[i] # b) => subordinate_bus[b] <= last_bus

\* The ranges of numbers are nested as the bridges are, and those of the
\* bridges of one bus are apart.
Nested ==
    \A x \in Bridges, c \in scanned :
       OnBus(x, c) => /\ x \in scanned
                      /\ secondary_bus[x] < secondary_bus[c]
                      /\ subordinate_bus[c] <= subordinate_bus[x]
Apart ==
    \A x \in Buses, b, c \in scanned :
       OnBus(x, b) /\ OnBus(x, c) /\ secondary_bus[b] < secondary_bus[c]
       => subordinate_bus[b] < secondary_bus[c]

\* Behind every bridge that leads to a number is one that has it or leads on.
LeadsOn ==
    \A x \in Buses, b \in scanned :
       Behind(x, secondary_bus[b]) =>
         \E c \in scanned : /\ OnBus(x, c)
                            /\ secondary_bus[c] <= secondary_bus[b]
                            /\ secondary_bus[b] <= subordinate_bus[c]

BusInv == BusTypes /\ StackOk /\ NumbersOk /\ OpenEnded /\ Nested /\ Apart /\ LeadsOn

-----------------------------------------------------------------------------
(* The search. *)

LEMMA SomeLast ==
    ASSUME NEW S, S # {}, NEW f \in [S -> Nat], NEW top \in Nat, \A x \in S : f[x] <= top
    PROVE  \E x \in S : \A y \in S : f[y] <= f[x]
<1> DEFINE T == {top - f[x] : x \in S}
<1>1. T \in SUBSET Nat /\ T # {}
    OBVIOUS
<1>2. PICK t \in T : \A u \in T : ~(<<u, t>> \in OpToRel(<, Nat))
    BY <1>1, NatLessThanWellFounded, WFMin
<1>3. \A u \in T : ~(u < t)
    BY <1>1, <1>2 DEF OpToRel
<1>4. PICK x \in S : t = top - f[x]
    OBVIOUS
<1>5. ASSUME NEW y \in S PROVE f[y] <= f[x]
    <2>1. ~(top - f[y] < top - f[x])
        BY <1>3, <1>4
    <2> QED BY <2>1
<1> QED BY <1>5

LEMMA FirstOfHits ==
    ASSUME BusTypes, NEW x \in Buses, NEW n, Leading(x, n) # {}
    PROVE  /\ FirstLeading(x, n) \in Bridges
           /\ OnBus(x, FirstLeading(x, n)) /\ LeadsTo(FirstLeading(x, n), n)
<1> DEFINE H == Leading(x, n)
<1>1. H \in SUBSET Nat
    BY BridgeTree DEF Leading
<1>2. PICK i \in H : \A j \in H : ~(<<j, i>> \in OpToRel(<, Nat))
    BY <1>1, NatLessThanWellFounded, WFMin
<1>3. \A j \in H : i \in Nat /\ j \in Nat /\ ~(j < i)
    BY <1>1, <1>2 DEF OpToRel
<1>4. (CHOOSE k \in H : \A j \in H : k <= j) \in H
    <2>1. \A j \in H : i <= j
        BY <1>3
    <2> QED BY <1>2, <2>1
<1> DEFINE k == CHOOSE a \in H : \A j \in H : a <= j
<1>5. FirstLeading(x, n) = BridgeDevs[x][k] /\ k \in DOMAIN BridgeDevs[x] /\ LeadsTo(BridgeDevs[x][k], n)
    BY <1>4 DEF Leading, FirstLeading
<1> HIDE DEF k
<1> QED
    BY <1>5, BridgeTree DEF OnBus

\* What the bridges of a bus answer to a cycle for n: f is the answer of the
\* buses below.
Answer(f, x, n) ==
    IF Leading(x, n) = {} THEN Host
    ELSE IF secondary_bus[FirstLeading(x, n)] = n THEN FirstLeading(x, n) ELSE f[FirstLeading(x, n)]

LEMMA HitIsMet ==
    ASSUME BusInv, NEW x \in Buses, NEW n \in Nat \ {0}, NEW b \in Bridges, OnBus(x, b), LeadsTo(b, n)
    PROVE  b \in scanned /\ BusOf(x) < BusOf(b)
<1>1. b \in scanned
    BY DEF BusInv, BusTypes, NumbersOk, LeadsTo
<1>2. CASE x = Host
    BY <1>1, <1>2, BridgeTree DEF BusInv, BusTypes, NumbersOk, BusOf
<1>3. CASE x # Host
    BY <1>1, <1>3, BridgeTree DEF BusInv, Nested, BusOf, Buses
<1> QED BY <1>2, <1>3

\* The search ends, since it goes to higher numbers: one answer is possible.
LEMMA OneAnswer ==
    ASSUME BusInv, NEW n \in Nat \ {0}, NEW f, NEW g,
           f = [x \in Buses |-> Answer(f, x, n)], g = [x \in Buses |-> Answer(g, x, n)]
    PROVE  f = g
<1> DEFINE Bad == {x \in Buses : f[x] # g[x]}
<1>1. ASSUME Bad # {} PROVE FALSE
    <2> DEFINE h == [x \in Bad |-> BusOf(x)]
    <2>1. h \in [Bad -> Nat] /\ last_bus \in Nat /\ \A x \in Bad : h[x] <= last_bus
        <3>1. last_bus \in Nat /\ \A x \in Buses : BusOf(x) \in Nat /\ BusOf(x) <= last_bus
            <4>1. last_bus \in Nat
                BY DEF BusInv, BusTypes
            <4>2. \A b \in Bridges : secondary_bus[b] \in Nat /\ secondary_bus[b] <= last_bus
                <5>1. \A b \in Bridges \ scanned : secondary_bus[b] = 0
                    BY DEF BusInv, NumbersOk
                <5>2. \A b \in scanned : secondary_bus[b] \in Nat /\ secondary_bus[b] <= last_bus
                    BY <4>1 DEF BusInv, NumbersOk
                <5> QED BY <4>1, <5>1, <5>2
            <4>3. \A x \in Buses : x = Host \/ x \in Bridges
                BY DEF Buses
            <4> QED BY <4>1, <4>2, <4>3 DEF BusOf
        <3> QED BY <3>1
    <2> HIDE DEF h
    <2>2. PICK x \in Bad : \A y \in Bad : h[y] <= h[x]
        BY <1>1, <2>1, SomeLast
    <2>3. \A y \in Bad : BusOf(y) <= BusOf(x) /\ BusOf(y) \in Nat
        BY <2>1, <2>2 DEF h
    <2>4. x \in Buses /\ f[x] = Answer(f, x, n) /\ g[x] = Answer(g, x, n) /\ f[x] # g[x]
        BY <2>2
    <2> DEFINE c == FirstLeading(x, n)
    <2>5. Leading(x, n) # {} /\ f[c] # g[c]
        BY <2>4 DEF Answer
    <2>6. c \in Bridges /\ OnBus(x, c) /\ LeadsTo(c, n)
        BY <2>4, <2>5, FirstOfHits DEF BusInv
    <2> HIDE DEF c
    <2>7. BusOf(x) < BusOf(c)
        BY <2>4, <2>6, HitIsMet
    <2>8. c \in Bad
        BY <2>5, <2>6 DEF Buses
    <2> QED BY <2>3, <2>7, <2>8
<1>2. \A x \in Buses : f[x] = g[x]
    BY <1>1
<1> QED BY <1>2

LEMMA SearchEnds ==
    ASSUME BusInv, NEW n \in Nat \ {0}, NEW g, g = [x \in Buses |-> Answer(g, x, n)]
    PROVE  FindBus(n) = g[Host]
<1> DEFINE from == CHOOSE f : f = [x \in Buses |-> Answer(f, x, n)]
<1>1. from = [x \in Buses |-> Answer(from, x, n)]
    OBVIOUS
<1>2. FindBus(n) = from[Host]
    BY DEF FindBus, Answer
<1> HIDE DEF from
<1>3. from = g
    BY <1>1, OneAnswer
<1> QED BY <1>2, <1>3

-----------------------------------------------------------------------------
(* What it finds. *)

\* Of the bridges of a bus the one that leads to a number given is met first,
\* as their ranges are apart.
LEMMA LeadsThere ==
    ASSUME BusInv, NEW b \in scanned, NEW x \in Buses, Behind(x, secondary_bus[b]), x # b
    PROVE  LET n == secondary_bus[b]
               c == FirstLeading(x, n)
           IN  /\ Leading(x, n) # {} /\ c \in scanned
               /\ c = b \/ (secondary_bus[c] # n /\ Behind(c, n))
<1> DEFINE n == secondary_bus[b]
           c == FirstLeading(x, n)
<1>1. n \in Nat \ {0}
    BY DEF BusInv, BusTypes, NumbersOk
<1>2. PICK a \in scanned : OnBus(x, a) /\ secondary_bus[a] <= n /\ n <= subordinate_bus[a]
    BY DEF BusInv, LeadsOn
<1>3. Leading(x, n) # {}
    BY <1>2 DEF OnBus, Leading, LeadsTo
<1>4. c \in Bridges /\ OnBus(x, c) /\ LeadsTo(c, n)
    BY <1>3, FirstOfHits DEF BusInv
<1> HIDE DEF c, n
<1>5. c \in scanned /\ c # Host
    BY <1>1, <1>4, HitIsMet, BridgeTree
<1>6. secondary_bus[c] = n => c = b
    BY <1>5 DEF BusInv, NumbersOk, n
<1>7. secondary_bus[c] # n => Behind(c, n)
    BY <1>1, <1>4, <1>5 DEF Behind, LeadsTo, BusInv, BusTypes
<1> QED BY <1>3, <1>5, <1>6, <1>7 DEF c, n

\* Bridges that do not lead to a number have none below that does.
LEMMA LeadsNowhere ==
    ASSUME BusInv, NEW x \in Buses, NEW n \in Nat \ {0}, ~Behind(x, n)
    PROVE  Leading(x, n) = {}
<1> SUFFICES ASSUME Leading(x, n) # {} PROVE FALSE
    OBVIOUS
<1> DEFINE c == FirstLeading(x, n)
<1>1. c \in Bridges /\ OnBus(x, c) /\ LeadsTo(c, n)
    BY FirstOfHits DEF BusInv
<1> HIDE DEF c
<1>2. c \in scanned
    BY <1>1, HitIsMet
<1>3. x \in Bridges
    BY DEF Behind, Buses
<1>4. x \in scanned /\ secondary_bus[x] < secondary_bus[c] /\ subordinate_bus[c] <= subordinate_bus[x]
    BY <1>1, <1>2, <1>3 DEF BusInv, Nested
<1>5. secondary_bus[c] <= n /\ n <= subordinate_bus[c]
    BY <1>1, <1>2 DEF LeadsTo, BusInv, NumbersOk
<1>6. secondary_bus[x] \in Nat /\ secondary_bus[c] \in Nat /\ subordinate_bus[x] \in Nat /\ subordinate_bus[c] \in Nat
    BY <1>1, <1>3 DEF BusInv, BusTypes
<1> QED BY <1>3, <1>4, <1>5, <1>6, BridgeTree DEF Behind

LEMMA GivenIsFound ==
    ASSUME BusInv, NEW b \in scanned
    PROVE  FindBus(secondary_bus[b]) = b
<1> DEFINE n == secondary_bus[b]
           g == [x \in Buses |-> IF Behind(x, n) THEN b ELSE Host]
<1>1. n \in Nat \ {0} /\ b \in Bridges /\ b # Host
    BY BridgeTree DEF BusInv, BusTypes, NumbersOk
<1>2. ~Behind(b, n)
    BY <1>1 DEF Behind
<1>3. ASSUME NEW x \in Buses PROVE g[x] = Answer(g, x, n)
    <2>1. CASE Behind(x, n)
        <3> DEFINE c == FirstLeading(x, n)
        <3>1. Leading(x, n) # {} /\ c \in scanned /\ (c = b \/ (secondary_bus[c] # n /\ Behind(c, n)))
            BY <1>2, <2>1, LeadsThere
        <3> HIDE DEF c
        <3>2. c \in Buses
            BY <3>1 DEF Buses, BusInv, BusTypes
        <3>3. g[x] = b
            BY <2>1
        <3>4. CASE c = b
            BY <3>1, <3>3, <3>4 DEF Answer, c
        <3>5. CASE c # b
            <4>1. g[c] = b
                BY <3>1, <3>2, <3>5
            <4> HIDE DEF g
            <4> QED BY <3>1, <3>3, <3>5, <4>1 DEF Answer, c
        <3> QED BY <3>4, <3>5
    <2>2. CASE ~Behind(x, n)
        <3>1. Leading(x, n) = {}
            BY <1>1, <2>2, LeadsNowhere
        <3> QED BY <2>2, <3>1 DEF Answer
    <2> QED BY <2>1, <2>2
<1>4. g = [x \in Buses |-> Answer(g, x, n)]
    BY <1>3
<1>5. g[Host] = b
    BY DEF Behind, Buses
<1> HIDE DEF g, n
<1>6. FindBus(n) = g[Host]
    BY <1>1, <1>4, SearchEnds
<1> QED BY <1>5, <1>6 DEF n

LEMMA OtherIsNotFound ==
    ASSUME BusInv, NEW n \in Nat \ {0}, \A b \in scanned : secondary_bus[b] # n
    PROVE  FindBus(n) = Host
<1> DEFINE g == [x \in Buses |-> Host]
<1>1. ASSUME NEW x \in Buses PROVE g[x] = Answer(g, x, n)
    <2>1. CASE Leading(x, n) = {}
        BY <2>1 DEF Answer
    <2>2. CASE Leading(x, n) # {}
        <3> DEFINE c == FirstLeading(x, n)
        <3>1. c \in Bridges /\ OnBus(x, c) /\ LeadsTo(c, n)
            BY <2>2, FirstOfHits DEF BusInv
        <3> HIDE DEF c
        <3>2. c \in scanned /\ c \in Buses
            BY <3>1, HitIsMet DEF Buses
        <3> QED BY <2>2, <3>2 DEF Answer, c
    <2> QED BY <2>1, <2>2
<1>2. g = [x \in Buses |-> Answer(g, x, n)]
    BY <1>1
<1>3. g[Host] = Host
    BY DEF Buses
<1> HIDE DEF g
<1> QED BY <1>2, <1>3, SearchEnds

\* A cycle for the bus of a bridge in the stack gets there.
LEMMA StackIsFound ==
    ASSUME BusInv, NEW i \in 1 .. Len(scan)
    PROVE  scan[i] \in Buses /\ FindBus(BusOf(scan[i])) = scan[i]
<1>1. CASE i = 1
    BY <1>1 DEF BusInv, StackOk, BusOf, FindBus, Buses
<1>2. CASE i # 1
    <2>1. scan[i] \in scanned /\ scan[i] # Host /\ scan[i] \in Buses
        <3>1. scan[i] \in scanned
            BY <1>2 DEF BusInv, StackOk
        <3> QED BY <3>1, BridgeTree DEF BusInv, BusTypes, Buses
    <2> QED BY <2>1, GivenIsFound DEF BusOf
<1> QED BY <1>1, <1>2

LEMMA WritesOne ==
    ASSUME BusInv, NEW i \in 1 .. Len(scan), NEW b \in Bridges, OnBus(scan[i], b)
    PROVE  Written(scan[i], b) = {b}
<1>1. FindBus(BusOf(scan[i])) = scan[i]
    BY StackIsFound
<1>2. PICK k \in DOMAIN BridgeDevs[scan[i]] : BridgeDevs[scan[i]][k] = b
    BY DEF OnBus
<1> DEFINE x == scan[i]
           j == CHOOSE j \in DOMAIN BridgeDevs[x] : BridgeDevs[x][j] = b
<1>3. j \in DOMAIN BridgeDevs[x] /\ BridgeDevs[x][j] = b
    BY <1>2
<1> QED BY <1>1, <1>3 DEF Written

LEMMA BusesFound == BusInv => BusesReached
<1> SUFFICES ASSUME BusInv, NEW n \in 1 .. MaxBus
             PROVE  IF n \in {secondary_bus[b] : b \in scanned}
                    THEN FindBus(n) \in scanned /\ secondary_bus[FindBus(n)] = n
                    ELSE FindBus(n) = Host
    BY DEF BusesReached
<1>0. n \in Nat \ {0}
    BY BridgeTree
<1>1. CASE n \in {secondary_bus[b] : b \in scanned}
    <2>1. PICK b \in scanned : secondary_bus[b] = n
        BY <1>1
    <2>2. FindBus(n) = b
        BY <2>1, GivenIsFound
    <2> QED BY <1>1, <2>1, <2>2
<1>2. CASE n \notin {secondary_bus[b] : b \in scanned}
    BY <1>0, <1>2, OtherIsNotFound
<1> QED BY <1>1, <1>2

-----------------------------------------------------------------------------
(* The steps of the scan. *)

LEMMA BusInvInit == BusInit => BusInv
<1> SUFFICES ASSUME BusInit PROVE BusInv
    OBVIOUS
<1>1. BusTypes
    BY FS_EmptySet DEF BusInit, BusTypes
<1>2. StackOk
    BY DEF BusInit, StackOk, Buses
<1> QED
    BY <1>1, <1>2 DEF BusInit, BusInv, NumbersOk, OpenEnded, Nested, Apart, LeadsOn

\* Below the top of the stack nothing is being scanned.
LEMMA TopIsLast ==
    ASSUME BusInv, NEW c \in scanned, OnBus(scan[Len(scan)], c)
    PROVE  (\A i \in 1 .. Len(scan) : scan[i] # c) /\ subordinate_bus[c] <= last_bus
<1> DEFINE k == Len(scan)
           x == scan[k]
<1>1. k \in Nat /\ k \in 1 .. k /\ x \in Buses
    BY DEF BusInv, StackOk
<1>2. c \in Bridges /\ c # Host /\ BusOf(c) = secondary_bus[c] /\ secondary_bus[c] \in Nat \ {0}
    BY BridgeTree DEF BusInv, BusTypes, NumbersOk, BusOf
<1>3. BusOf(x) < BusOf(c) /\ BusOf(x) \in Nat
    <2>1. CASE x = Host
        BY <1>2, <2>1 DEF BusOf
    <2>2. CASE x # Host
        BY <1>1, <1>2, <2>2 DEF BusOf, BusInv, Nested, Buses, BusTypes
    <2> QED BY <2>1, <2>2
<1>4. ASSUME NEW i \in 1 .. k, scan[i] = c PROVE FALSE
    <2>1. i = k \/ BusOf(scan[i]) < BusOf(x)
        BY <1>1 DEF BusInv, StackOk
    <2> QED BY <1>2, <1>3, <1>4, <2>1
<1> QED
    BY <1>4 DEF BusInv, OpenEnded

\* The numbers never run out.
LEMMA NumbersSuffice ==
    ASSUME BusInv, NEW b \in Bridges, b \notin scanned
    PROVE  Cardinality(scanned \cup {b}) = last_bus + 1 /\ last_bus + 1 <= MaxBus
<1>1. IsFiniteSet(scanned) /\ scanned \cup {b} \subseteq Bridges
    BY FS_Subset, BridgeTree DEF BusInv, BusTypes
<1>2. Cardinality(scanned \cup {b}) = Cardinality(scanned) + 1
    BY <1>1, FS_AddElement
<1>3. Cardinality(scanned \cup {b}) <= Cardinality(Bridges)
    BY <1>1, FS_Subset, BridgeTree
<1>4. Cardinality(Bridges) \in Nat
    BY FS_CardinalityType, BridgeTree
<1> QED
    BY <1>2, <1>3, <1>4, BridgeTree DEF BusInv, BusTypes

LEMMA DescendKeeps ==
    ASSUME BusInv, Descend PROVE BusInv'
<1> DEFINE k == Len(scan)
           x == scan[k]
<1>1. PICK b \in Bridges : /\ OnBus(x, b) /\ b \notin scanned
                           /\ SetBuses(x, b, last_bus + 1, MaxBus)
                           /\ scan' = Append(scan, b)
                           /\ scanned' = scanned \cup {b} /\ last_bus' = last_bus + 1
    <2>1. k \in 1 .. Len(scan) /\ x \in Buses
        BY DEF BusInv, StackOk
    <2>2. PICK i \in DOMAIN BridgeDevs[x] :
               LET b == BridgeDevs[x][i]
               IN  /\ b \notin scanned /\ SetBuses(x, b, last_bus + 1, MaxBus)
                   /\ scan' = Append(scan, b)
                   /\ scanned' = scanned \cup {b} /\ last_bus' = last_bus + 1
        BY DEF Descend
    <2>3. BridgeDevs[x][i] \in Bridges /\ OnBus(x, BridgeDevs[x][i])
        BY <2>1, <2>2, BridgeTree DEF OnBus
    <2> QED BY <2>2, <2>3
<1>2. k \in Nat /\ k >= 1 /\ x \in Buses /\ scan \in Seq(Buses)
    BY DEF BusInv, StackOk
<1>3. Written(x, b) = {b}
    <2>1. k \in 1 .. Len(scan)
        BY <1>2
    <2> QED BY <1>1, <2>1, WritesOne
<1>4. \A c \in Bridges : /\ secondary_bus'[c] = IF c = b THEN last_bus + 1 ELSE secondary_bus[c]
                         /\ subordinate_bus'[c] = IF c = b THEN MaxBus ELSE subordinate_bus[c]
    BY <1>1, <1>3 DEF SetBuses
<1>5. Cardinality(scanned \cup {b}) = last_bus + 1 /\ last_bus + 1 <= MaxBus /\ MaxBus \in Nat
    BY <1>1, NumbersSuffice, BridgeTree
<1>6. BusTypes'
    BY <1>1, <1>3, <1>5 DEF SetBuses, BusTypes, BusInv
<1>7. /\ scan' \in Seq(Buses) /\ Len(scan') = k + 1 /\ scan'[k + 1] = b
      /\ \A i \in 1 .. k : scan'[i] = scan[i]
    BY <1>1, <1>2, AppendProperties DEF Buses
<1>8. b # Host /\ scanned \subseteq Bridges /\ scanned' = scanned \cup {b} /\ last_bus \in Nat
      /\ last_bus' = last_bus + 1
    BY <1>1, BridgeTree DEF BusInv, BusTypes
<1>9. ASSUME NEW i \in 1 .. k
      PROVE  /\ scan[i] \in Buses /\ scan[i] # b /\ (scan[i] = Host \/ scan[i] \in scanned)
             /\ (IF scan[i] = Host THEN 0 ELSE secondary_bus[scan[i]]) <= last_bus
             /\ (IF scan[i] = Host THEN 0 ELSE secondary_bus'[scan[i]])
                  = (IF scan[i] = Host THEN 0 ELSE secondary_bus[scan[i]])
    <2>1. scan[i] = Host \/ scan[i] \in scanned
        <3>1. i = 1 \/ i \in 2 .. Len(scan)
            BY <1>2
        <3> QED BY <3>1 DEF BusInv, StackOk
    <2>2. scan[i] \in Buses
        BY <1>2
    <2> QED BY <1>1, <1>4, <1>8, <2>1, <2>2 DEF BusInv, NumbersOk
<1> HIDE DEF k, x
<1>10. StackOk'
    <2>1. scan'[1] = Host
        BY <1>2, <1>7 DEF BusInv, StackOk
    <2>2. ASSUME NEW i \in 2 .. k + 1 PROVE scan'[i] \in scanned' /\ OnBus(scan'[i - 1], scan'[i])
        <3>1. CASE i = k + 1
            BY <1>1, <1>2, <1>7, <1>8, <3>1 DEF x
        <3>2. CASE i # k + 1
            <4>1. i \in 2 .. k /\ i \in 1 .. k /\ i - 1 \in 1 .. k
                BY <1>2, <3>2
            <4>2. scan[i] \in scanned /\ OnBus(scan[i - 1], scan[i])
                BY <4>1 DEF BusInv, StackOk, k
            <4> QED BY <1>7, <1>8, <4>1, <4>2
        <3> QED BY <3>1, <3>2
    <2>3. ASSUME NEW i \in 1 .. k + 1, NEW j \in 1 .. k + 1, i < j
          PROVE  (IF scan'[i] = Host THEN 0 ELSE secondary_bus'[scan'[i]])
                   < (IF scan'[j] = Host THEN 0 ELSE secondary_bus'[scan'[j]])
        <3>1. i \in 1 .. k /\ scan'[i] = scan[i]
            BY <1>2, <1>7, <2>3
        <3>2. CASE j = k + 1
            <4>1. secondary_bus'[scan'[j]] = last_bus + 1 /\ scan'[j] # Host
                BY <1>4, <1>7, <1>8, <3>2
            <4>2. ASSUME NEW m, m <= last_bus, m \in Nat PROVE m < last_bus + 1
                BY <1>8, <4>2
            <4>3. (IF scan[i] = Host THEN 0 ELSE secondary_bus[scan[i]]) \in Nat
                BY <1>9, <3>1 DEF BusInv, BusTypes
            <4> QED BY <1>9, <3>1, <4>1, <4>2, <4>3
        <3>3. CASE j # k + 1
            <4>1. j \in 1 .. k /\ scan'[j] = scan[j]
                BY <1>2, <1>7, <3>3
            <4>2. BusOf(scan[i]) < BusOf(scan[j])
                BY <2>3, <3>1, <4>1 DEF BusInv, StackOk, k
            <4> QED BY <1>9, <3>1, <4>1, <4>2 DEF BusOf
        <3> QED BY <3>2, <3>3
    <2> QED BY <1>2, <1>7, <2>1, <2>2, <2>3 DEF StackOk, BusOf
<1>11. NumbersOk'
    BY <1>4, <1>5, <1>8 DEF BusInv, NumbersOk, BusTypes
<1>12. OpenEnded'
    <2>1. ASSUME NEW i \in 2 .. k + 1 PROVE subordinate_bus'[scan'[i]] = MaxBus
        <3>1. CASE i = k + 1
            BY <1>4, <1>7, <3>1
        <3>2. CASE i # k + 1
            <4>1. i \in 2 .. k /\ i \in 1 .. k
                BY <1>2, <3>2
            <4>2. scan[i] \in scanned /\ scan[i] # b /\ subordinate_bus[scan[i]] = MaxBus /\ scan'[i] = scan[i]
                BY <1>7, <1>9, <4>1 DEF BusInv, StackOk, OpenEnded, k
            <4> QED BY <1>4, <1>8, <4>2
        <3> QED BY <3>1, <3>2
    <2>2. ASSUME NEW c \in scanned', \A i \in 1 .. k + 1 : scan'[i] # c
          PROVE  subordinate_bus'[c] <= last_bus'
        <3>1. k + 1 \in 1 .. k + 1 /\ 1 .. k \subseteq 1 .. k + 1
            BY <1>2
        <3>2. c # b /\ c \in scanned /\ \A i \in 1 .. k : scan[i] # c
            BY <1>7, <1>8, <2>2, <3>1
        <3>3. subordinate_bus[c] <= last_bus /\ subordinate_bus[c] \in Nat
            BY <1>8, <3>2 DEF BusInv, OpenEnded, BusTypes, k
        <3> QED BY <1>4, <1>8, <3>2, <3>3
    <2> QED BY <1>7, <2>1, <2>2 DEF OpenEnded
<1>13. x = Host \/ (x \in scanned /\ subordinate_bus[x] = MaxBus /\ x # b)
    <2>1. k = 1 \/ k \in 2 .. k
        BY <1>2
    <2> QED BY <1>1, <2>1 DEF BusInv, StackOk, OpenEnded, x, k
<1>14. \A y \in Buses : OnBus(y, b) => y = x
    BY <1>1, <1>2, BridgeTree DEF OnBus
<1>15. Nested'
    <2> SUFFICES ASSUME NEW y \in Bridges, NEW c \in scanned', OnBus(y, c)
                 PROVE  /\ y \in scanned' /\ secondary_bus'[y] < secondary_bus'[c]
                        /\ subordinate_bus'[c] <= subordinate_bus'[y]
        BY DEF Nested, OnBus
    <2>1. CASE c = b
        <3>1. y = x /\ y \in scanned /\ subordinate_bus[y] = MaxBus /\ y # b
            <4>1. y \in Buses /\ OnBus(y, b) /\ y # Host
                BY <2>1, BridgeTree DEF Buses
            <4>2. y = x
                BY <1>14, <4>1
            <4> QED BY <1>13, <4>1, <4>2
        <3>2. secondary_bus[y] <= last_bus /\ secondary_bus[y] \in Nat
            BY <3>1 DEF BusInv, NumbersOk
        <3>3. secondary_bus'[c] = last_bus + 1 /\ subordinate_bus'[c] = MaxBus
              /\ secondary_bus'[y] = secondary_bus[y] /\ subordinate_bus'[y] = MaxBus
            BY <1>4, <2>1, <3>1
        <3> QED BY <1>5, <1>8, <3>1, <3>2, <3>3
    <2>2. CASE c # b
        BY <1>1, <1>4, <1>8, <2>2 DEF BusInv, Nested
    <2> QED BY <2>1, <2>2
<1>16. Apart'
    <2> SUFFICES ASSUME NEW y \in Buses, NEW a \in scanned', NEW c \in scanned', OnBus(y, a), OnBus(y, c),
                        secondary_bus'[a] < secondary_bus'[c]
                 PROVE  subordinate_bus'[a] < secondary_bus'[c]
        BY DEF Apart, OnBus
    <2>1. CASE a # b /\ c # b
        BY <1>4, <1>8, <2>1 DEF BusInv, Apart
    <2>2. CASE c = b /\ a # b
        <3>1. a \in scanned /\ y = x
            BY <1>8, <1>14, <2>2
        <3>2. subordinate_bus[a] <= last_bus /\ subordinate_bus[a] \in Nat
            BY <1>8, <3>1, TopIsLast DEF x, k, BusInv, BusTypes
        <3> QED BY <1>4, <1>8, <2>2, <3>1, <3>2
    <2>3. CASE a = b
        BY <1>4, <1>8, <2>3 DEF BusInv, NumbersOk
    <2> QED BY <2>1, <2>2, <2>3
<1>17. LeadsOn'
    <2> SUFFICES ASSUME NEW y \in Buses, NEW a \in scanned',
                        y = Host \/ (y \in scanned' /\ secondary_bus'[y] < secondary_bus'[a]
                                     /\ secondary_bus'[a] <= subordinate_bus'[y])
                 PROVE  \E c \in scanned' : /\ OnBus(y, c) /\ secondary_bus'[c] <= secondary_bus'[a]
                                            /\ secondary_bus'[a] <= subordinate_bus'[c]
        BY <1>8, BridgeTree DEF LeadsOn, Behind, OnBus
    <2>1. CASE a # b
        <3>1. y # b
            BY <1>4, <1>8, <2>1 DEF BusInv, NumbersOk
        <3>2. Behind(y, secondary_bus[a]) /\ a \in scanned
            BY <1>4, <1>8, <2>1, <3>1 DEF Behind, Buses
        <3>3. PICK c \in scanned : /\ OnBus(y, c) /\ secondary_bus[c] <= secondary_bus[a]
                                   /\ secondary_bus[a] <= subordinate_bus[c]
            BY <3>2 DEF BusInv, LeadsOn
        <3> QED BY <1>1, <1>4, <1>8, <2>1, <3>3
    <2>2. CASE a = b
        <3>1. secondary_bus'[a] = last_bus + 1
            BY <1>4, <2>2
        <3>2. PICK i \in 1 .. k : scan[i] = y
            <4>1. CASE y = Host
                BY <1>2, <4>1 DEF BusInv, StackOk
            <4>2. CASE y # Host
                <5>1. y # b /\ y \in scanned /\ last_bus + 1 <= subordinate_bus[y]
                    BY <1>4, <1>8, <2>2, <3>1, <4>2
                <5>2. ~(subordinate_bus[y] <= last_bus)
                    BY <1>8, <5>1 DEF BusInv, BusTypes
                <5> QED BY <5>1, <5>2 DEF BusInv, OpenEnded, k
            <4> QED BY <4>1, <4>2
        <3>3. CASE i = k
            BY <1>1, <1>4, <1>5, <1>8, <2>2, <3>2, <3>3 DEF x
        <3>4. CASE i # k
            <4>1. i + 1 \in 2 .. k /\ i + 1 \in 1 .. k /\ (i + 1) - 1 = i
                BY <1>2, <3>4
            <4> DEFINE c == scan[i + 1]
            <4>2. c \in scanned /\ OnBus(y, c) /\ c # b /\ subordinate_bus[c] = MaxBus
                BY <1>1, <3>2, <4>1 DEF BusInv, StackOk, OpenEnded, k
            <4> HIDE DEF c
            <4>3. secondary_bus[c] <= last_bus /\ secondary_bus[c] \in Nat
                BY <4>2 DEF BusInv, NumbersOk
            <4> QED BY <1>4, <1>5, <1>8, <3>1, <4>2, <4>3
        <3> QED BY <3>3, <3>4
    <2> QED BY <2>1, <2>2
<1> QED BY <1>6, <1>10, <1>11, <1>12, <1>15, <1>16, <1>17 DEF BusInv

LEMMA AscendKeeps ==
    ASSUME BusInv, Ascend PROVE BusInv'
<1> DEFINE k == Len(scan)
           b == scan[k]
           x == scan[k - 1]
<1>1. /\ k > 1 /\ SetBuses(x, b, secondary_bus[b], last_bus)
      /\ scan' = SubSeq(scan, 1, k - 1) /\ scanned' = scanned /\ last_bus' = last_bus
    BY DEF Ascend
<1>2. k \in Nat /\ k - 1 \in 1 .. k /\ k \in 2 .. k /\ k \in 1 .. k /\ scan \in Seq(Buses)
    BY <1>1 DEF BusInv, StackOk
<1>3. b \in scanned /\ b \in Bridges /\ OnBus(x, b) /\ subordinate_bus[b] = MaxBus
    BY <1>2 DEF BusInv, StackOk, OpenEnded, BusTypes
<1>4. Written(x, b) = {b}
    BY <1>2, <1>3, WritesOne
<1>5. /\ secondary_bus' = secondary_bus
      /\ subordinate_bus' = [c \in Bridges |-> IF c = b THEN last_bus ELSE subordinate_bus[c]]
    BY <1>1, <1>4 DEF SetBuses, BusInv, BusTypes
<1>6. last_bus \in Nat /\ MaxBus \in Nat /\ last_bus <= MaxBus /\ scanned \subseteq Bridges
    <2>1. IsFiniteSet(Bridges) /\ scanned \subseteq Bridges
        BY BridgeTree DEF BusInv, BusTypes
    <2>2. Cardinality(scanned) <= Cardinality(Bridges) /\ Cardinality(Bridges) \in Nat
        BY <2>1, FS_Subset, FS_CardinalityType
    <2> QED BY <2>1, <2>2, BridgeTree DEF BusInv, BusTypes
<1>7. BusTypes'
    BY <1>1, <1>5, <1>6 DEF BusInv, BusTypes
<1>8. /\ scan' \in Seq(Buses) /\ Len(scan') = k - 1
      /\ \A i \in 1 .. k - 1 : scan'[i] = scan[i]
    BY <1>1, <1>2, SubSeqProperties
<1>9. \A i \in 1 .. k - 1 : scan[i] # b
    <2> TAKE i \in 1 .. k - 1
    <2>1. i \in 1 .. k /\ i < k
        BY <1>2
    <2>2. BusOf(scan[i]) < BusOf(scan[k])
        BY <1>2, <2>1 DEF BusInv, StackOk
    <2>3. BusOf(b) \in Nat
        BY <1>3, BridgeTree DEF BusOf, BusInv, BusTypes
    <2> QED BY <2>2, <2>3
<1> HIDE DEF k, b, x
<1>10. StackOk'
    <2>1. 1 .. k - 1 \subseteq 1 .. k /\ 2 .. k - 1 \subseteq 2 .. k
          /\ \A i \in 2 .. k - 1 : i \in 1 .. k - 1 /\ i - 1 \in 1 .. k - 1
        BY <1>2
    <2>2. scan'[1] = Host /\ Len(scan') > 0
        BY <1>2, <1>8 DEF BusInv, StackOk
    <2>3. ASSUME NEW i \in 2 .. k - 1 PROVE scan'[i] \in scanned' /\ OnBus(scan'[i - 1], scan'[i])
        BY <1>1, <1>8, <2>1 DEF BusInv, StackOk, k
    <2>4. ASSUME NEW i \in 1 .. k - 1, NEW j \in 1 .. k - 1, i < j
          PROVE  BusOf(scan[i]) < BusOf(scan[j])
        BY <2>1, <2>4 DEF BusInv, StackOk, k
    <2>5. ASSUME NEW i \in 1 .. k - 1, NEW j \in 1 .. k - 1, i < j
          PROVE  (IF scan'[i] = Host THEN 0 ELSE secondary_bus'[scan'[i]])
                   < (IF scan'[j] = Host THEN 0 ELSE secondary_bus'[scan'[j]])
        BY <1>5, <1>8, <2>4, <2>5 DEF BusOf
    <2> QED BY <1>8, <2>2, <2>3, <2>5 DEF StackOk, BusOf
<1>11. NumbersOk'
    BY <1>1, <1>3, <1>5, <1>6 DEF BusInv, NumbersOk
<1>12. OpenEnded'
    <2>1. ASSUME NEW i \in 2 .. k - 1 PROVE subordinate_bus'[scan'[i]] = MaxBus
        <3>1. i \in 2 .. k /\ i \in 1 .. k - 1
            BY <1>2
        <3>2. scan[i] \in scanned /\ scan[i] # b /\ subordinate_bus[scan[i]] = MaxBus /\ scan'[i] = scan[i]
            BY <1>8, <1>9, <3>1 DEF BusInv, StackOk, OpenEnded, k
        <3> QED BY <1>5, <1>6, <3>2
    <2>2. ASSUME NEW c \in scanned, \A i \in 1 .. k - 1 : scan'[i] # c
          PROVE  subordinate_bus'[c] <= last_bus
        <3>1. CASE c = b
            BY <1>3, <1>5, <1>6, <3>1
        <3>2. CASE c # b
            <4>1. \A i \in 1 .. k : i = k \/ i \in 1 .. k - 1
                BY <1>2
            <4>2. \A i \in 1 .. k : scan[i] # c
                BY <1>8, <2>2, <3>2, <4>1 DEF b
            <4>3. subordinate_bus[c] <= last_bus
                BY <4>2 DEF BusInv, OpenEnded, k
            <4> QED BY <1>5, <1>6, <3>2, <4>3
        <3> QED BY <3>1, <3>2
    <2> QED BY <1>1, <1>8, <2>1, <2>2 DEF OpenEnded
<1>13. Nested'
    <2> SUFFICES ASSUME NEW y \in Bridges, NEW c \in scanned, OnBus(y, c)
                 PROVE  /\ y \in scanned /\ secondary_bus[y] < secondary_bus[c]
                        /\ subordinate_bus'[c] <= subordinate_bus'[y]
        BY <1>1, <1>5 DEF Nested, OnBus
    <2>1. y \in scanned /\ secondary_bus[y] < secondary_bus[c] /\ subordinate_bus[c] <= subordinate_bus[y]
          /\ c \in Bridges
        BY <1>6 DEF BusInv, Nested
    <2>2. c # y
        BY <1>6, <2>1 DEF BusInv, BusTypes
    <2>3. CASE y = b
        <3>1. subordinate_bus[c] <= last_bus
            BY <2>3, TopIsLast DEF b, k
        <3> QED BY <1>5, <2>1, <2>2, <2>3, <3>1
    <2>4. CASE y # b
        <3>1. subordinate_bus[y] \in Nat
            BY DEF BusInv, BusTypes
        <3> QED BY <1>3, <1>5, <1>6, <2>1, <2>4, <3>1
    <2> QED BY <2>3, <2>4
<1>14. Apart'
    <2> SUFFICES ASSUME NEW y \in Buses, NEW a \in scanned, NEW c \in scanned, OnBus(y, a), OnBus(y, c),
                        secondary_bus[a] < secondary_bus[c]
                 PROVE  subordinate_bus'[a] < secondary_bus[c]
        BY <1>1, <1>5 DEF Apart, OnBus
    <2>1. subordinate_bus[a] < secondary_bus[c] /\ secondary_bus[c] \in Nat
        BY DEF BusInv, Apart, NumbersOk
    <2> QED BY <1>3, <1>5, <1>6, <2>1
<1>15. LeadsOn'
    <2> SUFFICES ASSUME NEW y \in Buses, NEW a \in scanned,
                        y = Host \/ (y \in scanned /\ secondary_bus[y] < secondary_bus[a]
                                     /\ secondary_bus[a] <= subordinate_bus'[y])
                 PROVE  \E c \in scanned : /\ OnBus(y, c) /\ secondary_bus[c] <= secondary_bus[a]
                                           /\ secondary_bus[a] <= subordinate_bus'[c]
        BY <1>1, <1>5, <1>6, BridgeTree DEF LeadsOn, Behind, OnBus
    <2>1. secondary_bus[a] \in Nat /\ secondary_bus[a] <= last_bus
        BY DEF BusInv, NumbersOk
    <2>2. Behind(y, secondary_bus[a])
        BY <1>3, <1>5, <1>6, <2>1 DEF Behind
    <2>3. PICK c \in scanned : /\ OnBus(y, c) /\ secondary_bus[c] <= secondary_bus[a]
                               /\ secondary_bus[a] <= subordinate_bus[c]
        BY <2>2 DEF BusInv, LeadsOn
    <2> QED BY <1>5, <1>6, <2>1, <2>3
<1> QED BY <1>7, <1>10, <1>11, <1>12, <1>13, <1>14, <1>15 DEF BusInv

LEMMA BusInvStep == BusInv /\ [BusNext]_busVars => BusInv'
<1>1. ASSUME BusInv, UNCHANGED busVars PROVE BusInv'
    BY <1>1 DEF busVars, BusInv, BusTypes, StackOk, NumbersOk, OpenEnded, Nested, Apart, LeadsOn,
                Behind, BusOf, OnBus
<1> QED BY <1>1, DescendKeeps, AscendKeeps DEF BusNext

\* At every point of the firmware's scan a configuration cycle for a number
\* that has been given ends at the bus that got it, and one for any other
\* number nowhere: pci_find_device takes no wrong turn at a bridge whose
\* subordinate number is still provisional, for any tree of bridges.
THEOREM CyclesArrive == BusSpec => []BusesReached
BY BusInvInit, BusInvStep, BusesFound, PTL DEF BusSpec
=============================================================================
