------------------------------ MODULE LoadStore ------------------------------
(***************************************************************************)
(* The integer load and store instructions (cpu/ppc/ppcopcodes.cpp,        *)
(* lscbx of poweropcodes.cpp) on memory that is paged: an access to a page *)
(* that is not present leaves the instruction where it is (the exception   *)
(* handler does not return), the guest brings the page in, and the         *)
(* instruction is executed again from its start with the registers and the *)
(* memory as the attempt left them.                                        *)
(*                                                                         *)
(* A register is a tuple of four bytes, its first the most significant;    *)
(* the last byte of a base or index register is the whole address.         *)
(***************************************************************************)
EXTENDS Integers, Sequences, SequencesExt

CONSTANTS
    NumRegs,        \* 32
    PageSize,       \* a multiple of 4
    NumPages,
    Instructions,   \* [op, rd, ra, rb, nb, is_601]: valid forms
    InitGpr, InitMem,
    Counts,         \* values of the byte count of XER
    Matches,        \* values of its byte to compare with
    MaxFaults       \* bound: page faults of one instruction

ASSUME LoadStoreSizes ==
    NumRegs \in Nat \ {0} /\ PageSize \in Nat \ {0} /\ PageSize % 4 = 0 /\ NumPages \in Nat \ {0}

VARIABLES
    core,      \* gpr, mem, xer (its count), match (its byte), cr0, reserve, fault
    ins,       \* the instruction
    begun,     \* core when the instruction was executed first
    present,   \* the pages that are mapped
    stage,     \* "ready", "fault", "align", "illegal" or "done"
    wanted,    \* the page of the fault
    faults

loadVars == <<core, ins, begun, present, stage, wanted, faults>>

Page(a) == a \div PageSize
Pages == 0 .. NumPages - 1
NoPage == NumPages
ZeroReg == <<0, 0, 0, 0>>
NoIndex == NumRegs

-----------------------------------------------------------------------------
(* Accesses.  s is core; fault is the page that stopped it, or NoPage.      *)

\* mmu_read_vmem: an access across a page boundary is made byte by byte.
Readable(here, ea, n) == CHOOSE k \in 0 .. n : /\ \A j \in 0 .. k - 1 : Page(ea + j) \in here
                                               /\ k = n \/ Page(ea + k) \notin here

\* mmu_write_vmem: the bytes before the page that is missing are written.
Write(s, here, ea, bytes) ==
    LET n == Readable(here, ea, Len(bytes))
        t == [s EXCEPT !.mem = [a \in DOMAIN @ |-> IF a \in ea .. ea + n - 1
                                                    THEN bytes[a - ea + 1] ELSE @[a]]]
    IN  IF n = Len(bytes) THEN t ELSE [t EXCEPT !.fault = Page(ea + n)]

\* A read whose bytes go to register r from byte at + 1 on; a read to the
\* first byte replaces the register, a later one is added to it.
Load(s, here, x) ==
    IF s.fault # NoPage THEN s
    ELSE IF Readable(here, x.ea, x.n) < x.n
    THEN [s EXCEPT !.fault = Page(x.ea + Readable(here, x.ea, x.n))]
    ELSE LET old == IF x.at = 0 THEN ZeroReg ELSE s.gpr[x.r]
             new == [k \in 1 .. 4 |-> IF k \in x.at + 1 .. x.at + x.n
                                      THEN s.mem[x.ea + k - x.at - 1] ELSE old[k]]
         IN  [s EXCEPT !.gpr[x.r] = new]

Store(s, here, x) ==
    IF s.fault # NoPage THEN s
    ELSE Write(s, here, x.ea, SubSeq(s.gpr[x.r], x.at + 1, x.at + x.n))

Loads(s, here, xs) == FoldLeft(LAMBDA t, x : Load(t, here, x), s, xs)
Stores(s, here, xs) == FoldLeft(LAMBDA t, x : Store(t, here, x), s, xs)

-----------------------------------------------------------------------------
(* Instructions. *)

AddrOf(r) == r[4]
Base(s, i) == IF i.ra = 0 THEN 0 ELSE AddrOf(s.gpr[i.ra])
Ea(s, i) == Base(s, i) + IF i.rb = NoIndex THEN 0 ELSE AddrOf(s.gpr[i.rb])
AddrReg(a) == <<0, 0, 0, a>>

\* Whole words, then a half word, then a byte.
WordPieces(i, ea, n) == [k \in 1 .. n |-> [r |-> (i.rd + k - 1) % NumRegs, ea |-> ea + 4 * (k - 1),
                                      at |-> 0, n |-> 4]]
Rest(i, ea, n) ==
    LET r == (i.rd + n \div 4) % NumRegs
        a == ea + 4 * (n \div 4)
        half == [r |-> r, ea |-> a, at |-> 0, n |-> 2]
        byte == [r |-> r, ea |-> a, at |-> 0, n |-> 1]
    IN  CASE n % 4 = 0 -> <<>>
          [] n % 4 = 1 -> <<byte>>
          [] n % 4 = 2 -> <<half>>
          [] n % 4 = 3 -> <<half, [byte EXCEPT !.ea = a + 2, !.at = 2]>>
Pieces(i, ea, n) == WordPieces(i, ea, n \div 4) \o Rest(i, ea, n)

\* ppc_lmw, ppc_stmw: to the last register.
MultipleBytes(i) == 4 * (NumRegs - i.rd)

Lmw(s, here, i) == Loads(s, here, WordPieces(i, Ea(s, i), NumRegs - i.rd))
Stmw(s, here, i) == Stores(s, here, WordPieces(i, Ea(s, i), NumRegs - i.rd))

\* ppc_lswi, ppc_stswi: no bytes means the most there can be, two registers'.
StringBytes(i) == IF i.nb = 0 THEN 8 ELSE i.nb

Lswi(s, here, i) == Loads(s, here, Pieces(i, Base(s, i), StringBytes(i)))
Stswi(s, here, i) == Stores(s, here, Pieces(i, Base(s, i), StringBytes(i)))

\* ppc_lswx: the 601 does not load the registers of the address.  Three bytes
\* are read before the register is changed, so that a fault leaves it alone.
KeepsReg(i, r) == i.is_601 /\ (r = i.rb \/ (i.ra # 0 /\ r = i.ra))

Lswx(s, here, i) ==
    LET n == s.xer
        ea == Ea(s, i)
        last == (i.rd + n \div 4) % NumRegs
        t == Loads(s, here, SelectSeq(WordPieces(i, ea, n \div 4), LAMBDA x : ~KeepsReg(i, x.r)))
        u == Loads(t, here, Rest(i, ea, n))
    IN  IF n % 4 = 0 \/ KeepsReg(i, last) THEN t
        ELSE IF u.fault # NoPage THEN [t EXCEPT !.fault = u.fault] ELSE u

Stswx(s, here, i) == Stores(s, here, Pieces(i, Ea(s, i), s.xer))

\* power_lscbx: byte by byte, up to and with the first that matches.
Compared(s, ea) ==
    LET hits == {k \in 1 .. s.xer : s.mem[ea + k - 1] = s.match}
    IN  IF hits = {} THEN s.xer ELSE CHOOSE k \in hits : \A j \in hits : k <= j
Found(s, ea) == \E k \in 1 .. s.xer : s.mem[ea + k - 1] = s.match

\* Mutant: the registers of the address are loaded too.
LscbxAll(s, here, i) ==
    LET ea == Ea(s, i)
        total == Compared(s, ea)
        seen == Readable(here, ea, total)
        t == Loads(s, here, Pieces(i, ea, IF seen = total THEN total ELSE 4 * (seen \div 4)))
    IN  IF seen < total THEN [t EXCEPT !.fault = Page(ea + seen)]
        ELSE [t EXCEPT !.xer = total, !.cr0 = IF Found(s, ea) THEN {"EQ"} ELSE {}]

\* A register is stored when its fourth byte has been read, or at the end, and
\* the registers of the address never are.
Lscbx(s, here, i) ==
    LET ea == Ea(s, i)
        total == Compared(s, ea)
        seen == Readable(here, ea, total)
        xs == Pieces(i, ea, IF seen = total THEN total ELSE 4 * (seen \div 4))
        t == Loads(s, here, SelectSeq(xs, LAMBDA x : x.r \notin {i.ra, i.rb}))
    IN  IF seen < total THEN [t EXCEPT !.fault = Page(ea + seen)]
        ELSE [t EXCEPT !.xer = total, !.cr0 = IF Found(s, ea) THEN {"EQ"} ELSE {}]

\* ppc_lz, ppc_lzx and their update forms: the base is changed last.
One(i, ea) == <<[r |-> i.rd, ea |-> ea, at |-> 4 - i.nb, n |-> i.nb]>>
LoadOne(s, here, i, ea) ==
    LET t == Loads([s EXCEPT !.gpr[i.rd] = ZeroReg], here, One(i, ea))
    IN  IF t.fault = NoPage THEN t ELSE [s EXCEPT !.fault = t.fault]
StoreOne(s, here, i, ea) == Stores(s, here, One(i, ea))
Update(t, i, ea) == IF t.fault = NoPage THEN [t EXCEPT !.gpr[i.ra] = AddrReg(ea)] ELSE t

Lzu(s, here, i) == Update(LoadOne(s, here, i, Ea(s, i)), i, Ea(s, i))
Stu(s, here, i) == Update(StoreOne(s, here, i, Ea(s, i)), i, Ea(s, i))

\* ppc_lha: the sign of the half word goes into the upper half.
Sign(b) == IF b >= 128 THEN 255 ELSE 0
Lha(s, here, i) ==
    LET t == LoadOne(s, here, i, Ea(s, i))
    IN  IF t.fault # NoPage THEN t
        ELSE [t EXCEPT !.gpr[i.rd] = <<Sign(@[3]), Sign(@[3]), @[3], @[4]>>]

\* ppc_lwbrx, ppc_lhbrx, ppc_stwbrx, ppc_sthbrx.
Swapped(r, n) == [k \in 1 .. 4 |-> IF k <= 4 - n THEN r[k] ELSE r[9 - n - k]]
Lbrx(s, here, i) ==
    LET t == LoadOne(s, here, i, Ea(s, i))
    IN  IF t.fault # NoPage THEN t ELSE [t EXCEPT !.gpr[i.rd] = Swapped(@, i.nb)]
Stbrx(s, here, i) ==
    Write(s, here, Ea(s, i), SubSeq(Swapped(s.gpr[i.rd], i.nb), 5 - i.nb, 4))

\* ppc_lwarx reserves before it reads; ppc_stwcx clears CR0 before it writes.
Lwarx(s, here, i) == LoadOne([s EXCEPT !.reserve = TRUE], here, i, Ea(s, i))
Stwcx(s, here, i) ==
    LET t == StoreOne([s EXCEPT !.cr0 = {}], here, i, Ea(s, i))
    IN  IF ~s.reserve THEN [s EXCEPT !.cr0 = {}]
        ELSE IF t.fault # NoPage THEN t
        ELSE [t EXCEPT !.reserve = FALSE, !.cr0 = {"EQ"}]

Attempt(s, here, i) ==
    CASE i.op = "lmw"   -> Lmw(s, here, i)
      [] i.op = "stmw"  -> Stmw(s, here, i)
      [] i.op = "lswi"  -> Lswi(s, here, i)
      [] i.op = "stswi" -> Stswi(s, here, i)
      [] i.op = "lswx"  -> Lswx(s, here, i)
      [] i.op = "stswx" -> Stswx(s, here, i)
      [] i.op = "lscbx" -> Lscbx(s, here, i)
      [] i.op = "lz"    -> LoadOne(s, here, i, Ea(s, i))
      [] i.op = "st"    -> StoreOne(s, here, i, Ea(s, i))
      [] i.op = "lzu"   -> Lzu(s, here, i)
      [] i.op = "stu"   -> Stu(s, here, i)
      [] i.op = "lha"   -> Lha(s, here, i)
      [] i.op = "lbrx"  -> Lbrx(s, here, i)
      [] i.op = "stbrx" -> Stbrx(s, here, i)
      [] i.op = "lwarx" -> Lwarx(s, here, i)
      [] i.op = "stwcx" -> Stwcx(s, here, i)

\* Forms that are refused: an update form without a base or, if it loads, with
\* the base as its target; stmw off a word boundary.
Illegal(i) == \/ i.op = "lzu" /\ (i.ra = 0 \/ i.ra = i.rd)
              \/ i.op = "stu" /\ i.ra = 0
Misaligned(s, i) == i.op = "stmw" /\ Ea(s, i) % 4 # 0

-----------------------------------------------------------------------------
(* Execution. *)

ExecuteLoadStore ==
    LET t == Attempt(core, present, ins)
    IN  /\ stage = "ready"
        /\ \/ /\ Illegal(ins)
              /\ stage' = "illegal"
              /\ UNCHANGED <<core, wanted>>
           \/ /\ ~Illegal(ins) /\ Misaligned(core, ins)
              /\ stage' = "align"
              /\ UNCHANGED <<core, wanted>>
           \/ /\ ~Illegal(ins) /\ ~Misaligned(core, ins)
              /\ core' = [t EXCEPT !.fault = NoPage]
              /\ wanted' = t.fault
              /\ stage' = IF t.fault = NoPage THEN "done" ELSE "fault"
        /\ UNCHANGED <<ins, begun, present, faults>>

\* The guest's handler brings the page in, for which another may have to go,
\* and returns to the instruction: external.
PageIn(out) == /\ stage = "fault"
               /\ faults < MaxFaults
               /\ faults' = faults + 1
               /\ present' = (present \ out) \cup {wanted}
               /\ stage' = "ready"
               /\ UNCHANGED <<core, ins, begun, wanted>>

LoadStoreInit ==
    /\ \E x \in Counts, m \in Matches, r \in BOOLEAN :
          core = [gpr |-> InitGpr, mem |-> InitMem, xer |-> x, match |-> m, cr0 |-> {"SO"},
                  reserve |-> r, fault |-> NoPage]
    /\ ins \in Instructions
    /\ begun = core
    /\ present \in SUBSET Pages
    /\ stage = "ready"
    /\ wanted = NoPage
    /\ faults = 0

LoadStoreNext == ExecuteLoadStore \/ \E out \in {{}} \cup {{p} : p \in Pages} : PageIn(out)

LoadStoreSpec == LoadStoreInit /\ [][LoadStoreNext]_loadVars

-----------------------------------------------------------------------------
(* The architecture's description of the same instructions, byte by byte.   *)

StringLoads == {"lmw", "lswi", "lswx", "lscbx"}
StringStores == {"stmw", "stswi", "stswx"}

StringLength(s, i) ==
    CASE i.op \in {"lmw", "stmw"}   -> 4 * (NumRegs - i.rd)
      [] i.op \in {"lswi", "stswi"} -> StringBytes(i)
      [] i.op \in {"lswx", "stswx"} -> s.xer
      [] i.op = "lscbx"             -> Compared(s, Ea(s, i))

\* The place of byte k in the registers, and the byte of a register.
InReg(i, k) == <<(i.rd + k \div 4) % NumRegs, (k % 4) + 1>>
LoadedReg(s, i, r) ==
    [b \in 1 .. 4 |-> IF \E k \in 0 .. StringLength(s, i) - 1 : InReg(i, k) = <<r, b>>
                      THEN s.mem[Ea(s, i) + CHOOSE k \in 0 .. StringLength(s, i) - 1 : InReg(i, k) = <<r, b>>]
                      ELSE 0]
Spared(i) == CASE i.op = "lscbx" -> {i.ra, i.rb}
               [] i.op = "lswx" /\ i.is_601 -> {i.rb} \cup ({i.ra} \ {0})
               [] OTHER -> {}

IntendedGpr(s, i) ==
    [r \in DOMAIN s.gpr |->
        IF i.op \in StringLoads
        THEN IF r \notin Spared(i) /\ \E k \in 0 .. StringLength(s, i) - 1 : InReg(i, k)[1] = r
             THEN LoadedReg(s, i, r) ELSE s.gpr[r]
        ELSE IF i.op \in {"lzu", "stu"} /\ r = i.ra THEN AddrReg(Ea(s, i))
        ELSE IF i.op \in {"lz", "lzu", "lwarx", "lha", "lbrx"} /\ r = i.rd
        THEN [b \in 1 .. 4 |->
                IF b <= 4 - i.nb THEN IF i.op = "lha" /\ s.mem[Ea(s, i)] >= 128 THEN 255 ELSE 0
                ELSE IF i.op = "lbrx" THEN s.mem[Ea(s, i) + 4 - b]
                ELSE s.mem[Ea(s, i) + b - (5 - i.nb)]]
        ELSE s.gpr[r]]

IntendedMem(s, i) ==
    [a \in DOMAIN s.mem |->
        LET k == a - Ea(s, i)
            one == i.op \in {"st", "stu", "stbrx"} \/ (i.op = "stwcx" /\ s.reserve)
        IN  IF i.op \in StringStores /\ k \in 0 .. StringLength(s, i) - 1
            THEN s.gpr[InReg(i, k)[1]][InReg(i, k)[2]]
            ELSE IF one /\ k \in 0 .. i.nb - 1
            THEN s.gpr[i.rd][IF i.op = "stbrx" THEN 4 - k ELSE 4 - i.nb + k + 1]
            ELSE s.mem[a]]

\* However often a page was missing, and whatever the attempts before had
\* already loaded or stored, an instruction that completes has done to the
\* registers and to memory what it does when it is executed once; a conditional
\* store is not done twice, nor lost, over a fault; and one that is refused has
\* done nothing.
Restartable ==
    /\ stage = "done" => /\ core.gpr = IntendedGpr(begun, ins)
                         /\ core.mem = IntendedMem(begun, ins)
                         /\ ins.op = "stwcx" => /\ core.cr0 = (IF begun.reserve THEN {"EQ"} ELSE {})
                                                /\ ~core.reserve
                         /\ ins.op = "lscbx" => core.xer = Compared(begun, Ea(begun, ins))
    /\ stage \in {"illegal", "align"} => core = begun
=============================================================================
