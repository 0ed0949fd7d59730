------------------------------- MODULE IntOps -------------------------------
(***************************************************************************)
(* The integer instructions of the PowerPC (cpu/ppc/ppcopcodes.cpp) and of *)
(* the POWER instructions of the 601 (cpu/ppc/poweropcodes.cpp), on words  *)
(* of W bits, and short programs of them.                                  *)
(*                                                                         *)
(* What one instruction leaves for the next (CA, OV, MQ, a CR bit) is      *)
(* where they are hard to get right: each program is one that compilers    *)
(* and run-time libraries use, and its properties say what it computes in  *)
(* unbounded integers.  Record forms (CR0) are left out, and the forms     *)
(* with an immediate or shifted operand are those with a register.  Forms  *)
(* with OE are the ones modelled where an instruction has them.            *)
(***************************************************************************)
EXTENDS Integers, Sequences, FiniteSets, Bitwise

CONSTANTS
    W,          \* width of a word, a power of two
    Edges,      \* the words that each of four operands ranges over
    TrapNames   \* trap instructions run: tw, twi

ASSUME WordAssumption == W \in {2, 4, 8, 16, 32} /\ Edges \subseteq 0 .. 2 ^ W - 1

VARIABLES
    prog, at_instr, \* the program, and the next of its instructions
    on_601,     \* is_601
    cpu,        \* gpr, ca, ov, mq, cr, and whether a trap was taken
    start       \* cpu when the program began

intVars == <<prog, at_instr, on_601, cpu, start>>

M      == 2 ^ W
Words  == 0 .. M - 1
MinInt == M \div 2
Ones   == M - 1

Signed(x) == IF x < MinInt THEN x ELSE x - M
Inv(x)    == Ones - x
IsNeg(x)    == x >= MinInt
Ca(st)    == IF st.ca THEN 1 ELSE 0

\* C's division truncates towards zero.
Quot(x, y) == IF (x < 0) = (y < 0) THEN (IF x < 0 THEN -x ELSE x) \div (IF y < 0 THEN -y ELSE y)
              ELSE -((IF x < 0 THEN -x ELSE x) \div (IF y < 0 THEN -y ELSE y))
Rem(x, y)  == x - y * Quot(x, y)

\* What an instruction computes: its result, CA, OV and MQ.
Result(v, ca, ov, mq) == [v |-> v, ca |-> ca, ov |-> ov, mq |-> mq]
Just(st, v)           == Result(v, st.ca, st.ov, st.mq)
WithMq(st, v, mq)     == Result(v, st.ca, st.ov, mq)
Arith(st, v, ca, ov)  == Result(v, ca, ov, st.mq)

\* ppc_setsoov.
Soov(a, b, d) == IsNeg((a ^^ b) & (a ^^ d))

-----------------------------------------------------------------------------
(* Arithmetic. *)

Add(st, a, b)   == LET d == (a + b) % M IN Arith(st, d, st.ca, Soov(a, Inv(b), d))
Addc(st, a, b)  == LET d == (a + b) % M IN Arith(st, d, d < a, Soov(a, Inv(b), d))
Addic(st, a, simm) == [Addc(st, a, simm) EXCEPT !.ov = st.ov]

\* Mutant: with a carry in, a sum equal to rA is taken for one without carry.
AddeNoEqual(st, a, b) ==
    LET d == (a + b + Ca(st)) % M IN Arith(st, d, d < a, Soov(a, Inv(b), d))

Adde(st, a, b)  ==
    LET d == (a + b + Ca(st)) % M
    IN  Arith(st, d, d < a \/ (st.ca /\ d = a), Soov(a, Inv(b), d))
Addme(st, a)    ==
    LET d == (a + Ca(st) - 1) % M IN Arith(st, d, st.ca \/ d < a, Soov(a, 0, d))
Addze(st, a)    == LET d == (a + Ca(st)) % M IN Arith(st, d, d < a, Soov(a, Ones, d))
Subf(st, a, b)  == LET d == (b - a) % M IN Arith(st, d, st.ca, Soov(b, a, d))
Subfc(st, a, b) == LET d == (b - a) % M IN Arith(st, d, b >= a, Soov(b, a, d))
Subfic(st, a, simm) ==
    LET d == (simm - a) % M IN Arith(st, d, simm = Ones \/ d < Inv(a), st.ov)
Subfe(st, a, b) ==
    LET d == (Inv(a) + b + Ca(st)) % M
    IN  Arith(st, d, (st.ca /\ b = Ones) \/ d < Inv(a), Soov(b, a, d))
Subfme(st, a)   ==
    LET d == (Inv(a) + Ca(st) - 1) % M
    IN  Arith(st, d, ~(a = Ones /\ ~st.ca), d = a /\ Signed(d) > 0)
Subfze(st, a)   ==
    LET d == (Inv(a) + Ca(st)) % M IN Arith(st, d, d = 0 /\ st.ca, d # 0 /\ d = a)
NegOp(st, a)    == Arith(st, (Inv(a) + 1) % M, st.ca, a = MinInt)

Mulhwu(st, a, b) == Just(st, (a * b) \div M)
Mulhw(st, a, b)  == Just(st, ((Signed(a) * Signed(b)) \div M) % M)
Mullw(st, a, b)  ==
    LET p == Signed(a) * Signed(b) IN Arith(st, p % M, st.ca, p # Signed(p % M))

Divw(st, a, b) ==
    IF b = 0 THEN Arith(st, IF ~on_601 THEN 0 ELSE IF IsNeg(a) THEN 1 ELSE Ones, st.ca, TRUE)
    ELSE IF a = MinInt /\ b = Ones
      THEN Arith(st, IF on_601 THEN MinInt ELSE 0, st.ca, TRUE)
      ELSE Arith(st, Quot(Signed(a), Signed(b)) % M, st.ca, FALSE)
Divwu(st, a, b) ==
    IF b = 0 THEN Arith(st, IF on_601 THEN Ones ELSE 0, st.ca, TRUE)
    ELSE Arith(st, a \div b, st.ca, FALSE)

(* POWER: products and dividends of two words, the lower one in MQ. *)

PowerAbs(st, a)  == Arith(st, IF IsNeg(a) THEN (-a) % M ELSE a, st.ca, a = MinInt)
PowerNabs(st, a) == Arith(st, IF IsNeg(a) THEN a ELSE (-a) % M, st.ca, FALSE)
PowerDoz(st, a, b) ==
    LET d == IF Signed(a) < Signed(b) THEN (b - a) % M ELSE 0 IN Arith(st, d, st.ca, IsNeg(d))
PowerMul(st, a, b) ==
    LET p == Signed(a) * Signed(b)
    IN  Result((p \div M) % M, st.ca, p \div MinInt \notin {0, -1}, p % M)

\* The test for the quotient that does not fit compares the dividend with
\* -0x80000000, which as an unsigned constant is 2^31 and not -2^31.
PowerDiv(st, a, b) ==
    LET dividend == Signed(a) * M + st.mq
        q == Quot(dividend, Signed(b))
    IN  IF b = 0 \/ (dividend = MinInt /\ b = Ones) THEN Result(MinInt, st.ca, TRUE, 0)
        ELSE Result(q % M, st.ca, q \div MinInt \notin {0, -1}, Rem(dividend, Signed(b)) % M)
PowerDivs(st, a, b) ==
    IF b = 0 THEN Result(Ones, st.ca, TRUE, a)
    ELSE IF a = MinInt /\ b = Ones THEN Result(MinInt, st.ca, TRUE, 0)
    ELSE Result(Quot(Signed(a), Signed(b)) % M, st.ca, FALSE, Rem(Signed(a), Signed(b)) % M)

-----------------------------------------------------------------------------
(* Shifts and rotates by n: the lowest bits of n, and the one above them, *)
(* which shifts everything out.                                           *)

Sh(n)   == n % W
Over(n) == (n \div W) % 2 = 1
Shl(x, k) == (x * 2 ^ k) % M
Shr(x, k) == x \div 2 ^ k
Sar(x, k) == (Signed(x) \div 2 ^ k) % M
Rotl(x, n) == Shl(x, Sh(n)) | Shr(x, W - Sh(n))
Rotr(x, n) == Rotl(x, W - Sh(n))

\* Mutant: a field does not go around the end of the word.
RotMaskPlain(mb, me) == Shr(Ones, mb) & Shl(Ones, W - 1 - me)

\* rot_mask, power_rot_mask: bit 0 is the highest.
RotMask(mb, me) ==
    LET m1 == Shr(Ones, mb)
        m2 == Shl(Ones, W - 1 - me)
    IN  IF mb <= me THEN m1 & m2 ELSE m1 | m2

Merge(mask, x, y) == (x & mask) | (y & Inv(mask))
LostOnes(s, k)    == IsNeg(s) /\ s % 2 ^ k # 0

Shift(st, s, n, left) ==
    Just(st, IF Over(n) THEN 0 ELSE IF left THEN Shl(s, Sh(n)) ELSE Shr(s, Sh(n)))
Sraw(st, s, n)   ==
    IF Over(n) THEN Arith(st, Sar(s, W - 1), IsNeg(s), st.ov)
    ELSE Arith(st, Sar(s, Sh(n)), LostOnes(s, Sh(n)), st.ov)
Srawi(st, s, n)  == Arith(st, Sar(s, Sh(n)), LostOnes(s, Sh(n)), st.ov)
Rlwimi(st, s, a, n, mb, me) == Just(st, Merge(RotMask(mb, me), Rotl(s, n), a))
Rlwinm(st, s, n, mb, me)    == Just(st, Rotl(s, n) & RotMask(mb, me))
Cntlzw(st, s)    == Just(st, Cardinality({k \in 1 .. W : s < 2 ^ (W - k)}))

\* sle, sliq; sleq, slliq; slq; sllq.
Sle(st, s, n)  == WithMq(st, Shl(s, Sh(n)), Rotl(s, n))
Sleq(st, s, n) == WithMq(st, Merge(RotMask(0, W - 1 - Sh(n)), Rotl(s, n), st.mq), Rotl(s, n))
Slq(st, s, n)  == WithMq(st, IF Over(n) THEN 0 ELSE Shl(s, Sh(n)), Rotl(s, n))
Sllq(st, s, n) ==
    Just(st, IF Over(n) THEN st.mq & Shl(Ones, Sh(n)) ELSE Shl(s, Sh(n)) | (st.mq % 2 ^ Sh(n)))

\* sre, sriq; sreq, srliq; srq; srlq; srea; sraq, sraiq.
Sre(st, s, n)  == WithMq(st, Shr(s, Sh(n)), Rotr(s, n))
Sreq(st, s, n) == WithMq(st, Merge(Shr(Ones, Sh(n)), Shr(s, Sh(n)), st.mq), Rotr(s, n))
Srq(st, s, n)  == WithMq(st, IF Over(n) THEN 0 ELSE Shr(s, Sh(n)), Rotr(s, n))
Srlq(st, s, n) ==
    LET mask == RotMask(Sh(n), W - 1)
    IN  Just(st, IF Over(n) THEN st.mq & mask ELSE Merge(mask, Rotr(s, n), st.mq))
Srea(st, s, n) ==
    Result(Sar(s, Sh(n)), IsNeg(s) /\ Rotr(s, n) & Inv(Shr(Ones, Sh(n))) # 0, st.ov, Rotr(s, n))
Sraq(st, s, n) ==
    Result(Sar(s, IF Over(n) THEN W - 1 ELSE Sh(n)),
           IF Over(n) THEN IsNeg(s) ELSE LostOnes(s, Sh(n)), st.ov, Rotr(s, n))

Maskg(st, s, b) ==
    LET from == Sh(s)
        to   == Sh(b)
    IN  Just(st, IF from <= to THEN RotMask(from, to)
                  ELSE IF from = to + 1 THEN Ones ELSE Inv(RotMask(to + 1, from - 1)))
Maskir(st, s, a, b) == Just(st, Merge(b, s, a))
Rrib(st, s, a, b)   ==
    LET bit == Shr(MinInt, Sh(b)) IN Just(st, IF IsNeg(s) THEN a | bit ELSE a & Inv(bit))

Logical(fun, s, b) ==
    CASE fun = "and"  -> s & b
      [] fun = "andc" -> s & Inv(b)
      [] fun = "eqv"  -> Inv(s ^^ b)
      [] fun = "nand" -> Inv(s & b)
      [] fun = "nor"  -> Inv(s | b)
      [] fun = "or"   -> s | b
      [] fun = "orc"  -> s | Inv(b)
      [] fun = "xor"  -> s ^^ b

-----------------------------------------------------------------------------
(* Conditions. *)

\* cmp, cmpi and cmpl, cmpli: the LT, GT and EQ bits of a field.
Order(x, y) == <<x < y, x > y, x = y>>
Cmp(a, b)  == Order(Signed(a), Signed(b))
Cmpl(a, b) == Order(a, b)

CrOp(fun, x, y) ==
    CASE fun = "crand" -> x /\ y    [] fun = "crandc" -> x /\ ~y
      [] fun = "creqv" -> x <=> y   [] fun = "crnand" -> ~(x /\ y)
      [] fun = "crnor" -> ~(x \/ y) [] fun = "cror"   -> x \/ y
      [] fun = "crorc" -> x \/ ~y   [] fun = "crxor"  -> ~(x <=> y)

\* The trap conditions of TO, and which of them hold for two values.
Conditions(x, y) ==
    {c \in {"lt", "gt", "eq", "llt", "lgt"} :
        CASE c = "lt" -> Signed(x) < Signed(y) [] c = "gt" -> Signed(x) > Signed(y)
          [] c = "eq" -> x = y [] c = "llt" -> x < y [] c = "lgt" -> x > y}

Twi(a, simm, to) == to \intersect Conditions(a, simm) # {}

\* ppc_tw takes its register a from the place of rB in the opcode, and b from
\* that of rA.
Tw(ra, rb, to) == to \intersect Conditions(rb, ra) # {}

-----------------------------------------------------------------------------
(* Instructions: destination d, source registers x and y, an immediate     *)
(* operand n, and mask bounds or a TO field in m.                          *)

Arithmetic(st, i, a, b) ==
    CASE i.op = "add"   -> Add(st, a, b)    [] i.op = "addc"  -> Addc(st, a, b)
      [] i.op = "addic" -> Addic(st, a, b)
      [] i.op = "adde"  -> Adde(st, a, b)   [] i.op = "addme" -> Addme(st, a)
      [] i.op = "addze" -> Addze(st, a)     [] i.op = "subf"  -> Subf(st, a, b)
      [] i.op = "subfc" -> Subfc(st, a, b)  [] i.op = "subfe" -> Subfe(st, a, b)
      [] i.op = "subfic" -> Subfic(st, a, b) [] i.op = "subfme" -> Subfme(st, a)
      [] i.op = "subfze" -> Subfze(st, a)   [] i.op = "neg"   -> NegOp(st, a)
      [] i.op = "mulhwu" -> Mulhwu(st, a, b) [] i.op = "mulhw" -> Mulhw(st, a, b)
      [] i.op = "mullw" -> Mullw(st, a, b)  [] i.op = "divw"  -> Divw(st, a, b)
      [] i.op = "divwu" -> Divwu(st, a, b)  [] i.op = "abs"   -> PowerAbs(st, a)
      [] i.op = "nabs"  -> PowerNabs(st, a) [] i.op = "doz"   -> PowerDoz(st, a, b)
      [] i.op = "mul"   -> PowerMul(st, a, b) [] i.op = "div" -> PowerDiv(st, a, b)
      [] i.op = "divs"  -> PowerDivs(st, a, b)

Shifting(st, i, s, b, old) ==
    CASE i.op = "slw"  -> Shift(st, s, b, TRUE) [] i.op = "srw" -> Shift(st, s, b, FALSE)
      [] i.op = "sraw" -> Sraw(st, s, b)  [] i.op = "srawi" -> Srawi(st, s, b)
      [] i.op = "sle"  -> Sle(st, s, b)   [] i.op = "sleq"  -> Sleq(st, s, b)
      [] i.op = "slq"  -> Slq(st, s, b)   [] i.op = "sllq"  -> Sllq(st, s, b)
      [] i.op = "sre"  -> Sre(st, s, b)   [] i.op = "sreq"  -> Sreq(st, s, b)
      [] i.op = "srq"  -> Srq(st, s, b)   [] i.op = "srlq"  -> Srlq(st, s, b)
      [] i.op = "srea" -> Srea(st, s, b)  [] i.op = "sraq"  -> Sraq(st, s, b)
      [] i.op = "rlwimi" -> Rlwimi(st, s, old, b, i.m[1], i.m[2])
      [] i.op = "rlwinm" -> Rlwinm(st, s, b, i.m[1], i.m[2])
      [] i.op = "cntlzw" -> Cntlzw(st, s) [] i.op = "maskg" -> Maskg(st, s, b)
      [] i.op = "maskir" -> Maskir(st, s, old, b) [] i.op = "rrib" -> Rrib(st, s, old, b)

Kinds == [arithmetic |-> {"add", "addc", "addic", "adde", "addme", "addze", "subf", "subfc",
                          "subfe", "subfic", "subfme", "subfze", "neg", "mulhwu", "mulhw",
                          "mullw", "divw", "divwu", "abs", "nabs", "doz", "mul", "div", "divs"},
          shifting   |-> {"slw", "srw", "sraw", "srawi", "sle", "sleq", "slq", "sllq", "sre",
                          "sreq", "srq", "srlq", "srea", "sraq", "rlwimi", "rlwinm",
                          "cntlzw", "maskg", "maskir", "rrib"},
          logical    |-> {"and", "andc", "eqv", "nand", "nor", "or", "orc", "xor"},
          comparing  |-> {"cmp", "cmpl"},
          combining  |-> {"crand", "crandc", "creqv", "crnand", "crnor", "cror", "crorc", "crxor"},
          trapping   |-> {"tw", "twi"}]

R(op, d, x, y)     == [op |-> op, d |-> d, x |-> x, y |-> y, n |-> 0, m |-> {}]
I(op, d, x, n)     == [op |-> op, d |-> d, x |-> x, y |-> 0, n |-> n, m |-> {}]
Im(op, d, x, n, m) == [op |-> op, d |-> d, x |-> x, y |-> 0, n |-> n, m |-> m]

-----------------------------------------------------------------------------
(* The programs, and the operands they run with.  A double word has its    *)
(* higher half in r1 and its lower half in r2, a second one r3 and r4.     *)

Code(p) ==
    CASE p.name = "add"   -> <<R("addc", 2, 2, 4), R("adde", 1, 1, 3)>>
      [] p.name = "sub"   -> <<R("subfc", 2, 4, 2), R("subfe", 1, 3, 1)>>
      [] p.name = "addi"  -> <<I("addic", 2, 2, p.n), R(IF IsNeg(p.n) THEN "addme" ELSE "addze", 1, 1, 1)>>
      [] p.name = "subfi" -> <<I("subfic", 2, 2, p.n), R(IF IsNeg(p.n) THEN "subfme" ELSE "subfze", 1, 1, 1)>>
      [] p.name = "scale" -> <<I(p.m, 3, 1, p.n), R("addze", 3, 3, 3)>>
      [] p.name = "shift" ->
           (CASE p.m = "sle" -> <<I("sle", 4, 2, p.n), I("sleq", 3, 1, p.n)>>
              [] p.m = "sre" -> <<I("sre", 3, 1, p.n), I("sreq", 4, 2, p.n)>>
              [] p.m = "slq" -> <<I("slq", 4, 2, p.n), I("sllq", 3, 1, p.n)>>
              [] p.m = "srq" -> <<I("srq", 3, 1, p.n), I("srlq", 4, 2, p.n)>>)
      [] p.name = "normalise" -> <<R("cntlzw", 3, 1, 1), R("slw", 4, 1, 3), R("srw", 5, 4, 3)>>
      [] p.name = "product" -> <<R("mulhw", 3, 1, 2), R("mulhwu", 4, 1, 2), R("mullw", 5, 1, 2)>>
      [] p.name = "muldiv"  -> <<R("mul", 3, 1, 2), R("div", 4, 3, 2)>>
      [] p.name = "rem"     -> <<R(p.m, 3, 1, 2), R("mullw", 4, 3, 2), R("subf", 4, 4, 1)>>
      [] p.name = "divs"    -> <<R("divs", 3, 1, 2)>>
      [] p.name = "extremes" -> <<R("doz", 3, 1, 2), R("add", 3, 3, 1), R("nabs", 4, 1, 1),
                                  R("neg", 5, 4, 4), R("abs", 4, 1, 1)>>
      [] p.name = "insert"  -> <<Im("rlwimi", 1, 2, p.n, p.m), Im("rlwinm", 3, 1, W - p.n,
                                    <<(p.m[1] + p.n) % W, (p.m[2] + p.n) % W>>)>>
      [] p.name = "merge"   -> <<R("maskg", 5, 1, 2), R("maskir", 4, 3, 5)>>
      [] p.name = "setbit"  -> <<R("rrib", 3, 1, 2)>>
      [] p.name = "select"  -> <<R("and", 4, 1, 3), R("andc", 5, 2, 3), R("or", 4, 4, 5),
                                 R("nand", 5, 1, 3), R("orc", 3, 3, 2), R("nand", 5, 5, 3)>>
      [] p.name = "swap"    -> <<R("xor", 1, 1, 2), R("eqv", 2, 1, 2), R("nor", 2, 2, 2), R("xor", 1, 1, 2)>>
      [] p.name = "compare" -> <<R("cmp", 0, 1, 3), R("cmpl", 3, 2, 4),
                                 R("crand", 4, 3, 4), R("cror", 1, 1, 4), R("crand", 5, 3, 5),
                                 R("crnor", 2, 2, 5), R("crnand", 2, 2, 2), R("crand", 3, 3, 6)>>
      [] p.name = "ordered" -> <<R("cmp", 0, 1, 2), R("crorc", 4, 3, 1), R("crandc", 5, 4, 3),
                                 R("creqv", 6, 1, 5), R("crxor", 1, 1, 4)>>
      [] p.name \in {"tw", "twi"} -> <<IF p.name = "tw" THEN [R("tw", 0, 1, 2) EXCEPT !.m = p.m]
                                       ELSE Im("twi", 0, 1, p.n, p.m)>>

Prog(name, ns, ms) == [name : {name}, n : ns, m : ms]

Programs ==
    UNION {Prog(name, {0}, {""}) : name \in {"add", "sub", "normalise", "product", "muldiv", "divs",
                                             "extremes", "merge", "setbit", "select", "swap",
                                             "compare", "ordered"}}
    \cup Prog("addi", Edges, {""}) \cup Prog("subfi", Edges, {""})
    \cup Prog("scale", 0 .. 2 * W - 1, {"sraw", "sraq"}) \cup Prog("scale", 0 .. W - 1, {"srawi", "srea"})
    \cup Prog("shift", 0 .. W - 1, {"sle", "sre"}) \cup Prog("shift", 0 .. 2 * W - 1, {"slq", "srq"})
    \cup Prog("rem", {0}, {"divw", "divwu"})
    \cup Prog("insert", 0 .. W - 1, (0 .. W - 1) \X (0 .. W - 1))
    \cup UNION {Prog(name, Edges, SUBSET {"lt", "gt", "eq", "llt", "lgt"}) : name \in TrapNames}

Gprs(p) ==
    CASE p.name \in {"add", "sub", "compare"} -> {<<a, b, c, d, 0>> : a, b, c, d \in Edges}
      [] p.name \in {"merge", "select"}       -> {<<a, b, c, d, 0>> : a, b \in Words, c, d \in Edges}
      [] p.name \in {"tw", "twi"}             -> {<<a, b, 0, 0, 0>> : a, b \in Edges}
      [] OTHER                                -> {<<a, b, 0, 0, 0>> : a, b \in Words}

Instr == Code(prog)[at_instr]
Operand(st, i) == IF i.y = 0 THEN i.n ELSE st.gpr[i.y]

Executes(kind) == at_instr <= Len(Code(prog)) /\ Instr.op \in Kinds[kind]

Advance(st) == /\ cpu' = st
               /\ at_instr' = at_instr + 1
               /\ UNCHANGED <<prog, on_601, start>>

Retire(r) == Advance([cpu EXCEPT !.gpr[Instr.d] = r.v, !.ca = r.ca, !.ov = r.ov, !.mq = r.mq])

DoArithmetic == /\ Executes("arithmetic")
                /\ Retire(Arithmetic(cpu, Instr, cpu.gpr[Instr.x], Operand(cpu, Instr)))

DoShift == /\ Executes("shifting")
           /\ Retire(Shifting(cpu, Instr, cpu.gpr[Instr.x], Operand(cpu, Instr), cpu.gpr[Instr.d]))

DoLogical == /\ Executes("logical")
             /\ Advance([cpu EXCEPT !.gpr[Instr.d] = Logical(Instr.op, cpu.gpr[Instr.x], Operand(cpu, Instr))])

DoCompare ==
    /\ Executes("comparing")
    /\ LET a == cpu.gpr[Instr.x]
           f == IF Instr.op = "cmp" THEN Cmp(a, Operand(cpu, Instr)) ELSE Cmpl(a, Operand(cpu, Instr))
       IN  Advance([cpu EXCEPT !.cr = [k \in DOMAIN @ |-> IF k - Instr.d \in 1 .. 3 THEN f[k - Instr.d] ELSE @[k]]])

DoCombine == /\ Executes("combining")
             /\ Advance([cpu EXCEPT !.cr[Instr.d] = CrOp(Instr.op, cpu.cr[Instr.x], cpu.cr[Instr.y])])

DoTrap ==
    /\ Executes("trapping")
    /\ LET a == cpu.gpr[Instr.x]
       IN  Advance([cpu EXCEPT !.trap = IF Instr.op = "tw" THEN Tw(a, Operand(cpu, Instr), Instr.m)
                                                            ELSE Twi(a, Operand(cpu, Instr), Instr.m)])

OpsInit ==
    /\ prog \in Programs
    /\ at_instr = 1
    /\ on_601 \in IF prog.name = "rem" THEN BOOLEAN ELSE {TRUE}
    /\ cpu \in [gpr : Gprs(prog), ca : IF prog.name \in {"add", "scale"} THEN BOOLEAN ELSE {FALSE},
                ov : {FALSE}, mq : IF prog.name = "shift" THEN {0, Ones} ELSE {0},
                cr : {[k \in 1 .. 6 |-> FALSE]}, trap : {FALSE}]
    /\ start = cpu

OpsNext == DoArithmetic \/ DoShift \/ DoLogical \/ DoCompare \/ DoCombine \/ DoTrap

OpsSpec == OpsInit /\ [][OpsNext]_intVars

-----------------------------------------------------------------------------
(* Properties: what a finished program has computed. *)

Finished(name) == prog.name = name /\ at_instr > Len(Code(prog))
Was(r)         == start.gpr[r]
Now(r)         == cpu.gpr[r]
Wide(hi, lo)   == hi * M + lo
SWide(hi, lo)  == Signed(hi) * M + lo
Fits(v)        == v \in -(M * MinInt) .. M * MinInt - 1
Bits(x)        == {k \in 0 .. W - 1 : Shr(x, W - 1 - k) % 2 = 1}
From(mb, me)   == IF mb <= me THEN mb .. me ELSE (mb .. W - 1) \cup (0 .. me)

WideResult(v, carry) ==
    /\ Wide(Now(1), Now(2)) = v % (M * M)
    /\ cpu.ca = carry
    /\ cpu.ov = ~Fits(v)

\* The carry that one instruction leaves for the next makes two-word sums,
\* differences and negations exact, with the carry out and the overflow of
\* the two-word result, for every carry and borrow between the words
\* (ppc_addc, ppc_adde, ppc_addme, ppc_addze, ppc_subfc, ppc_subfe, ...).
WideArithmetic ==
    LET x == SWide(Was(1), Was(2))
        y == SWide(Was(3), Was(4))
        ux == Wide(Was(1), Was(2))
        uy == Wide(Was(3), Was(4))
        n == Signed(prog.n)
    IN  /\ Finished("add") => WideResult(x + y, ux + uy >= M * M)
        /\ Finished("sub") => WideResult(x - y, ux >= uy)
        /\ Finished("addi") => WideResult(x + n, ux + (n % (M * M)) >= M * M)
        /\ Finished("subfi") => WideResult(n - x, (n % (M * M)) >= ux)

\* Shifts whose bits travel through CA and MQ: an arithmetic shift and addze
\* divide by a power of two and truncate, whatever CA was; the POWER pairs
\* shift a double word by 0 to 2W - 1 bits, whatever MQ held before; and
\* cntlzw's count, W for a zero, brings the highest one to the top and back.
WideShifts ==
    LET x == Wide(Was(1), Was(2))
        left == Finished("shift") /\ prog.m \in {"sle", "slq"}
        right == Finished("shift") /\ prog.m \in {"sre", "srq"}
    IN  /\ Finished("scale") => Signed(Now(3)) = Quot(Signed(Was(1)), 2 ^ prog.n)
        /\ left  => Wide(Now(3), Now(4)) = (x * 2 ^ prog.n) % (M * M)
        /\ right => Wide(Now(3), Now(4)) = x \div 2 ^ prog.n
        /\ Finished("normalise") => Now(5) = Was(1) /\ (Was(1) # 0 => IsNeg(Now(4)))

Divides(q, r, x, y) == x = q * y + r /\ (IF r < 0 THEN -r ELSE r) < (IF y < 0 THEN -y ELSE y)
                       /\ (r = 0 \/ (r < 0) = (x < 0))

\* The two halves of a product belong together, signed and unsigned; the
\* double word that mul leaves in rD and MQ is the one div takes; and a
\* quotient times the divisor leaves the remainder of the truncating
\* division, except by zero and for the one quotient that does not fit.
ProductsAndQuotients ==
    LET x == Signed(Was(1))
        y == Signed(Was(2))
        usual == Was(2) # 0 /\ ~(Was(1) = MinInt /\ Was(2) = Ones)
    IN  /\ Finished("product") => /\ SWide(Now(3), Now(5)) = x * y
                                  /\ Wide(Now(4), Now(5)) = Was(1) * Was(2)
                                  /\ cpu.ov = (x * y # Signed(Now(5)))
        /\ Finished("muldiv") /\ Was(2) # 0 => Now(4) = Was(1) /\ cpu.mq = 0
        /\ Finished("rem") /\ usual =>
             IF prog.m = "divw" THEN Divides(Signed(Now(3)), Signed(Now(4)), x, y)
                                ELSE Divides(Now(3), Now(4), Was(1), Was(2))
        /\ Finished("divs") /\ usual => Divides(Signed(Now(3)), Signed(cpu.mq), x, y)
        /\ Finished("extremes") => /\ Signed(Now(3)) = IF x < y THEN y ELSE x
                                   /\ Now(4) = Now(5) /\ Now(4) = (IF x < 0 THEN -x ELSE x)
                                   /\ cpu.ov = (x = -MinInt)

\* Bit fields: rlwimi changes the bits from MB to ME, around the end of the
\* word too, and no other, and rlwinm takes them back out; maskg and maskir
\* merge the bits from the first to the second position, all of them when
\* one field ends where the other begins.
FieldsAndMasks ==
    LET kept(field) == Bits(Was(1)) \ field = Bits(Now(1)) \ field
        field == From(Sh(Was(1)), Sh(Was(2)))
    IN  /\ Finished("insert") =>
             /\ kept(From(prog.m[1], prog.m[2]))
             /\ Bits(Now(3)) = Bits(Was(2)) \intersect
                    {(k + prog.n) % W : k \in From(prog.m[1], prog.m[2])}
        /\ Finished("merge") =>
             Bits(Now(4)) = (Bits(Was(3)) \intersect field) \cup (Bits(Was(4)) \ field)
        /\ Finished("setbit") => Bits(Now(3)) = IF IsNeg(Was(1)) THEN {Sh(Was(2))} ELSE {}
        /\ Finished("select") =>
             /\ Bits(Now(4)) = (Bits(Was(1)) \intersect Bits(Was(3))) \cup (Bits(Was(2)) \ Bits(Was(3)))
             /\ Now(5) = Now(4)
        /\ Finished("swap") => Now(1) = Was(2) /\ Now(2) = Was(1)

\* A signed comparison of the higher words, an unsigned one of the lower
\* words and the condition-register instructions between the two fields
\* order double words; in one field LT, GT and EQ complete each other.
Comparisons ==
    LET x == SWide(Was(1), Was(2))
        y == SWide(Was(3), Was(4))
        a == Signed(Was(1))
        b == Signed(Was(2))
    IN  /\ Finished("compare") => SubSeq(cpu.cr, 1, 3) = Order(x, y)
        /\ Finished("ordered") => cpu.cr = <<TRUE, a > b, a = b, a >= b, a > b, (a < b) = (a > b)>>

\* A trap instruction traps when its first operand stands to the second as
\* one of the conditions its TO field names (the mnemonics of the
\* disassembler: twlt rA,rB traps if rA < rB).
TrapsAsNamed ==
    at_instr > Len(Code(prog)) /\ prog.name \in {"tw", "twi"} =>
        cpu.trap = (Conditions(Was(1), IF prog.name = "tw" THEN Was(2) ELSE prog.n) \intersect prog.m # {})

\* The programs whose results are double words, quotients and products.
WideResults == WideArithmetic /\ WideShifts /\ ProductsAndQuotients

\* The programs whose results are bits of registers and conditions.
BitResults == FieldsAndMasks /\ Comparisons /\ TrapsAsNamed
=============================================================================
