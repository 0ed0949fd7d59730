---------------------------- MODULE Storage_proofs ----------------------------
(***************************************************************************)
(* Proofs about the IDE channel with its disk, its CD-ROM and its DMA      *)
(* channel, for media, blocks, caches and DMA descriptors of any size:     *)
(* a finished command has moved the sectors asked for, whichever way their *)
(* words came, and leaves nothing behind that the next one would take for  *)
(* its own.  Records are typed field by field, the operations of device    *)
(* and channel come as lemmas about any state, and Phase says for each     *)
(* step of the driver what it may find in the channel.                     *)
(***************************************************************************)
EXTENDS IdeChannel, SequenceTheorems, TLAPS

IdeFields == {"cur_dev", "irq", "dev", "slow", "fast", "memory", "sent", "image", "chan"}
DevFields == {"status", "ien", "srst", "head", "buf", "wbuf", "pos", "xfer_cnt", "chunk_cnt", "chunk_size",
              "dma", "spi", "io", "cod", "byte_count", "remain", "expected"}
ChanFields == {"active", "busy", "dir", "kind", "queue", "program", "loop"}
HostFields == {"st", "c", "dev", "got", "left", "dma"}

\* The words of a command, in order: those of the medium or of a response, and
\* those that are sent for a write.
Responses == {"IDENTIFY", "INQUIRY"}
First(c) == c.lba * SecWords
Size(c) == c.count * SecWords
Total(c) == IF c.cmd \in Responses THEN RespWords ELSE Size(c)
Answered(c) == IF c.cmd \in Responses THEN [i \in 1 .. RespWords |-> NoData] ELSE Addresses(First(c), Size(c))
Sent(c) == Addresses(1, Size(c))

\* q is the n words of w after the first k.
WordSet == Nat \cup {NoData}
Piece(w, k, n, q) == q \in Seq(WordSet) /\ Len(q) = n /\ \A i \in 1 .. n : q[i] = w[k + i]

\* The first n words of a write are where they belong, and nothing else is.
\* (A tuple without elements is a function, as the image is before the write.)
Mapping(f) == f = [x \in DOMAIN f |-> f[x]]
Stored(image, c, n) ==
    /\ Mapping(image) /\ DOMAIN image = First(c) .. First(c) + n - 1
    /\ \A a \in First(c) .. First(c) + n - 1 : image[a] = a - First(c) + 1

-----------------------------------------------------------------------------
(* Timers. *)

NoDone(q) == \A i \in 1 .. Len(q) : q[i].what # "dmadone"
OneDone(q) == \E i \in 1 .. Len(q) : /\ q[i].what = "dmadone"
                                     /\ \A j \in 1 .. Len(q) : j # i => q[j].what # "dmadone"
FastTimers == [what : {"dmareq", "loop"}, dev : {Hd, Cd}] \cup [what : {"dmadone"}, dev : {Hd}]
SlowTimers == [what : {"ready", "intrq", "written"}, dev : {Hd}, behind : Nat]
OneSlow(q, what) == Len(q) = 1 /\ q[1].what = what

-----------------------------------------------------------------------------
(* The parts of the invariant.  s is the channel, h the driver. *)

DevTyped(v) ==
    /\ DOMAIN v = DevFields
    /\ v.ien = FALSE /\ v.head \in {Hd, Cd} /\ v.dma \in BOOLEAN
    /\ v.xfer_cnt \in Nat /\ v.spi \in Nat
IdeTyped(s) ==
    /\ DOMAIN s = IdeFields /\ s.cur_dev \in {Hd, Cd} /\ s.irq \in {0, 1}
    /\ DOMAIN s.dev = {Hd, Cd} /\ DevTyped(s.dev[Hd]) /\ DevTyped(s.dev[Cd]) /\ ~s.dev[Cd].dma
    /\ s.fast \in Seq(FastTimers) /\ s.slow \in Seq(SlowTimers)

\* A channel that is not running does not move data; one that is does it in the
\* direction of the command.
ChanOk(s, h) ==
    /\ DOMAIN s.chan = ChanFields
    /\ s.chan.active \in BOOLEAN /\ s.chan.loop \in BOOLEAN
    /\ s.chan.queue \in Nat /\ s.chan.program \in Seq(Nat)
    /\ s.chan.dir # "undef" => s.chan.active /\ s.chan.dir = s.chan.kind
    /\ s.chan.active => /\ h.dev = Hd /\ h.st \in {"setup", "wait", "dmaend"}
                        /\ h.c.cmd \in {"READ_DMA", "WRITE_DMA"} /\ h.dma = TRUE
                        /\ s.chan.kind = IF h.c.cmd = "READ_DMA" THEN "from" ELSE "to"

HostTyped(s, h) ==
    /\ DOMAIN h = HostFields
    /\ h.st \in {"idle", "reset", "setup", "packet", "out", "wait", "in", "dmaend", "done"}
    /\ h.st \notin {"idle", "reset"} =>
         /\ \/ h.dev = Hd /\ h.c \in HdCommands
            \/ h.dev = Cd /\ h.c \in Packets
         /\ s.cur_dev = h.dev /\ s.dev[Hd].head = h.dev /\ s.dev[Cd].head = h.dev
         /\ h.c.cmd \in {"READ_MULTIPLE", "WRITE_MULTIPLE"} => s.dev[Hd].spi # 0

\* Nothing is going on in a device, and nothing at all.
Resting(v) == "BSY" \notin v.status /\ "DRQ" \notin v.status /\ v.xfer_cnt = 0 /\ v.dma = FALSE
AtRest(s) == /\ Resting(s.dev[Hd]) /\ Resting(s.dev[Cd]) /\ s.dev[Cd].remain = 0
             /\ s.slow = <<>> /\ NoDone(s.fast)

\* What a command that is over has done.
Complete(s, h, got) ==
    /\ h.c.cmd \in HdReads \cup Responses \cup {"READ", "READ_CD"} => Piece(Answered(h.c), 0, Total(h.c), got)
    /\ h.c.cmd \in HdWrites => Stored(s.image, h.c, Size(h.c))
Outcome(s, h) == Complete(s, h, IF IsDma(h.c) THEN s.memory ELSE h.got)

\* The disk is asking for the driver, has asked, or will.
BlockOf(s, c) == CASE c.cmd \in {"READ_MULTIPLE", "WRITE_MULTIPLE"} -> SecWords * s.dev[Hd].spi
                   [] c.cmd = "IDENTIFY" -> RespWords
                   [] OTHER -> SecWords
Asking(v) == "DRQ" \in v.status /\ "BSY" \notin v.status
HdTransfer(s, h) ==
    /\ h.dev = Hd /\ Resting(s.dev[Cd]) /\ s.dev[Cd].remain = 0 /\ NoDone(s.fast)
    /\ s.dev[Hd].xfer_cnt \in 1 .. Total(h.c)
HdBlocks(s, h) ==
    LET v == s.dev[Hd]
    IN  /\ HdTransfer(s, h) /\ v.dma = FALSE
        /\ v.chunk_size = BlockOf(s, h.c) /\ v.chunk_size \in Nat \ {0}
        /\ v.chunk_cnt \in 1 .. Lesser(v.xfer_cnt, v.chunk_size)
\* Words of the block that have been moved.
Part(v) == Lesser(v.xfer_cnt, v.chunk_size) - v.chunk_cnt
HdReading(s, h) ==
    LET v == s.dev[Hd]
        k == Total(h.c) - v.xfer_cnt + Part(v)
    IN  /\ HdBlocks(s, h) /\ h.c.cmd \in {"READ_SECTOR", "READ_MULTIPLE", "IDENTIFY"}
        /\ h.c.cmd = "IDENTIFY" => v.xfer_cnt = RespWords
        /\ Piece(Answered(h.c), 0, k, h.got)
        /\ Piece(Answered(h.c), k, Total(h.c) - k, v.buf)
HdWriting(s, h) ==
    LET v == s.dev[Hd]
        k == Size(h.c) - v.xfer_cnt
    IN  /\ HdBlocks(s, h) /\ h.c.cmd \in {"WRITE_SECTOR", "WRITE_MULTIPLE"}
        /\ s.sent = k + Part(v) /\ v.pos = First(h.c) + k
        /\ Piece(Sent(h.c), k, Part(v), v.wbuf)
        /\ Stored(s.image, h.c, k)

\* At the end of a block the driver waits for the next one.
HdWaits(s, h) ==
    LET v == s.dev[Hd]
    IN  /\ v.chunk_cnt = Lesser(v.xfer_cnt, v.chunk_size)
        /\ HdReading(s, h) \/ HdWriting(s, h)
        /\ \/ s.irq = 0 /\ OneSlow(s.slow, "ready")
           \/ s.irq = 0 /\ OneSlow(s.slow, "intrq") /\ Asking(v)
           \/ s.irq = 1 /\ s.slow = <<>> /\ Asking(v)
HdMoves(s, h) ==
    /\ h.left = s.dev[Hd].chunk_cnt /\ s.irq = 0 /\ s.slow = <<>> /\ Asking(s.dev[Hd])
    /\ h.st = "in" => HdReading(s, h)
    /\ h.st = "out" => HdWriting(s, h)
HdWrittenOut(s, h) ==
    /\ h.dev = Hd /\ h.c.cmd \in {"WRITE_SECTOR", "WRITE_MULTIPLE"}
    /\ Resting(s.dev[Cd]) /\ s.dev[Cd].remain = 0 /\ NoDone(s.fast)
    /\ s.dev[Hd].xfer_cnt = 0 /\ s.dev[Hd].dma = FALSE /\ "DRQ" \notin s.dev[Hd].status
    /\ s.irq = 0 /\ OneSlow(s.slow, "written")
    /\ Outcome(s, h)

\* DMA: words move while the driver waits; when all have a timer announces it.
HdDma(s, h) ==
    LET v == s.dev[Hd]
        k == Size(h.c) - v.xfer_cnt
    IN  /\ HdTransfer(s, h) /\ v.dma = TRUE /\ s.irq = 0 /\ s.slow = <<>>
        /\ "BSY" \notin v.status
        /\ \/ /\ h.c.cmd = "READ_DMA"
              /\ Piece(Answered(h.c), 0, k, s.memory)
              /\ Piece(Answered(h.c), k, v.xfer_cnt, v.buf)
           \/ /\ h.c.cmd = "WRITE_DMA"
              /\ s.sent = k /\ v.pos = First(h.c) /\ Stored(s.image, h.c, 0)
              /\ Piece(Sent(h.c), 0, k, v.wbuf)
HdDmaDone(s, h) ==
    /\ h.dev = Hd /\ IsDma(h.c)
    /\ Resting(s.dev[Cd]) /\ s.dev[Cd].remain = 0 /\ OneDone(s.fast)
    /\ s.dev[Hd].xfer_cnt = 0 /\ s.dev[Hd].dma = FALSE
    /\ s.irq = 0 /\ s.slow = <<>> /\ Outcome(s, h)

\* The CD-ROM: the disk rests.
CdSide(s, h) == h.dev = Cd /\ Resting(s.dev[Hd]) /\ s.slow = <<>> /\ NoDone(s.fast)
InPhase(u) == u.io = TRUE /\ u.cod = FALSE
CdPacket(s, h) ==
    LET u == s.dev[Cd]
    IN  /\ CdSide(s, h) /\ s.irq = 0 /\ h.c.cmd \notin {"IDENTIFY", "PLAIN"}
        /\ u.xfer_cnt = h.left /\ u.xfer_cnt # 0 /\ u.io = FALSE /\ u.cod = TRUE /\ u.remain = 0
        /\ Asking(u) /\ h.got = <<>> /\ u.byte_count \in ByteLimits
\* What has been read, is in the buffer and is still to be fetched.
Multiple(n) == \E m \in 0 .. n : n = m * SecWords
CdData(s, h) ==
    LET u == s.dev[Cd]
        k == Len(h.got)
    IN  /\ CdSide(s, h) /\ InPhase(u)
        /\ h.c.cmd \in Responses \cup {"READ", "READ_CD"}
        /\ Piece(Answered(h.c), 0, k, h.got)
        /\ Piece(Answered(h.c), k, u.xfer_cnt, u.buf) \/ u.xfer_cnt = 0
        /\ u.remain \in Nat /\ k + u.xfer_cnt + u.remain = Total(h.c)
        /\ u.expected = (h.c.cmd # "IDENTIFY")
        /\ h.c.cmd \in Responses => u.remain = 0
        /\ h.c.cmd \notin Responses => u.pos = First(h.c) + k + u.xfer_cnt /\ Multiple(u.remain)
CdWaits(s, h) ==
    LET u == s.dev[Cd]
    IN  /\ CdData(s, h) /\ s.irq = 1
        /\ \/ /\ u.xfer_cnt # 0 /\ Asking(u)
              /\ h.c.cmd # "IDENTIFY" => u.byte_count = u.xfer_cnt
              /\ h.c.cmd = "IDENTIFY" => u.xfer_cnt = RespWords
           \/ u.xfer_cnt = 0 /\ u.remain # 0 /\ "BSY" \in u.status /\ "DRQ" \notin u.status
CdMoves(s, h) ==
    LET u == s.dev[Cd]
    IN  CdData(s, h) /\ h.left = u.xfer_cnt /\ u.xfer_cnt # 0 /\ Asking(u)
        /\ (h.c.cmd = "IDENTIFY" => s.irq = 0)

Ended(s, h) == /\ AtRest(s) /\ Outcome(s, h)
               /\ h.c.cmd \in {"SILENT", "UNSUPPORTED"} => s.irq = 0

Phase(s, h) ==
    /\ h.st = "idle" => AtRest(s) /\ s.irq = 0
    /\ h.st = "reset" => /\ s.dev[Hd].srst = TRUE /\ s.dev[Cd].srst = TRUE
                         /\ s.dev[Hd].xfer_cnt = 0 /\ s.dev[Cd].xfer_cnt = 0 /\ s.dev[Hd].dma = FALSE
                         /\ s.dev[Cd].remain = 0 /\ s.slow = <<>> /\ NoDone(s.fast) /\ s.irq = 0
    /\ h.st = "setup" => /\ AtRest(s) /\ s.irq = 0
                         /\ s.memory = <<>> /\ s.sent = 0 /\ s.image = <<>> /\ h.got = <<>>
    /\ h.st = "packet" => CdPacket(s, h)
    /\ h.st = "out" => HdMoves(s, h)
    /\ h.st = "in" => HdMoves(s, h) \/ CdMoves(s, h)
    /\ h.st = "wait" => \/ HdWaits(s, h) \/ HdWrittenOut(s, h) \/ HdDma(s, h) \/ HdDmaDone(s, h)
                        \/ CdWaits(s, h) \/ Ended(s, h)
    /\ h.st = "dmaend" => AtRest(s) /\ s.irq = 0 /\ Outcome(s, h) /\ IsDma(h.c)
    /\ h.st = "done" => AtRest(s) /\ s.irq = 0 /\ Complete(s, h, h.got)

IdeOk(s, h) == IdeTyped(s) /\ ChanOk(s, h) /\ HostTyped(s, h) /\ Phase(s, h)

-----------------------------------------------------------------------------
(* Frames. *)

Devs == {Hd, Cd}
Shape(s) == /\ DOMAIN s = IdeFields /\ DOMAIN s.dev = Devs /\ DOMAIN s.chan = ChanFields
            /\ \A d \in Devs : DOMAIN s.dev[d] = DevFields

\* e is s but for the fields F; its devices are those of s but for the fields G of d.
But(s, e, F) == Shape(e) /\ \A x \in IdeFields \ F : e[x] = s[x]
DevBut(s, e, d, G) == /\ \A b \in Devs : b # d => e.dev[b] = s.dev[b]
                      /\ \A x \in DevFields \ G : e.dev[d][x] = s.dev[d][x]

LEMMA SetFacts ==
  ASSUME NEW s, Shape(s), NEW d \in Devs, NEW f, DOMAIN f \subseteq DevFields
  PROVE  /\ But(s, Set(s, d, f), {"dev"}) /\ DevBut(s, Set(s, d, f), d, DOMAIN f)
         /\ \A x \in DOMAIN f : Set(s, d, f).dev[d][x] = f[x]
<1> DEFINE v == s.dev[d]
           o == Over(f, v)
           e == Set(s, d, f)
<1>1. DOMAIN o = DevFields /\ (\A x \in DOMAIN f : o[x] = f[x]) /\ \A x \in DevFields \ DOMAIN f : o[x] = v[x]
  BY DEF Over, Shape
<1>2. e = [s EXCEPT !.dev[d] = o]
  BY DEF Set
<1> HIDE DEF v, o, e
<1>3. /\ DOMAIN e = IdeFields /\ \A x \in IdeFields \ {"dev"} : e[x] = s[x]
      /\ DOMAIN e.dev = Devs /\ e.dev[d] = o /\ \A b \in Devs : b # d => e.dev[b] = s.dev[b]
  BY <1>2 DEF Shape, IdeFields
<1>4. \A b \in Devs : DOMAIN e.dev[b] = DevFields
  BY <1>1, <1>3 DEF Shape
<1>5. But(s, e, {"dev"})
  BY <1>3, <1>4 DEF But, Shape, IdeFields
<1> QED BY <1>1, <1>3, <1>5 DEF DevBut, e, v

LEMMA StatusFacts ==
  ASSUME NEW s, Shape(s), NEW d \in Devs, NEW st
  PROVE  /\ But(s, WithStatus(s, d, st), {"dev"}) /\ DevBut(s, WithStatus(s, d, st), d, {"status"})
         /\ Status(WithStatus(s, d, st), d) = st
<1> DEFINE o == [s.dev[d] EXCEPT !.status = st]
           e == WithStatus(s, d, st)
<1>1. DOMAIN o = DevFields /\ o.status = st /\ \A x \in DevFields \ {"status"} : o[x] = s.dev[d][x]
  BY DEF Shape, DevFields
<1>2. e = [s EXCEPT !.dev[d] = o]
  BY DEF WithStatus
<1> HIDE DEF o, e
<1>3. /\ DOMAIN e = IdeFields /\ \A x \in IdeFields \ {"dev"} : e[x] = s[x]
      /\ DOMAIN e.dev = Devs /\ e.dev[d] = o /\ \A b \in Devs : b # d => e.dev[b] = s.dev[b]
  BY <1>2 DEF Shape, IdeFields
<1>4. \A b \in Devs : DOMAIN e.dev[b] = DevFields
  BY <1>1, <1>3 DEF Shape
<1>5. But(s, e, {"dev"})
  BY <1>3, <1>4 DEF But, Shape, IdeFields
<1> QED BY <1>1, <1>3, <1>5 DEF DevBut, Status, e

SlowTimerOf(s, d, what) == [what |-> what, dev |-> d, behind |-> Len(s.fast)]
FastTimerOf(d, what) == [what |-> what, dev |-> d]

LEMMA SlowFacts ==
  ASSUME NEW s, Shape(s), NEW d, NEW what
  PROVE  But(s, After100us(s, d, what), {"slow"}) /\ After100us(s, d, what).slow = Append(s.slow, SlowTimerOf(s, d, what))
BY DEF Shape, But, After100us, IdeFields, SlowTimerOf

LEMMA FastFacts ==
  ASSUME NEW s, Shape(s), NEW d, NEW what
  PROVE  But(s, After500ns(s, d, what), {"fast"}) /\ After500ns(s, d, what).fast = Append(s.fast, FastTimerOf(d, what))
BY DEF Shape, But, After500ns, IdeFields, FastTimerOf

\* A selected device, with interrupts on, drives the line; another does nothing.
LEMMA IntrqFacts ==
  ASSUME NEW s, Shape(s), NEW d \in Devs, NEW level \in {0, 1}, s.dev[d].ien = FALSE, s.dev[d].head = d
  PROVE  But(s, UpdateIntrq(s, d, level), {"irq"}) /\ UpdateIntrq(s, d, level).irq = level
BY DEF Shape, But, UpdateIntrq, IsSelected, IdeFields

LEMMA IntrqDropped ==
  ASSUME NEW s, NEW d, NEW level, s.dev[d].head # d
  PROVE  UpdateIntrq(s, d, level) = s
BY DEF UpdateIntrq, IsSelected

-----------------------------------------------------------------------------
(* Pieces of a command's words. *)

LEMMA PieceTail ==
  ASSUME NEW w, NEW k \in Nat, NEW n \in Nat \ {0}, NEW q, Piece(w, k, n, q)
  PROVE  Head(q) = w[k + 1] /\ Head(q) \in WordSet /\ Piece(w, k + 1, n - 1, Tail(q))
<1>1. q \in Seq(WordSet) /\ q # <<>> /\ Len(q) = n /\ \A i \in 1 .. n : q[i] = w[k + i]
  BY DEF Piece
<1>2. /\ Head(q) = q[1] /\ Tail(q) \in Seq(WordSet) /\ Len(Tail(q)) = n - 1
      /\ \A i \in 1 .. n - 1 : Tail(q)[i] = q[i + 1]
  BY <1>1, HeadTailProperties
<1>3. \A i \in 1 .. n - 1 : i + 1 \in 1 .. n /\ k + (i + 1) = (k + 1) + i
  OBVIOUS
<1>4. q[1] \in WordSet
  BY <1>1, ElementOfSeq
<1> QED BY <1>1, <1>2, <1>3, <1>4 DEF Piece

LEMMA PieceAppend ==
  ASSUME NEW w, NEW k \in Nat, NEW n \in Nat, NEW q, Piece(w, k, n, q), NEW x \in WordSet, x = w[k + n + 1]
  PROVE  Piece(w, k, n + 1, Append(q, x))
<1>1. q \in Seq(WordSet) /\ Len(q) = n /\ \A i \in 1 .. n : q[i] = w[k + i]
  BY DEF Piece
<1>2. /\ Append(q, x) \in Seq(WordSet) /\ Len(Append(q, x)) = n + 1 /\ Append(q, x)[n + 1] = x
      /\ \A i \in 1 .. n : Append(q, x)[i] = q[i]
  BY <1>1, AppendProperties
<1> QED BY <1>1, <1>2 DEF Piece

LEMMA PieceCut ==
  ASSUME NEW w, NEW k \in Nat, NEW n \in Nat, NEW q, Piece(w, k, n, q), NEW m \in 0 .. n
  PROVE  Piece(w, k, m, SubSeq(q, 1, m)) /\ Piece(w, k + m, n - m, SubSeq(q, m + 1, Len(q)))
<1>1. q \in Seq(WordSet) /\ Len(q) = n /\ \A i \in 1 .. n : q[i] = w[k + i]
  BY DEF Piece
<1>2. \A i \in 1 .. n : q[i] \in WordSet
  BY <1>1, ElementOfSeq
<1>3. Piece(w, k, m, SubSeq(q, 1, m))
  <2>1. SubSeq(q, 1, m) \in Seq(WordSet) /\ Len(SubSeq(q, 1, m)) = m /\ \A i \in 1 .. m : SubSeq(q, 1, m)[i] = q[i]
    BY <1>1, <1>2, SubSeqProperties
  <2> QED BY <1>1, <2>1 DEF Piece
<1>4. Piece(w, k + m, n - m, SubSeq(q, m + 1, Len(q)))
  <2> DEFINE r == SubSeq(q, m + 1, n)
  <2>1. r \in Seq(WordSet) /\ Len(r) = n - m /\ \A i \in 1 .. n - m : r[i] = q[m + i]
    <3>1. r \in Seq(WordSet)
      BY <1>1, <1>2, SubSeqProperties
    <3>2. Len(r) = n - m
      BY <1>1, <1>2, SubSeqProperties
    <3>3. \A i \in 1 .. n - m : r[i] = q[m + i]
      BY <1>1, <1>2, SubSeqProperties
    <3> QED BY <3>1, <3>2, <3>3
  <2> HIDE DEF r
  <2>2. \A i \in 1 .. n - m : m + i \in 1 .. n /\ (k + m) + i = k + (m + i)
    OBVIOUS
  <2>3. Piece(w, k + m, n - m, r)
    BY <1>1, <2>1, <2>2 DEF Piece
  <2> QED BY <1>1, <2>3 DEF r
<1> QED BY <1>3, <1>4

LEMMA PieceConcat ==
  ASSUME NEW w, NEW k \in Nat, NEW n \in Nat, NEW m \in Nat, NEW q, NEW r,
         Piece(w, k, n, q), Piece(w, k + n, m, r)
  PROVE  Piece(w, k, n + m, q \o r)
<1>1. /\ q \in Seq(WordSet) /\ Len(q) = n /\ \A i \in 1 .. n : q[i] = w[k + i]
      /\ r \in Seq(WordSet) /\ Len(r) = m /\ \A i \in 1 .. m : r[i] = w[(k + n) + i]
  BY DEF Piece
<1>2. /\ q \o r \in Seq(WordSet) /\ Len(q \o r) = n + m
      /\ \A i \in 1 .. n + m : (q \o r)[i] = IF i <= n THEN q[i] ELSE r[i - n]
  BY <1>1, ConcatProperties, ZenonT(30)
<1>3. \A i \in 1 .. n + m : i \in 1 .. n \/ (i > n /\ i - n \in 1 .. m /\ (k + n) + (i - n) = k + i)
  OBVIOUS
<1>4. \A i \in 1 .. n + m : (q \o r)[i] = w[k + i]
  <2> SUFFICES ASSUME NEW i \in 1 .. n + m PROVE (q \o r)[i] = w[k + i]
    OBVIOUS
  <2>1. CASE i \in 1 .. n
    BY <1>1, <1>2, <2>1
  <2>2. CASE i > n
    <3>1. i - n \in 1 .. m /\ (k + n) + (i - n) = k + i
      BY <1>3, <2>2
    <3>2. (q \o r)[i] = r[i - n]
      BY <1>2, <2>2
    <3>3. r[i - n] = w[(k + n) + (i - n)]
      BY <1>1, <3>1
    <3> QED BY <3>1, <3>2, <3>3
  <2> QED BY <1>3, <2>1, <2>2
<1> QED BY <1>2, <1>4 DEF Piece

LEMMA PieceAll ==
  ASSUME NEW w, NEW n \in Nat, NEW q, w \in Seq(WordSet), Len(w) = n
  PROVE  Piece(w, 0, n, q) <=> q = w
<1>1. ASSUME Piece(w, 0, n, q) PROVE q = w
  <2>1. q \in Seq(WordSet) /\ Len(q) = Len(w) /\ \A i \in 1 .. Len(q) : q[i] = w[i]
    BY <1>1 DEF Piece
  <2> QED BY <2>1, SeqEqual
<1>2. ASSUME q = w PROVE Piece(w, 0, n, q)
  BY <1>2 DEF Piece
<1> QED BY <1>1, <1>2

\* No words.
LEMMA PieceNone ==
  ASSUME NEW w, NEW k \in Nat, NEW q
  PROVE  Piece(w, k, 0, q) <=> q = <<>>
<1>1. Piece(w, k, 0, q) => q = <<>>
  BY DEF Piece
<1>2. Piece(w, k, 0, <<>>)
  BY EmptySeq DEF Piece
<1> QED BY <1>1, <1>2

LEMMA AddressFacts ==
  ASSUME NEW a \in Nat, NEW n \in Nat
  PROVE  Addresses(a, n) \in Seq(WordSet) /\ Len(Addresses(a, n)) = n /\ \A i \in 1 .. n : Addresses(a, n)[i] = a + i - 1
<1>1. \A i \in 1 .. n : a + i - 1 \in WordSet
  BY DEF WordSet
<1> QED BY <1>1 DEF Addresses

LEMMA PieceAddress ==
  ASSUME NEW a \in Nat, NEW n \in Nat, NEW k \in Nat, NEW m \in Nat, k + m <= n
  PROVE  Piece(Addresses(a, n), k, m, Addresses(a + k, m))
<1>1. \A i \in 1 .. m : k + i \in 1 .. n /\ (a + k) + i - 1 = a + (k + i) - 1
  OBVIOUS
<1>2. a + k \in Nat
  OBVIOUS
<1>3. Addresses(a + k, m) \in Seq(WordSet) /\ Len(Addresses(a + k, m)) = m
  BY <1>2, AddressFacts
<1>4. ASSUME NEW i \in 1 .. m PROVE Addresses(a + k, m)[i] = Addresses(a, n)[k + i]
  <2>1. Addresses(a + k, m)[i] = (a + k) + i - 1
    BY <1>2, AddressFacts
  <2>2. Addresses(a, n)[k + i] = a + (k + i) - 1
    BY <1>1, AddressFacts
  <2> QED BY <1>1, <2>1, <2>2
<1> QED BY <1>3, <1>4 DEF Piece

LEMMA ResponseFacts ==
  LET r == [i \in 1 .. RespWords |-> NoData]
  IN  r \in Seq(WordSet) /\ Len(r) = RespWords /\ RespWords \in Nat \ {0} /\ Piece(r, 0, RespWords, r)
BY AtaSizes DEF WordSet, Piece

-----------------------------------------------------------------------------
(* Commands. *)

Chosen(d, c) == (d = Hd /\ c \in HdCommands) \/ (d = Cd /\ c \in Packets)

LEMMA CommandFacts ==
  ASSUME NEW d, NEW c, Chosen(d, c)
  PROVE  /\ c.lba \in Nat /\ c.count \in Nat /\ First(c) \in Nat /\ Size(c) \in Nat /\ Words(c) = Size(c)
         /\ Total(c) \in Nat /\ Answered(c) \in Seq(WordSet) /\ Len(Answered(c)) = Total(c)
         /\ Sent(c) \in Seq(WordSet) /\ Len(Sent(c)) = Size(c)
<1>1. c.lba \in Nat /\ c.count \in Nat /\ SecWords \in Nat \ {0} /\ RespWords \in Nat \ {0}
  BY DriverAssumption, AtaSizes DEF Chosen
<1>2. First(c) \in Nat /\ Size(c) \in Nat /\ Words(c) = Size(c)
  BY <1>1 DEF First, Size, Words
<1>3. Total(c) \in Nat
  BY <1>1, <1>2 DEF Total
<1>4. Answered(c) \in Seq(WordSet) /\ Len(Answered(c)) = Total(c)
  BY <1>2, AddressFacts, ResponseFacts DEF Answered, Total
<1>5. Sent(c) \in Seq(WordSet) /\ Len(Sent(c)) = Size(c)
  BY <1>2, AddressFacts DEF Sent
<1> QED BY <1>1, <1>2, <1>3, <1>4, <1>5

LEMMA DataCommand ==
  ASSUME NEW c \in HdCommands, c.cmd \in HdReads \cup HdWrites
  PROVE  Size(c) \in Nat \ {0} /\ Total(c) = Size(c) /\ Answered(c) = Addresses(First(c), Size(c))
<1>1. c.count \in Nat \ {0} /\ SecWords \in Nat \ {0}
  BY DriverAssumption, AtaSizes
<1>2. Size(c) \in Nat \ {0}
  BY <1>1 DEF Size
<1> QED BY <1>2 DEF Total, Answered, Responses, HdReads, HdWrites

(* Timers. *)

LEMMA TimerTail ==
  ASSUME NEW q \in Seq(FastTimers), q # <<>>
  PROVE  /\ Tail(q) \in Seq(FastTimers) /\ Head(q) \in FastTimers
         /\ \A i \in 1 .. Len(Tail(q)) : i + 1 \in 1 .. Len(q) /\ Tail(q)[i] = q[i + 1]
         /\ NoDone(q) => NoDone(Tail(q)) /\ Head(q).what # "dmadone"
         /\ OneDone(q) /\ Head(q).what = "dmadone" => NoDone(Tail(q))
         /\ OneDone(q) /\ Head(q).what # "dmadone" => OneDone(Tail(q))
<1> DEFINE n == Len(q)
           t == Tail(q)
<1>1. n \in Nat \ {0} /\ Head(q) = q[1] /\ t \in Seq(FastTimers) /\ Len(t) = n - 1 /\ \A i \in 1 .. n - 1 : t[i] = q[i + 1]
  BY HeadTailProperties
<1>2. Head(q) \in FastTimers
  BY <1>1, ElementOfSeq
<1> HIDE DEF n, t
<1>3. \A i \in 1 .. n - 1 : i + 1 \in 1 .. n
  BY <1>1
<1>4. NoDone(q) => NoDone(t) /\ Head(q).what # "dmadone"
  BY <1>1, <1>3 DEF NoDone, n
<1>5. ASSUME OneDone(q) PROVE (Head(q).what = "dmadone" => NoDone(t)) /\ (Head(q).what # "dmadone" => OneDone(t))
  <2>1. PICK i \in 1 .. n : q[i].what = "dmadone" /\ \A j \in 1 .. n : j # i => q[j].what # "dmadone"
    BY <1>5 DEF OneDone, n
  <2>2. CASE i = 1
    BY <1>1, <1>3, <2>1, <2>2 DEF NoDone
  <2>3. CASE i # 1
    <3>1. i - 1 \in 1 .. n - 1 /\ t[i - 1] = q[i]
      BY <1>1, <2>3
    <3>2. \A j \in 1 .. n - 1 : j # i - 1 => j + 1 \in 1 .. n /\ j + 1 # i /\ t[j] = q[j + 1]
      BY <1>1
    <3>3. OneDone(t)
      BY <1>1, <2>1, <3>1, <3>2, SMTT(30) DEF OneDone
    <3> QED BY <1>1, <2>1, <2>3, <3>3
  <2> QED BY <2>2, <2>3
<1> QED BY <1>1, <1>2, <1>3, <1>4, <1>5 DEF n, t

LEMMA TimerAppend ==
  ASSUME NEW q \in Seq(FastTimers), NEW t \in FastTimers
  PROVE  /\ Append(q, t) \in Seq(FastTimers) /\ Len(Append(q, t)) = Len(q) + 1 /\ Append(q, t)[Len(q) + 1] = t
         /\ \A i \in 1 .. Len(q) : Append(q, t)[i] = q[i]
         /\ t.what # "dmadone" => /\ NoDone(q) => NoDone(Append(q, t))
                                  /\ OneDone(q) => OneDone(Append(q, t))
         /\ t.what = "dmadone" /\ NoDone(q) => OneDone(Append(q, t))
<1> DEFINE n == Len(q)
           a == Append(q, t)
<1>1. /\ n \in Nat /\ a \in Seq(FastTimers) /\ Len(a) = n + 1 /\ a[n + 1] = t
      /\ \A i \in 1 .. n : a[i] = q[i]
  BY AppendProperties
<1> HIDE DEF n, a
<1>2. \A i \in 1 .. n + 1 : i \in 1 .. n \/ i = n + 1
  BY <1>1
<1>3. ASSUME t.what # "dmadone", NoDone(q) PROVE NoDone(a)
  BY <1>1, <1>2, <1>3 DEF NoDone, n
<1>4. ASSUME t.what # "dmadone", OneDone(q) PROVE OneDone(a)
  <2>1. PICK i \in 1 .. n : q[i].what = "dmadone" /\ \A j \in 1 .. n : j # i => q[j].what # "dmadone"
    BY <1>4 DEF OneDone, n
  <2>2. \A j \in 1 .. n + 1 : j # i => a[j].what # "dmadone"
    BY <1>1, <1>2, <1>4, <2>1
  <2>3. i \in 1 .. n + 1 /\ a[i].what = "dmadone"
    BY <1>1, <2>1
  <2> QED BY <1>1, <2>2, <2>3 DEF OneDone
<1>5. ASSUME t.what = "dmadone", NoDone(q) PROVE OneDone(a)
  <2>1. n + 1 \in 1 .. n + 1 /\ a[n + 1].what = "dmadone"
    BY <1>1, <1>5
  <2>2. \A j \in 1 .. n + 1 : j # n + 1 => a[j].what # "dmadone"
    BY <1>1, <1>2, <1>5 DEF NoDone, n
  <2> QED BY <1>1, <2>1, <2>2 DEF OneDone
<1> QED BY <1>1, <1>3, <1>4, <1>5 DEF n, a

-----------------------------------------------------------------------------
(* What the channel and the timers do besides moving words. *)

\* e is s but for the channel and for timers that announce no end of a transfer.
Alike(s, e) ==
    /\ But(s, e, {"chan", "fast", "slow"})
    /\ e.fast \in Seq(FastTimers) /\ (NoDone(s.fast) => NoDone(e.fast)) /\ (OneDone(s.fast) => OneDone(e.fast))
    /\ e.slow \in Seq(SlowTimers) /\ Len(e.slow) = Len(s.slow)
    /\ \A i \in 1 .. Len(s.slow) : e.slow[i].what = s.slow[i].what
SameHost(h, g) == DOMAIN g = HostFields /\ \A x \in HostFields \ {"dma"} : g[x] = h[x]

LEMMA AlikeOk ==
  ASSUME NEW s, NEW e, NEW h, NEW g, IdeOk(s, h), Alike(s, e), SameHost(h, g), ChanOk(e, g)
  PROVE  IdeOk(e, g)
<1>1. /\ DOMAIN e = IdeFields /\ e.cur_dev = s.cur_dev /\ e.irq = s.irq /\ e.dev = s.dev /\ e.memory = s.memory
      /\ e.sent = s.sent /\ e.image = s.image
  BY DEF Alike, But, Shape, IdeFields
<1>2. DOMAIN g = HostFields /\ g.st = h.st /\ g.c = h.c /\ g.dev = h.dev /\ g.got = h.got /\ g.left = h.left
  BY DEF SameHost, HostFields
<1>3. IdeTyped(e)
  BY <1>1 DEF IdeOk, IdeTyped, Alike
<1>4. HostTyped(e, g)
  BY <1>1, <1>2 DEF IdeOk, HostTyped
<1>5. /\ NoDone(s.fast) => NoDone(e.fast)
      /\ OneDone(s.fast) => OneDone(e.fast)
      /\ \A what : OneSlow(s.slow, what) => OneSlow(e.slow, what)
      /\ s.slow = <<>> => e.slow = <<>>
  <2>1. s.slow \in Seq(SlowTimers) /\ e.slow \in Seq(SlowTimers) /\ Len(s.slow) = Len(e.slow)
    BY DEF IdeOk, IdeTyped, Alike
  <2>2. s.slow = <<>> => e.slow = <<>>
    BY <2>1, EmptySeq
  <2> QED BY <2>1, <2>2 DEF Alike, OneSlow
<1>6. AtRest(s) => AtRest(e)
  BY <1>1, <1>5 DEF AtRest
<1>7. /\ Outcome(s, h) => Outcome(e, g)
      /\ Complete(s, h, h.got) => Complete(e, g, g.got)
  BY <1>1, <1>2 DEF Outcome, Complete
<1>8. HdBlocks(s, h) => HdBlocks(e, g)
  BY <1>1, <1>2, <1>5 DEF HdBlocks, HdTransfer, BlockOf
<1>9. HdReading(s, h) => HdReading(e, g)
  BY <1>1, <1>2, <1>8 DEF HdReading
<1>10. HdWriting(s, h) => HdWriting(e, g)
  BY <1>1, <1>2, <1>8 DEF HdWriting
<1>11. HdWaits(s, h) => HdWaits(e, g)
  BY <1>1, <1>2, <1>5, <1>9, <1>10 DEF HdWaits
<1>12. HdMoves(s, h) => HdMoves(e, g)
  BY <1>1, <1>2, <1>5, <1>9, <1>10 DEF HdMoves
<1>13. HdWrittenOut(s, h) => HdWrittenOut(e, g)
  BY <1>1, <1>2, <1>5, <1>7 DEF HdWrittenOut
<1>14. HdDma(s, h) => HdDma(e, g)
  BY <1>1, <1>2, <1>5 DEF HdDma, HdTransfer
<1>15. HdDmaDone(s, h) => HdDmaDone(e, g)
  BY <1>1, <1>2, <1>5, <1>7 DEF HdDmaDone
<1>16. CdSide(s, h) => CdSide(e, g)
  BY <1>1, <1>2, <1>5 DEF CdSide
<1>17. CdPacket(s, h) => CdPacket(e, g)
  BY <1>1, <1>2, <1>16 DEF CdPacket
<1>18. CdData(s, h) => CdData(e, g)
  BY <1>1, <1>2, <1>16 DEF CdData
<1>19. CdWaits(s, h) => CdWaits(e, g)
  BY <1>1, <1>2, <1>18 DEF CdWaits
<1>20. CdMoves(s, h) => CdMoves(e, g)
  BY <1>1, <1>2, <1>18 DEF CdMoves
<1>21. Ended(s, h) => Ended(e, g)
  BY <1>1, <1>2, <1>6, <1>7 DEF Ended
<1>22. Phase(e, g)
  <2>1. Phase(s, h)
    BY DEF IdeOk
  <2> QED BY <1>1, <1>2, <1>5, <1>6, <1>7, <1>11, <1>12, <1>13, <1>14, <1>15, <1>17, <1>19, <1>20, <1>21, <2>1
          DEF Phase
<1> QED BY <1>3, <1>4, <1>22 DEF IdeOk

LEMMA OkShape ==
  ASSUME NEW s, NEW h, IdeOk(s, h)
  PROVE  Shape(s)
BY DEF IdeOk, IdeTyped, DevTyped, ChanOk, Shape, Devs

\* e is s but for the channel.
LEMMA ChanStep ==
  ASSUME NEW s, NEW e, NEW h, NEW g, IdeOk(s, h), But(s, e, {"chan"}), SameHost(h, g), ChanOk(e, g)
  PROVE  IdeOk(e, g)
<1>1. e.fast = s.fast /\ e.slow = s.slow /\ But(s, e, {"chan", "fast", "slow"})
  BY DEF But, IdeFields
<1>2. Alike(s, e)
  BY <1>1 DEF Alike, IdeOk, IdeTyped
<1> QED BY <1>2, AlikeOk

LEMMA HostItself ==
  ASSUME NEW s, NEW h, IdeOk(s, h)
  PROVE  SameHost(h, h)
BY DEF IdeOk, HostTyped, SameHost

\* schedule_cmd.
LEMMA ScheduleOk ==
  ASSUME NEW s, NEW h, IdeOk(s, h)
  PROVE  IdeOk(ScheduleCmd(s), h)
<1> DEFINE u == [s EXCEPT !.chan.loop = TRUE]
           e == After500ns(u, s.cur_dev, "loop")
<1>1. Shape(s) /\ SameHost(h, h)
  BY OkShape, HostItself
<1>2. But(s, u, {"chan"}) /\ ChanOk(u, h) /\ s.cur_dev \in {Hd, Cd}
  <2>1. DOMAIN u = IdeFields /\ \A x \in IdeFields \ {"chan"} : u[x] = s[x]
    BY <1>1 DEF Shape, IdeFields
  <2>2. /\ DOMAIN u.chan = ChanFields /\ u.chan.loop = TRUE
        /\ \A x \in ChanFields \ {"loop"} : u.chan[x] = s.chan[x]
    BY <1>1 DEF Shape, IdeFields, ChanFields
  <2> HIDE DEF u
  <2>3. But(s, u, {"chan"})
    BY <1>1, <2>1, <2>2 DEF But, Shape, IdeFields
  <2>4. ChanOk(s, h)
    BY DEF IdeOk
  <2>5. ChanOk(u, h)
    BY <2>1, <2>2, <2>4 DEF ChanOk, ChanFields
  <2> QED BY <2>3, <2>5 DEF IdeOk, IdeTyped
<1> HIDE DEF u
<1>3. IdeOk(u, h)
  BY <1>1, <1>2, ChanStep
<1>4. But(u, e, {"fast"}) /\ e.fast = Append(u.fast, FastTimerOf(s.cur_dev, "loop"))
  <2>1. Shape(u)
    BY <1>3, OkShape
  <2> QED BY <2>1, FastFacts
<1> HIDE DEF e
<1>5. Alike(u, e)
  <2>1. u.fast \in Seq(FastTimers) /\ u.slow \in Seq(SlowTimers)
    BY <1>3 DEF IdeOk, IdeTyped
  <2>2. FastTimerOf(s.cur_dev, "loop") \in FastTimers /\ FastTimerOf(s.cur_dev, "loop").what = "loop"
    BY <1>2 DEF FastTimers, FastTimerOf
  <2>3. e.fast \in Seq(FastTimers) /\ (NoDone(u.fast) => NoDone(e.fast)) /\ (OneDone(u.fast) => OneDone(e.fast))
    BY <1>4, <2>1, <2>2, TimerAppend
  <2> QED BY <1>4, <2>1, <2>3 DEF Alike, But, IdeFields
<1>6. ChanOk(e, h)
  BY <1>2, <1>4 DEF ChanOk, But, IdeFields
<1>7. IdeOk(e, h)
  BY <1>1, <1>3, <1>5, <1>6, AlikeOk
<1> QED BY <1>7 DEF ScheduleCmd, u, e

\* The words of q put into the image from pos on.
Placed(q, pos, image) == Over([a \in pos .. pos + Len(q) - 1 |-> q[a - pos + 1]], image)

\* cur_fpos moves on, and the words gathered are where they belong.
LEMMA StoredMore ==
  ASSUME NEW c, Chosen(Hd, c), NEW image, NEW k \in Nat, NEW m \in Nat, NEW q, NEW pos,
         Stored(image, c, k), Piece(Sent(c), k, m, q), k + m <= Size(c), pos = First(c) + k
  PROVE  Stored(Placed(q, pos, image), c, k + m)
<1> DEFINE f == [a \in pos .. pos + Len(q) - 1 |-> q[a - pos + 1]]
           b == First(c)
           g == Over(f, image)
<1>1. b \in Nat /\ Size(c) \in Nat /\ pos = b + k
  BY CommandFacts
<1>2. Len(q) = m /\ \A i \in 1 .. m : q[i] = Sent(c)[k + i]
  BY DEF Piece
<1>3. DOMAIN f = b + k .. b + k + m - 1 /\ \A a \in DOMAIN f : f[a] = q[a - pos + 1]
  BY <1>1, <1>2
<1>4. \A i \in 1 .. Size(c) : Sent(c)[i] = i
  BY <1>1 DEF Sent, Addresses
<1> HIDE DEF f
<1>5. ASSUME NEW a \in DOMAIN f PROVE f[a] = a - b + 1
  <2>1. a - pos + 1 \in 1 .. m /\ k + (a - pos + 1) = a - b + 1 /\ a - b + 1 \in 1 .. Size(c)
    BY <1>1, <1>3, SMTT(30)
  <2> QED BY <1>2, <1>3, <1>4, <2>1
<1>6. DOMAIN image = b .. b + k - 1 /\ \A a \in b .. b + k - 1 : image[a] = a - b + 1
  BY DEF Stored
<1>7. DOMAIN g = DOMAIN f \cup DOMAIN image /\ \A a \in DOMAIN g : g[a] = IF a \in DOMAIN f THEN f[a] ELSE image[a]
  BY DEF Over
<1>10. Mapping(g)
  BY DEF Over, Mapping
<1> HIDE DEF g, b
<1>8. DOMAIN g = b .. b + (k + m) - 1
  BY <1>1, <1>3, <1>6, <1>7
<1>9. \A a \in b .. b + (k + m) - 1 : g[a] = a - b + 1
  BY <1>5, <1>6, <1>7, <1>8
<1> QED BY <1>8, <1>9, <1>10 DEF Stored, Placed, f, g, b

LEMMA PostFacts ==
  ASSUME NEW s, Shape(s)
  PROVE  LET v == s.dev[Hd]
             e == PostXferAction(s)
         IN  /\ But(s, e, {"dev", "image"}) /\ DevBut(s, e, Hd, {"pos"}) /\ e.dev[Hd].pos = v.pos + Len(v.wbuf)
             /\ e.image = Placed(v.wbuf, v.pos, s.image)
<1> DEFINE v == s.dev[Hd]
           e == PostXferAction(s)
           g == Over([a \in v.pos .. v.pos + Len(v.wbuf) - 1 |-> v.wbuf[a - v.pos + 1]], s.image)
           o == [v EXCEPT !.pos = v.pos + Len(v.wbuf)]
           u == [s EXCEPT !.image = g]
<1>1. DOMAIN u = IdeFields /\ u.image = g /\ \A x \in IdeFields \ {"image"} : u[x] = s[x]
  BY DEF Shape, IdeFields
<1>2. DOMAIN o = DevFields /\ o.pos = v.pos + Len(v.wbuf) /\ \A x \in DevFields \ {"pos"} : o[x] = v[x]
  BY DEF Shape, DevFields, Devs
<1>3. e = [u EXCEPT !.dev[Hd] = [@ EXCEPT !.pos = v.pos + Len(v.wbuf)]]
  BY DEF PostXferAction
<1> HIDE DEF u, g, e, o
<1>4. u.dev = s.dev
  BY <1>1 DEF IdeFields
<1>5. e = [u EXCEPT !.dev[Hd] = o]
  BY <1>1, <1>3, <1>4 DEF o, Shape, IdeFields
<1>6. /\ DOMAIN e = IdeFields /\ e.image = g /\ \A x \in IdeFields \ {"dev", "image"} : e[x] = s[x]
      /\ DOMAIN e.dev = Devs /\ e.dev[Hd] = o /\ \A b \in Devs : b # Hd => e.dev[b] = s.dev[b]
  BY <1>1, <1>4, <1>5 DEF Shape, IdeFields, Devs
<1>7. \A b \in Devs : DOMAIN e.dev[b] = DevFields
  BY <1>2, <1>6 DEF Shape
<1>8. But(s, e, {"dev", "image"})
  BY <1>6, <1>7 DEF But, Shape, IdeFields
<1>9. DevBut(s, e, Hd, {"pos"}) /\ e.dev[Hd].pos = v.pos + Len(v.wbuf) /\ e.image = g
  BY <1>2, <1>6 DEF DevBut, Devs
<1> QED BY <1>8, <1>9 DEF e, g, Placed

\* What pull_data and push_data have in common: n words moved.
Progress(s, e, n) ==
    LET v == s.dev[Hd]
        w == e.dev[Hd]
    IN  /\ w.xfer_cnt = v.xfer_cnt - n
        /\ v.xfer_cnt = n => w.dma = FALSE /\ e.fast = Append(s.fast, FastTimerOf(Hd, "dmadone"))
        /\ v.xfer_cnt # n => w.dma = v.dma /\ e.fast = s.fast /\ "BSY" \notin w.status

LEMMA ProgressFacts ==
  ASSUME NEW s, Shape(s), s.dev[Hd].xfer_cnt \in Nat, NEW n \in 0 .. s.dev[Hd].xfer_cnt
  PROVE  LET e == DmaProgress(s, Hd, n)
         IN  /\ But(s, e, {"dev", "fast"}) /\ DevBut(s, e, Hd, {"xfer_cnt", "dma", "status"})
             /\ Progress(s, e, n)
<1> DEFINE rest == s.dev[Hd].xfer_cnt - n
           e == DmaProgress(s, Hd, n)
           f == [xfer_cnt |-> 0, dma |-> FALSE]
           a == Set(s, Hd, f)
           g == [xfer_cnt |-> rest, status |-> (Status(s, Hd) \ {"BSY"}) \cup {"DRQ"}]
           b == Set(s, Hd, g)
<1>0. Hd \in Devs
  BY DEF Devs
<1>1. CASE rest = 0
  <2>1. DOMAIN f = {"xfer_cnt", "dma"} /\ DOMAIN f \subseteq DevFields
    BY DEF DevFields
  <2>2. But(s, a, {"dev"}) /\ DevBut(s, a, Hd, DOMAIN f) /\ \A x \in DOMAIN f : a.dev[Hd][x] = f[x]
    BY <1>0, <2>1, SetFacts
  <2>3. e = After500ns(a, Hd, "dmadone")
    BY <1>1 DEF DmaProgress
  <2> HIDE DEF a, e
  <2>4. But(a, e, {"fast"}) /\ e.fast = Append(a.fast, FastTimerOf(Hd, "dmadone"))
    <3>1. Shape(a)
      BY <2>2 DEF But
    <3> QED BY <2>3, <3>1, FastFacts
  <2>5. a.dev[Hd].xfer_cnt = 0 /\ a.dev[Hd].dma = FALSE
    BY <2>1, <2>2
  <2>6. But(s, e, {"dev", "fast"}) /\ e.dev = a.dev /\ e.fast = Append(s.fast, FastTimerOf(Hd, "dmadone"))
    BY <2>2, <2>4 DEF But, IdeFields
  <2>7. DevBut(s, e, Hd, {"xfer_cnt", "dma", "status"})
    BY <2>1, <2>2, <2>6 DEF DevBut
  <2> QED BY <1>1, <2>5, <2>6, <2>7 DEF Progress, e
<1>2. CASE rest # 0
  <2>1. DOMAIN g = {"xfer_cnt", "status"} /\ DOMAIN g \subseteq DevFields
    BY DEF DevFields
  <2>2. But(s, b, {"dev"}) /\ DevBut(s, b, Hd, DOMAIN g) /\ \A x \in DOMAIN g : b.dev[Hd][x] = g[x]
    BY <1>0, <2>1, SetFacts
  <2>3. e = b
    BY <1>2 DEF DmaProgress
  <2>4. b.dev[Hd].xfer_cnt = rest /\ "BSY" \notin b.dev[Hd].status
    <3>1. g.xfer_cnt = rest /\ "BSY" \notin g.status
      OBVIOUS
    <3> HIDE DEF g, b
    <3> QED BY <2>1, <2>2, <3>1
  <2> HIDE DEF b, e
  <2>5. But(s, e, {"dev", "fast"}) /\ e.fast = s.fast
    BY <2>2, <2>3 DEF But, IdeFields
  <2>6. DevBut(s, e, Hd, {"xfer_cnt", "dma", "status"}) /\ e.dev[Hd].dma = s.dev[Hd].dma
    BY <2>1, <2>2, <2>3 DEF DevBut, DevFields
  <2> QED BY <1>2, <2>3, <2>4, <2>5, <2>6 DEF Progress, e
<1> QED BY <1>1, <1>2

LEMMA PullFacts ==
  ASSUME NEW s, Shape(s), s.dev[Hd].xfer_cnt \in Nat \ {0}, s.dev[Hd].dma = TRUE, NEW len \in Nat
  PROVE  LET n == DmaMoves(s, Hd, len)
             v == s.dev[Hd]
             e == PullData(s, Hd, len)
         IN  /\ n \in 0 .. v.xfer_cnt /\ n <= len
             /\ But(s, e, {"dev", "fast", "memory"}) /\ DevBut(s, e, Hd, {"xfer_cnt", "dma", "status", "buf"})
             /\ e.memory = s.memory \o SubSeq(v.buf, 1, n) /\ e.dev[Hd].buf = SubSeq(v.buf, n + 1, Len(v.buf))
             /\ Progress(s, e, n)
<1> DEFINE n == DmaMoves(s, Hd, len)
           v == s.dev[Hd]
           f == [buf |-> SubSeq(v.buf, n + 1, Len(v.buf))]
           a == Set(s, Hd, f)
           b == [a EXCEPT !.memory = @ \o SubSeq(v.buf, 1, n)]
           e == PullData(s, Hd, len)
<1>1. n \in 0 .. v.xfer_cnt /\ n <= len
  BY DEF DmaMoves, Lesser
<1>2. DOMAIN f = {"buf"} /\ DOMAIN f \subseteq DevFields /\ Hd \in Devs
  BY DEF DevFields, Devs
<1>3. But(s, a, {"dev"}) /\ DevBut(s, a, Hd, DOMAIN f) /\ \A x \in DOMAIN f : a.dev[Hd][x] = f[x]
  BY <1>2, SetFacts
<1>4. e = DmaProgress(b, Hd, n)
  BY DEF PullData
<1>5. a.dev[Hd].buf = SubSeq(v.buf, n + 1, Len(v.buf))
  BY <1>2, <1>3
<1> HIDE DEF a, n
<1>6. But(a, b, {"memory"}) /\ b.memory = s.memory \o SubSeq(v.buf, 1, n)
  BY <1>3 DEF But, Shape, IdeFields
<1> HIDE DEF b, e, f
<1>7. But(s, b, {"dev", "memory"}) /\ b.dev = a.dev
  BY <1>3, <1>6 DEF But, IdeFields
<1>8. DevBut(s, b, Hd, {"buf"}) /\ b.dev[Hd].xfer_cnt = v.xfer_cnt /\ b.dev[Hd].dma = v.dma /\ b.fast = s.fast
  BY <1>2, <1>3, <1>7 DEF DevBut, DevFields, But, IdeFields
<1>9. But(b, e, {"dev", "fast"}) /\ DevBut(b, e, Hd, {"xfer_cnt", "dma", "status"}) /\ Progress(b, e, n)
  <2>1. Shape(b) /\ b.dev[Hd].xfer_cnt \in Nat /\ n \in 0 .. b.dev[Hd].xfer_cnt
    BY <1>1, <1>7, <1>8 DEF But
  <2> QED BY <1>4, <2>1, ProgressFacts
<1>10. But(s, e, {"dev", "fast", "memory"}) /\ e.memory = b.memory
  BY <1>7, <1>9 DEF But, IdeFields
<1>11. DevBut(s, e, Hd, {"xfer_cnt", "dma", "status", "buf"}) /\ e.dev[Hd].buf = b.dev[Hd].buf
  BY <1>8, <1>9 DEF DevBut, DevFields
<1>12. Progress(s, e, n)
  BY <1>8, <1>9 DEF Progress
<1> QED BY <1>1, <1>5, <1>6, <1>7, <1>10, <1>11, <1>12 DEF e, n

LEMMA PushFacts ==
  ASSUME NEW s, Shape(s), s.dev[Hd].xfer_cnt \in Nat \ {0}, s.dev[Hd].dma = TRUE, NEW len \in Nat
  PROVE  LET n == DmaMoves(s, Hd, len)
             v == s.dev[Hd]
             q == v.wbuf \o Addresses(s.sent + 1, n)
             e == PushData(s, Hd, len)
         IN  /\ n \in 0 .. v.xfer_cnt /\ n <= len
             /\ But(s, e, {"dev", "fast", "sent", "image"})
             /\ DevBut(s, e, Hd, {"xfer_cnt", "dma", "status", "wbuf", "pos"})
             /\ e.sent = s.sent + n /\ e.dev[Hd].wbuf = q
             /\ n # v.xfer_cnt => e.dev[Hd].pos = v.pos /\ e.image = s.image
             /\ n = v.xfer_cnt =>
                  e.image = Placed(q, v.pos, s.image)
             /\ Progress(s, e, n)
<1> DEFINE n == DmaMoves(s, Hd, len)
           v == s.dev[Hd]
           q == v.wbuf \o Addresses(s.sent + 1, n)
           f == [wbuf |-> q]
           a == Set(s, Hd, f)
           p == IF v.xfer_cnt = n THEN PostXferAction(a) ELSE a
           b == [p EXCEPT !.sent = @ + n]
           e == PushData(s, Hd, len)
           stored == Placed(q, v.pos, s.image)
<1>1. n \in 0 .. v.xfer_cnt /\ n <= len
  BY DEF DmaMoves, Lesser
<1>2. DOMAIN f = {"wbuf"} /\ DOMAIN f \subseteq DevFields /\ Hd \in Devs
  BY DEF DevFields, Devs
<1>3. But(s, a, {"dev"}) /\ DevBut(s, a, Hd, DOMAIN f) /\ \A x \in DOMAIN f : a.dev[Hd][x] = f[x]
  BY <1>2, SetFacts
<1>4. e = DmaProgress(b, Hd, n)
  BY DEF PushData
<1>5. a.dev[Hd].wbuf = q
  BY <1>2, <1>3
<1> HIDE DEF a, n, q, f
<1>6. a.dev[Hd].pos = v.pos /\ a.image = s.image /\ Shape(a)
  BY <1>2, <1>3 DEF DevBut, DevFields, But, IdeFields
<1>7. /\ But(a, p, {"dev", "image"}) /\ DevBut(a, p, Hd, {"pos"})
      /\ v.xfer_cnt # n => p.dev[Hd].pos = v.pos /\ p.image = s.image
      /\ v.xfer_cnt = n => p.image = stored
  <2>1. CASE v.xfer_cnt = n
    <3>1. p = PostXferAction(a)
      BY <2>1
    <3> HIDE DEF p
    <3> QED BY <1>5, <1>6, <2>1, <3>1, PostFacts
  <2>2. CASE v.xfer_cnt # n
    BY <1>6, <2>2 DEF But, DevBut
  <2> QED BY <2>1, <2>2
<1> HIDE DEF p, stored
<1>8. But(p, b, {"sent"}) /\ b.sent = p.sent + n
  BY <1>7 DEF But, Shape, IdeFields
<1> HIDE DEF b, e
<1>9. But(s, b, {"dev", "image", "sent"}) /\ b.dev = p.dev /\ b.image = p.image /\ b.sent = s.sent + n
  BY <1>3, <1>7, <1>8 DEF But, IdeFields
<1>10. /\ DevBut(s, b, Hd, {"wbuf", "pos"}) /\ b.dev[Hd].wbuf = q /\ b.dev[Hd].pos = p.dev[Hd].pos
       /\ b.dev[Hd].xfer_cnt = v.xfer_cnt /\ b.dev[Hd].dma = v.dma /\ b.fast = s.fast
  BY <1>2, <1>3, <1>5, <1>7, <1>9 DEF DevBut, DevFields, But, IdeFields
<1>11. But(b, e, {"dev", "fast"}) /\ DevBut(b, e, Hd, {"xfer_cnt", "dma", "status"}) /\ Progress(b, e, n)
  <2>1. Shape(b) /\ b.dev[Hd].xfer_cnt \in Nat /\ n \in 0 .. b.dev[Hd].xfer_cnt
    BY <1>1, <1>9, <1>10 DEF But
  <2> QED BY <1>4, <2>1, ProgressFacts
<1>12. But(s, e, {"dev", "fast", "sent", "image"}) /\ e.sent = b.sent /\ e.image = b.image
  BY <1>9, <1>11 DEF But, IdeFields
<1>13. /\ DevBut(s, e, Hd, {"xfer_cnt", "dma", "status", "wbuf", "pos"}) /\ e.dev[Hd].wbuf = b.dev[Hd].wbuf
       /\ e.dev[Hd].pos = b.dev[Hd].pos
  BY <1>10, <1>11 DEF DevBut, DevFields
<1>14. Progress(s, e, n)
  BY <1>10, <1>11 DEF Progress
<1> QED BY <1>1, <1>7, <1>9, <1>10, <1>12, <1>13, <1>14 DEF e, n, q, stored

-----------------------------------------------------------------------------
(* What a step of a command leaves alone, and what it must keep. *)

Running == {"setup", "packet", "out", "wait", "in", "dmaend", "done"}
Working == {"status", "buf", "wbuf", "pos", "xfer_cnt", "chunk_cnt", "chunk_size", "dma", "spi", "io", "cod",
            "byte_count", "remain", "expected"}
Kept == {"cur_dev", "chan"}

\* The driver goes on from h to g, with the same command.
Onward(s, h, g) ==
    /\ h.st \in Running /\ g.st \in Running /\ DOMAIN g = HostFields
    /\ g.c = h.c /\ g.dev = h.dev /\ g.dma = h.dma
    /\ s.chan.active => g.st \in {"setup", "wait", "dmaend"}

\* A step of that command, in which device d works.
StepOf(s, e, h, g, d) ==
    /\ But(s, e, IdeFields \ Kept) /\ DevBut(s, e, d, Working)
    /\ e.irq \in {0, 1} /\ e.fast \in Seq(FastTimers) /\ e.slow \in Seq(SlowTimers)
    /\ e.dev[d].xfer_cnt \in Nat /\ e.dev[d].dma \in BOOLEAN /\ (d = Cd => e.dev[d].dma = FALSE)
    /\ e.dev[d].spi \in Nat /\ (e.dev[d].spi = s.dev[d].spi \/ h.c.cmd = "SET_MULTIPLE_MODE")
    /\ Onward(s, h, g)

LEMMA StepTyped ==
  ASSUME NEW s, NEW e, NEW h, NEW g, NEW d \in Devs, IdeOk(s, h), StepOf(s, e, h, g, d)
  PROVE  IdeTyped(e) /\ ChanOk(e, g) /\ HostTyped(e, g)
<1>1. /\ DOMAIN e = IdeFields /\ DOMAIN e.dev = Devs /\ \A b \in Devs : DOMAIN e.dev[b] = DevFields
      /\ e.cur_dev = s.cur_dev /\ e.chan = s.chan
  BY DEF StepOf, But, Shape, IdeFields, Kept
<1>2. /\ \A b \in Devs : b # d => e.dev[b] = s.dev[b]
      /\ e.dev[d].ien = s.dev[d].ien /\ e.dev[d].head = s.dev[d].head
  BY DEF StepOf, DevBut, DevFields, Working
<1>3. IdeTyped(s) /\ ChanOk(s, h) /\ HostTyped(s, h)
  BY DEF IdeOk
<1>4. Devs = {Hd, Cd} /\ Hd # Cd
  BY DEF Devs, Hd, Cd
<1>5. \A b \in Devs : DevTyped(e.dev[b])
  <2>1. \A b \in Devs : DevTyped(s.dev[b])
    BY <1>3, <1>4 DEF IdeTyped
  <2> QED BY <1>1, <1>2, <2>1 DEF DevTyped, StepOf
<1>6. IdeTyped(e)
  BY <1>1, <1>2, <1>3, <1>4, <1>5 DEF IdeTyped, StepOf
<1>7. ChanOk(e, g)
  BY <1>1, <1>3 DEF ChanOk, StepOf, Onward
<1>8. HostTyped(e, g)
  <2>1. h.st \notin {"idle", "reset"}
    BY DEF StepOf, Onward, Running
  <2>2. \A b \in Devs : e.dev[b].head = s.dev[b].head
    BY <1>2, <1>4
  <2>3. h.c.cmd \in {"READ_MULTIPLE", "WRITE_MULTIPLE"} => e.dev[Hd].spi = s.dev[Hd].spi
    BY <1>2, <1>4 DEF StepOf
  <2>4. g.st \in {"idle", "reset", "setup", "packet", "out", "wait", "in", "dmaend", "done"}
    BY DEF StepOf, Onward, Running
  <2>5. g.c = h.c /\ g.dev = h.dev /\ DOMAIN g = HostFields
    BY DEF StepOf, Onward
  <2> QED BY <1>1, <1>3, <1>4, <2>1, <2>2, <2>3, <2>4, <2>5 DEF HostTyped
<1> QED BY <1>6, <1>7, <1>8

\* The channel has moved n words out of its buffer.
LEMMA QueueOk ==
  ASSUME NEW s, NEW h, IdeOk(s, h), NEW n \in 0 .. s.chan.queue
  PROVE  IdeOk([s EXCEPT !.chan.queue = @ - n], h)
<1> DEFINE u == [s EXCEPT !.chan.queue = @ - n]
<1>1. Shape(s) /\ SameHost(h, h) /\ ChanOk(s, h)
  BY OkShape, HostItself DEF IdeOk
<1>2. DOMAIN u = IdeFields /\ \A x \in IdeFields \ {"chan"} : u[x] = s[x]
  BY <1>1 DEF Shape, IdeFields
<1>3. /\ DOMAIN u.chan = ChanFields /\ u.chan.queue = s.chan.queue - n
      /\ \A x \in ChanFields \ {"queue"} : u.chan[x] = s.chan[x]
  BY <1>1 DEF Shape, IdeFields, ChanFields
<1> HIDE DEF u
<1>4. But(s, u, {"chan"})
  BY <1>1, <1>2, <1>3 DEF But, Shape, IdeFields
<1>5. ChanOk(u, h)
  BY <1>1, <1>2, <1>3 DEF ChanOk, ChanFields
<1>6. IdeOk(u, h)
  BY <1>1, <1>4, <1>5, ChanStep
<1> QED BY <1>6 DEF u

\* A disk that has words to move by DMA is in the middle of a command.
LEMMA DmaUnderWay ==
  ASSUME NEW s, NEW h, IdeOk(s, h), s.chan.active, s.dev[Hd].xfer_cnt # 0, s.dev[Hd].dma = TRUE
  PROVE  h.st = "wait" /\ HdDma(s, h)
<1>1. h.st \in {"setup", "wait", "dmaend"} /\ h.dev = Hd
  BY DEF IdeOk, ChanOk
<1>2. ~AtRest(s) /\ ~CdSide(s, h) /\ ~HdWrittenOut(s, h) /\ ~HdDmaDone(s, h) /\ ~HdWaits(s, h)
  BY DEF AtRest, CdSide, Resting, HdWrittenOut, HdDmaDone, HdWaits, HdReading, HdWriting, HdBlocks
<1>3. ~CdWaits(s, h) /\ ~Ended(s, h)
  BY <1>2 DEF CdWaits, CdData, Ended
<1> QED BY <1>1, <1>2, <1>3 DEF IdeOk, Phase

LEMMA DoneTimer ==
  ASSUME NEW s, NEW h, IdeOk(s, h), NoDone(s.fast)
  PROVE  /\ Append(s.fast, FastTimerOf(Hd, "dmadone")) \in Seq(FastTimers)
         /\ OneDone(Append(s.fast, FastTimerOf(Hd, "dmadone")))
<1>1. s.fast \in Seq(FastTimers)
  BY DEF IdeOk, IdeTyped
<1>2. FastTimerOf(Hd, "dmadone") \in FastTimers /\ FastTimerOf(Hd, "dmadone").what = "dmadone"
  BY DEF FastTimers, FastTimerOf
<1> QED BY <1>1, <1>2, TimerAppend

\* pull_data and push_data in the middle of a command: what has moved and what
\* is left make up the command's words.
LEMMA DmaMoveOk ==
  ASSUME NEW s, NEW h, IdeOk(s, h), h.st = "wait", HdDma(s, h), NEW len \in Nat,
         NEW e, e = IF h.c.cmd = "READ_DMA" THEN PullData(s, Hd, len) ELSE PushData(s, Hd, len)
  PROVE  IdeOk(e, h) /\ DmaMoves(s, Hd, len) \in 0 .. len /\ e.chan = s.chan
<1> DEFINE n == DmaMoves(s, Hd, len)
           v == s.dev[Hd]
           w == e.dev[Hd]
           c == h.c
           k == Size(c) - v.xfer_cnt
<1>1. Shape(s) /\ h.dev = Hd /\ Hd # Cd /\ Hd \in Devs /\ Cd \in Devs
  BY OkShape DEF HdDma, HdTransfer, Hd, Cd, Devs
<1>2. c \in HdCommands /\ Chosen(Hd, c) /\ IdeTyped(s) /\ DOMAIN h = HostFields
  <2>1. IdeTyped(s) /\ HostTyped(s, h)
    BY DEF IdeOk
  <2>2. c \in HdCommands /\ DOMAIN h = HostFields
    BY <1>1, <2>1 DEF HostTyped
  <2> QED BY <2>1, <2>2 DEF Chosen
<1>3. c.cmd \in {"READ_DMA", "WRITE_DMA"} /\ v.dma = TRUE
  BY DEF HdDma
<1>4. Total(c) = Size(c) /\ Size(c) \in Nat \ {0}
  BY <1>2, <1>3, DataCommand DEF HdReads, HdWrites
<1>5. v.xfer_cnt \in 1 .. Size(c) /\ v.xfer_cnt \in Nat \ {0} /\ k \in Nat
  BY <1>4 DEF HdDma, HdTransfer
<1>6. First(c) \in Nat
  BY <1>2, CommandFacts
<1>7. /\ n \in 0 .. v.xfer_cnt /\ n <= len /\ Progress(s, e, n)
      /\ But(s, e, {"dev", "fast", "memory", "sent", "image"})
      /\ DevBut(s, e, Hd, {"xfer_cnt", "dma", "status", "buf", "wbuf", "pos"})
      /\ c.cmd = "READ_DMA" => /\ e.memory = s.memory \o SubSeq(v.buf, 1, n) 
                               /\ w.buf = SubSeq(v.buf, n + 1, Len(v.buf))
      /\ c.cmd = "WRITE_DMA" =>
            LET q == v.wbuf \o Addresses(s.sent + 1, n)
            IN  /\ e.sent = s.sent + n /\ w.wbuf = q
                /\ n # v.xfer_cnt => w.pos = v.pos /\ e.image = s.image
                /\ n = v.xfer_cnt =>
                     e.image = Placed(q, v.pos, s.image)
  <2>1. CASE c.cmd = "READ_DMA"
    <3>1. e = PullData(s, Hd, len)
      BY <2>1
    <3> HIDE DEF n
    <3>2. /\ n \in 0 .. v.xfer_cnt /\ n <= len
          /\ But(s, e, {"dev", "fast", "memory"}) /\ DevBut(s, e, Hd, {"xfer_cnt", "dma", "status", "buf"})
          /\ e.memory = s.memory \o SubSeq(v.buf, 1, n) /\ w.buf = SubSeq(v.buf, n + 1, Len(v.buf))
          /\ Progress(s, e, n)
      <4>1. v.xfer_cnt \in Nat \ {0} /\ v.dma = TRUE
        BY <1>3, <1>5
      <4>2. LET m == DmaMoves(s, Hd, len)
                x == PullData(s, Hd, len)
            IN  /\ m \in 0 .. v.xfer_cnt /\ m <= len
                /\ But(s, x, {"dev", "fast", "memory"}) /\ DevBut(s, x, Hd, {"xfer_cnt", "dma", "status", "buf"})
                /\ x.memory = s.memory \o SubSeq(v.buf, 1, m) /\ x.dev[Hd].buf = SubSeq(v.buf, m + 1, Len(v.buf))
                /\ Progress(s, x, m)
        BY <1>1, <4>1, PullFacts
      <4> QED BY <3>1, <4>2 DEF n
    <3> QED BY <2>1, <3>2 DEF But, DevBut
  <2>2. CASE c.cmd = "WRITE_DMA"
    <3>1. e = PushData(s, Hd, len)
      BY <2>2
    <3> HIDE DEF n
    <3> DEFINE q == v.wbuf \o Addresses(s.sent + 1, n)
    <3>2. /\ n \in 0 .. v.xfer_cnt /\ n <= len
          /\ But(s, e, {"dev", "fast", "sent", "image"})
          /\ DevBut(s, e, Hd, {"xfer_cnt", "dma", "status", "wbuf", "pos"})
          /\ e.sent = s.sent + n /\ w.wbuf = q
          /\ n # v.xfer_cnt => w.pos = v.pos /\ e.image = s.image
          /\ n = v.xfer_cnt =>
               e.image = Placed(q, v.pos, s.image)
          /\ Progress(s, e, n)
      <4>1. v.xfer_cnt \in Nat \ {0} /\ v.dma = TRUE
        BY <1>3, <1>5
      <4>2. LET m == DmaMoves(s, Hd, len)
                r == v.wbuf \o Addresses(s.sent + 1, m)
                x == PushData(s, Hd, len)
            IN  /\ m \in 0 .. v.xfer_cnt /\ m <= len
                /\ But(s, x, {"dev", "fast", "sent", "image"})
                /\ DevBut(s, x, Hd, {"xfer_cnt", "dma", "status", "wbuf", "pos"})
                /\ x.sent = s.sent + m /\ x.dev[Hd].wbuf = r
                /\ m # v.xfer_cnt => x.dev[Hd].pos = v.pos /\ x.image = s.image
                /\ m = v.xfer_cnt => x.image = Placed(r, v.pos, s.image)
                /\ Progress(s, x, m)
        BY <1>1, <4>1, PushFacts
      <4> QED BY <3>1, <4>2 DEF n
    <3> QED BY <2>2, <3>2 DEF But, DevBut
  <2> QED BY <1>3, <2>1, <2>2
<1> HIDE DEF n
<1>8. /\ e.irq = s.irq /\ e.slow = s.slow /\ e.chan = s.chan /\ e.dev[Cd] = s.dev[Cd] /\ w.spi = v.spi
      /\ s.irq = 0 /\ s.slow = <<>> /\ NoDone(s.fast) /\ Resting(s.dev[Cd]) /\ s.dev[Cd].remain = 0
  BY <1>1, <1>7, SMTT(30) DEF But, IdeFields, DevBut, DevFields, HdDma, HdTransfer
<1>9. /\ w.xfer_cnt = v.xfer_cnt - n /\ w.xfer_cnt \in Nat /\ Size(c) - w.xfer_cnt = k + n
      /\ n = v.xfer_cnt => w.dma = FALSE
      /\ n # v.xfer_cnt => w.dma = TRUE /\ e.fast = s.fast /\ "BSY" \notin w.status
  <2>1. n \in 0 .. v.xfer_cnt /\ Progress(s, e, n)
    BY <1>7
  <2>2. w.xfer_cnt = v.xfer_cnt - n
    BY <2>1 DEF Progress
  <2>3. w.xfer_cnt \in Nat /\ Size(c) - w.xfer_cnt = k + n
    BY <1>4, <1>5, <2>1, <2>2
  <2>4. (n = v.xfer_cnt => w.dma = FALSE) /\ (n # v.xfer_cnt => w.dma = TRUE)
    BY <1>3, <2>1, Zenon DEF Progress
  <2>5. n # v.xfer_cnt => e.fast = s.fast /\ "BSY" \notin w.status
    BY <2>1, Zenon DEF Progress
  <2> QED BY <2>2, <2>3, <2>4, <2>5
<1>10. e.fast \in Seq(FastTimers)
  <2>1. s.fast \in Seq(FastTimers)
    BY <1>2 DEF IdeTyped
  <2> QED BY <1>7, <1>8, <2>1, DoneTimer DEF Progress
<1>11. StepOf(s, e, h, h, Hd)
  <2>0. w.dma \in BOOLEAN
    BY <1>9, Zenon
  <2>1. But(s, e, IdeFields \ Kept) /\ DevBut(s, e, Hd, Working)
    BY <1>7 DEF But, DevBut, IdeFields, Kept, Working
  <2>2. e.slow \in Seq(SlowTimers) /\ e.irq \in {0, 1} /\ w.spi \in Nat
    BY <1>2, <1>8 DEF IdeTyped, DevTyped
  <2> QED BY <1>1, <1>2, <1>8, <1>9, <1>10, <2>0, <2>1, <2>2 DEF StepOf, Onward, Running
<1>12. IdeTyped(e) /\ ChanOk(e, h) /\ HostTyped(e, h)
  BY <1>1, <1>11, StepTyped
<1>13. CASE c.cmd = "READ_DMA"
  <2>1. Piece(Answered(c), 0, k, s.memory) /\ Piece(Answered(c), k, v.xfer_cnt, v.buf)
    BY <1>13 DEF HdDma
  <2>2. Piece(Answered(c), k, n, SubSeq(v.buf, 1, n)) /\ Piece(Answered(c), k + n, v.xfer_cnt - n, w.buf)
    BY <1>5, <1>7, <1>13, <2>1, PieceCut
  <2>3. Piece(Answered(c), 0, k + n, e.memory)
    <3>1. 0 + k = k /\ 0 \in Nat /\ n \in Nat /\ e.memory = s.memory \o SubSeq(v.buf, 1, n)
      BY <1>5, <1>7, <1>13, SMTT(30)
    <3> QED BY <1>5, <2>1, <2>2, <3>1, PieceConcat, ZenonT(30)
  <2>4. CASE n = v.xfer_cnt
    <3>1. w.xfer_cnt = 0 /\ w.dma = FALSE /\ k + n = Total(c)
      BY <1>4, <1>5, <1>9, <2>4
    <3>2. Outcome(e, h)
      BY <1>3, <1>13, <2>3, <3>1 DEF Outcome, Complete, IsDma, HdWrites
    <3>3. OneDone(e.fast)
      BY <1>7, <1>8, <2>4, DoneTimer DEF Progress
    <3>4. HdDmaDone(e, h)
      BY <1>1, <1>3, <1>8, <3>1, <3>2, <3>3 DEF HdDmaDone, IsDma
    <3>5. Phase(e, h)
      BY <3>4 DEF Phase
    <3> QED BY <1>7, <1>8, <1>12, <3>5, SMTT(30) DEF IdeOk, n
  <2>5. CASE n # v.xfer_cnt
    <3>1. w.xfer_cnt \in 1 .. Total(c) /\ w.dma = TRUE /\ e.fast = s.fast /\ "BSY" \notin w.status
      <4>1. n \in 0 .. v.xfer_cnt
        BY <1>7
      <4> QED BY <1>4, <1>5, <1>9, <2>5, <4>1
    <3>2. HdDma(e, h)
      BY <1>1, <1>8, <1>9, <1>13, <2>2, <2>3, <3>1 DEF HdDma, HdTransfer
    <3>3. Phase(e, h)
      BY <3>2 DEF Phase
    <3> QED BY <1>7, <1>8, <1>12, <3>3, SMTT(30) DEF IdeOk, n
  <2> QED BY <2>4, <2>5
<1>14. CASE c.cmd = "WRITE_DMA"
  <2>1. s.sent = k /\ v.pos = First(c) /\ Stored(s.image, c, 0) /\ Piece(Sent(c), 0, k, v.wbuf)
    BY <1>14 DEF HdDma
  <2>2. Piece(Sent(c), k, n, Addresses(s.sent + 1, n))
    <3>1. 1 \in Nat /\ k + n <= Size(c) /\ s.sent + 1 = 1 + k /\ n \in Nat
      BY <1>4, <1>5, <1>7, <2>1, SMTT(30)
    <3> QED BY <1>4, <1>5, <3>1, PieceAddress DEF Sent
  <2>3. Piece(Sent(c), 0, k + n, w.wbuf)
    <3>1. 0 + k = k /\ n \in Nat
      BY <1>5, <1>7
    <3> QED BY <1>5, <1>7, <1>14, <2>1, <2>2, <3>1, PieceConcat
  <2>4. CASE n = v.xfer_cnt
    <3>1. w.xfer_cnt = 0 /\ w.dma = FALSE /\ k + n = Size(c)
      BY <1>4, <1>5, <1>9, <2>4
    <3>2. Stored(e.image, c, Size(c))
      <4>1. First(c) = First(c) + 0 /\ 0 + Size(c) = Size(c) /\ Size(c) \in Nat
        BY <1>4, <1>6
      <4>2. e.image = Placed(w.wbuf, v.pos, s.image)
        BY <1>7, <1>14, <2>4
      <4>3. Piece(Sent(c), 0, Size(c), w.wbuf)
        BY <2>3, <3>1
      <4>4. 0 \in Nat /\ 0 + Size(c) <= Size(c) /\ v.pos = First(c) + 0
        BY <2>1, <4>1
      <4>5. Stored(e.image, c, 0 + Size(c))
        BY <1>2, <2>1, <4>1, <4>2, <4>3, <4>4, StoredMore
      <4> QED BY <4>1, <4>5
    <3>3. Outcome(e, h)
      BY <1>3, <1>14, <3>2 DEF Outcome, Complete, HdReads, Responses
    <3>4. OneDone(e.fast)
      BY <1>7, <1>8, <2>4, DoneTimer DEF Progress
    <3>5. HdDmaDone(e, h)
      BY <1>1, <1>3, <1>8, <3>1, <3>3, <3>4 DEF HdDmaDone, IsDma
    <3>6. Phase(e, h)
      BY <3>5 DEF Phase
    <3> QED BY <1>7, <1>8, <1>12, <3>6, SMTT(30) DEF IdeOk, n
  <2>5. CASE n # v.xfer_cnt
    <3>1. w.xfer_cnt \in 1 .. Total(c) /\ w.dma = TRUE /\ e.fast = s.fast /\ "BSY" \notin w.status
      <4>1. n \in 0 .. v.xfer_cnt
        BY <1>7
      <4> QED BY <1>4, <1>5, <1>9, <2>5, <4>1
    <3>2. e.sent = k + n /\ w.pos = First(c) /\ Stored(e.image, c, 0)
      BY <1>7, <1>14, <2>1, <2>5
    <3>3. HdDma(e, h)
      BY <1>1, <1>8, <1>9, <1>14, <2>3, <3>1, <3>2 DEF HdDma, HdTransfer
    <3>4. Phase(e, h)
      BY <3>3 DEF Phase
    <3> QED BY <1>7, <1>8, <1>12, <3>4, SMTT(30) DEF IdeOk, n
  <2> QED BY <2>4, <2>5
<1> QED BY <1>3, <1>13, <1>14

\* xfer_from_device and xfer_to_device.
LEMMA TransferOk ==
  ASSUME NEW s, NEW h, IdeOk(s, h), s.chan.dir # "undef"
  PROVE  IdeOk(Transfer(s), h)
<1> DEFINE n == DmaMoves(s, s.cur_dev, s.chan.queue)
           m == IF s.chan.dir = "from" THEN PullData(s, s.cur_dev, s.chan.queue)
                                       ELSE PushData(s, s.cur_dev, s.chan.queue)
<1>1. ChanOk(s, h) /\ HostTyped(s, h) /\ IdeTyped(s)
  BY DEF IdeOk
<1>2. /\ s.chan.active /\ s.chan.queue \in Nat /\ h.dev = Hd /\ h.st \in {"setup", "wait", "dmaend"}
      /\ h.c.cmd \in {"READ_DMA", "WRITE_DMA"}
      /\ s.chan.dir = IF h.c.cmd = "READ_DMA" THEN "from" ELSE "to"
  BY <1>1 DEF ChanOk
<1>3. s.cur_dev = Hd
  BY <1>1, <1>2 DEF HostTyped
<1>4. IdeOk(m, h) /\ n \in 0 .. s.chan.queue /\ m.chan = s.chan
  <2>1. CASE s.dev[Hd].xfer_cnt # 0 /\ s.dev[Hd].dma
    <3>1. s.dev[Hd].dma = TRUE
      BY <1>1, <2>1, Zenon DEF IdeTyped, DevTyped
    <3>2. h.st = "wait" /\ HdDma(s, h)
      BY <1>2, <2>1, <3>1, DmaUnderWay
    <3>3. m = IF h.c.cmd = "READ_DMA" THEN PullData(s, Hd, s.chan.queue) ELSE PushData(s, Hd, s.chan.queue)
      BY <1>2, <1>3
    <3> HIDE DEF m
    <3> QED BY <1>2, <1>3, <3>2, <3>3, DmaMoveOk
  <2>2. CASE ~(s.dev[Hd].xfer_cnt # 0 /\ s.dev[Hd].dma)
    <3>1. m = s /\ n = 0
      BY <1>3, <2>2 DEF PullData, PushData, DmaMoves
    <3> QED BY <1>2, <3>1
  <2> QED BY <2>1, <2>2
<1>5. Transfer(s) = [m EXCEPT !.chan.queue = @ - n]
  BY DEF Transfer
<1> HIDE DEF m, n
<1> QED BY <1>4, <1>5, QueueOk

\* xfer_retry.
LEMMA XferRetryOk ==
  ASSUME NEW s, NEW h, IdeOk(s, h)
  PROVE  IdeOk(XferRetry(s), h)
BY TransferOk, ScheduleOk DEF XferRetry

\* interpret_cmd.
LEMMA InterpretOk ==
  ASSUME NEW s, NEW h, IdeOk(s, h), s.chan.active
  PROVE  IdeOk(InterpretCmd(s), h)
<1> DEFINE p == s.chan.program
           a == [s EXCEPT !.chan.active = FALSE, !.chan.busy = TRUE, !.chan.dir = "undef"]
           b == [s EXCEPT !.chan.busy = TRUE, !.chan.dir = s.chan.kind,
                          !.chan.queue = Head(p), !.chan.program = Tail(@)]
<1>1. Shape(s) /\ SameHost(h, h) /\ ChanOk(s, h) /\ p \in Seq(Nat)
  BY OkShape, HostItself DEF IdeOk, ChanOk
<1>2. CASE p = <<>>
  <2>1. DOMAIN a = IdeFields /\ \A x \in IdeFields \ {"chan"} : a[x] = s[x]
    BY <1>1 DEF Shape, IdeFields
  <2>2. /\ DOMAIN a.chan = ChanFields /\ a.chan.active = FALSE /\ a.chan.dir = "undef"
        /\ a.chan.loop = s.chan.loop /\ a.chan.queue = s.chan.queue /\ a.chan.program = p
    BY <1>1 DEF Shape, IdeFields, ChanFields
  <2> HIDE DEF a
  <2>3. But(s, a, {"chan"})
    BY <1>1, <2>1, <2>2 DEF But, Shape, IdeFields
  <2>4. ChanOk(a, h)
    BY <1>1, <2>2 DEF ChanOk
  <2>5. IdeOk(a, h)
    BY <1>1, <2>3, <2>4, ChanStep
  <2> QED BY <1>2, <2>5 DEF InterpretCmd, a
<1>3. CASE p # <<>>
  <2>1. DOMAIN b = IdeFields /\ \A x \in IdeFields \ {"chan"} : b[x] = s[x]
    BY <1>1 DEF Shape, IdeFields
  <2>2. /\ DOMAIN b.chan = ChanFields /\ b.chan.active = s.chan.active /\ b.chan.dir = s.chan.kind
        /\ b.chan.kind = s.chan.kind /\ b.chan.loop = s.chan.loop
        /\ b.chan.queue = Head(p) /\ b.chan.program = Tail(p)
    BY <1>1 DEF Shape, IdeFields, ChanFields
  <2>3. Head(p) \in Nat /\ Tail(p) \in Seq(Nat)
    <3>1. Len(p) \in Nat \ {0} /\ Head(p) = p[1] /\ Tail(p) \in Seq(Nat)
      BY <1>1, <1>3, HeadTailProperties
    <3> QED BY <1>1, <3>1, ElementOfSeq
  <2> HIDE DEF b
  <2>4. But(s, b, {"chan"})
    BY <1>1, <2>1, <2>2 DEF But, Shape, IdeFields
  <2>5. ChanOk(b, h)
    BY <1>1, <2>2, <2>3 DEF ChanOk
  <2>6. IdeOk(b, h)
    BY <1>1, <2>4, <2>5, ChanStep
  <2>7. b.chan.dir # "undef"
    BY <1>1, <2>2 DEF ChanOk
  <2>8. IdeOk(Transfer(b), h)
    BY <2>6, <2>7, TransferOk
  <2> QED BY <1>3, <2>8 DEF InterpretCmd, b
<1> QED BY <1>2, <1>3

\* interpret_cmd's timer.
LEMMA LoopOk ==
  ASSUME NEW s, NEW h, IdeOk(s, h)
  PROVE  IdeOk(LoopTimed(s), h)
<1> DEFINE a == [s EXCEPT !.chan.loop = FALSE]
           b == [a EXCEPT !.chan.busy = FALSE]
<1>1. Shape(s) /\ SameHost(h, h) /\ ChanOk(s, h)
  BY OkShape, HostItself DEF IdeOk
<1>2. IdeOk(a, h)
  <2>1. DOMAIN a = IdeFields /\ \A x \in IdeFields \ {"chan"} : a[x] = s[x]
    BY <1>1 DEF Shape, IdeFields
  <2>2. /\ DOMAIN a.chan = ChanFields /\ a.chan.loop = FALSE
        /\ \A x \in ChanFields \ {"loop"} : a.chan[x] = s.chan[x]
    BY <1>1 DEF Shape, IdeFields, ChanFields
  <2> HIDE DEF a
  <2>3. But(s, a, {"chan"})
    BY <1>1, <2>1, <2>2 DEF But, Shape, IdeFields
  <2>4. ChanOk(a, h)
    BY <1>1, <2>2 DEF ChanOk, ChanFields
  <2> QED BY <1>1, <2>3, <2>4, ChanStep
<1> HIDE DEF a
<1>3. IdeOk(b, h) /\ b.chan.active = a.chan.active
  <2>0. Shape(a) /\ ChanOk(a, h)
    BY <1>2, OkShape DEF IdeOk
  <2>1. DOMAIN b = IdeFields /\ \A x \in IdeFields \ {"chan"} : b[x] = a[x]
    BY <2>0 DEF Shape, IdeFields
  <2>2. /\ DOMAIN b.chan = ChanFields
        /\ \A x \in ChanFields \ {"busy"} : b.chan[x] = a.chan[x]
    BY <2>0 DEF Shape, IdeFields, ChanFields
  <2> HIDE DEF b
  <2>3. But(a, b, {"chan"})
    BY <2>0, <2>1, <2>2 DEF But, Shape, IdeFields
  <2>4. ChanOk(b, h) /\ b.chan.active = a.chan.active
    BY <2>0, <2>2 DEF ChanOk, ChanFields
  <2> QED BY <1>1, <1>2, <2>3, <2>4, ChanStep
<1> HIDE DEF b
<1>4. LoopTimed(s) = IF a.chan.active /\ a.chan.busy /\ a.chan.queue > 0 THEN a
                     ELSE IF ~a.chan.active THEN b ELSE ScheduleCmd(InterpretCmd(b))
  BY DEF LoopTimed, a, b
<1>5. a.chan.active => IdeOk(ScheduleCmd(InterpretCmd(b)), h)
  BY <1>3, InterpretOk, ScheduleOk
<1> QED BY <1>2, <1>3, <1>4, <1>5

-----------------------------------------------------------------------------
(* The timers. *)

\* A command waits for the end of its transfer, or no such timer runs.
LEMMA DoneOrNot ==
  ASSUME NEW s, NEW h, IdeOk(s, h)
  PROVE  NoDone(s.fast) \/ (h.st = "wait" /\ HdDmaDone(s, h))
<1>1. HostTyped(s, h) /\ Phase(s, h)
  BY DEF IdeOk
<1>2. h.st \in {"idle", "reset", "setup", "packet", "out", "wait", "in", "dmaend", "done"}
  BY <1>1 DEF HostTyped
<1>3. AtRest(s) \/ CdSide(s, h) \/ HdTransfer(s, h) \/ HdWrittenOut(s, h) => NoDone(s.fast)
  BY DEF AtRest, CdSide, HdTransfer, HdWrittenOut
<1>4. h.st \in {"idle", "reset", "setup", "packet", "dmaend", "done"} => NoDone(s.fast)
  BY <1>1, <1>3 DEF Phase, CdPacket
<1>5. h.st \in {"in", "out"} => NoDone(s.fast)
  BY <1>1, <1>3 DEF Phase, HdMoves, HdReading, HdWriting, HdBlocks, CdMoves, CdData
<1>6. h.st = "wait" => NoDone(s.fast) \/ HdDmaDone(s, h)
  <2>1. HdWaits(s, h) \/ HdDma(s, h) \/ CdWaits(s, h) \/ Ended(s, h) => NoDone(s.fast)
    BY <1>3 DEF HdWaits, HdReading, HdWriting, HdBlocks, HdDma, CdWaits, CdData, Ended
  <2> QED BY <1>1, <1>3, <2>1 DEF Phase
<1> QED BY <1>2, <1>4, <1>5, <1>6

LEMMA SoonerFacts ==
  ASSUME NEW q \in Seq(SlowTimers)
  PROVE  LET r == [i \in DOMAIN q |-> Sooner(q[i])]
         IN  r \in Seq(SlowTimers) /\ Len(r) = Len(q) /\ \A i \in 1 .. Len(q) : r[i].what = q[i].what
<1> DEFINE r == [i \in DOMAIN q |-> Sooner(q[i])]
<1>1. DOMAIN q = 1 .. Len(q) /\ Len(q) \in Nat /\ \A i \in 1 .. Len(q) : q[i] \in SlowTimers
  BY LenProperties, ElementOfSeq
<1>2. ASSUME NEW t \in SlowTimers PROVE Sooner(t) \in SlowTimers /\ Sooner(t).what = t.what
  BY DEF Sooner, SlowTimers
<1>3. \A i \in 1 .. Len(q) : r[i] = Sooner(q[i]) /\ r[i] \in SlowTimers /\ r[i].what = q[i].what
  BY <1>1, <1>2
<1>4. DOMAIN r = 1 .. Len(q) /\ r = [i \in 1 .. Len(q) |-> r[i]]
  BY <1>1
<1> HIDE DEF r
<1>5. r \in Seq(SlowTimers) /\ Len(r) = Len(q)
  <2>1. [i \in 1 .. Len(q) |-> r[i]] \in Seq(SlowTimers) /\ Len([i \in 1 .. Len(q) |-> r[i]]) = Len(q)
    BY <1>1, <1>3, IsASeq
  <2> QED BY <1>4, <2>1
<1> QED BY <1>3, <1>5 DEF r

\* The first 500 ns timer is gone.
Popped(s) == [s EXCEPT !.fast = Tail(@), !.slow = [i \in DOMAIN @ |-> Sooner(@[i])]]

LEMMA PoppedFacts ==
  ASSUME NEW s, NEW h, IdeOk(s, h), s.fast # <<>>
  PROVE  /\ But(s, Popped(s), {"fast", "slow"}) /\ Popped(s).fast = Tail(s.fast)
         /\ Tail(s.fast) \in Seq(FastTimers) /\ Head(s.fast) \in FastTimers
         /\ Popped(s).slow \in Seq(SlowTimers) /\ Len(Popped(s).slow) = Len(s.slow)
         /\ \A i \in 1 .. Len(s.slow) : Popped(s).slow[i].what = s.slow[i].what
<1> DEFINE r == [i \in DOMAIN s.slow |-> Sooner(s.slow[i])]
<1>1. Shape(s) /\ s.slow \in Seq(SlowTimers) /\ s.fast \in Seq(FastTimers)
  BY OkShape DEF IdeOk, IdeTyped
<1>2. r \in Seq(SlowTimers) /\ Len(r) = Len(s.slow) /\ \A i \in 1 .. Len(s.slow) : r[i].what = s.slow[i].what
  BY <1>1, SoonerFacts
<1>3. Tail(s.fast) \in Seq(FastTimers) /\ Head(s.fast) \in FastTimers
  BY <1>1, TimerTail
<1>4. Popped(s) = [s EXCEPT !.fast = Tail(s.fast), !.slow = r]
  BY <1>1 DEF Popped, Shape, IdeFields
<1> HIDE DEF r
<1>5. But(s, Popped(s), {"fast", "slow"}) /\ Popped(s).fast = Tail(s.fast) /\ Popped(s).slow = r
  BY <1>1, <1>4 DEF But, Shape, IdeFields
<1> QED BY <1>2, <1>3, <1>5

\* A device sets its status and raises the interrupt.
Announce(s, d, st) == UpdateIntrq(WithStatus(s, d, st), d, 1)

LEMMA AnnounceFacts ==
  ASSUME NEW s, Shape(s), NEW d \in Devs, NEW st, s.dev[d].ien = FALSE, s.dev[d].head = d
  PROVE  /\ But(s, Announce(s, d, st), {"dev", "irq"}) /\ DevBut(s, Announce(s, d, st), d, {"status"})
         /\ Status(Announce(s, d, st), d) = st /\ Announce(s, d, st).irq = 1
<1> DEFINE a == WithStatus(s, d, st)
           e == UpdateIntrq(a, d, 1)
<1>1. But(s, a, {"dev"}) /\ DevBut(s, a, d, {"status"}) /\ a.dev[d].status = st
  BY StatusFacts DEF Status
<1> HIDE DEF a
<1>2. Shape(a) /\ a.dev[d].ien = FALSE /\ a.dev[d].head = d
  BY <1>1 DEF But, DevBut, DevFields
<1>3. But(a, e, {"irq"}) /\ e.irq = 1
  BY <1>2, IntrqFacts
<1> HIDE DEF e
<1>4. But(s, e, {"dev", "irq"}) /\ e.dev = a.dev
  BY <1>1, <1>3 DEF But, IdeFields
<1>5. DevBut(s, e, d, {"status"}) /\ e.dev[d].status = st
  BY <1>1, <1>4 DEF DevBut
<1> QED BY <1>3, <1>4, <1>5 DEF e, a, Announce, Status

\* A command whose device has announced its end.
LEMMA FastOk ==
  ASSUME NEW s, NEW h, IdeOk(s, h), s.fast # <<>>
  PROVE  IdeOk(Fire(Popped(s), Head(s.fast)), h)
<1> DEFINE p == Popped(s)
           t == Head(s.fast)
<1>1. /\ But(s, p, {"fast", "slow"}) /\ p.fast = Tail(s.fast) /\ Tail(s.fast) \in Seq(FastTimers) /\ t \in FastTimers
      /\ p.slow \in Seq(SlowTimers) /\ Len(p.slow) = Len(s.slow)
      /\ \A i \in 1 .. Len(s.slow) : p.slow[i].what = s.slow[i].what
  BY PoppedFacts
<1>2. /\ s.fast \in Seq(FastTimers) /\ s.slow \in Seq(SlowTimers) /\ ChanOk(s, h) /\ HostTyped(s, h)
      /\ IdeTyped(s) /\ SameHost(h, h)
  BY HostItself DEF IdeOk, IdeTyped
<1>3. /\ NoDone(s.fast) => NoDone(p.fast) /\ t.what # "dmadone"
      /\ OneDone(s.fast) /\ t.what = "dmadone" => NoDone(p.fast)
      /\ OneDone(s.fast) /\ t.what # "dmadone" => OneDone(p.fast)
  BY <1>1, <1>2, TimerTail
<1>4. t.what \in {"dmareq", "loop"} \/ (t.what = "dmadone" /\ t.dev = Hd)
  BY <1>1 DEF FastTimers
<1> HIDE DEF p, t
<1>5. CASE t.what \in {"dmareq", "loop"}
  <2>1. p.chan = s.chan /\ But(s, p, {"chan", "fast", "slow"})
    BY <1>1 DEF But, IdeFields
  <2>2. Alike(s, p)
    BY <1>1, <1>2, <1>3, <1>5, <2>1 DEF Alike
  <2>3. ChanOk(p, h)
    BY <1>2, <2>1 DEF ChanOk
  <2>4. IdeOk(p, h)
    BY <1>2, <2>2, <2>3, AlikeOk
  <2>5. IdeOk(XferRetry(p), h) /\ IdeOk(LoopTimed(p), h)
    BY <2>4, XferRetryOk, LoopOk
  <2>6. (t.what = "dmareq" => Fire(p, t) = XferRetry(p)) /\ (t.what = "loop" => Fire(p, t) = LoopTimed(p))
    BY DEF Fire
  <2> QED BY <1>5, <2>5, <2>6 DEF p, t
<1>6. CASE t.what = "dmadone" /\ t.dev = Hd
  <2> DEFINE st == Status(p, Hd) \ {"BSY", "DRQ"}
             e == Announce(p, Hd, st)
  <2>1. h.st = "wait" /\ HdDmaDone(s, h)
    BY <1>3, <1>6, DoneOrNot
  <2>2. h.dev = Hd /\ Hd \in Devs /\ Cd \in Devs /\ Hd # Cd /\ s.dev[Hd].head = Hd /\ s.dev[Hd].ien = FALSE
    BY <1>2, <2>1 DEF HdDmaDone, HostTyped, Devs, Hd, Cd, IdeTyped, DevTyped
  <2>3. Shape(p) /\ p.dev = s.dev
    BY <1>1 DEF But, IdeFields
  <2>4. But(p, e, {"dev", "irq"}) /\ DevBut(p, e, Hd, {"status"}) /\ e.dev[Hd].status = st /\ e.irq = 1
    <3>1. p.dev[Hd].head = Hd /\ p.dev[Hd].ien = FALSE
      BY <2>2, <2>3
    <3> HIDE DEF st
    <3>2. But(p, e, {"dev", "irq"}) /\ DevBut(p, e, Hd, {"status"}) /\ Status(e, Hd) = st /\ e.irq = 1
      BY <2>2, <2>3, <3>1, AnnounceFacts
    <3> QED BY <3>2 DEF Status
  <2>5. "BSY" \notin st /\ "DRQ" \notin st
    OBVIOUS
  <2> HIDE DEF e, st
  <2>6. But(s, e, {"dev", "irq", "fast", "slow"}) /\ e.fast = p.fast /\ e.slow = p.slow
    BY <1>1, <2>4 DEF But, IdeFields
  <2>7. DevBut(s, e, Hd, {"status"}) /\ e.dev[Cd] = s.dev[Cd] /\ e.dev[Hd].xfer_cnt = s.dev[Hd].xfer_cnt
        /\ e.dev[Hd].dma = s.dev[Hd].dma /\ e.dev[Hd].spi = s.dev[Hd].spi
    BY <2>2, <2>3, <2>4 DEF DevBut, DevFields
  <2>8. StepOf(s, e, h, h, Hd)
    <3>1. But(s, e, IdeFields \ Kept) /\ DevBut(s, e, Hd, Working)
      BY <2>6, <2>7 DEF But, DevBut, IdeFields, Kept, Working
    <3>2. e.irq \in {0, 1} /\ e.fast \in Seq(FastTimers) /\ e.slow \in Seq(SlowTimers)
      BY <1>1, <2>4, <2>6
    <3>3. e.dev[Hd].xfer_cnt \in Nat /\ e.dev[Hd].spi \in Nat /\ e.dev[Hd].dma \in BOOLEAN
      BY <1>2, <2>7 DEF IdeTyped, DevTyped
    <3> QED BY <1>2, <2>1, <2>2, <2>7, <3>1, <3>2, <3>3 DEF StepOf, Onward, Running, HostTyped
  <2>9. IdeTyped(e) /\ ChanOk(e, h) /\ HostTyped(e, h)
    BY <2>2, <2>8, StepTyped
  <2>10. Ended(e, h)
    <3>1. Resting(e.dev[Hd]) /\ Resting(e.dev[Cd]) /\ e.dev[Cd].remain = 0
      BY <2>1, <2>4, <2>5, <2>7 DEF HdDmaDone, Resting
    <3>2. e.slow = <<>> /\ NoDone(e.fast)
      <4>1. s.slow = <<>> /\ OneDone(s.fast)
        BY <2>1 DEF HdDmaDone
      <4>2. Len(e.slow) = 0
        BY <1>1, <2>6, <4>1
      <4> QED BY <1>1, <1>3, <1>6, <2>6, <4>1, <4>2, EmptySeq
    <3>3. Outcome(e, h)
      <4>1. e.image = s.image /\ e.memory = s.memory /\ Outcome(s, h)
        BY <2>1, <2>6 DEF But, IdeFields, HdDmaDone
      <4> QED BY <4>1 DEF Outcome, Complete
    <3>4. h.c.cmd \notin {"SILENT", "UNSUPPORTED"}
      BY <2>1 DEF HdDmaDone, IsDma
    <3> QED BY <3>1, <3>2, <3>3, <3>4 DEF Ended, AtRest
  <2>11. IdeOk(e, h)
    BY <2>1, <2>9, <2>10 DEF IdeOk, Phase
  <2>12. Fire(p, t) = e
    BY <1>6 DEF Fire, Announce, e, st
  <2> QED BY <2>11, <2>12 DEF p, t
<1> QED BY <1>4, <1>5, <1>6

\* A block does not depend on status, interrupt and timers.
LEMMA BlockKept ==
  ASSUME NEW s, NEW e, NEW h, NEW g, But(s, e, {"slow", "irq", "dev"}), DevBut(s, e, Hd, {"status"}),
         g.c = h.c, g.dev = h.dev, g.got = h.got
  PROVE  /\ HdReading(s, h) => HdReading(e, g)
         /\ HdWriting(s, h) => HdWriting(e, g)
         /\ Part(e.dev[Hd]) = Part(s.dev[Hd])
<1>1. Hd # Cd /\ Cd \in Devs
  BY DEF Hd, Cd, Devs
<1>2. /\ e.fast = s.fast /\ e.sent = s.sent /\ e.image = s.image /\ e.dev[Cd] = s.dev[Cd]
  BY <1>1 DEF But, IdeFields, DevBut
<1>3. /\ e.dev[Hd].xfer_cnt = s.dev[Hd].xfer_cnt /\ e.dev[Hd].chunk_cnt = s.dev[Hd].chunk_cnt
      /\ e.dev[Hd].chunk_size = s.dev[Hd].chunk_size /\ e.dev[Hd].dma = s.dev[Hd].dma
      /\ e.dev[Hd].spi = s.dev[Hd].spi /\ e.dev[Hd].buf = s.dev[Hd].buf
      /\ e.dev[Hd].wbuf = s.dev[Hd].wbuf /\ e.dev[Hd].pos = s.dev[Hd].pos
  BY DEF DevBut, DevFields
<1>4. Part(e.dev[Hd]) = Part(s.dev[Hd])
  BY <1>3 DEF Part
<1>5. HdBlocks(s, h) => HdBlocks(e, g)
  BY <1>2, <1>3 DEF HdBlocks, HdTransfer, BlockOf
<1> QED BY <1>2, <1>3, <1>4, <1>5 DEF HdReading, HdWriting

\* A 100 us timer runs only while a command waits.
LEMMA SlowOrNot ==
  ASSUME NEW s, NEW h, IdeOk(s, h)
  PROVE  s.slow = <<>> \/ (h.st = "wait" /\ (HdWaits(s, h) \/ HdWrittenOut(s, h)))
<1>1. HostTyped(s, h) /\ Phase(s, h)
  BY DEF IdeOk
<1>2. h.st \in {"idle", "reset", "setup", "packet", "out", "wait", "in", "dmaend", "done"}
  BY <1>1 DEF HostTyped
<1>3. AtRest(s) \/ CdSide(s, h) \/ HdMoves(s, h) \/ HdDma(s, h) \/ HdDmaDone(s, h) => s.slow = <<>>
  BY DEF AtRest, CdSide, HdMoves, HdDma, HdDmaDone
<1>4. CdWaits(s, h) \/ CdMoves(s, h) \/ Ended(s, h) \/ CdPacket(s, h) => s.slow = <<>>
  BY <1>3 DEF CdWaits, CdMoves, CdData, Ended, CdPacket
<1> QED BY <1>1, <1>2, <1>3, <1>4 DEF Phase

LEMMA SlowOk ==
  ASSUME NEW s, NEW h, IdeOk(s, h), s.slow # <<>>
  PROVE  IdeOk(Fire([s EXCEPT !.slow = Tail(@)], Head(s.slow)), h)
<1> DEFINE p == [s EXCEPT !.slow = Tail(@)]
           t == Head(s.slow)
           e == Fire(p, t)
<1>1. Shape(s) /\ IdeTyped(s) /\ HostTyped(s, h) /\ s.slow \in Seq(SlowTimers)
  BY OkShape DEF IdeOk, IdeTyped
<1>2. But(s, p, {"slow"}) /\ p.slow = Tail(s.slow)
  BY <1>1 DEF But, Shape, IdeFields
<1>3. t \in SlowTimers /\ t = s.slow[1] /\ t.dev = Hd
  <2>1. t = s.slow[1] /\ 1 \in 1 .. Len(s.slow)
    BY <1>1, HeadTailProperties
  <2>2. t \in SlowTimers
    BY <1>1, <2>1, ElementOfSeq
  <2> HIDE DEF t
  <2> QED BY <2>1, <2>2 DEF SlowTimers
<1>4. h.st = "wait" /\ (HdWaits(s, h) \/ HdWrittenOut(s, h))
  BY SlowOrNot
<1>5. /\ Len(s.slow) = 1 /\ s.irq = 0 /\ h.dev = Hd /\ NoDone(s.fast)
      /\ Resting(s.dev[Cd]) /\ s.dev[Cd].remain = 0
  BY <1>4 DEF HdWaits, HdWrittenOut, OneSlow, HdReading, HdWriting, HdBlocks, HdTransfer
<1>6. p.slow = <<>>
  <2>1. Tail(s.slow) \in Seq(SlowTimers) /\ Len(Tail(s.slow)) = 0
    BY <1>1, <1>5, HeadTailProperties
  <2> QED BY <1>2, <2>1, EmptySeq
<1>7. Hd \in Devs /\ Cd \in Devs /\ Hd # Cd /\ s.dev[Hd].head = Hd /\ s.dev[Hd].ien = FALSE
  BY <1>1, <1>4, <1>5 DEF HostTyped, Devs, Hd, Cd, IdeTyped, DevTyped
<1> HIDE DEF p, t
<1>8. Shape(p) /\ p.dev = s.dev /\ p.dev[Hd].head = Hd /\ p.dev[Hd].ien = FALSE
  BY <1>2, <1>7 DEF But, IdeFields
\* Whatever the timer is for, it sets the status and raises the interrupt.
<1>9. ASSUME NEW x, NEW st, But(p, x, {"dev", "irq"}), DevBut(p, x, Hd, {"status"}), x.irq = 1
      PROVE  /\ But(s, x, {"slow", "irq", "dev"}) /\ DevBut(s, x, Hd, {"status"}) /\ x.slow = <<>> /\ x.fast = s.fast
             /\ x.dev[Cd] = s.dev[Cd] /\ IdeTyped(x) /\ ChanOk(x, h) /\ HostTyped(x, h)
  <2>1. But(s, x, {"slow", "irq", "dev"}) /\ x.slow = <<>> /\ x.fast = s.fast
    BY <1>2, <1>6, <1>9 DEF But, IdeFields
  <2>2. DevBut(s, x, Hd, {"status"})
    BY <1>8, <1>9 DEF DevBut
  <2>3. /\ x.dev[Cd] = s.dev[Cd] /\ x.dev[Hd].xfer_cnt = s.dev[Hd].xfer_cnt
        /\ x.dev[Hd].dma = s.dev[Hd].dma /\ x.dev[Hd].spi = s.dev[Hd].spi
    BY <1>7, <2>2 DEF DevBut, DevFields
  <2>4. StepOf(s, x, h, h, Hd)
    <3>1. But(s, x, IdeFields \ Kept) /\ DevBut(s, x, Hd, Working)
      BY <2>1, <2>2 DEF But, DevBut, IdeFields, Kept, Working
    <3>2. x.irq \in {0, 1} /\ x.fast \in Seq(FastTimers) /\ x.slow \in Seq(SlowTimers)
      BY <1>1, <1>9, <2>1, EmptySeq DEF IdeTyped
    <3>3. x.dev[Hd].xfer_cnt \in Nat /\ x.dev[Hd].spi \in Nat /\ x.dev[Hd].dma \in BOOLEAN
      BY <1>1, <2>3 DEF IdeTyped, DevTyped
    <3> QED BY <1>1, <1>4, <1>7, <2>3, <3>1, <3>2, <3>3 DEF StepOf, Onward, Running, HostTyped
  <2> QED BY <1>7, <2>1, <2>2, <2>3, <2>4, StepTyped
<1>10. CASE t.what \in {"ready", "intrq"}
  <2>1. /\ But(p, e, {"dev", "irq"}) /\ DevBut(p, e, Hd, {"status"}) /\ e.irq = 1
        /\ t.what = "ready" => Asking(e.dev[Hd])
        /\ t.what = "intrq" => e.dev = s.dev
    <3>1. CASE t.what = "ready"
      <4> DEFINE st == (Status(p, Hd) \cup {"DRQ"}) \ {"BSY"}
      <4>1. e = Announce(p, Hd, st)
        BY <1>3, <3>1 DEF Fire, SignalDataReady, Announce
      <4>2. "DRQ" \in st /\ "BSY" \notin st
        OBVIOUS
      <4> HIDE DEF e, st
      <4>3. /\ But(p, e, {"dev", "irq"}) /\ DevBut(p, e, Hd, {"status"}) /\ Status(e, Hd) = st /\ e.irq = 1
        BY <1>7, <1>8, <4>1, AnnounceFacts
      <4>4. Asking(e.dev[Hd])
        BY <4>2, <4>3 DEF Status, Asking
      <4> QED BY <3>1, <4>3, <4>4
    <3>2. CASE t.what = "intrq"
      <4>1. e = UpdateIntrq(p, Hd, 1)
        BY <1>3, <3>2 DEF Fire
      <4> HIDE DEF e
      <4>2. But(p, e, {"irq"}) /\ e.irq = 1
        BY <1>7, <1>8, <4>1, IntrqFacts
      <4>3. But(p, e, {"dev", "irq"}) /\ e.dev = p.dev
        BY <4>2 DEF But, IdeFields
      <4> QED BY <1>8, <3>2, <4>2, <4>3 DEF DevBut
    <3> QED BY <1>10, <3>1, <3>2
  <2> HIDE DEF e
  <2>2. /\ But(s, e, {"slow", "irq", "dev"}) /\ DevBut(s, e, Hd, {"status"}) /\ e.slow = <<>> /\ e.fast = s.fast
        /\ e.dev[Cd] = s.dev[Cd] /\ IdeTyped(e) /\ ChanOk(e, h) /\ HostTyped(e, h)
    BY <1>9, <2>1
  <2>3. HdWaits(s, h) /\ (t.what = "intrq" => Asking(s.dev[Hd]))
    BY <1>3, <1>4, <1>10 DEF HdWrittenOut, OneSlow, HdWaits
  <2>4. Asking(e.dev[Hd])
    BY <1>10, <2>1, <2>3
  <2>5. e.dev[Hd].chunk_cnt = Lesser(e.dev[Hd].xfer_cnt, e.dev[Hd].chunk_size)
    BY <2>2, <2>3 DEF DevBut, DevFields, HdWaits
  <2>6. HdReading(e, h) \/ HdWriting(e, h)
    BY <2>2, <2>3, BlockKept DEF HdWaits
  <2>7. HdWaits(e, h)
    BY <2>1, <2>2, <2>4, <2>5, <2>6 DEF HdWaits
  <2>8. IdeOk(e, h)
    BY <1>4, <2>2, <2>7 DEF IdeOk, Phase
  <2> QED BY <2>8 DEF e, p, t
<1>11. CASE t.what = "written"
  <2> DEFINE st == Status(p, Hd) \ {"BSY"}
  <2>1. HdWrittenOut(s, h)
    BY <1>3, <1>4, <1>5, <1>11 DEF HdWaits, OneSlow
  <2>2. e = Announce(p, Hd, st)
    BY <1>3, <1>11 DEF Fire, Announce
  <2>3. "BSY" \notin st /\ "DRQ" \notin st
    BY <1>8, <2>1 DEF HdWrittenOut, Status
  <2> HIDE DEF e, st
  <2>4. /\ But(p, e, {"dev", "irq"}) /\ DevBut(p, e, Hd, {"status"}) /\ Status(e, Hd) = st /\ e.irq = 1
    BY <1>7, <1>8, <2>2, AnnounceFacts
  <2>5. /\ But(s, e, {"slow", "irq", "dev"}) /\ DevBut(s, e, Hd, {"status"}) /\ e.slow = <<>> /\ e.fast = s.fast
        /\ e.dev[Cd] = s.dev[Cd] /\ IdeTyped(e) /\ ChanOk(e, h) /\ HostTyped(e, h)
    BY <1>9, <2>4
  <2>6. Ended(e, h)
    <3>1. Resting(e.dev[Hd])
      <4>1. e.dev[Hd].xfer_cnt = s.dev[Hd].xfer_cnt /\ e.dev[Hd].dma = s.dev[Hd].dma
        BY <2>5 DEF DevBut, DevFields
      <4> QED BY <2>1, <2>3, <2>4, <4>1 DEF HdWrittenOut, Resting, Status
    <3>2. AtRest(e)
      BY <1>5, <2>5, <3>1 DEF AtRest
    <3>3. Outcome(e, h)
      <4>1. e.image = s.image /\ e.memory = s.memory /\ Outcome(s, h)
        BY <2>1, <2>5 DEF But, IdeFields, HdWrittenOut
      <4> QED BY <4>1 DEF Outcome, Complete
    <3> QED BY <2>1, <3>2, <3>3 DEF Ended, HdWrittenOut
  <2>7. IdeOk(e, h)
    BY <1>4, <2>5, <2>6 DEF IdeOk, Phase
  <2> QED BY <2>7 DEF e, p, t
<1>12. t.what \in {"ready", "intrq", "written"}
  BY <1>3 DEF SlowTimers
<1> QED BY <1>10, <1>11, <1>12

-----------------------------------------------------------------------------
(* The driver, between two commands. *)

\* A channel whose driver has no DMA command is stopped, and may stay so.
LEMMA ChanStopped ==
  ASSUME NEW s, NEW e, NEW h, NEW g, ChanOk(s, h), e.chan = s.chan,
         h.st \notin {"setup", "wait", "dmaend"} \/ ~IsDma(h.c)
  PROVE  ChanOk(e, g)
<1>1. ~s.chan.active
  BY DEF ChanOk, IsDma
<1> QED BY <1>1 DEF ChanOk

\* The device is selected, and nothing has been moved.
Begun(s, d) == [WriteDeviceHead(s, d) EXCEPT !.memory = <<>>, !.sent = 0, !.image = <<>>]

LEMMA HeadFacts ==
  ASSUME NEW s, Shape(s), NEW d \in Devs
  PROVE  LET e == Begun(s, d)
         IN  /\ But(s, e, {"cur_dev", "dev", "memory", "sent", "image"})
             /\ e.cur_dev = d /\ e.memory = <<>> /\ e.sent = 0 /\ e.image = <<>>
             /\ \A b \in Devs : /\ e.dev[b].head = d
                                /\ \A x \in DevFields \ {"head"} : e.dev[b][x] = s.dev[b][x]
<1> DEFINE a == WriteDeviceHead(s, d)
           e == [a EXCEPT !.memory = <<>>, !.sent = 0, !.image = <<>>]
           v == [s.dev[Hd] EXCEPT !.head = d]
           w == [s.dev[Cd] EXCEPT !.head = d]
<1>1. Devs = {Hd, Cd} /\ Hd # Cd
  BY DEF Devs, Hd, Cd
<1>2. /\ DOMAIN v = DevFields /\ v.head = d /\ \A x \in DevFields \ {"head"} : v[x] = s.dev[Hd][x]
      /\ DOMAIN w = DevFields /\ w.head = d /\ \A x \in DevFields \ {"head"} : w[x] = s.dev[Cd][x]
  BY <1>1 DEF Shape, DevFields
<1>3. a = [s EXCEPT !.cur_dev = d, !.dev = [@ EXCEPT ![Hd] = v, ![Cd] = w]]
  BY <1>1 DEF WriteDeviceHead, Shape, IdeFields
<1> HIDE DEF v, w, a
<1>4. /\ DOMAIN a = IdeFields /\ a.cur_dev = d /\ \A x \in IdeFields \ {"cur_dev", "dev"} : a[x] = s[x]
      /\ DOMAIN a.dev = Devs /\ a.dev[Hd] = v /\ a.dev[Cd] = w
  BY <1>1, <1>3 DEF Shape, IdeFields
<1>5. /\ DOMAIN e = IdeFields /\ e.memory = <<>> /\ e.sent = 0 /\ e.image = <<>>
      /\ \A x \in IdeFields \ {"memory", "sent", "image"} : e[x] = a[x]
  BY <1>4 DEF IdeFields
<1> HIDE DEF e
<1>6. e.dev = a.dev /\ e.cur_dev = d /\ \A x \in IdeFields \ {"cur_dev", "dev", "memory", "sent", "image"} : e[x] = s[x]
  BY <1>4, <1>5 DEF IdeFields
<1>7. \A b \in Devs : DOMAIN e.dev[b] = DevFields
  BY <1>1, <1>2, <1>4, <1>6
<1>8. e.chan = s.chan
  BY <1>6 DEF IdeFields
<1>9. But(s, e, {"cur_dev", "dev", "memory", "sent", "image"})
  BY <1>4, <1>5, <1>6, <1>7, <1>8 DEF But, Shape
<1>10. \A b \in Devs : e.dev[b].head = d /\ \A x \in DevFields \ {"head"} : e.dev[b][x] = s.dev[b][x]
  BY <1>1, <1>2, <1>4, <1>6
<1> QED BY <1>5, <1>6, <1>9, <1>10 DEF e, a, Begun

LEMMA SetupOk ==
  ASSUME NEW s, NEW h, IdeOk(s, h), h.st = "idle", NEW d \in Devs, NEW c, Chosen(d, c),
         d = Hd => (c.cmd \in {"READ_MULTIPLE", "WRITE_MULTIPLE"} => s.dev[Hd].spi # 0)
  PROVE  IdeOk(Begun(s, d), [IdleHost EXCEPT !.st = "setup", !.c = c, !.dev = d])
<1> DEFINE e == Begun(s, d)
           g == [IdleHost EXCEPT !.st = "setup", !.c = c, !.dev = d]
<1>1. Shape(s) /\ IdeTyped(s) /\ ChanOk(s, h) /\ AtRest(s) /\ s.irq = 0
  BY OkShape DEF IdeOk, Phase
<1>2. /\ But(s, e, {"cur_dev", "dev", "memory", "sent", "image"})
      /\ e.cur_dev = d /\ e.memory = <<>> /\ e.sent = 0 /\ e.image = <<>>
      /\ \A b \in Devs : /\ e.dev[b].head = d
                         /\ \A x \in DevFields \ {"head"} : e.dev[b][x] = s.dev[b][x]
  BY <1>1, HeadFacts
<1>3. DOMAIN g = HostFields /\ g.st = "setup" /\ g.c = c /\ g.dev = d /\ g.got = <<>>
  BY DEF IdleHost, HostFields
<1>4. Devs = {Hd, Cd} /\ Hd # Cd
  BY DEF Devs, Hd, Cd
<1> HIDE DEF e, g
<1>5. /\ DOMAIN e = IdeFields /\ DOMAIN e.dev = Devs /\ \A b \in Devs : DOMAIN e.dev[b] = DevFields
      /\ e.irq = s.irq /\ e.fast = s.fast /\ e.slow = s.slow /\ e.chan = s.chan
  BY <1>2 DEF But, Shape, IdeFields
<1>6. \A b \in Devs : /\ e.dev[b].ien = s.dev[b].ien /\ e.dev[b].dma = s.dev[b].dma
                      /\ e.dev[b].xfer_cnt = s.dev[b].xfer_cnt /\ e.dev[b].spi = s.dev[b].spi
                      /\ e.dev[b].status = s.dev[b].status /\ e.dev[b].remain = s.dev[b].remain
  BY <1>2 DEF DevFields
<1>7. IdeTyped(e)
  BY <1>1, <1>2, <1>4, <1>5, <1>6 DEF IdeTyped, DevTyped
<1>8. ChanOk(e, g)
  BY <1>1, <1>5, ChanStopped
<1>9. HostTyped(e, g)
  <2>1. d = Cd => c.cmd \notin {"READ_MULTIPLE", "WRITE_MULTIPLE"}
    BY <1>4, DriverAssumption DEF Chosen, CdCommands
  <2>2. c.cmd \in {"READ_MULTIPLE", "WRITE_MULTIPLE"} => e.dev[Hd].spi # 0
    BY <1>4, <1>6, <2>1
  <2> QED BY <1>2, <1>3, <1>4, <2>2 DEF HostTyped, Chosen
<1>10. AtRest(e)
  BY <1>1, <1>4, <1>5, <1>6 DEF AtRest, Resting
<1>11. Phase(e, g)
  BY <1>1, <1>2, <1>3, <1>5, <1>10 DEF Phase
<1> QED BY <1>7, <1>8, <1>9, <1>11 DEF IdeOk, e, g

\* The driver starts the DMA channel.
LEMMA DmaStartOk ==
  ASSUME NEW s, NEW h, IdeOk(s, h), IsDma(h.c), h.st \in {"setup", "wait"}, ~h.dma, NEW split \in Splits
  PROVE  IdeOk(ScheduleCmd([s EXCEPT
                 !.chan = [@ EXCEPT !.active = TRUE,
                                    !.kind = IF h.c.cmd = "READ_DMA" THEN "from" ELSE "to",
                                    !.program = IF split = 0 THEN <<Words(h.c)>>
                                                ELSE <<split, Words(h.c) - split>>]]),
               [h EXCEPT !.dma = TRUE])
<1> DEFINE prog == IF split = 0 THEN <<Words(h.c)>> ELSE <<split, Words(h.c) - split>>
           kind == IF h.c.cmd = "READ_DMA" THEN "from" ELSE "to"
           u == [s EXCEPT !.chan = [@ EXCEPT !.active = TRUE, !.kind = kind, !.program = prog]]
           g == [h EXCEPT !.dma = TRUE]
<1>1. Shape(s) /\ ChanOk(s, h) /\ HostTyped(s, h)
  BY OkShape DEF IdeOk
<1>2. h.dev = Hd /\ h.c \in HdCommands
  <2>1. h.dev = Cd => h.c \in Packets
    BY <1>1 DEF HostTyped, Hd, Cd
  <2>2. h.c \notin Packets
    BY DriverAssumption DEF IsDma, CdCommands
  <2> QED BY <1>1, <2>1, <2>2 DEF HostTyped
<1>3. prog \in Seq(Nat)
  <2>1. Words(h.c) \in Nat /\ split \in Nat /\ split <= Words(h.c)
    <3>1. Words(h.c) \in Nat
      BY <1>2, CommandFacts DEF Chosen
    <3>2. split \in Nat /\ split <= h.c.count * SecWords
      BY <1>2, DriverAssumption DEF IsDma, HdReads, HdWrites
    <3> QED BY <3>1, <3>2 DEF Words
  <2>2. Words(h.c) - split \in Nat
    BY <2>1
  <2> QED BY <2>1, <2>2
<1>4. s.chan.dir = "undef"
  BY <1>1 DEF ChanOk
<1> HIDE DEF prog, kind
<1>5. DOMAIN u = IdeFields /\ \A x \in IdeFields \ {"chan"} : u[x] = s[x]
  BY <1>1 DEF Shape, IdeFields
<1>6. /\ DOMAIN u.chan = ChanFields /\ u.chan.active = TRUE /\ u.chan.kind = kind /\ u.chan.program = prog
      /\ u.chan.dir = s.chan.dir /\ u.chan.loop = s.chan.loop /\ u.chan.queue = s.chan.queue
  BY <1>1 DEF Shape, IdeFields, ChanFields
<1>7. /\ DOMAIN g = HostFields /\ g.dma = TRUE /\ g.st = h.st /\ g.c = h.c /\ g.dev = h.dev
      /\ SameHost(h, g)
  BY <1>1 DEF HostTyped, HostFields, SameHost
<1> HIDE DEF u, g
<1>8. But(s, u, {"chan"})
  BY <1>1, <1>5, <1>6 DEF But, Shape, IdeFields
<1>9. ChanOk(u, g)
  BY <1>1, <1>2, <1>3, <1>4, <1>6, <1>7 DEF ChanOk, IsDma, kind
<1>10. IdeOk(u, g)
  BY <1>7, <1>8, <1>9, ChanStep
<1>11. IdeOk(ScheduleCmd(u), g)
  BY <1>10, ScheduleOk
<1> QED BY <1>11 DEF u, g, prog, kind

ControlFields == {"status", "srst", "ien", "head", "io", "cod"}

\* device_set_signature.
LEMMA SignatureFacts ==
  ASSUME NEW s, Shape(s), NEW d \in Devs
  PROVE  LET e == SetSignature(s, d)
         IN  /\ But(s, e, {"dev"}) /\ DevBut(s, e, d, {"status", "head", "io", "cod"})
             /\ e.dev[d].status = {} /\ e.dev[d].head = 0
<1> DEFINE f == [head |-> 0, status |-> {}]
           g == [head |-> 0, status |-> {}, io |-> FALSE, cod |-> TRUE]
           e == SetSignature(s, d)
<1>1. CASE d = Hd
  <2>1. DOMAIN f = {"head", "status"} /\ DOMAIN f \subseteq DevFields /\ f.head = 0 /\ f.status = {}
    BY DEF DevFields
  <2>2. e = Set(s, d, f)
    BY <1>1 DEF SetSignature
  <2> HIDE DEF f, e
  <2>3. But(s, e, {"dev"}) /\ DevBut(s, e, d, DOMAIN f) /\ \A x \in DOMAIN f : e.dev[d][x] = f[x]
    BY <2>1, <2>2, SetFacts
  <2>4. DevBut(s, e, d, {"status", "head", "io", "cod"}) /\ e.dev[d].status = {} /\ e.dev[d].head = 0
    BY <2>1, <2>3 DEF DevBut
  <2> QED BY <2>3, <2>4 DEF e
<1>2. CASE d # Hd
  <2>1. DOMAIN g = {"head", "status", "io", "cod"} /\ DOMAIN g \subseteq DevFields /\ g.head = 0 /\ g.status = {}
    BY DEF DevFields
  <2>2. e = Set(s, d, g)
    BY <1>2 DEF SetSignature
  <2> HIDE DEF g, e
  <2>3. But(s, e, {"dev"}) /\ DevBut(s, e, d, DOMAIN g) /\ \A x \in DOMAIN g : e.dev[d][x] = g[x]
    BY <2>1, <2>2, SetFacts
  <2>4. DevBut(s, e, d, {"status", "head", "io", "cod"}) /\ e.dev[d].status = {} /\ e.dev[d].head = 0
    BY <2>1, <2>3 DEF DevBut
  <2> QED BY <2>3, <2>4 DEF e
<1> QED BY <1>1, <1>2

\* device_control: SRST set, and cleared.
Controlled(s, e, d, srst) ==
    /\ But(s, e, {"dev"}) /\ DevBut(s, e, d, ControlFields)
    /\ e.dev[d].srst = srst /\ e.dev[d].ien = FALSE
    /\ srst => e.dev[d].head = s.dev[d].head
    /\ ~srst => e.dev[d].status = {} /\ e.dev[d].head = 0

LEMMA ControlFacts ==
  ASSUME NEW s, Shape(s), NEW d \in Devs, NEW srst \in BOOLEAN, srst \/ s.dev[d].srst
  PROVE  Controlled(s, DeviceControl(s, d, srst, FALSE), d, srst)
<1> DEFINE e == DeviceControl(s, d, srst, FALSE)
           a == IF srst /\ ~s.dev[d].srst THEN WithStatus(s, d, Status(s, d) \cup {"BSY"})
                ELSE IF s.dev[d].srst /\ ~srst THEN SetSignature(s, d) ELSE s
           f == [srst |-> srst, ien |-> FALSE]
<1>1. /\ But(s, a, {"dev"}) /\ DevBut(s, a, d, ControlFields)
      /\ srst => a.dev[d].head = s.dev[d].head
      /\ ~srst => a.dev[d].status = {} /\ a.dev[d].head = 0
  <2>1. CASE srst /\ ~s.dev[d].srst
    <3>1. a = WithStatus(s, d, Status(s, d) \cup {"BSY"})
      BY <2>1
    <3> HIDE DEF a
    <3>2. But(s, a, {"dev"}) /\ DevBut(s, a, d, {"status"})
      BY <3>1, StatusFacts
    <3> QED BY <2>1, <3>2 DEF DevBut, ControlFields, DevFields
  <2>2. CASE srst /\ s.dev[d].srst
    <3>1. a = s
      BY <2>2
    <3> QED BY <2>2, <3>1 DEF But, DevBut
  <2>3. CASE ~srst
    <3>1. a = SetSignature(s, d)
      BY <2>3
    <3> HIDE DEF a
    <3>2. But(s, a, {"dev"}) /\ DevBut(s, a, d, {"status", "head", "io", "cod"}) /\ a.dev[d].status = {} /\ a.dev[d].head = 0
      BY <3>1, SignatureFacts
    <3> QED BY <2>3, <3>2 DEF DevBut, ControlFields, DevFields
  <2> QED BY <2>1, <2>2, <2>3
<1>2. e = Set(a, d, f)
  BY DEF DeviceControl
<1>3. DOMAIN f = {"srst", "ien"} /\ DOMAIN f \subseteq DevFields /\ f.srst = srst /\ f.ien = FALSE
  BY DEF DevFields
<1> HIDE DEF a, f, e
<1>4. But(a, e, {"dev"}) /\ DevBut(a, e, d, DOMAIN f) /\ \A x \in DOMAIN f : e.dev[d][x] = f[x]
  <2>1. Shape(a)
    BY <1>1 DEF But
  <2> QED BY <1>2, <1>3, <2>1, SetFacts
<1>5. But(s, e, {"dev"})
  BY <1>1, <1>4 DEF But
<1>6. DevBut(s, e, d, ControlFields) /\ e.dev[d].head = a.dev[d].head /\ e.dev[d].status = a.dev[d].status
  BY <1>1, <1>3, <1>4 DEF DevBut, ControlFields, DevFields
<1>7. e.dev[d].srst = srst /\ e.dev[d].ien = FALSE
  BY <1>3, <1>4
<1> QED BY <1>1, <1>5, <1>6, <1>7 DEF e, Controlled

BothControlled(s, e, srst) ==
    /\ But(s, e, {"dev"})
    /\ \A d \in Devs : /\ \A x \in DevFields \ ControlFields : e.dev[d][x] = s.dev[d][x]
                       /\ e.dev[d].srst = srst /\ e.dev[d].ien = FALSE
                       /\ srst => e.dev[d].head = s.dev[d].head
                       /\ ~srst => e.dev[d].status = {} /\ e.dev[d].head = 0

LEMMA WriteControlFacts ==
  ASSUME NEW s, Shape(s), NEW srst \in BOOLEAN, srst \/ (s.dev[Hd].srst /\ s.dev[Cd].srst)
  PROVE  BothControlled(s, WriteDevCtrl(s, srst, FALSE), srst)
<1> DEFINE a == DeviceControl(s, Hd, srst, FALSE)
           e == DeviceControl(a, Cd, srst, FALSE)
<1>1. Hd \in Devs /\ Cd \in Devs /\ Devs = {Hd, Cd} /\ Hd # Cd
  BY DEF Devs, Hd, Cd
<1>2. /\ But(s, a, {"dev"}) /\ DevBut(s, a, Hd, ControlFields)
      /\ a.dev[Hd].srst = srst /\ a.dev[Hd].ien = FALSE
      /\ srst => a.dev[Hd].head = s.dev[Hd].head
      /\ ~srst => a.dev[Hd].status = {} /\ a.dev[Hd].head = 0
  <2>1. Controlled(s, a, Hd, srst)
    BY <1>1, ControlFacts
  <2> QED BY <2>1 DEF Controlled
<1> HIDE DEF a
<1>3. Shape(a) /\ a.dev[Cd] = s.dev[Cd]
  BY <1>1, <1>2 DEF But, DevBut
<1>4. /\ But(a, e, {"dev"}) /\ DevBut(a, e, Cd, ControlFields)
      /\ e.dev[Cd].srst = srst /\ e.dev[Cd].ien = FALSE
      /\ srst => e.dev[Cd].head = a.dev[Cd].head
      /\ ~srst => e.dev[Cd].status = {} /\ e.dev[Cd].head = 0
  <2>1. srst \/ a.dev[Cd].srst
    BY <1>3
  <2>2. Controlled(a, e, Cd, srst)
    BY <1>1, <1>3, <2>1, ControlFacts
  <2> QED BY <2>2 DEF Controlled
<1> HIDE DEF e
<1>5. But(s, e, {"dev"}) /\ e.dev[Hd] = a.dev[Hd]
  BY <1>1, <1>2, <1>4 DEF But, DevBut
<1>6. \A d \in Devs : /\ \A x \in DevFields \ ControlFields : e.dev[d][x] = s.dev[d][x]
                      /\ e.dev[d].srst = srst /\ e.dev[d].ien = FALSE
                      /\ srst => e.dev[d].head = s.dev[d].head
                      /\ ~srst => e.dev[d].status = {} /\ e.dev[d].head = 0
  BY <1>1, <1>2, <1>3, <1>4, <1>5 DEF DevBut
<1> QED BY <1>5, <1>6 DEF e, a, WriteDevCtrl, BothControlled

\* IDE registers after a write to the control register.
ControlsKept(s, e, g, srst) ==
    /\ IdeTyped(e) /\ ChanOk(e, g)
    /\ e.irq = s.irq /\ e.slow = s.slow /\ e.fast = s.fast
    /\ \A d \in Devs : /\ e.dev[d].xfer_cnt = s.dev[d].xfer_cnt /\ e.dev[d].dma = s.dev[d].dma
                       /\ e.dev[d].remain = s.dev[d].remain /\ e.dev[d].srst = srst
                       /\ ~srst => e.dev[d].status = {}

LEMMA ControlTyped ==
  ASSUME NEW s, NEW h, NEW g, IdeOk(s, h), h.st \in {"idle", "reset"}, NEW srst \in BOOLEAN,
         srst \/ (s.dev[Hd].srst /\ s.dev[Cd].srst)
  PROVE  ControlsKept(s, WriteDevCtrl(s, srst, FALSE), g, srst)
<1> DEFINE e == WriteDevCtrl(s, srst, FALSE)
<1>1. Shape(s) /\ IdeTyped(s) /\ ChanOk(s, h)
  BY OkShape DEF IdeOk
<1>2. /\ But(s, e, {"dev"})
      /\ \A d \in Devs : /\ \A x \in DevFields \ ControlFields : e.dev[d][x] = s.dev[d][x]
                         /\ e.dev[d].srst = srst /\ e.dev[d].ien = FALSE
                         /\ srst => e.dev[d].head = s.dev[d].head
                         /\ ~srst => e.dev[d].status = {} /\ e.dev[d].head = 0
  <2>1. BothControlled(s, e, srst)
    BY <1>1, WriteControlFacts
  <2> QED BY <2>1 DEF BothControlled
<1> HIDE DEF e
<1>3. Devs = {Hd, Cd} /\ Hd = 0
  BY DEF Devs, Hd
<1>4. /\ DOMAIN e = IdeFields /\ DOMAIN e.dev = Devs /\ \A d \in Devs : DOMAIN e.dev[d] = DevFields
      /\ e.cur_dev = s.cur_dev /\ e.irq = s.irq /\ e.fast = s.fast /\ e.slow = s.slow /\ e.chan = s.chan
  BY <1>2 DEF But, Shape, IdeFields
<1>5. \A d \in Devs : /\ e.dev[d].xfer_cnt = s.dev[d].xfer_cnt /\ e.dev[d].dma = s.dev[d].dma
                      /\ e.dev[d].remain = s.dev[d].remain /\ e.dev[d].spi = s.dev[d].spi
  BY <1>2 DEF DevFields, ControlFields
<1>6. \A d \in Devs : e.dev[d].head \in {Hd, Cd} /\ e.dev[d].ien = FALSE
  BY <1>1, <1>2, <1>3 DEF IdeTyped, DevTyped
<1>7. IdeTyped(e)
  BY <1>1, <1>3, <1>4, <1>5, <1>6 DEF IdeTyped, DevTyped
<1>8. ChanOk(e, g)
  BY <1>1, <1>4, ChanStopped
<1> QED BY <1>2, <1>4, <1>5, <1>7, <1>8 DEF ControlsKept, e

LEMMA ResetOk ==
  ASSUME NEW s, NEW h, IdeOk(s, h), h.st = "idle"
  PROVE  IdeOk(WriteDevCtrl(s, TRUE, FALSE), [IdleHost EXCEPT !.st = "reset"])
<1> DEFINE e == WriteDevCtrl(s, TRUE, FALSE)
           g == [IdleHost EXCEPT !.st = "reset"]
<1>1. DOMAIN g = HostFields /\ g.st = "reset"
  BY DEF IdleHost, HostFields
<1> HIDE DEF g
<1>2. /\ IdeTyped(e) /\ ChanOk(e, g)
      /\ e.irq = s.irq /\ e.slow = s.slow /\ e.fast = s.fast
      /\ \A d \in Devs : /\ e.dev[d].xfer_cnt = s.dev[d].xfer_cnt /\ e.dev[d].dma = s.dev[d].dma
                         /\ e.dev[d].remain = s.dev[d].remain /\ e.dev[d].srst = TRUE
  <2>1. ControlsKept(s, e, g, TRUE)
    BY ControlTyped
  <2> HIDE DEF e
  <2> QED BY <2>1 DEF ControlsKept
<1> HIDE DEF e
<1>3. AtRest(s) /\ s.irq = 0
  BY DEF IdeOk, Phase
<1>4. HostTyped(e, g)
  BY <1>1 DEF HostTyped
<1>5. Phase(e, g)
  BY <1>1, <1>2, <1>3 DEF Phase, AtRest, Resting, Devs
<1> QED BY <1>2, <1>4, <1>5 DEF IdeOk, e, g

LEMMA ResetEndOk ==
  ASSUME NEW s, NEW h, IdeOk(s, h), h.st = "reset"
  PROVE  IdeOk(WriteDevCtrl(s, FALSE, FALSE), IdleHost)
<1> DEFINE e == WriteDevCtrl(s, FALSE, FALSE)
<1>1. DOMAIN IdleHost = HostFields /\ IdleHost.st = "idle"
  BY DEF IdleHost, HostFields
<1>2. /\ s.dev[Hd].srst = TRUE /\ s.dev[Cd].srst = TRUE /\ s.dev[Hd].xfer_cnt = 0 /\ s.dev[Cd].xfer_cnt = 0
      /\ s.dev[Hd].dma = FALSE /\ s.dev[Cd].remain = 0 /\ s.slow = <<>> /\ NoDone(s.fast) /\ s.irq = 0
  BY DEF IdeOk, Phase
<1>3. s.dev[Cd].dma = FALSE
  BY DEF IdeOk, IdeTyped, DevTyped
<1>4. /\ IdeTyped(e) /\ ChanOk(e, IdleHost)
      /\ e.irq = s.irq /\ e.slow = s.slow /\ e.fast = s.fast
      /\ \A d \in Devs : /\ e.dev[d].xfer_cnt = s.dev[d].xfer_cnt /\ e.dev[d].dma = s.dev[d].dma
                         /\ e.dev[d].remain = s.dev[d].remain /\ e.dev[d].status = {}
  <2>1. ControlsKept(s, e, IdleHost, FALSE)
    BY <1>2, ControlTyped
  <2> HIDE DEF e
  <2> QED BY <2>1 DEF ControlsKept
<1> HIDE DEF e
<1>5. AtRest(e)
  BY <1>2, <1>3, <1>4 DEF AtRest, Resting, Devs
<1>6. HostTyped(e, IdleHost)
  BY <1>1 DEF HostTyped
<1>7. Phase(e, IdleHost)
  BY <1>1, <1>2, <1>4, <1>5 DEF Phase
<1> QED BY <1>4, <1>6, <1>7 DEF IdeOk, e

\* The driver goes on from a command that is done.
LEMMA NextOk ==
  ASSUME NEW s, NEW h, IdeOk(s, h), h.st = "done"
  PROVE  IdeOk([s EXCEPT !.memory = <<>>, !.sent = 0, !.image = <<>>], IdleHost)
<1> DEFINE e == [s EXCEPT !.memory = <<>>, !.sent = 0, !.image = <<>>]
<1>1. Shape(s) /\ IdeTyped(s) /\ ChanOk(s, h) /\ AtRest(s) /\ s.irq = 0
  BY OkShape DEF IdeOk, Phase
<1>2. DOMAIN e = IdeFields /\ \A x \in IdeFields \ {"memory", "sent", "image"} : e[x] = s[x]
  BY <1>1 DEF Shape, IdeFields
<1> HIDE DEF e
<1>3. /\ e.dev = s.dev /\ e.cur_dev = s.cur_dev /\ e.irq = s.irq /\ e.fast = s.fast /\ e.slow = s.slow
      /\ e.chan = s.chan
  BY <1>2 DEF IdeFields
<1>4. IdeTyped(e) /\ AtRest(e)
  BY <1>1, <1>2, <1>3 DEF IdeTyped, AtRest
<1>5. ChanOk(e, IdleHost)
  BY <1>1, <1>3, ChanStopped
<1>6. DOMAIN IdleHost = HostFields /\ IdleHost.st = "idle"
  BY DEF IdleHost, HostFields
<1>7. HostTyped(e, IdleHost) /\ Phase(e, IdleHost)
  BY <1>1, <1>3, <1>4, <1>6 DEF HostTyped, Phase
<1> QED BY <1>4, <1>5, <1>7 DEF IdeOk, e

\* The driver finds out that a command is over without an interrupt.
LEMMA PollOk ==
  ASSUME NEW s, NEW h, IdeOk(s, h), h.st = "wait", h.c.cmd \in {"SILENT", "UNSUPPORTED"}
  PROVE  IdeOk(s, [h EXCEPT !.st = "done"])
<1> DEFINE g == [h EXCEPT !.st = "done"]
<1>1. IdeTyped(s) /\ ChanOk(s, h) /\ HostTyped(s, h) /\ Phase(s, h)
  BY DEF IdeOk
<1>2. DOMAIN g = HostFields /\ g.st = "done" /\ g.c = h.c /\ g.dev = h.dev /\ g.got = h.got
  BY <1>1 DEF HostTyped, HostFields
<1> HIDE DEF g
<1>3. Ended(s, h)
  <2>1. ~HdWaits(s, h) /\ ~HdWrittenOut(s, h) /\ ~HdDma(s, h) /\ ~HdDmaDone(s, h) /\ ~CdWaits(s, h)
    BY DEF HdWaits, HdReading, HdWriting, HdWrittenOut, HdDma, HdDmaDone, IsDma, CdWaits, CdData, Responses
  <2> QED BY <1>1, <2>1 DEF Phase
<1>4. Complete(s, g, g.got)
  BY <1>2, <1>3 DEF Ended, Complete, Outcome, IsDma, HdReads, HdWrites, Responses
<1>5. Phase(s, g)
  BY <1>2, <1>3, <1>4 DEF Phase, Ended
<1>6. ChanOk(s, g)
  BY <1>1, ChanStopped DEF IsDma
<1>7. HostTyped(s, g)
  BY <1>1, <1>2 DEF HostTyped
<1> QED BY <1>1, <1>5, <1>6, <1>7 DEF IdeOk, g

\* A DMA command is over when the channel has stopped.
LEMMA DmaEndOk ==
  ASSUME NEW s, NEW h, IdeOk(s, h), h.st = "dmaend", ~s.chan.active
  PROVE  IdeOk(s, [h EXCEPT !.st = "done", !.got = s.memory])
<1> DEFINE g == [h EXCEPT !.st = "done", !.got = s.memory]
<1>1. IdeTyped(s) /\ ChanOk(s, h) /\ HostTyped(s, h) /\ Phase(s, h)
  BY DEF IdeOk
<1>2. DOMAIN g = HostFields /\ g.st = "done" /\ g.c = h.c /\ g.dev = h.dev /\ g.got = s.memory
  BY <1>1 DEF HostTyped, HostFields
<1> HIDE DEF g
<1>3. AtRest(s) /\ s.irq = 0 /\ Complete(s, g, g.got)
  BY <1>1, <1>2 DEF Phase, Outcome, Complete
<1>4. HostTyped(s, g) /\ Phase(s, g) /\ ChanOk(s, g)
  BY <1>1, <1>2, <1>3 DEF HostTyped, Phase, ChanOk
<1> QED BY <1>1, <1>4 DEF IdeOk, g

-----------------------------------------------------------------------------
(* The CD-ROM's data. *)

LEMMA MultipleMinus ==
  ASSUME NEW a \in Nat, NEW b \in Nat, Multiple(a), Multiple(b), b <= a
  PROVE  Multiple(a - b)
<1>1. SecWords \in Nat \ {0}
  BY AtaSizes
<1>2. PICK m \in 0 .. a : a = m * SecWords
  BY DEF Multiple
<1>3. PICK l \in 0 .. b : b = l * SecWords
  BY DEF Multiple
<1>4. l <= m
  <2> SUFFICES ASSUME l >= m + 1 PROVE FALSE
    OBVIOUS
  <2>1. l * SecWords >= (m + 1) * SecWords
    BY <1>1
  <2>2. (m + 1) * SecWords = m * SecWords + SecWords
    BY <1>1
  <2> QED BY <1>1, <1>2, <1>3, <2>1, <2>2
<1>5. m - l \in Nat /\ a - b = (m - l) * SecWords
  BY <1>1, <1>2, <1>3, <1>4
<1>6. m - l <= a - b /\ a - b \in Nat
  BY <1>1, <1>5
<1> QED BY <1>5, <1>6 DEF Multiple

LEMMA MultipleFacts ==
  /\ \A n \in Nat : Multiple(n * SecWords) /\ Multiple(0)
  /\ \A a \in Nat, b \in Nat : Multiple(a) /\ Multiple(b) /\ b <= a => Multiple(a - b)
  /\ \A a \in Nat : Multiple(a) => (a \div SecWords) * SecWords = a
<1>1. SecWords \in Nat \ {0}
  BY AtaSizes
<1>2. ASSUME NEW n \in Nat PROVE Multiple(n * SecWords)
  <2>1. n <= n * SecWords /\ n * SecWords \in Nat
    BY <1>1
  <2> QED BY <2>1 DEF Multiple
<1>3. Multiple(0)
  <2>1. 0 * SecWords = 0
    BY <1>1
  <2> QED BY <2>1 DEF Multiple
<1>4. \A a \in Nat, b \in Nat : Multiple(a) /\ Multiple(b) /\ b <= a => Multiple(a - b)
  BY MultipleMinus
<1>5. ASSUME NEW a \in Nat, Multiple(a) PROVE (a \div SecWords) * SecWords = a
  <2>1. PICK m \in 0 .. a : a = m * SecWords
    BY <1>5 DEF Multiple
  <2>2. a \div SecWords = m
    BY <1>1, <2>1
  <2> QED BY <2>1, <2>2
<1> QED BY <1>2, <1>3, <1>4, <1>5

LEMMA MultipleLesser ==
  ASSUME NEW a \in Nat, NEW b \in Nat, Multiple(a), Multiple(b)
  PROVE  Multiple(Lesser(a, b))
BY DEF Lesser

\* read_begin and read_more put size words of the medium into the buffer.
Delivered(s, e, size, remain) ==
    /\ But(s, e, {"dev"}) /\ DevBut(s, e, Cd, {"buf", "xfer_cnt", "byte_count", "remain", "pos"})
    /\ e.dev[Cd].buf = Addresses(s.dev[Cd].pos, size) /\ e.dev[Cd].xfer_cnt = size /\ e.dev[Cd].byte_count = size
    /\ e.dev[Cd].remain = remain /\ e.dev[Cd].pos = s.dev[Cd].pos + size

LEMMA DeliverFacts ==
  ASSUME NEW s, Shape(s), s.dev[Cd].pos \in Nat, NEW size \in Nat, Multiple(size), NEW remain
  PROVE  Delivered(s, Deliver(s, size, remain), size, remain)
<1> DEFINE e == Deliver(s, size, remain)
           pos == s.dev[Cd].pos
           f == [buf |-> Addresses(pos, size), xfer_cnt |-> size, byte_count |-> size, remain |-> remain,
                 pos |-> pos + size]
<1>1. (size \div SecWords) * SecWords = size
  BY MultipleFacts
<1>2. Addresses(pos, size) \o [i \in 1 .. (size - size) |-> NoData] = Addresses(pos, size)
  <2>1. [i \in 1 .. (size - size) |-> NoData] = <<>>
    <3>1. size - size = 0
      OBVIOUS
    <3>2. [i \in 1 .. 0 |-> NoData] = <<>>
      OBVIOUS
    <3> QED BY <3>1, <3>2
  <2>2. Addresses(pos, size) \in Seq(WordSet)
    BY AddressFacts
  <2> QED BY <2>1, <2>2, ConcatEmptySeq
<1>3. e = Set(s, Cd, f)
  BY <1>1, <1>2 DEF Deliver
<1>4. DOMAIN f = {"buf", "xfer_cnt", "byte_count", "remain", "pos"} /\ DOMAIN f \subseteq DevFields /\ Cd \in Devs
  BY DEF DevFields, Devs
<1>5. /\ f.buf = Addresses(pos, size) /\ f.xfer_cnt = size /\ f.byte_count = size /\ f.remain = remain
      /\ f.pos = pos + size
  OBVIOUS
<1> HIDE DEF e, f
<1>6. But(s, e, {"dev"}) /\ DevBut(s, e, Cd, DOMAIN f) /\ \A x \in DOMAIN f : e.dev[Cd][x] = f[x]
  BY <1>3, <1>4, SetFacts
<1> QED BY <1>4, <1>5, <1>6 DEF Delivered, e

\* The device waits for the driver to take the data.
Presented(s, e) ==
    /\ But(s, e, {"dev", "irq"}) /\ DevBut(s, e, Cd, {"io", "cod", "status"})
    /\ InPhase(e.dev[Cd]) /\ Asking(e.dev[Cd]) /\ e.irq = 1

LEMMA InPhaseFacts ==
  ASSUME NEW s, Shape(s), s.dev[Cd].ien = FALSE, s.dev[Cd].head = Cd
  PROVE  Presented(s, DataInPhase(s))
<1> DEFINE f == [io |-> TRUE, cod |-> FALSE]
           a == Set(s, Cd, f)
           st == (Status(a, Cd) \cup {"DRQ"}) \ {"BSY"}
           e == Announce(a, Cd, st)
<1>1. DOMAIN f = {"io", "cod"} /\ DOMAIN f \subseteq DevFields /\ Cd \in Devs /\ f.io = TRUE /\ f.cod = FALSE
  BY DEF DevFields, Devs
<1>2. DataInPhase(s) = e
  BY DEF DataInPhase, SignalDataReady, Announce
<1>3. "DRQ" \in st /\ "BSY" \notin st
  OBVIOUS
<1> HIDE DEF a, f, st
<1>4. But(s, a, {"dev"}) /\ DevBut(s, a, Cd, DOMAIN f) /\ \A x \in DOMAIN f : a.dev[Cd][x] = f[x]
  BY <1>1, SetFacts DEF a
<1>5. Shape(a) /\ a.dev[Cd].ien = FALSE /\ a.dev[Cd].head = Cd /\ InPhase(a.dev[Cd])
  BY <1>1, <1>4 DEF But, DevBut, DevFields, InPhase
<1>6. But(a, e, {"dev", "irq"}) /\ DevBut(a, e, Cd, {"status"}) /\ Status(e, Cd) = st /\ e.irq = 1
  BY <1>1, <1>5, AnnounceFacts
<1> HIDE DEF e
<1>7. But(s, e, {"dev", "irq"}) /\ DevBut(s, e, Cd, {"io", "cod", "status"})
  BY <1>1, <1>4, <1>6 DEF But, DevBut
<1>8. InPhase(e.dev[Cd]) /\ Asking(e.dev[Cd])
  BY <1>3, <1>5, <1>6 DEF InPhase, Asking, DevBut, DevFields, Status
<1> QED BY <1>2, <1>6, <1>7, <1>8 DEF Presented

-----------------------------------------------------------------------------
(* The driver reads the status. *)

LEMMA RunningFacts ==
  ASSUME NEW s, NEW h, IdeOk(s, h), h.st \in Running
  PROVE  /\ Shape(s) /\ IdeTyped(s) /\ ChanOk(s, h) /\ HostTyped(s, h) /\ Chosen(h.dev, h.c)
         /\ h.dev \in Devs /\ Hd \in Devs /\ Cd \in Devs /\ Hd # Cd /\ Devs = {Hd, Cd} /\ s.cur_dev = h.dev
         /\ \A d \in Devs : s.dev[d].head = h.dev /\ s.dev[d].ien = FALSE
         /\ DOMAIN h = HostFields
<1>1. IdeTyped(s) /\ ChanOk(s, h) /\ HostTyped(s, h)
  BY DEF IdeOk
<1>2. Shape(s)
  BY OkShape
<1>3. Devs = {Hd, Cd} /\ Hd # Cd
  BY DEF Devs, Hd, Cd
<1>4. h.st \notin {"idle", "reset"}
  BY DEF Running
<1>5. Chosen(h.dev, h.c) /\ h.dev \in Devs /\ s.cur_dev = h.dev /\ DOMAIN h = HostFields
  BY <1>1, <1>3, <1>4 DEF HostTyped, Chosen
<1>6. \A d \in Devs : s.dev[d].head = h.dev /\ s.dev[d].ien = FALSE
  BY <1>1, <1>3, <1>4 DEF HostTyped, IdeTyped, DevTyped
<1> QED BY <1>1, <1>2, <1>3, <1>5, <1>6

\* Reading the status takes the interrupt back.
LEMMA LineDown ==
  ASSUME NEW s, NEW h, IdeOk(s, h), NEW g, Onward(s, h, g)
  PROVE  LET r == UpdateIntrq(s, h.dev, 0)
         IN  But(s, r, {"irq"}) /\ r.irq = 0 /\ IdeTyped(r) /\ ChanOk(r, g) /\ HostTyped(r, g)
<1> DEFINE r == UpdateIntrq(s, h.dev, 0)
           d == h.dev
<1>0. h.st \in Running
  BY DEF Onward
<1>1. /\ Shape(s) /\ IdeTyped(s) /\ d \in Devs /\ Devs = {Hd, Cd}
      /\ s.dev[d].head = d /\ s.dev[d].ien = FALSE
  BY <1>0, RunningFacts
<1>2. But(s, r, {"irq"}) /\ r.irq = 0
  BY <1>1, IntrqFacts
<1> HIDE DEF r
<1>3. r.dev = s.dev /\ r.fast = s.fast /\ r.slow = s.slow
  BY <1>2 DEF But, IdeFields
<1>4. StepOf(s, r, h, g, d)
  <2>1. But(s, r, IdeFields \ Kept) /\ DevBut(s, r, d, Working)
    BY <1>2, <1>3 DEF But, DevBut, IdeFields, Kept
  <2>2. DevTyped(s.dev[d]) /\ (d = Cd => s.dev[d].dma = FALSE)
    BY <1>1 DEF IdeTyped
  <2> HIDE DEF d
  <2> QED BY <1>1, <1>2, <1>3, <2>1, <2>2 DEF StepOf, IdeTyped, DevTyped
<1>5. IdeTyped(r) /\ ChanOk(r, g) /\ HostTyped(r, g)
  BY <1>1, <1>4, StepTyped
<1> QED BY <1>2, <1>5 DEF r

\* The disk asks for a block: the driver moves as many words as the disk expects.
LEMMA BlockSize ==
  ASSUME NEW s, NEW h, IdeOk(s, h), h.st \in Running, HdWaits(s, h)
  PROVE  /\ HdWriting(s, h) => Lesser(Words(h.c) - s.sent, BlockOf(s, h.c)) = s.dev[Hd].chunk_cnt
         /\ HdReading(s, h) /\ h.c.cmd # "IDENTIFY" =>
               Lesser(Words(h.c) - Len(h.got), BlockOf(s, h.c)) = s.dev[Hd].chunk_cnt
         /\ HdReading(s, h) /\ h.c.cmd = "IDENTIFY" => s.dev[Hd].chunk_cnt = RespWords
<1> DEFINE v == s.dev[Hd]
           c == h.c
<1>1. HdBlocks(s, h) /\ v.chunk_cnt = Lesser(v.xfer_cnt, v.chunk_size)
  BY DEF HdWaits, HdReading, HdWriting
<1>2. v.xfer_cnt \in 1 .. Total(c) /\ v.chunk_size = BlockOf(s, c) /\ v.chunk_size \in Nat \ {0}
  BY <1>1 DEF HdBlocks, HdTransfer
<1>3. Words(c) = Size(c) /\ Size(c) \in Nat /\ Total(c) \in Nat
  BY RunningFacts, CommandFacts
<1>4. Part(v) = 0
  BY <1>1, <1>2, <1>3 DEF Part, Lesser
<1>5. ASSUME HdWriting(s, h) PROVE Lesser(Words(c) - s.sent, BlockOf(s, c)) = v.chunk_cnt
  <2>1. Total(c) = Size(c)
    BY <1>5 DEF HdWriting, Total, Responses
  <2>2. s.sent = (Size(c) - v.xfer_cnt) + Part(v)
    BY <1>5 DEF HdWriting
  <2>3. Words(c) - s.sent = v.xfer_cnt
    BY <1>2, <1>3, <1>4, <2>1, <2>2
  <2> QED BY <1>1, <1>2, <2>3
<1>6. ASSUME HdReading(s, h), c.cmd # "IDENTIFY" PROVE Lesser(Words(c) - Len(h.got), BlockOf(s, c)) = v.chunk_cnt
  <2>1. Total(c) = Size(c)
    BY <1>6 DEF HdReading, Total, Responses
  <2>2. Len(h.got) = (Size(c) - v.xfer_cnt) + Part(v)
    BY <1>6, <2>1 DEF HdReading, Piece
  <2>3. Words(c) - Len(h.got) = v.xfer_cnt
    BY <1>2, <1>3, <1>4, <2>1, <2>2
  <2> QED BY <1>1, <1>2, <2>3
<1>7. ASSUME HdReading(s, h), c.cmd = "IDENTIFY" PROVE v.chunk_cnt = RespWords
  BY <1>1, <1>2, <1>7, AtaSizes DEF HdReading, BlockOf, Lesser
<1> QED BY <1>5, <1>6, <1>7

LEMMA BlockBegins ==
  ASSUME NEW s, NEW h, IdeOk(s, h), h.st = "wait", HdWaits(s, h), s.irq = 1, NEW g, Onward(s, h, g),
         g.got = h.got, g.left = s.dev[Hd].chunk_cnt, g.st = IF IsOut(h.c) THEN "out" ELSE "in"
  PROVE  IdeOk(UpdateIntrq(s, Hd, 0), g)
<1> DEFINE r == UpdateIntrq(s, Hd, 0)
<1>1. h.dev = Hd /\ Hd \in Devs
  BY DEF HdWaits, HdReading, HdWriting, HdBlocks, HdTransfer, Devs
<1>2. But(s, r, {"irq"}) /\ r.irq = 0 /\ IdeTyped(r) /\ ChanOk(r, g) /\ HostTyped(r, g)
  BY <1>1, LineDown
<1> HIDE DEF r
<1>3. But(s, r, {"slow", "irq", "dev"}) /\ DevBut(s, r, Hd, {"status"}) /\ r.dev = s.dev /\ r.slow = s.slow
  BY <1>2 DEF But, DevBut, IdeFields
<1>4. s.slow = <<>> /\ Asking(s.dev[Hd])
  BY DEF HdWaits
<1>5. /\ HdReading(s, h) => HdReading(r, g)
      /\ HdWriting(s, h) => HdWriting(r, g)
  BY <1>3, BlockKept DEF Onward
<1>6. (HdReading(s, h) => ~IsOut(h.c)) /\ (HdWriting(s, h) => IsOut(h.c))
  BY DEF HdReading, HdWriting, IsOut
<1>7. HdMoves(r, g)
  BY <1>2, <1>3, <1>4, <1>5, <1>6 DEF HdMoves, HdWaits
<1>8. Phase(r, g)
  BY <1>7 DEF Phase
<1> QED BY <1>2, <1>8 DEF IdeOk, r

\* No data: the command is over.
LEMMA EndNoticed ==
  ASSUME NEW s, NEW h, IdeOk(s, h), h.st = "wait", Ended(s, h), NEW g, Onward(s, h, g),
         g.got = h.got, g.st = IF IsDma(h.c) THEN "dmaend" ELSE "done"
  PROVE  IdeOk(UpdateIntrq(s, h.dev, 0), g)
<1> DEFINE r == UpdateIntrq(s, h.dev, 0)
<1>1. But(s, r, {"irq"}) /\ r.irq = 0 /\ IdeTyped(r) /\ ChanOk(r, g) /\ HostTyped(r, g)
  BY LineDown
<1> HIDE DEF r
<1>2. r.dev = s.dev /\ r.slow = s.slow /\ r.fast = s.fast /\ r.image = s.image /\ r.memory = s.memory
  BY <1>1 DEF But, IdeFields
<1>3. AtRest(r) /\ Outcome(r, g)
  BY <1>2 DEF Ended, AtRest, Outcome, Complete, Onward
<1>4. Phase(r, g)
  BY <1>1, <1>3 DEF Phase, Outcome, Onward
<1> QED BY <1>1, <1>4 DEF IdeOk, r

\* The CD-ROM has data in its buffer.
LEMMA CdDataAsked ==
  ASSUME NEW s, NEW h, IdeOk(s, h), h.st = "wait", CdWaits(s, h), s.dev[Cd].xfer_cnt # 0, NEW g, Onward(s, h, g),
         g.got = h.got, g.st = "in", g.left = IF h.c.cmd = "IDENTIFY" THEN RespWords ELSE s.dev[Cd].byte_count
  PROVE  IdeOk(UpdateIntrq(s, Cd, 0), g)
<1> DEFINE r == UpdateIntrq(s, Cd, 0)
<1>1. h.dev = Cd /\ CdData(s, h)
  BY DEF CdWaits, CdData, CdSide
<1>2. But(s, r, {"irq"}) /\ r.irq = 0 /\ IdeTyped(r) /\ ChanOk(r, g) /\ HostTyped(r, g)
  BY <1>1, LineDown
<1> HIDE DEF r
<1>3. r.dev = s.dev /\ r.slow = s.slow /\ r.fast = s.fast
  BY <1>2 DEF But, IdeFields
<1>4. CdData(r, g)
  BY <1>1, <1>3 DEF CdData, CdSide, Onward
<1>5. Asking(s.dev[Cd]) /\ g.left = s.dev[Cd].xfer_cnt
  BY DEF CdWaits
<1>6. Phase(r, g)
  BY <1>2, <1>3, <1>4, <1>5 DEF Phase, CdMoves
<1> QED BY <1>2, <1>6 DEF IdeOk, r

\* The words that read_begin and read_more put into the buffer are the next ones.
LEMMA NextWords ==
  ASSUME NEW c, Chosen(Cd, c), c.cmd \in {"READ", "READ_CD"}, NEW k \in Nat, NEW size \in Nat,
         k + size <= Size(c), NEW pos, pos = First(c) + k
  PROVE  Piece(Answered(c), k, size, Addresses(pos, size))
<1>1. First(c) \in Nat /\ Size(c) \in Nat
  BY CommandFacts
<1>2. Answered(c) = Addresses(First(c), Size(c))
  BY DEF Answered, Responses
<1> QED BY <1>1, <1>2, PieceAddress

CacheWords == CacheSecs * SecWords

LEMMA CacheFacts == CacheWords \in Nat \ {0} /\ Multiple(CacheWords)
<1>1. CacheSecs \in Nat \ {0} /\ SecWords \in Nat \ {0}
  BY AtaSizes
<1>2. CacheWords \in Nat \ {0}
  BY <1>1 DEF CacheWords
<1> QED BY <1>1, <1>2, MultipleFacts DEF CacheWords

\* The driver reads the status of a CD-ROM that has emptied its buffer but not
\* the request: it refills the buffer.
LEMMA CdRefillAsked ==
  ASSUME NEW s, NEW h, IdeOk(s, h), h.st = "wait", CdWaits(s, h), s.dev[Cd].xfer_cnt = 0, NEW g, Onward(s, h, g),
         g.got = h.got, g.st = "in", NEW e, e = DataInPhase(RequestData(UpdateIntrq(s, Cd, 0))),
         g.left = IF h.c.cmd = "IDENTIFY" THEN RespWords ELSE e.dev[Cd].byte_count
  PROVE  IdeOk(e, g) /\ Asking(e.dev[Cd])
<1> DEFINE r == UpdateIntrq(s, Cd, 0)
           u == s.dev[Cd]
           c == h.c
           k == Len(h.got)
           size == Lesser(u.remain, CacheWords)
           b == Deliver(r, size, u.remain - size)
<1>1. h.dev = Cd /\ CdData(s, h) /\ u.remain # 0
  BY DEF CdWaits, CdData, CdSide
<1>2. /\ Shape(s) /\ IdeTyped(s) /\ Chosen(Cd, c) /\ Hd \in Devs /\ Cd \in Devs /\ Hd # Cd /\ Devs = {Hd, Cd}
      /\ u.head = Cd /\ u.ien = FALSE
  BY <1>1, RunningFacts, ZenonT(30) DEF Running
<1>3. But(s, r, {"irq"}) /\ r.irq = 0
  BY <1>1, LineDown
<1> HIDE DEF r
<1>4. Shape(r) /\ r.dev = s.dev /\ r.slow = s.slow /\ r.fast = s.fast
  BY <1>3 DEF But, IdeFields
<1>5. /\ c.cmd \in {"READ", "READ_CD"} /\ u.remain \in Nat /\ k + u.remain = Total(c)
      /\ u.pos = First(c) + k /\ Multiple(u.remain) /\ u.expected = TRUE
      /\ Piece(Answered(c), 0, k, h.got) /\ k \in Nat
  <2>1. c.cmd \in {"READ", "READ_CD"}
    BY <1>1 DEF CdData
  <2>2. k \in Nat
    BY <1>1 DEF CdData, Piece
  <2>3. First(c) \in Nat
    BY <1>2, CommandFacts
  <2>4. u.pos = First(c) + k + u.xfer_cnt /\ k + u.xfer_cnt + u.remain = Total(c)
    BY <1>1, <2>1 DEF CdData, Responses
  <2>5. u.xfer_cnt = 0 /\ u.remain \in Nat
    BY <1>1 DEF CdData
  <2>6. k + u.remain = Total(c) /\ u.pos = First(c) + k
    BY <2>2, <2>3, <2>4, <2>5
  <2>7. Multiple(u.remain) /\ Piece(Answered(c), 0, k, h.got)
    BY <1>1, <2>1 DEF CdData, Responses
  <2>8. c.cmd # "IDENTIFY"
    BY <2>1
  <2>9. u.expected = (c.cmd # "IDENTIFY")
    BY <1>1 DEF CdData
  <2>10. u.expected = TRUE
    BY <2>8, <2>9, Zenon
  <2> QED BY <2>1, <2>2, <2>5, <2>6, <2>7, <2>10
<1>6. Total(c) = Size(c) /\ First(c) \in Nat /\ Size(c) \in Nat
  BY <1>2, <1>5, CommandFacts DEF Total, Responses
<1>7. size \in Nat \ {0} /\ size <= u.remain /\ Multiple(size) /\ u.remain - size \in Nat /\ Multiple(u.remain - size)
  BY <1>1, <1>5, CacheFacts, MultipleFacts DEF Lesser
<1>8. Delivered(r, b, size, u.remain - size)
  <2>1. r.dev[Cd].pos \in Nat
    BY <1>4, <1>5, <1>6
  <2> HIDE DEF size
  <2> QED BY <1>4, <1>7, <2>1, DeliverFacts
<1>9. RequestData(r) = b
  BY <1>4 DEF RequestData, CacheWords
<1> HIDE DEF b, size
<1>10. /\ But(r, b, {"dev"}) /\ DevBut(r, b, Cd, {"buf", "xfer_cnt", "byte_count", "remain", "pos"})
       /\ b.dev[Cd].buf = Addresses(u.pos, size) /\ b.dev[Cd].xfer_cnt = size /\ b.dev[Cd].byte_count = size
       /\ b.dev[Cd].remain = u.remain - size /\ b.dev[Cd].pos = u.pos + size
  BY <1>4, <1>8 DEF Delivered
<1>11. Shape(b) /\ b.dev[Cd].ien = FALSE /\ b.dev[Cd].head = Cd
  BY <1>2, <1>4, <1>10 DEF But, DevBut, DevFields
<1>12. Presented(b, e)
  BY <1>9, <1>11, InPhaseFacts DEF r
<1>13. /\ But(b, e, {"dev", "irq"}) /\ DevBut(b, e, Cd, {"io", "cod", "status"})
       /\ InPhase(e.dev[Cd]) /\ Asking(e.dev[Cd]) /\ e.irq = 1
  BY <1>12 DEF Presented
<1>14. But(s, e, {"dev", "irq"}) /\ e.slow = s.slow /\ e.fast = s.fast
  BY <1>3, <1>10, <1>13 DEF But, IdeFields
<1>15. /\ DevBut(s, e, Cd, {"buf", "xfer_cnt", "byte_count", "remain", "pos", "io", "cod", "status"})
       /\ e.dev[Cd].buf = Addresses(u.pos, size) /\ e.dev[Cd].xfer_cnt = size /\ e.dev[Cd].byte_count = size
       /\ e.dev[Cd].remain = u.remain - size /\ e.dev[Cd].pos = u.pos + size
       /\ e.dev[Cd].dma = u.dma /\ e.dev[Cd].spi = u.spi /\ e.dev[Cd].expected = u.expected /\ e.dev[Hd] = s.dev[Hd]
  BY <1>2, <1>4, <1>10, <1>13 DEF DevBut, DevFields
<1>16. StepOf(s, e, h, g, Cd)
  <2>1. But(s, e, IdeFields \ Kept) /\ DevBut(s, e, Cd, Working)
    BY <1>14, <1>15 DEF But, DevBut, IdeFields, Kept, Working
  <2>2. e.irq \in {0, 1} /\ e.fast \in Seq(FastTimers) /\ e.slow \in Seq(SlowTimers)
    BY <1>2, <1>13, <1>14 DEF IdeTyped
  <2>3. e.dev[Cd].dma = FALSE /\ e.dev[Cd].spi \in Nat /\ e.dev[Cd].xfer_cnt \in Nat
    BY <1>2, <1>7, <1>15, Zenon DEF IdeTyped, DevTyped
  <2> QED BY <1>15, <2>1, <2>2, <2>3 DEF StepOf
<1>17. IdeTyped(e) /\ ChanOk(e, g) /\ HostTyped(e, g)
  BY <1>2, <1>16, StepTyped
<1>18. Piece(Answered(c), k, size, e.dev[Cd].buf)
  <2>1. k + size <= Size(c) /\ size \in Nat
    BY <1>5, <1>6, <1>7
  <2> QED BY <1>2, <1>5, <1>15, <2>1, NextWords
<1>19. CdData(e, g)
  <2>1. CdSide(e, g)
    BY <1>1, <1>14, <1>15 DEF CdData, CdSide, Onward
  <2>2. g.c = c /\ g.got = h.got
    BY DEF Onward
  <2>3. k + size + (u.remain - size) = Total(c) /\ u.pos + size = First(c) + k + size
    BY <1>5, <1>6, <1>7, SMTT(30)
  <2>4. e.dev[Cd].expected = (c.cmd # "IDENTIFY")
    BY <1>5, <1>15
  <2> QED BY <1>5, <1>7, <1>13, <1>15, <1>18, <2>1, <2>2, <2>3, <2>4 DEF CdData, Responses
<1>20. g.left = e.dev[Cd].xfer_cnt
  BY <1>5, <1>15
<1>21. CdMoves(e, g)
  BY <1>5, <1>7, <1>13, <1>15, <1>19, <1>20 DEF CdMoves, Onward
<1>22. Phase(e, g)
  BY <1>21 DEF Phase
<1> QED BY <1>13, <1>17, <1>22 DEF IdeOk

-----------------------------------------------------------------------------
(* The steps of the driver. *)

Gone(h, st, left, got) == [h EXCEPT !.st = st, !.left = left, !.got = got]

\* A driver that goes on with its command, and not past a DMA transfer.
LEMMA GoesOn ==
  ASSUME NEW s, NEW h, IdeOk(s, h), h.st \in Running, NEW st \in Running, NEW left, NEW got,
         st \in {"setup", "wait", "dmaend"} \/ ~IsDma(h.c), NEW g, g = Gone(h, st, left, got)
  PROVE  /\ Onward(s, h, g) /\ g.st = st /\ g.left = left /\ g.got = got
         /\ g.c = h.c /\ g.dev = h.dev /\ DOMAIN g = HostFields
<1>1. DOMAIN h = HostFields /\ ChanOk(s, h)
  BY RunningFacts
<1>2. DOMAIN g = HostFields /\ g.st = st /\ g.c = h.c /\ g.dev = h.dev /\ g.dma = h.dma /\ g.left = left /\ g.got = got
  BY <1>1 DEF HostFields, Gone
<1>3. s.chan.active => st \in {"setup", "wait", "dmaend"}
  BY <1>1 DEF ChanOk, IsDma
<1> QED BY <1>2, <1>3 DEF Onward

\* The driver looks at the status of the disk: a block, or the end.
LEMMA BlockNoticed ==
  ASSUME IdeOk(ide, host), HostInterrupt, HdWaits(ide, host)
  PROVE  IdeOk(ide', host')
<1> DEFINE r == UpdateIntrq(ide, Hd, 0)
           c == host.c
<1>1. host.st = "wait" /\ ide.irq = 1 /\ host.st \in Running
  BY DEF HostInterrupt, Running
<1>2. host.dev = Hd /\ c.cmd \in {"READ_SECTOR", "READ_MULTIPLE", "IDENTIFY", "WRITE_SECTOR", "WRITE_MULTIPLE"}
      /\ Asking(ide.dev[Hd])
  BY <1>1 DEF HdWaits, HdReading, HdWriting, HdBlocks, HdTransfer
<1>3. Shape(ide) /\ ide.cur_dev = Hd /\ ide.dev[Hd].ien = FALSE /\ ide.dev[Hd].head = Hd /\ Hd \in Devs /\ Hd # Cd
  BY <1>1, <1>2, RunningFacts
<1>4. But(ide, r, {"irq"})
  BY <1>3, IntrqFacts
<1>5. ReadStatus(ide) = r
  BY <1>3 DEF ReadStatus
<1> HIDE DEF r
<1>6. r.dev = ide.dev /\ r.cur_dev = Hd
  BY <1>3, <1>4 DEF But, IdeFields
<1>7. "DRQ" \in Status(r, r.cur_dev)
  BY <1>2, <1>6 DEF Asking, Status
<1>8. ide' = r
  BY <1>5 DEF HostInterrupt
<1>9. c.cmd # "IDENTIFY" => Block(c) = BlockOf(ide, c)
  BY <1>2 DEF Block, BlockOf
<1>10. (HdReading(ide, host) /\ c.cmd \in {"READ_SECTOR", "READ_MULTIPLE", "IDENTIFY"})
       \/ (HdWriting(ide, host) /\ c.cmd \in {"WRITE_SECTOR", "WRITE_MULTIPLE"})
  BY DEF HdWaits, HdReading, HdWriting
<1>11. CASE HdWriting(ide, host) /\ c.cmd \in {"WRITE_SECTOR", "WRITE_MULTIPLE"}
  <2>1. IsOut(c)
    BY <1>11 DEF IsOut
  <2> DEFINE left == Lesser(Words(c) - r.sent, Block(c))
             g == [host EXCEPT !.st = "out", !.left = left]
  <2>2. host' = g
    BY <1>2, <1>3, <1>5, <1>7, <2>1 DEF HostInterrupt
  <2>3. left = ide.dev[Hd].chunk_cnt
    BY <1>1, <1>4, <1>9, <1>11, BlockSize DEF But, IdeFields
  <2> HIDE DEF left
  <2>4. g = Gone(host, "out", left, host.got)
    BY <1>1, RunningFacts DEF HostFields, Gone
  <2> HIDE DEF g
  <2>5. ~IsDma(c) /\ "out" \in Running
    BY <1>2 DEF IsDma, Running
  <2>6. Onward(ide, host, g) /\ g.st = "out" /\ g.left = left /\ g.got = host.got
    BY <1>1, <2>4, <2>5, GoesOn
  <2> QED BY <1>1, <1>8, <2>1, <2>2, <2>3, <2>6, BlockBegins DEF r
<1>12. CASE HdReading(ide, host) /\ c.cmd \in {"READ_SECTOR", "READ_MULTIPLE", "IDENTIFY"}
  <2>1. ~IsOut(c)
    BY <1>12 DEF IsOut
  <2> DEFINE left == IF c.cmd = "IDENTIFY" THEN RespWords ELSE Lesser(Words(c) - Len(host.got), Block(c))
             g == [host EXCEPT !.st = "in", !.left = left]
  <2>2. host' = g
    BY <1>2, <1>3, <1>5, <1>7, <2>1 DEF HostInterrupt
  <2>3. left = ide.dev[Hd].chunk_cnt
    BY <1>1, <1>9, <1>12, BlockSize
  <2> HIDE DEF left
  <2>4. g = Gone(host, "in", left, host.got)
    BY <1>1, RunningFacts DEF HostFields, Gone
  <2> HIDE DEF g
  <2>5. ~IsDma(c) /\ "in" \in Running
    BY <1>2 DEF IsDma, Running
  <2>6. Onward(ide, host, g) /\ g.st = "in" /\ g.left = left /\ g.got = host.got
    BY <1>1, <2>4, <2>5, GoesOn
  <2> QED BY <1>1, <1>8, <2>1, <2>2, <2>3, <2>6, BlockBegins DEF r
<1> QED BY <1>10, <1>11, <1>12

LEMMA EndSeen ==
  ASSUME IdeOk(ide, host), HostInterrupt, Ended(ide, host)
  PROVE  IdeOk(ide', host')
<1> DEFINE r == UpdateIntrq(ide, host.dev, 0)
           st == IF IsDma(host.c) THEN "dmaend" ELSE "done"
           g == [host EXCEPT !.st = st]
<1>1. host.st = "wait" /\ host.st \in Running
  BY DEF HostInterrupt, Running
<1>2. /\ Shape(ide) /\ ide.cur_dev = host.dev /\ host.dev \in Devs /\ ide.dev[host.dev].head = host.dev
      /\ ide.dev[host.dev].ien = FALSE /\ Devs = {Hd, Cd} /\ Hd # Cd /\ DOMAIN host = HostFields
  BY <1>1, RunningFacts
<1>3. But(ide, r, {"irq"})
  BY <1>2, IntrqFacts
<1>4. Resting(ide.dev[host.dev])
  BY <1>2 DEF Ended, AtRest
<1>5. r.dev = ide.dev /\ r.cur_dev = host.dev
  BY <1>2, <1>3 DEF But, IdeFields
<1>6. ReadStatus(ide) = r
  <2>1. CASE host.dev = Hd
    BY <1>2, <2>1 DEF ReadStatus
  <2>2. CASE host.dev = Cd
    <3>1. "BSY" \notin Status(r, Cd)
      BY <1>4, <1>5, <2>2 DEF Resting, Status
    <3> QED BY <1>2, <2>2, <3>1 DEF ReadStatus, CdReadStatus
  <2> QED BY <1>2, <2>1, <2>2
<1> HIDE DEF r
<1>7. "DRQ" \notin Status(r, r.cur_dev)
  BY <1>4, <1>5 DEF Resting, Status
<1>8. ide' = r /\ host' = g
  BY <1>6, <1>7 DEF HostInterrupt
<1>9. g = Gone(host, st, host.left, host.got)
  BY <1>2 DEF HostFields, Gone
<1>10. st \in Running /\ (st \in {"setup", "wait", "dmaend"} \/ ~IsDma(host.c))
  BY DEF Running
<1> HIDE DEF st
<1> HIDE DEF g
<1>11. Onward(ide, host, g) /\ g.st = st /\ g.got = host.got
  BY <1>1, <1>9, <1>10, GoesOn
<1> QED BY <1>1, <1>8, <1>11, EndNoticed DEF r, st

LEMMA CdDataSeen ==
  ASSUME IdeOk(ide, host), HostInterrupt, CdWaits(ide, host)
  PROVE  IdeOk(ide', host')
<1> DEFINE r == UpdateIntrq(ide, Cd, 0)
           e == ReadStatus(ide)
           left == IF host.c.cmd = "IDENTIFY" THEN RespWords ELSE e.dev[Cd].byte_count
           g == [host EXCEPT !.st = "in", !.left = left]
<1>1. host.st = "wait" /\ host.st \in Running
  BY DEF HostInterrupt, Running
<1>2. host.dev = Cd /\ host.c.cmd \in Responses \cup {"READ", "READ_CD"}
  BY DEF CdWaits, CdData, CdSide
<1>3. /\ Shape(ide) /\ ide.cur_dev = Cd /\ Cd \in Devs /\ ide.dev[Cd].head = Cd
      /\ ide.dev[Cd].ien = FALSE /\ Hd # Cd /\ DOMAIN host = HostFields
  BY <1>1, <1>2, RunningFacts
<1>4. But(ide, r, {"irq"})
  BY <1>3, IntrqFacts
<1>5. e = CdReadStatus(ide)
  BY <1>3 DEF ReadStatus
<1> HIDE DEF r, e
<1>6. r.dev = ide.dev
  BY <1>4 DEF But, IdeFields
<1>7. g = Gone(host, "in", left, host.got)
  BY <1>3 DEF HostFields, Gone
<1>8. "in" \in Running /\ ~IsDma(host.c)
  BY <1>2 DEF Running, IsDma, Responses
<1> HIDE DEF left, g
<1>9. Onward(ide, host, g) /\ g.st = "in" /\ g.left = left /\ g.got = host.got
  BY <1>1, <1>7, <1>8, GoesOn
<1>10. IdeOk(e, g) /\ e.cur_dev = Cd /\ "DRQ" \in Status(e, Cd)
  <2>1. CASE ide.dev[Cd].xfer_cnt # 0
    <3>1. Asking(ide.dev[Cd])
      BY <2>1 DEF CdWaits
    <3>2. "BSY" \notin Status(r, Cd) /\ "DRQ" \in Status(r, Cd)
      BY <1>6, <3>1 DEF Asking, Status
    <3>3. e = r
      BY <1>5, <3>2 DEF CdReadStatus, r
    <3>4. left = IF host.c.cmd = "IDENTIFY" THEN RespWords ELSE ide.dev[Cd].byte_count
      BY <1>6, <3>3 DEF left
    <3>5. IdeOk(r, g)
      BY <1>1, <1>9, <2>1, <3>4, CdDataAsked DEF r
    <3>6. r.cur_dev = Cd
      BY <1>3, <1>4 DEF But, IdeFields
    <3> QED BY <3>2, <3>3, <3>5, <3>6
  <2>2. CASE ide.dev[Cd].xfer_cnt = 0
    <3>1. ide.dev[Cd].remain # 0 /\ "BSY" \in ide.dev[Cd].status
      BY <2>2 DEF CdWaits
    <3>2. "BSY" \in Status(r, Cd) /\ DataAvailable(r)
      BY <1>6, <3>1 DEF Status, DataAvailable
    <3>3. e = DataInPhase(RequestData(r))
      BY <1>5, <3>2 DEF CdReadStatus, r
    <3>4. IdeOk(e, g) /\ Asking(e.dev[Cd])
      BY <1>1, <1>9, <2>2, <3>3, CdRefillAsked DEF r, left
    <3>5. e.cur_dev = Cd
      <4>1. g.st \in Running /\ g.dev = Cd
        BY <1>2, <1>9 DEF Onward
      <4> QED BY <3>4, <4>1, RunningFacts
    <3> QED BY <3>4, <3>5 DEF Asking, Status
  <2> QED BY <2>1, <2>2
<1>11. ide' = e /\ host' = g
  BY <1>2, <1>3, <1>10 DEF HostInterrupt, e, g, left
<1> QED BY <1>10, <1>11

LEMMA InterruptOk ==
  ASSUME IdeOk(ide, host), HostInterrupt
  PROVE  IdeOk(ide', host')
<1>1. host.st = "wait" /\ ide.irq = 1
  BY DEF HostInterrupt
<1>2. HdWaits(ide, host) \/ CdWaits(ide, host) \/ Ended(ide, host)
  BY <1>1 DEF IdeOk, Phase, HdWrittenOut, HdDma, HdDmaDone
<1> QED BY <1>2, BlockNoticed, CdDataSeen, EndSeen

-----------------------------------------------------------------------------
(* The data register of the disk. *)

\* A slow timer of the disk is started when there was none.
SlowStarted(s, e, what) == /\ e.slow \in Seq(SlowTimers) /\ OneSlow(e.slow, what)

LEMMA FirstTimer ==
  ASSUME NEW s, Shape(s), s.slow = <<>>, s.fast \in Seq(FastTimers), NEW what \in {"ready", "intrq", "written"},
         NEW e, e = After100us(s, Hd, what)
  PROVE  But(s, e, {"slow"}) /\ SlowStarted(s, e, what)
<1> DEFINE t == SlowTimerOf(s, Hd, what)
<1>1. But(s, e, {"slow"}) /\ e.slow = Append(s.slow, t)
  BY SlowFacts
<1>2. t \in SlowTimers /\ t.what = what
  BY DEF SlowTimerOf, SlowTimers
<1> HIDE DEF t
<1>3. <<>> \in Seq(SlowTimers) /\ Len(<<>>) = 0
  BY EmptySeq
<1>4. Append(<<>>, t) \in Seq(SlowTimers) /\ Len(Append(<<>>, t)) = 1 /\ Append(<<>>, t)[1] = t
  BY <1>2, <1>3, AppendProperties
<1> QED BY <1>1, <1>2, <1>4 DEF OneSlow, SlowStarted

\* What reading a word does: within a block, at the end of the last one, at the
\* end of another.
WordRead(s, e) ==
    LET v == s.dev[Hd]
        w == e.dev[Hd]
        rest == v.xfer_cnt - v.chunk_size
    IN  /\ But(s, e, {"dev", "slow"}) /\ DevBut(s, e, Hd, {"buf", "chunk_cnt", "xfer_cnt", "status"})
        /\ w.buf = Tail(v.buf)
        /\ v.chunk_cnt - 1 > 0 => /\ w.chunk_cnt = v.chunk_cnt - 1 /\ w.xfer_cnt = v.xfer_cnt
                                  /\ w.status = v.status /\ e.slow = s.slow
        /\ v.chunk_cnt - 1 <= 0 /\ rest <= 0 =>
             w.xfer_cnt = 0 /\ w.status = v.status \ {"DRQ"} /\ e.slow = s.slow
        /\ v.chunk_cnt - 1 <= 0 /\ rest > 0 =>
             /\ w.xfer_cnt = rest /\ w.chunk_cnt = Lesser(rest, v.chunk_size) /\ w.status = v.status
             /\ SlowStarted(s, e, "intrq")

LEMMA WordReadFacts ==
  ASSUME NEW s, Shape(s), s.slow = <<>>, s.fast \in Seq(FastTimers),
         s.dev[Hd].chunk_cnt \in Nat, s.dev[Hd].xfer_cnt \in Nat, s.dev[Hd].chunk_size \in Nat
  PROVE  WordRead(s, HdReadData(s))
<1> DEFINE v == s.dev[Hd]
           left == v.chunk_cnt - 1
           rest == v.xfer_cnt - v.chunk_size
           f == [buf |-> Tail(v.buf), chunk_cnt |-> left]
           after == Set(s, Hd, f)
           g == [xfer_cnt |-> 0, status |-> v.status \ {"DRQ"}]
           last == Set(after, Hd, g)
           i == [xfer_cnt |-> rest, chunk_cnt |-> Lesser(rest, v.chunk_size)]
           next == Set(after, Hd, i)
           e == HdReadData(s)
<1>0. Hd \in Devs /\ left \in Int /\ rest \in Int
  BY DEF Devs
<1>1. DOMAIN f = {"buf", "chunk_cnt"} /\ f.buf = Tail(v.buf) /\ f.chunk_cnt = left /\ DOMAIN f \subseteq DevFields
  BY DEF DevFields
<1>2. /\ DOMAIN g = {"xfer_cnt", "status"} /\ g.xfer_cnt = 0 /\ g.status = v.status \ {"DRQ"}
      /\ DOMAIN g \subseteq DevFields
  BY DEF DevFields
<1>3. /\ DOMAIN i = {"xfer_cnt", "chunk_cnt"} /\ i.xfer_cnt = rest /\ i.chunk_cnt = Lesser(rest, v.chunk_size)
      /\ DOMAIN i \subseteq DevFields
  BY DEF DevFields
<1>4. e = IF left > 0 THEN after ELSE IF rest <= 0 THEN last ELSE After100us(next, Hd, "intrq")
  BY DEF HdReadData
<1> HIDE DEF f, g, i, e
<1>5. But(s, after, {"dev"}) /\ DevBut(s, after, Hd, DOMAIN f) /\ \A x \in DOMAIN f : after.dev[Hd][x] = f[x]
  BY <1>0, <1>1, SetFacts
<1>6. Shape(after)
  BY <1>5 DEF But
<1>7. But(after, last, {"dev"}) /\ DevBut(after, last, Hd, DOMAIN g) /\ \A x \in DOMAIN g : last.dev[Hd][x] = g[x]
  BY <1>0, <1>2, <1>6, SetFacts
<1>8. But(after, next, {"dev"}) /\ DevBut(after, next, Hd, DOMAIN i) /\ \A x \in DOMAIN i : next.dev[Hd][x] = i[x]
  BY <1>0, <1>3, <1>6, SetFacts
<1> HIDE DEF after, last, next
<1>9. DevBut(s, after, Hd, {"buf", "chunk_cnt"}) /\ after.dev[Hd].buf = Tail(v.buf) /\ after.dev[Hd].chunk_cnt = left
  BY <1>1, <1>5
<1>10. CASE left > 0
  <2>1. e = after
    BY <1>4, <1>10
  <2>2. /\ e.dev[Hd].xfer_cnt = v.xfer_cnt /\ e.dev[Hd].status = v.status /\ e.slow = s.slow
        /\ But(s, e, {"dev", "slow"})
    BY <1>5, <1>9, <2>1 DEF But, DevBut, IdeFields, DevFields
  <2>3. DevBut(s, e, Hd, {"buf", "chunk_cnt", "xfer_cnt", "status"})
    BY <1>9, <2>1 DEF DevBut
  <2> QED BY <1>0, <1>9, <1>10, <2>1, <2>2, <2>3 DEF WordRead, e
<1>11. CASE ~(left > 0) /\ rest <= 0
  <2>1. e = last
    BY <1>4, <1>11
  <2>2. e.dev[Hd].xfer_cnt = 0 /\ e.dev[Hd].status = v.status \ {"DRQ"}
    BY <1>2, <1>7, <2>1
  <2>3. DevBut(after, last, Hd, {"xfer_cnt", "status"})
    BY <1>2, <1>7
  <2>4. e.slow = s.slow /\ But(s, e, {"dev", "slow"})
    BY <1>5, <1>7, <2>1 DEF But, IdeFields
  <2>5. DevBut(s, e, Hd, {"buf", "chunk_cnt", "xfer_cnt", "status"}) /\ e.dev[Hd].buf = Tail(v.buf)
    BY <1>9, <2>1, <2>3 DEF DevBut, DevFields
  <2> QED BY <1>0, <1>11, <2>2, <2>4, <2>5 DEF WordRead, e
<1>12. CASE ~(left > 0) /\ ~(rest <= 0)
  <2>1. e = After100us(next, Hd, "intrq")
    BY <1>4, <1>12
  <2>2. Shape(next) /\ next.slow = <<>> /\ next.fast \in Seq(FastTimers)
    BY <1>5, <1>8 DEF But, IdeFields
  <2>3. But(next, e, {"slow"}) /\ SlowStarted(next, e, "intrq")
    BY <2>1, <2>2, FirstTimer
  <2>4. e.dev = next.dev /\ But(s, e, {"dev", "slow"}) /\ SlowStarted(s, e, "intrq")
    BY <1>5, <1>8, <2>3 DEF But, IdeFields, SlowStarted
  <2>5. e.dev[Hd].xfer_cnt = rest /\ e.dev[Hd].chunk_cnt = Lesser(rest, v.chunk_size)
    BY <1>3, <1>8, <2>4
  <2>6. DevBut(after, next, Hd, {"xfer_cnt", "chunk_cnt"})
    BY <1>3, <1>8
  <2>7. /\ DevBut(s, e, Hd, {"buf", "chunk_cnt", "xfer_cnt", "status"})
        /\ e.dev[Hd].buf = Tail(v.buf) /\ e.dev[Hd].status = v.status
    BY <1>9, <2>4, <2>6 DEF DevBut, DevFields
  <2> QED BY <1>0, <1>12, <2>4, <2>5, <2>7 DEF WordRead, e
<1> QED BY <1>10, <1>11, <1>12

\* The driver reads a word of the disk.
LEMMA HdWordIn ==
  ASSUME NEW s, NEW h, IdeOk(s, h), h.st = "in", HdMoves(s, h), NEW e, e = HdReadData(s),
         NEW g, Onward(s, h, g), g.got = Append(h.got, Head(s.dev[Hd].buf)), g.left = h.left - 1,
         h.left > 1 => g.st = "in",
         h.left = 1 /\ (h.c.cmd = "IDENTIFY" \/ Len(g.got) = Words(h.c)) => g.st = "done",
         h.left = 1 /\ h.c.cmd # "IDENTIFY" /\ Len(g.got) # Words(h.c) => g.st = "wait"
  PROVE  IdeOk(e, g)
<1> DEFINE v == s.dev[Hd]
           w == e.dev[Hd]
           c == h.c
           T == Total(c)
           X == v.xfer_cnt
           k == T - X + Part(v)
<1>1. /\ Shape(s) /\ IdeTyped(s) /\ Hd \in Devs /\ Hd # Cd /\ Devs = {Hd, Cd} /\ h.st \in Running
      /\ Chosen(h.dev, c)
  <2>1. h.st \in Running
    BY DEF Running
  <2> QED BY <2>1, RunningFacts
<1>2. HdReading(s, h) /\ s.irq = 0 /\ s.slow = <<>> /\ Asking(v) /\ h.left = v.chunk_cnt
  BY DEF HdMoves
<1>3. /\ HdBlocks(s, h) /\ c.cmd \in {"READ_SECTOR", "READ_MULTIPLE", "IDENTIFY"}
      /\ Piece(Answered(c), 0, k, h.got) /\ Piece(Answered(c), k, T - k, v.buf)
      /\ c.cmd = "IDENTIFY" => X = RespWords
  BY <1>2 DEF HdReading
<1>4. /\ h.dev = Hd /\ Resting(s.dev[Cd]) /\ s.dev[Cd].remain = 0 /\ NoDone(s.fast) /\ X \in 1 .. T
      /\ v.dma = FALSE /\ v.chunk_size = BlockOf(s, c) /\ v.chunk_size \in Nat \ {0}
      /\ v.chunk_cnt \in 1 .. Lesser(X, v.chunk_size)
  BY <1>3 DEF HdBlocks, HdTransfer
<1>5. T \in Nat /\ Words(c) = Size(c) /\ (c.cmd # "IDENTIFY" => T = Size(c)) /\ (c.cmd = "IDENTIFY" => T = RespWords)
  <2>1. c.cmd # "IDENTIFY" => c.cmd \notin Responses
    BY <1>3 DEF Responses
  <2>2. c.cmd = "IDENTIFY" => c.cmd \in Responses
    BY DEF Responses
  <2> QED BY <1>1, <2>1, <2>2, CommandFacts DEF Total
<1>6. s.fast \in Seq(FastTimers) /\ v.spi \in Nat
  BY <1>1 DEF IdeTyped, DevTyped
<1>7. X \in Nat /\ v.chunk_cnt \in Nat /\ v.chunk_size \in Nat
  BY <1>4, <1>5 DEF Lesser
<1>8. WordRead(s, e)
  BY <1>1, <1>2, <1>6, <1>7, WordReadFacts
<1>9. /\ But(s, e, {"dev", "slow"}) /\ DevBut(s, e, Hd, {"buf", "chunk_cnt", "xfer_cnt", "status"})
      /\ w.buf = Tail(v.buf)
  BY <1>8 DEF WordRead
<1>10. /\ e.dev[Cd] = s.dev[Cd] /\ w.dma = FALSE /\ w.chunk_size = v.chunk_size /\ w.spi = v.spi
       /\ e.fast = s.fast /\ e.irq = 0 /\ BlockOf(e, c) = BlockOf(s, c) /\ e.image = s.image
  BY <1>1, <1>2, <1>4, <1>9 DEF But, DevBut, IdeFields, DevFields, BlockOf
<1>11. k \in Nat /\ T - k \in Nat \ {0}
  BY <1>4, <1>5, <1>7, SMTT(30) DEF Part, Lesser
<1> HIDE DEF k
<1>12. /\ Piece(Answered(c), 0, k + 1, g.got) /\ Piece(Answered(c), k + 1, T - (k + 1), w.buf)
       /\ Len(g.got) = k + 1
  <2>1. Head(v.buf) = Answered(c)[k + 1] /\ Head(v.buf) \in WordSet /\ Piece(Answered(c), k + 1, (T - k) - 1, Tail(v.buf))
    BY <1>3, <1>11, PieceTail
  <2>2. (T - k) - 1 = T - (k + 1) /\ 0 + k + 1 = k + 1
    BY <1>5, <1>11
  <2>3. Piece(Answered(c), 0, k + 1, g.got)
    BY <1>3, <1>11, <2>1, <2>2, PieceAppend
  <2> QED BY <1>9, <2>1, <2>2, <2>3 DEF Piece
<1>13. g.c = c /\ g.dev = Hd
  BY <1>4 DEF Onward
<1>14. e.slow \in Seq(SlowTimers) /\ w.xfer_cnt \in Nat
  <2>1. <<>> \in Seq(SlowTimers)
    BY EmptySeq
  <2>2. e.slow = s.slow \/ e.slow \in Seq(SlowTimers)
    BY <1>7, <1>8 DEF WordRead, SlowStarted
  <2>3. w.xfer_cnt \in {X, 0} \/ (X - v.chunk_size > 0 /\ w.xfer_cnt = X - v.chunk_size)
    BY <1>7, <1>8 DEF WordRead
  <2>4. w.xfer_cnt \in Nat
    BY <1>7, <2>3, SMTT(30)
  <2> QED BY <1>2, <2>1, <2>2, <2>4
<1>15. StepOf(s, e, h, g, Hd)
  <2>1. But(s, e, IdeFields \ Kept) /\ DevBut(s, e, Hd, Working)
    BY <1>9 DEF But, DevBut, IdeFields, Kept, Working
  <2> QED BY <1>1, <1>6, <1>10, <1>14, <2>1 DEF StepOf
<1>16. IdeTyped(e) /\ ChanOk(e, g) /\ HostTyped(e, g)
  BY <1>1, <1>15, StepTyped
<1>17. CASE v.chunk_cnt > 1
  <2>1. w.chunk_cnt = v.chunk_cnt - 1 /\ w.xfer_cnt = X /\ w.status = v.status /\ e.slow = <<>>
    BY <1>2, <1>7, <1>8, <1>17 DEF WordRead
  <2>2. HdBlocks(e, g)
    <3>1. w.chunk_cnt \in 1 .. Lesser(w.xfer_cnt, w.chunk_size)
      BY <1>4, <1>5, <1>7, <1>10, <1>17, <2>1 DEF Lesser
    <3> QED BY <1>4, <1>10, <1>13, <2>1, <3>1 DEF HdBlocks, HdTransfer
  <2>3. T - w.xfer_cnt + Part(w) = k + 1
    BY <1>4, <1>5, <1>7, <1>10, <2>1 DEF Part, Lesser, k
  <2>4. HdReading(e, g)
    BY <1>3, <1>12, <1>13, <2>1, <2>2, <2>3 DEF HdReading
  <2>5. HdMoves(e, g) /\ g.st = "in"
    BY <1>2, <1>7, <1>10, <1>17, <2>1, <2>4 DEF HdMoves, Asking
  <2>6. Phase(e, g)
    BY <2>5 DEF Phase
  <2> QED BY <1>16, <2>6 DEF IdeOk
<1>18. CASE v.chunk_cnt = 1 /\ X <= v.chunk_size
  <2>1. w.xfer_cnt = 0 /\ w.status = v.status \ {"DRQ"} /\ e.slow = <<>>
    BY <1>2, <1>7, <1>8, <1>18 DEF WordRead
  <2>2. k + 1 = T
    BY <1>4, <1>5, <1>7, <1>18 DEF Part, Lesser, k
  <2>3. g.st = "done"
    BY <1>2, <1>5, <1>12, <1>18, <2>2
  <2>4. AtRest(e)
    BY <1>2, <1>4, <1>10, <2>1 DEF AtRest, Resting, Asking
  <2>5. Complete(e, g, g.got)
    BY <1>3, <1>12, <1>13, <2>2 DEF Complete, HdWrites
  <2>6. Phase(e, g)
    BY <1>10, <2>3, <2>4, <2>5 DEF Phase
  <2> QED BY <1>16, <2>6 DEF IdeOk
<1>19. CASE v.chunk_cnt = 1 /\ X > v.chunk_size
  <2>1. /\ w.xfer_cnt = X - v.chunk_size /\ w.chunk_cnt = Lesser(w.xfer_cnt, w.chunk_size) /\ w.status = v.status
        /\ OneSlow(e.slow, "intrq")
    BY <1>7, <1>8, <1>10, <1>19 DEF WordRead, SlowStarted
  <2>2. c.cmd # "IDENTIFY"
    BY <1>3, <1>4, <1>19 DEF BlockOf
  <2>3. k + 1 = T - w.xfer_cnt /\ k + 1 # T
    BY <1>4, <1>5, <1>7, <1>19, <2>1 DEF Part, Lesser, k
  <2>4. g.st = "wait"
    BY <1>2, <1>5, <1>12, <1>19, <2>2, <2>3
  <2>5. HdBlocks(e, g)
    <3>1. w.xfer_cnt \in 1 .. T
      BY <1>4, <1>5, <1>7, <1>19, <2>1
    <3>2. w.chunk_cnt \in 1 .. Lesser(w.xfer_cnt, w.chunk_size)
      BY <1>4, <1>5, <1>10, <2>1, <3>1 DEF Lesser
    <3> QED BY <1>4, <1>10, <1>13, <3>1, <3>2 DEF HdBlocks, HdTransfer
  <2>6. T - w.xfer_cnt + Part(w) = k + 1
    BY <1>4, <1>5, <1>7, <1>10, <1>11, <2>1, <2>3 DEF Part, Lesser
  <2>7. HdReading(e, g)
    BY <1>3, <1>12, <1>13, <2>2, <2>5, <2>6 DEF HdReading
  <2>8. HdWaits(e, g)
    BY <1>2, <1>10, <2>1, <2>7 DEF HdWaits, Asking
  <2>9. Phase(e, g)
    BY <2>4, <2>8 DEF Phase
  <2> QED BY <1>16, <2>9 DEF IdeOk
<1> QED BY <1>4, <1>7, <1>17, <1>18, <1>19

-----------------------------------------------------------------------------
(* The data register of the CD-ROM. *)

StatusShown(s, e) ==
    /\ But(s, e, {"dev", "irq"}) /\ DevBut(s, e, Cd, {"io", "cod", "status"})
    /\ "DRQ" \notin e.dev[Cd].status /\ "BSY" \notin e.dev[Cd].status /\ e.irq = 1

LEMMA StatusShownFacts ==
  ASSUME NEW s, Shape(s), s.dev[Cd].ien = FALSE, s.dev[Cd].head = Cd
  PROVE  StatusShown(s, PresentStatus(s))
<1> DEFINE f == [io |-> TRUE, cod |-> TRUE, status |-> Status(s, Cd) \ {"DRQ", "BSY"}]
           a == Set(s, Cd, f)
           e == UpdateIntrq(a, Cd, 1)
<1>1. /\ DOMAIN f = {"io", "cod", "status"} /\ DOMAIN f \subseteq DevFields /\ Cd \in Devs
      /\ "DRQ" \notin f.status /\ "BSY" \notin f.status
  BY DEF DevFields, Devs
<1> HIDE DEF f
<1>2. But(s, a, {"dev"}) /\ DevBut(s, a, Cd, DOMAIN f) /\ \A x \in DOMAIN f : a.dev[Cd][x] = f[x]
  BY <1>1, SetFacts
<1> HIDE DEF a
<1>3. Shape(a) /\ a.dev[Cd].ien = FALSE /\ a.dev[Cd].head = Cd
  BY <1>1, <1>2 DEF But, DevBut, DevFields
<1>4. But(a, e, {"irq"}) /\ e.irq = 1
  BY <1>1, <1>3, IntrqFacts
<1> HIDE DEF e
<1>5. But(s, e, {"dev", "irq"}) /\ e.dev = a.dev
  BY <1>2, <1>4 DEF But, IdeFields
<1>6. DevBut(s, e, Cd, {"io", "cod", "status"}) /\ a.dev[Cd].status = f.status
  BY <1>1, <1>2, <1>5 DEF DevBut
<1>7. StatusShown(s, e)
  BY <1>1, <1>4, <1>5, <1>6 DEF StatusShown
<1> QED BY <1>7 DEF PresentStatus, e, a, f

\* What reading a word does: in the middle of the buffer, at its end with more to
\* be fetched, and at the end of the data.
CdWordRead(s, e) ==
    LET u == s.dev[Cd]
        w == e.dev[Cd]
    IN  /\ But(s, e, {"dev", "irq"}) /\ DevBut(s, e, Cd, {"buf", "xfer_cnt", "status", "io", "cod"})
        /\ w.buf = Tail(u.buf) /\ w.xfer_cnt = u.xfer_cnt - 1
        /\ u.xfer_cnt > 1 => w.status = u.status /\ InPhase(w) /\ e.irq = s.irq
        /\ u.xfer_cnt = 1 /\ u.remain # 0 =>
             InPhase(w) /\ "BSY" \in w.status /\ "DRQ" \notin w.status /\ e.irq = 1
        /\ u.xfer_cnt = 1 /\ u.remain = 0 /\ u.expected =>
             "BSY" \notin w.status /\ "DRQ" \notin w.status /\ e.irq = 1
        /\ u.xfer_cnt = 1 /\ u.remain = 0 /\ ~u.expected =>
             w.status = u.status \ {"DRQ"} /\ e.irq = s.irq

LEMMA CdWordReadFacts ==
  ASSUME NEW s, Shape(s), s.dev[Cd].ien = FALSE, s.dev[Cd].head = Cd, InPhase(s.dev[Cd]),
         s.dev[Cd].xfer_cnt \in Nat \ {0}
  PROVE  CdWordRead(s, CdReadData(s))
<1> DEFINE u == s.dev[Cd]
           f == [buf |-> Tail(u.buf), xfer_cnt |-> u.xfer_cnt - 1]
           after == Set(s, Cd, f)
           st == u.status \ {"DRQ"}
           end == WithStatus(after, Cd, st)
           busy == Announce(end, Cd, Status(end, Cd) \cup {"BSY"})
           shown == PresentStatus(end)
           e == CdReadData(s)
           F == {"buf", "xfer_cnt", "status", "io", "cod"}
<1>1. /\ DOMAIN f = {"buf", "xfer_cnt"} /\ f.buf = Tail(u.buf) /\ f.xfer_cnt = u.xfer_cnt - 1
      /\ DOMAIN f \subseteq DevFields /\ Cd \in Devs
  BY DEF DevFields, Devs
<1>2. e = IF u.xfer_cnt > 1 THEN after ELSE IF u.remain # 0 THEN busy ELSE IF u.expected THEN shown ELSE end
  BY DEF CdReadData, InPhase, DataAvailable, Announce
<1> HIDE DEF f, e
<1>3. But(s, after, {"dev"}) /\ DevBut(s, after, Cd, DOMAIN f) /\ \A x \in DOMAIN f : after.dev[Cd][x] = f[x]
  BY <1>1, SetFacts
<1> HIDE DEF after
<1>4. /\ DevBut(s, after, Cd, {"buf", "xfer_cnt"}) /\ after.dev[Cd].buf = Tail(u.buf)
      /\ after.dev[Cd].xfer_cnt = u.xfer_cnt - 1 /\ Shape(after)
  BY <1>1, <1>3 DEF But
<1> HIDE DEF st
<1>5. But(after, end, {"dev"}) /\ DevBut(after, end, Cd, {"status"}) /\ Status(end, Cd) = st
  BY <1>1, <1>4, StatusFacts
<1> HIDE DEF end
<1>6. Shape(end) /\ end.dev[Cd].ien = FALSE /\ end.dev[Cd].head = Cd
  BY <1>4, <1>5 DEF But, DevBut, DevFields
<1>7. /\ But(s, end, {"dev"}) /\ DevBut(s, end, Cd, {"buf", "xfer_cnt", "status"}) /\ end.dev[Cd].status = st
      /\ end.dev[Cd].buf = Tail(u.buf) /\ end.dev[Cd].xfer_cnt = u.xfer_cnt - 1 /\ end.irq = s.irq
  <2>1. But(s, end, {"dev"}) /\ end.irq = s.irq
    BY <1>3, <1>5 DEF But, IdeFields
  <2>2. DevBut(s, end, Cd, {"buf", "xfer_cnt", "status"})
    BY <1>4, <1>5 DEF DevBut
  <2>3. end.dev[Cd].buf = Tail(u.buf) /\ end.dev[Cd].xfer_cnt = u.xfer_cnt - 1
    BY <1>4, <1>5 DEF DevBut, DevFields
  <2> QED BY <1>5, <2>1, <2>2, <2>3 DEF Status
<1>8. CASE u.xfer_cnt > 1
  <2>1. e = after
    BY <1>2, <1>8
  <2>2. But(s, e, {"dev", "irq"}) /\ e.irq = s.irq
    BY <1>3, <2>1 DEF But, IdeFields
  <2>3. DevBut(s, e, Cd, F) /\ e.dev[Cd].status = u.status /\ InPhase(e.dev[Cd])
    BY <1>4, <2>1 DEF DevBut, DevFields, InPhase
  <2> QED BY <1>4, <1>8, <2>1, <2>2, <2>3 DEF CdWordRead, e
<1>9. CASE u.xfer_cnt = 1 /\ u.remain # 0
  <2>1. e = busy
    BY <1>2, <1>9
  <2> DEFINE sb == Status(end, Cd) \cup {"BSY"}
  <2>2. sb = st \cup {"BSY"} /\ "BSY" \in sb /\ "DRQ" \notin sb
    BY <1>5 DEF st
  <2> HIDE DEF sb
  <2>3. But(end, e, {"dev", "irq"}) /\ DevBut(end, e, Cd, {"status"}) /\ Status(e, Cd) = sb /\ e.irq = 1
    <3>1. e = Announce(end, Cd, sb)
      BY <2>1 DEF sb
    <3> HIDE DEF busy, shown
    <3> QED BY <1>1, <1>6, <3>1, AnnounceFacts
  <2>4. But(s, e, {"dev", "irq"})
    BY <1>7, <2>3 DEF But, IdeFields
  <2>5. DevBut(s, e, Cd, F) /\ InPhase(e.dev[Cd]) /\ e.dev[Cd].buf = Tail(u.buf) /\ e.dev[Cd].xfer_cnt = u.xfer_cnt - 1
    BY <1>7, <2>3 DEF DevBut, DevFields, InPhase
  <2> QED BY <1>9, <2>2, <2>3, <2>4, <2>5 DEF CdWordRead, e, Status
<1>10. CASE u.xfer_cnt = 1 /\ u.remain = 0
  <2>1. CASE u.expected
    <3>1. e = shown
      BY <1>2, <1>10, <2>1
    <3>2. StatusShown(end, e)
      BY <1>6, <3>1, StatusShownFacts
    <3>3. But(s, e, {"dev", "irq"})
      BY <1>7, <3>2 DEF But, IdeFields, StatusShown
    <3>4. DevBut(s, e, Cd, F) /\ e.dev[Cd].buf = Tail(u.buf) /\ e.dev[Cd].xfer_cnt = u.xfer_cnt - 1
      BY <1>7, <3>2 DEF DevBut, DevFields, StatusShown
    <3> QED BY <1>10, <2>1, <3>2, <3>3, <3>4 DEF CdWordRead, StatusShown, e
  <2>2. CASE ~u.expected
    <3>1. e = end
      BY <1>2, <1>10, <2>2
    <3>2. But(s, e, {"dev", "irq"}) /\ DevBut(s, e, Cd, F)
      BY <1>7, <3>1 DEF But, DevBut
    <3> QED BY <1>7, <1>10, <2>2, <3>1, <3>2 DEF CdWordRead, e, st
  <2> QED BY <2>1, <2>2
<1> QED BY <1>8, <1>9, <1>10

\* The driver reads a word of the CD-ROM.
LEMMA CdWordIn ==
  ASSUME NEW s, NEW h, IdeOk(s, h), h.st = "in", CdMoves(s, h), NEW e, e = CdReadData(s),
         NEW g, Onward(s, h, g), g.got = Append(h.got, Head(s.dev[Cd].buf)), g.left = h.left - 1,
         h.left > 1 => g.st = "in",
         h.left = 1 /\ h.c.cmd = "IDENTIFY" => g.st = "done",
         h.left = 1 /\ h.c.cmd # "IDENTIFY" => g.st = "wait"
  PROVE  IdeOk(e, g)
<1> DEFINE u == s.dev[Cd]
           w == e.dev[Cd]
           c == h.c
           k == Len(h.got)
<1>1. /\ Shape(s) /\ IdeTyped(s) /\ Cd \in Devs /\ Hd # Cd /\ Devs = {Hd, Cd} /\ h.st \in Running
      /\ Chosen(h.dev, c) /\ u.ien = FALSE /\ u.head = h.dev
  <2>1. h.st \in Running
    BY DEF Running
  <2> QED BY <2>1, RunningFacts
<1>2. /\ CdData(s, h) /\ h.left = u.xfer_cnt /\ u.xfer_cnt # 0 /\ Asking(u)
      /\ c.cmd = "IDENTIFY" => s.irq = 0
  BY DEF CdMoves
<1>3. /\ CdSide(s, h) /\ InPhase(u) /\ c.cmd \in Responses \cup {"READ", "READ_CD"}
      /\ Piece(Answered(c), 0, k, h.got) /\ Piece(Answered(c), k, u.xfer_cnt, u.buf)
      /\ u.remain \in Nat /\ k + u.xfer_cnt + u.remain = Total(c)
      /\ c.cmd \in Responses => u.remain = 0
  BY <1>2 DEF CdData
<1>4. h.dev = Cd /\ Resting(s.dev[Hd]) /\ s.slow = <<>> /\ NoDone(s.fast)
  BY <1>3 DEF CdSide
<1>5. u.xfer_cnt \in Nat \ {0} /\ u.spi \in Nat /\ u.dma = FALSE /\ s.fast \in Seq(FastTimers) /\ s.slow \in Seq(SlowTimers)
      /\ s.irq \in {0, 1}
  <2>1. u.dma \in BOOLEAN /\ ~u.dma
    BY <1>1 DEF IdeTyped, DevTyped
  <2>2. u.dma = FALSE
    BY <2>1, Zenon
  <2> QED BY <1>1, <1>2, <2>2 DEF IdeTyped, DevTyped
<1>6. CdWordRead(s, e)
  BY <1>1, <1>3, <1>4, <1>5, CdWordReadFacts
<1>7. /\ But(s, e, {"dev", "irq"}) /\ DevBut(s, e, Cd, {"buf", "xfer_cnt", "status", "io", "cod"})
      /\ w.buf = Tail(u.buf) /\ w.xfer_cnt = u.xfer_cnt - 1
  BY <1>6 DEF CdWordRead
<1>8. /\ e.dev[Hd] = s.dev[Hd] /\ w.dma = FALSE /\ w.spi = u.spi /\ w.remain = u.remain /\ w.expected = u.expected
      /\ w.pos = u.pos /\ e.fast = s.fast /\ e.slow = s.slow
  BY <1>1, <1>5, <1>7 DEF But, DevBut, IdeFields, DevFields
<1>9. k \in Nat /\ Total(c) \in Nat /\ First(c) \in Nat
  BY <1>1, <1>3, CommandFacts DEF Piece
<1>10. /\ Piece(Answered(c), 0, k + 1, g.got) /\ Piece(Answered(c), k + 1, w.xfer_cnt, w.buf)
       /\ Len(g.got) = k + 1
  <2>1. Head(u.buf) = Answered(c)[k + 1] /\ Head(u.buf) \in WordSet /\ Piece(Answered(c), k + 1, u.xfer_cnt - 1, Tail(u.buf))
    BY <1>3, <1>5, <1>9, PieceTail
  <2>2. 0 + k + 1 = k + 1
    BY <1>9
  <2>3. Piece(Answered(c), 0, k + 1, g.got)
    BY <1>3, <1>9, <2>1, <2>2, PieceAppend
  <2> QED BY <1>7, <2>1, <2>3 DEF Piece
<1>11. g.c = c /\ g.dev = Cd
  BY <1>4 DEF Onward
<1>12. e.irq \in {0, 1} /\ w.xfer_cnt \in Nat
  <2>1. u.remain = 0 \/ u.remain # 0
    OBVIOUS
  <2>2. u.xfer_cnt > 1 \/ u.xfer_cnt = 1
    BY <1>5
  <2>3. u.expected \/ ~u.expected
    OBVIOUS
  <2>4. e.irq \in {s.irq, 1}
    BY <1>6, <2>1, <2>2, <2>3, Zenon DEF CdWordRead
  <2> QED BY <1>5, <1>7, <2>4
<1>13. StepOf(s, e, h, g, Cd)
  <2>1. But(s, e, IdeFields \ Kept) /\ DevBut(s, e, Cd, Working)
    BY <1>7 DEF But, DevBut, IdeFields, Kept, Working
  <2> QED BY <1>1, <1>5, <1>8, <1>12, <2>1 DEF StepOf
<1>14. IdeTyped(e) /\ ChanOk(e, g) /\ HostTyped(e, g)
  BY <1>1, <1>13, StepTyped
<1>15. CdSide(e, g)
  BY <1>3, <1>8, <1>11 DEF CdSide
<1>16. ASSUME InPhase(w) PROVE CdData(e, g)
  <2>0. /\ k \in Nat /\ u.xfer_cnt \in Nat /\ u.remain \in Nat /\ First(c) \in Nat
        /\ k + u.xfer_cnt + u.remain = Total(c) /\ Total(c) \in Nat
    BY <1>3, <1>5, <1>9
  <2>5. w.xfer_cnt = u.xfer_cnt - 1 /\ w.remain = u.remain /\ w.pos = u.pos
    BY <1>7, <1>8
  <2> HIDE DEF k, u, w
  <2>1. (k + 1) + w.xfer_cnt + w.remain = Total(c)
    <3>1. \A a, b, d \in Nat : (a + 1) + (b - 1) + d = a + b + d
      OBVIOUS
    <3>2. (k + 1) + (u.xfer_cnt - 1) + u.remain = k + u.xfer_cnt + u.remain
      BY <2>0, <3>1, ZenonT(30)
    <3> QED BY <2>0, <2>5, <3>2
  <2>2. w.expected = (c.cmd # "IDENTIFY")
    BY <1>2, <1>8 DEF CdData, u, w
  <2>3. c.cmd \notin Responses => u.pos = First(c) + k + u.xfer_cnt /\ Multiple(u.remain)
    BY <1>2 DEF CdData, u, k
  <2>4. c.cmd \notin Responses => w.pos = First(c) + (k + 1) + w.xfer_cnt /\ Multiple(w.remain)
    BY <2>0, <2>3, <2>5
  <2> QED BY <1>3, <1>8, <1>10, <1>11, <1>15, <1>16, <2>1, <2>2, <2>4 DEF CdData, k, u, w
<1>17. CASE u.xfer_cnt > 1
  <2>1. w.status = u.status /\ InPhase(w) /\ e.irq = s.irq
    BY <1>6, <1>17 DEF CdWordRead
  <2>2. CdMoves(e, g)
    BY <1>2, <1>5, <1>7, <1>11, <1>16, <1>17, <2>1 DEF CdMoves, Asking
  <2>3. Phase(e, g)
    BY <1>2, <1>17, <2>2 DEF Phase
  <2> QED BY <1>14, <2>3 DEF IdeOk
<1>18. CASE u.xfer_cnt = 1 /\ u.remain # 0
  <2>1. InPhase(w) /\ "BSY" \in w.status /\ "DRQ" \notin w.status /\ e.irq = 1
    BY <1>6, <1>18 DEF CdWordRead
  <2>2. c.cmd # "IDENTIFY" /\ g.st = "wait"
    BY <1>2, <1>3, <1>18 DEF Responses
  <2>3. CdWaits(e, g)
    BY <1>7, <1>8, <1>16, <1>18, <2>1 DEF CdWaits
  <2>4. Phase(e, g)
    BY <2>2, <2>3 DEF Phase
  <2> QED BY <1>14, <2>4 DEF IdeOk
<1>19. CASE u.xfer_cnt = 1 /\ u.remain = 0
  <2>1. k + 1 = Total(c)
    BY <1>3, <1>9, <1>19
  <2>2. Complete(e, g, g.got)
    BY <1>3, <1>10, <1>11, <2>1 DEF Complete, HdWrites, Responses
  <2>3. u.expected = (c.cmd # "IDENTIFY")
    BY <1>2 DEF CdData
  <2>4. CASE c.cmd = "IDENTIFY"
    <3>1. ~u.expected
      BY <2>3, <2>4, Zenon
    <3>2. w.status = u.status \ {"DRQ"} /\ e.irq = s.irq
      BY <1>6, <1>19, <3>1 DEF CdWordRead
    <3>3. AtRest(e)
      BY <1>2, <1>4, <1>7, <1>8, <1>19, <3>2 DEF AtRest, Resting, Asking
    <3>4. g.st = "done" /\ e.irq = 0
      BY <1>2, <1>19, <2>4, <3>2
    <3>5. Phase(e, g)
      BY <2>2, <3>3, <3>4 DEF Phase
    <3> QED BY <1>14, <3>5 DEF IdeOk
  <2>5. CASE c.cmd # "IDENTIFY"
    <3>1. u.expected
      BY <2>3, <2>5, Zenon
    <3>2. "BSY" \notin w.status /\ "DRQ" \notin w.status
      BY <1>6, <1>19, <3>1 DEF CdWordRead
    <3>3. AtRest(e)
      BY <1>4, <1>7, <1>8, <1>19, <3>2 DEF AtRest, Resting
    <3>4. Ended(e, g)
      BY <1>3, <1>11, <2>2, <3>3 DEF Ended, Outcome, IsDma, Responses
    <3>5. Phase(e, g)
      BY <1>2, <1>19, <2>5, <3>4 DEF Phase
    <3> QED BY <1>14, <3>5 DEF IdeOk
  <2> QED BY <2>4, <2>5
<1> QED BY <1>5, <1>17, <1>18, <1>19

LEMMA InOk ==
  ASSUME IdeOk(ide, host), HostIn
  PROVE  IdeOk(ide', host')
<1> DEFINE got == Append(host.got, Head(ide.dev[ide.cur_dev].buf))
           last == host.c.cmd = "IDENTIFY" \/ (host.dev = Hd /\ Len(got) = Words(host.c))
           st == CASE host.left > 1 -> "in" [] host.left = 1 /\ last -> "done" [] OTHER -> "wait"
           left == host.left - 1
<1>1. host.st = "in" /\ host.st \in Running
  BY DEF HostIn, Running
<1>2. HdMoves(ide, host) \/ CdMoves(ide, host)
  BY <1>1 DEF IdeOk, Phase
<1>3. DOMAIN host = HostFields /\ ide.cur_dev = host.dev
  BY <1>1, RunningFacts
<1>4. host' = Gone(host, st, left, got)
  <2>1. host' = [host EXCEPT !.got = got, !.left = host.left - 1, !.st = st]
    BY DEF HostIn
  <2> HIDE DEF got, st
  <2> QED BY <1>3, <2>1 DEF HostFields, Gone
<1>5. ~IsDma(host.c)
  <2>1. HdMoves(ide, host) => ~IsDma(host.c)
    BY <1>1 DEF IsDma, HdMoves, HdReading
  <2>2. CdMoves(ide, host) => ~IsDma(host.c)
    BY DEF IsDma, CdMoves, CdData, Responses
  <2> QED BY <1>2, <2>1, <2>2
<1>6. st \in Running
  BY DEF Running
<1>7. (host.left > 1 => st = "in") /\ (host.left = 1 /\ last => st = "done") /\ (host.left = 1 /\ ~last => st = "wait")
  OBVIOUS
<1> HIDE DEF st, left
<1>8. Onward(ide, host, host') /\ host'.st = st /\ host'.left = left /\ host'.got = got
  <2> DEFINE g == host'
  <2>1. g = Gone(host, st, left, got)
    BY <1>4
  <2> HIDE DEF g, got
  <2>2. Onward(ide, host, g) /\ g.st = st /\ g.left = left /\ g.got = got
    BY <1>1, <1>5, <1>6, <2>1, GoesOn
  <2> QED BY <2>2 DEF g
<1>9. CASE HdMoves(ide, host)
  <2>1. host.dev = Hd
    BY <1>1, <1>9 DEF HdMoves, HdReading, HdBlocks, HdTransfer
  <2>2. ide' = HdReadData(ide)
    BY <1>3, <2>1 DEF HostIn, ReadData
  <2> QED BY <1>1, <1>3, <1>7, <1>8, <1>9, <2>1, <2>2, HdWordIn DEF left
<1>10. CASE CdMoves(ide, host)
  <2>1. host.dev = Cd /\ Hd # Cd
    BY <1>10 DEF CdMoves, CdData, CdSide, Hd, Cd
  <2>2. ide' = CdReadData(ide)
    BY <1>3, <2>1 DEF HostIn, ReadData
  <2> QED BY <1>1, <1>3, <1>7, <1>8, <1>10, <2>1, <2>2, CdWordIn DEF left
<1> QED BY <1>2, <1>9, <1>10

-----------------------------------------------------------------------------
(* The driver writes a word of the disk. *)

Posted(s, e) ==
    LET v == s.dev[Hd]
    IN  /\ But(s, e, {"dev", "image"}) /\ DevBut(s, e, Hd, {"pos"}) /\ e.dev[Hd].pos = v.pos + Len(v.wbuf)
        /\ e.image = Placed(v.wbuf, v.pos, s.image)

LEMMA PostedFacts ==
  ASSUME NEW s, Shape(s)
  PROVE  Posted(s, PostXferAction(s))
BY PostFacts DEF Posted

\* Within a block, at the end of the last one, at the end of another.
WordWritten(s, e, x) ==
    LET v == s.dev[Hd]
        w == e.dev[Hd]
        q == Append(v.wbuf, x)
        rest == v.xfer_cnt - v.chunk_size
    IN  /\ But(s, e, {"dev", "slow", "image"})
        /\ DevBut(s, e, Hd, {"wbuf", "chunk_cnt", "xfer_cnt", "status", "pos"})
        /\ v.chunk_cnt - 1 > 0 =>
             /\ w.wbuf = q /\ w.chunk_cnt = v.chunk_cnt - 1 /\ w.xfer_cnt = v.xfer_cnt /\ w.pos = v.pos
             /\ w.status = v.status /\ e.slow = s.slow /\ e.image = s.image
        /\ v.chunk_cnt - 1 <= 0 => e.image = Placed(q, v.pos, s.image)
        /\ v.chunk_cnt - 1 <= 0 /\ rest <= 0 =>
             w.xfer_cnt = 0 /\ w.status = v.status \ {"DRQ"} /\ SlowStarted(s, e, "written")
        /\ v.chunk_cnt - 1 <= 0 /\ rest > 0 =>
             /\ w.wbuf = <<>> /\ w.xfer_cnt = rest /\ w.chunk_cnt = Lesser(rest, v.chunk_size)
             /\ w.pos = v.pos + Len(q) /\ w.status = v.status /\ SlowStarted(s, e, "ready")

LEMMA WordWrittenFacts ==
  ASSUME NEW s, Shape(s), s.slow = <<>>, s.fast \in Seq(FastTimers), s.dev[Hd].head = Hd, NEW x,
         s.dev[Hd].chunk_cnt \in Nat, s.dev[Hd].xfer_cnt \in Nat \ {0}, s.dev[Hd].chunk_size \in Nat
  PROVE  WordWritten(s, HdWriteData(s, x), x)
<1> DEFINE v == s.dev[Hd]
           q == Append(v.wbuf, x)
           left == v.chunk_cnt - 1
           rest == v.xfer_cnt - v.chunk_size
           f == [wbuf |-> q, chunk_cnt |-> left]
           after == Set(s, Hd, f)
           post == PostXferAction(after)
           g == [xfer_cnt |-> 0, status |-> v.status \ {"DRQ"}]
           last == Set(post, Hd, g)
           i == [wbuf |-> <<>>, xfer_cnt |-> rest, chunk_cnt |-> Lesser(rest, v.chunk_size)]
           next == Set(post, Hd, i)
           e == HdWriteData(s, x)
           F == {"wbuf", "chunk_cnt", "xfer_cnt", "status", "pos"}
<1>0. Hd \in Devs /\ left \in Int /\ rest \in Int
  BY DEF Devs
<1>1. DOMAIN f = {"wbuf", "chunk_cnt"} /\ f.wbuf = q /\ f.chunk_cnt = left /\ DOMAIN f \subseteq DevFields
  BY DEF DevFields
<1>2. /\ DOMAIN g = {"xfer_cnt", "status"} /\ g.xfer_cnt = 0 /\ g.status = v.status \ {"DRQ"}
      /\ DOMAIN g \subseteq DevFields
  BY DEF DevFields
<1>3. /\ DOMAIN i = {"wbuf", "xfer_cnt", "chunk_cnt"} /\ i.wbuf = <<>> /\ i.xfer_cnt = rest
      /\ i.chunk_cnt = Lesser(rest, v.chunk_size) /\ DOMAIN i \subseteq DevFields
  BY DEF DevFields
<1>4. e = IF left > 0 THEN after ELSE IF rest <= 0 THEN After100us(last, Hd, "written")
                                      ELSE After100us(next, Hd, "ready")
  BY DEF HdWriteData, IsSelected
<1> HIDE DEF f, g, i, e
<1>5. But(s, after, {"dev"}) /\ DevBut(s, after, Hd, DOMAIN f) /\ \A y \in DOMAIN f : after.dev[Hd][y] = f[y]
  BY <1>0, <1>1, SetFacts
<1> HIDE DEF after
<1>6. /\ DevBut(s, after, Hd, {"wbuf", "chunk_cnt"}) /\ after.dev[Hd].wbuf = q /\ after.dev[Hd].chunk_cnt = left
      /\ Shape(after)
  BY <1>1, <1>5 DEF But
<1>7. after.dev[Hd].pos = v.pos /\ after.image = s.image
  BY <1>5, <1>6 DEF But, DevBut, IdeFields, DevFields
<1>8. Posted(after, post)
  BY <1>6, PostedFacts
<1> HIDE DEF post, q
<1>9. /\ But(after, post, {"dev", "image"}) /\ DevBut(after, post, Hd, {"pos"}) /\ post.dev[Hd].pos = v.pos + Len(q)
      /\ post.image = Placed(q, v.pos, s.image) /\ Shape(post)
  BY <1>6, <1>7, <1>8 DEF Posted, But
<1>10. /\ But(s, post, {"dev", "image"}) /\ post.slow = <<>> /\ post.fast \in Seq(FastTimers)
       /\ DevBut(s, post, Hd, {"wbuf", "chunk_cnt", "pos"})
  <2>1. But(s, post, {"dev", "image"}) /\ post.slow = <<>> /\ post.fast \in Seq(FastTimers)
    BY <1>5, <1>9 DEF But, IdeFields
  <2> QED BY <1>6, <1>9, <2>1 DEF DevBut
<1>11. But(post, last, {"dev"}) /\ DevBut(post, last, Hd, DOMAIN g) /\ \A y \in DOMAIN g : last.dev[Hd][y] = g[y]
  BY <1>0, <1>2, <1>9, SetFacts
<1>12. But(post, next, {"dev"}) /\ DevBut(post, next, Hd, DOMAIN i) /\ \A y \in DOMAIN i : next.dev[Hd][y] = i[y]
  BY <1>0, <1>3, <1>9, SetFacts
<1> HIDE DEF last, next
<1>13. CASE left > 0
  <2>1. e = after
    BY <1>4, <1>13
  <2>2. But(s, e, {"dev", "slow", "image"}) /\ e.slow = s.slow /\ e.image = s.image
    BY <1>5, <2>1 DEF But, IdeFields
  <2>3. DevBut(s, e, Hd, F) /\ e.dev[Hd].xfer_cnt = v.xfer_cnt /\ e.dev[Hd].status = v.status
    BY <1>6, <2>1 DEF DevBut, DevFields
  <2> QED BY <1>0, <1>6, <1>7, <1>13, <2>1, <2>2, <2>3 DEF WordWritten, e, q
<1>14. CASE ~(left > 0) /\ rest <= 0
  <2>1. e = After100us(last, Hd, "written")
    BY <1>4, <1>14
  <2>2. Shape(last) /\ last.slow = <<>> /\ last.fast \in Seq(FastTimers) /\ last.image = Placed(q, v.pos, s.image)
    BY <1>9, <1>10, <1>11 DEF But, IdeFields
  <2>3. But(last, e, {"slow"}) /\ SlowStarted(last, e, "written")
    BY <2>1, <2>2, FirstTimer
  <2>4. /\ e.dev = last.dev /\ But(s, e, {"dev", "slow", "image"}) /\ SlowStarted(s, e, "written")
        /\ e.image = Placed(q, v.pos, s.image)
    BY <1>10, <1>11, <2>2, <2>3 DEF But, IdeFields, SlowStarted
  <2>5. e.dev[Hd].xfer_cnt = 0 /\ e.dev[Hd].status = v.status \ {"DRQ"}
    BY <1>2, <1>11, <2>4
  <2>6. DevBut(post, last, Hd, {"xfer_cnt", "status"})
    BY <1>2, <1>11
  <2>7. DevBut(s, e, Hd, F)
    BY <1>10, <2>4, <2>6 DEF DevBut
  <2> QED BY <1>0, <1>14, <2>4, <2>5, <2>7 DEF WordWritten, e, q
<1>15. CASE ~(left > 0) /\ ~(rest <= 0)
  <2>1. e = After100us(next, Hd, "ready")
    BY <1>4, <1>15
  <2>2. Shape(next) /\ next.slow = <<>> /\ next.fast \in Seq(FastTimers) /\ next.image = Placed(q, v.pos, s.image)
    BY <1>9, <1>10, <1>12 DEF But, IdeFields
  <2>3. But(next, e, {"slow"}) /\ SlowStarted(next, e, "ready")
    BY <2>1, <2>2, FirstTimer
  <2>4. /\ e.dev = next.dev /\ But(s, e, {"dev", "slow", "image"}) /\ SlowStarted(s, e, "ready")
        /\ e.image = Placed(q, v.pos, s.image)
    BY <1>10, <1>12, <2>2, <2>3 DEF But, IdeFields, SlowStarted
  <2>5. /\ e.dev[Hd].wbuf = <<>> /\ e.dev[Hd].xfer_cnt = rest
        /\ e.dev[Hd].chunk_cnt = Lesser(rest, v.chunk_size)
    BY <1>3, <1>12, <2>4
  <2>6. DevBut(post, next, Hd, {"wbuf", "xfer_cnt", "chunk_cnt"})
    BY <1>3, <1>12
  <2>7. DevBut(s, e, Hd, F) /\ e.dev[Hd].pos = v.pos + Len(q) /\ e.dev[Hd].status = v.status
    BY <1>9, <1>10, <2>4, <2>6 DEF DevBut, DevFields
  <2> QED BY <1>0, <1>15, <2>4, <2>5, <2>7 DEF WordWritten, e, q
<1> QED BY <1>13, <1>14, <1>15

Numbered(e) == [e EXCEPT !.sent = @ + 1]

LEMMA HdWordOut ==
  ASSUME NEW s, NEW h, IdeOk(s, h), h.st = "out", HdMoves(s, h),
         NEW e, e = Numbered(WriteData(s, s.sent + 1)),
         NEW g, Onward(s, h, g), g.got = h.got, g.left = h.left - 1,
         g.st = IF h.left = 1 THEN "wait" ELSE "out"
  PROVE  IdeOk(e, g)
<1> DEFINE v == s.dev[Hd]
           w == e.dev[Hd]
           c == h.c
           S == Size(c)
           X == v.xfer_cnt
           k == S - X
           p == Part(v)
           x == s.sent + 1
           q == Append(v.wbuf, x)
           b == HdWriteData(s, x)
<1>1. /\ Shape(s) /\ IdeTyped(s) /\ Hd \in Devs /\ Cd \in Devs /\ Hd # Cd /\ Devs = {Hd, Cd} /\ h.st \in Running
      /\ Chosen(h.dev, c) /\ v.head = h.dev
  <2>1. h.st \in Running
    BY DEF Running
  <2> QED BY <2>1, RunningFacts
<1>2. HdWriting(s, h) /\ s.irq = 0 /\ s.slow = <<>> /\ Asking(v) /\ h.left = v.chunk_cnt
  BY DEF HdMoves
<1>3. /\ HdBlocks(s, h) /\ c.cmd \in {"WRITE_SECTOR", "WRITE_MULTIPLE"}
      /\ s.sent = k + p /\ v.pos = First(c) + k /\ Piece(Sent(c), k, p, v.wbuf) /\ Stored(s.image, c, k)
  BY <1>2 DEF HdWriting
<1>4. /\ h.dev = Hd /\ Resting(s.dev[Cd]) /\ s.dev[Cd].remain = 0 /\ NoDone(s.fast) /\ X \in 1 .. Total(c)
      /\ v.dma = FALSE /\ v.chunk_size = BlockOf(s, c) /\ v.chunk_size \in Nat \ {0}
      /\ v.chunk_cnt \in 1 .. Lesser(X, v.chunk_size)
  BY <1>3 DEF HdBlocks, HdTransfer
<1>5. Total(c) = S /\ S \in Nat /\ First(c) \in Nat
  <2>1. c.cmd \notin Responses
    BY <1>3 DEF Responses
  <2> QED BY <1>1, <2>1, CommandFacts DEF Total
<1>6. s.fast \in Seq(FastTimers) /\ v.spi \in Nat
  BY <1>1 DEF IdeTyped, DevTyped
<1>7. X \in Nat \ {0} /\ v.chunk_cnt \in Nat \ {0} /\ v.chunk_size \in Nat \ {0} /\ k \in Nat /\ p \in Nat /\ k + p < S
  BY <1>4, <1>5 DEF Lesser, Part
<1>8. WordWritten(s, b, x)
  BY <1>1, <1>2, <1>4, <1>6, <1>7, WordWrittenFacts
<1> HIDE DEF b
<1>9. /\ But(s, b, {"dev", "slow", "image"}) /\ DevBut(s, b, Hd, {"wbuf", "chunk_cnt", "xfer_cnt", "status", "pos"})
  BY <1>8 DEF WordWritten
<1>10. e = Numbered(b)
  <2>1. b.dev[Cd].xfer_cnt = 0
    BY <1>1, <1>4, <1>9 DEF DevBut, Resting
  <2>2. CdWriteData(b, x) = b
    BY <2>1 DEF CdWriteData
  <2> QED BY <2>2 DEF WriteData, b
<1>11. /\ But(s, e, {"dev", "slow", "image", "sent"}) /\ e.dev = b.dev /\ e.slow = b.slow /\ e.image = b.image
       /\ e.sent = s.sent + 1
  BY <1>9, <1>10 DEF But, Shape, IdeFields, Numbered
<1>12. /\ e.dev[Cd] = s.dev[Cd] /\ w.dma = FALSE /\ w.chunk_size = v.chunk_size /\ w.spi = v.spi
       /\ e.fast = s.fast /\ e.irq = 0 /\ BlockOf(e, c) = BlockOf(s, c)
  BY <1>1, <1>2, <1>4, <1>9, <1>11 DEF But, DevBut, IdeFields, DevFields, BlockOf
<1> HIDE DEF k, p
<1>13. Piece(Sent(c), k, p + 1, q) /\ Len(q) = p + 1
  <2>1. x = k + p + 1 /\ x \in WordSet /\ x \in 1 .. S
    BY <1>3, <1>5, <1>7 DEF WordSet
  <2>2. Sent(c)[x] = x
    <3>1. 1 \in Nat /\ Sent(c) = Addresses(1, S)
      BY DEF Sent
    <3>2. Addresses(1, S)[x] = 1 + x - 1
      BY <1>5, <2>1, <3>1, AddressFacts
    <3> HIDE DEF x, S
    <3> QED BY <2>1, <3>1, <3>2
  <2>3. Piece(Sent(c), k, p + 1, q)
    BY <1>3, <1>7, <2>1, <2>2, PieceAppend
  <2> QED BY <2>3 DEF Piece
<1>14. g.c = c /\ g.dev = Hd
  BY <1>4 DEF Onward
<1>15. e.slow \in Seq(SlowTimers) /\ w.xfer_cnt \in Nat
  <2>1. <<>> \in Seq(SlowTimers)
    BY EmptySeq
  <2>2. b.slow = s.slow \/ b.slow \in Seq(SlowTimers)
    BY <1>7, <1>8 DEF WordWritten, SlowStarted
  <2>3. b.dev[Hd].xfer_cnt \in {X, 0} \/ (X - v.chunk_size > 0 /\ b.dev[Hd].xfer_cnt = X - v.chunk_size)
    BY <1>7, <1>8 DEF WordWritten
  <2>4. w.xfer_cnt \in Nat
    BY <1>7, <1>11, <2>3
  <2> QED BY <1>2, <1>11, <2>1, <2>2, <2>4
<1>16. StepOf(s, e, h, g, Hd)
  <2>1. But(s, e, IdeFields \ Kept) /\ DevBut(s, e, Hd, Working)
    BY <1>9, <1>11 DEF But, DevBut, IdeFields, Kept, Working
  <2> QED BY <1>1, <1>6, <1>12, <1>15, <2>1 DEF StepOf
<1>17. IdeTyped(e) /\ ChanOk(e, g) /\ HostTyped(e, g)
  BY <1>1, <1>16, StepTyped
<1>18. CASE v.chunk_cnt > 1
  <2>1. /\ w.wbuf = q /\ w.chunk_cnt = v.chunk_cnt - 1 /\ w.xfer_cnt = X /\ w.pos = v.pos
        /\ w.status = v.status /\ e.slow = <<>> /\ e.image = s.image
    BY <1>2, <1>7, <1>8, <1>11, <1>18, SMTT(30) DEF WordWritten
  <2>2. HdBlocks(e, g)
    <3>1. w.chunk_cnt \in 1 .. Lesser(w.xfer_cnt, w.chunk_size)
      BY <1>4, <1>7, <1>12, <1>18, <2>1 DEF Lesser
    <3> QED BY <1>4, <1>12, <1>14, <2>1, <3>1 DEF HdBlocks, HdTransfer
  <2>3. Part(w) = p + 1
    <3>1. Part(w) = Lesser(X, v.chunk_size) - (v.chunk_cnt - 1) /\ p = Lesser(X, v.chunk_size) - v.chunk_cnt
      BY <1>12, <2>1 DEF Part, p
    <3>2. Lesser(X, v.chunk_size) \in Nat
      BY <1>7 DEF Lesser
    <3> QED BY <1>7, <3>1, <3>2
  <2>4. e.sent = k + Part(w) /\ Size(g.c) - w.xfer_cnt = k
    <3>1. e.sent = (k + p) + 1 /\ (k + p) + 1 = k + (p + 1)
      BY <1>3, <1>7, <1>11 DEF k, p
    <3> QED BY <1>14, <2>1, <2>3, <3>1 DEF k
  <2>5. HdWriting(e, g)
    BY <1>3, <1>13, <1>14, <2>1, <2>2, <2>3, <2>4 DEF HdWriting
  <2>6. HdMoves(e, g) /\ g.st = "out"
    BY <1>2, <1>7, <1>12, <1>18, <2>1, <2>5 DEF HdMoves, Asking
  <2>7. Phase(e, g)
    BY <2>6 DEF Phase
  <2> QED BY <1>17, <2>7 DEF IdeOk
<1>19. CASE v.chunk_cnt = 1 /\ X <= v.chunk_size
  <2>1. w.xfer_cnt = 0 /\ w.status = v.status \ {"DRQ"} /\ OneSlow(e.slow, "written") /\ e.image = Placed(q, v.pos, s.image)
    BY <1>7, <1>8, <1>11, <1>19 DEF WordWritten, SlowStarted
  <2>2. k + (p + 1) = S
    BY <1>4, <1>5, <1>7, <1>19 DEF Part, Lesser, k, p
  <2>3. Stored(e.image, c, S)
    <3>1. k + (p + 1) <= S /\ p + 1 \in Nat
      BY <1>5, <1>7, <2>2
    <3>2. Stored(Placed(q, v.pos, s.image), c, k + (p + 1))
      BY <1>1, <1>3, <1>4, <1>7, <1>13, <3>1, StoredMore
    <3> QED BY <2>1, <2>2, <3>2
  <2>4. Outcome(e, g)
    BY <1>3, <1>14, <2>3 DEF Outcome, Complete, IsDma, HdReads, Responses
  <2>5. HdWrittenOut(e, g)
    BY <1>3, <1>4, <1>12, <1>14, <2>1, <2>4 DEF HdWrittenOut
  <2>6. g.st = "wait"
    BY <1>2, <1>19
  <2>7. Phase(e, g)
    BY <2>5, <2>6 DEF Phase
  <2> QED BY <1>17, <2>7 DEF IdeOk
<1>20. CASE v.chunk_cnt = 1 /\ X > v.chunk_size
  <2>1. /\ w.wbuf = <<>> /\ w.xfer_cnt = X - v.chunk_size /\ w.chunk_cnt = Lesser(w.xfer_cnt, w.chunk_size)
        /\ w.pos = v.pos + Len(q) /\ w.status = v.status /\ OneSlow(e.slow, "ready")
        /\ e.image = Placed(q, v.pos, s.image)
    BY <1>7, <1>8, <1>11, <1>12, <1>20 DEF WordWritten, SlowStarted
  <2>2. p + 1 = v.chunk_size /\ Size(g.c) - w.xfer_cnt = k + (p + 1) /\ k + (p + 1) <= S /\ p + 1 \in Nat
    BY <1>4, <1>5, <1>7, <1>14, <1>20, <2>1, SMTT(30) DEF Part, Lesser, k, p
  <2>3. Stored(e.image, c, k + (p + 1))
    BY <1>1, <1>3, <1>4, <1>7, <1>13, <2>1, <2>2, StoredMore
  <2>4. HdBlocks(e, g)
    <3>1. w.xfer_cnt \in 1 .. Total(c)
      BY <1>4, <1>5, <1>7, <1>20, <2>1
    <3>2. w.chunk_cnt \in 1 .. Lesser(w.xfer_cnt, w.chunk_size)
      BY <1>4, <1>5, <1>12, <2>1, <3>1 DEF Lesser
    <3> QED BY <1>4, <1>12, <1>14, <3>1, <3>2 DEF HdBlocks, HdTransfer
  <2>5. Part(w) = 0
    BY <1>7, <1>12, <1>20, <2>1 DEF Part, Lesser
  <2>6. Piece(Sent(c), k + (p + 1), 0, w.wbuf)
    BY <1>7, <2>1, PieceNone
  <2>7. e.sent = k + (p + 1) + Part(w) /\ w.pos = First(c) + (k + (p + 1))
    BY <1>3, <1>5, <1>7, <1>11, <1>13, <2>1, <2>5
  <2>8. HdWriting(e, g)
    BY <1>3, <1>14, <2>2, <2>3, <2>4, <2>5, <2>6, <2>7 DEF HdWriting
  <2>9. HdWaits(e, g)
    BY <1>12, <2>1, <2>8 DEF HdWaits
  <2>10. g.st = "wait"
    BY <1>2, <1>20
  <2>11. Phase(e, g)
    BY <2>9, <2>10 DEF Phase
  <2> QED BY <1>17, <2>11 DEF IdeOk
<1> QED BY <1>4, <1>7, <1>18, <1>19, <1>20

LEMMA OutOk ==
  ASSUME IdeOk(ide, host), HostOut
  PROVE  IdeOk(ide', host')
<1> DEFINE st == IF host.left = 1 THEN "wait" ELSE "out"
           left == host.left - 1
           g == host'
<1>1. host.st = "out" /\ host.st \in Running
  BY DEF HostOut, Running
<1>2. HdMoves(ide, host)
  BY <1>1 DEF IdeOk, Phase
<1>3. DOMAIN host = HostFields
  BY <1>1, RunningFacts
<1>4. g = Gone(host, st, left, host.got)
  BY <1>3 DEF HostOut, HostFields, Gone
<1>5. ~IsDma(host.c)
  BY <1>1, <1>2 DEF IsDma, HdMoves, HdWriting
<1>6. st \in Running
  BY DEF Running
<1> HIDE DEF left
<1>7. Onward(ide, host, g) /\ g.st = st /\ g.left = left /\ g.got = host.got
  <2> HIDE DEF g, st
  <2> QED BY <1>1, <1>4, <1>5, <1>6, GoesOn
<1>8. ide' = Numbered(WriteData(ide, ide.sent + 1))
  BY DEF HostOut, Numbered
<1> QED BY <1>1, <1>2, <1>7, <1>8, HdWordOut DEF left

-----------------------------------------------------------------------------
(* The driver writes a packet. *)

\* The CD-ROM presents the first words of an answer, or its status.
DataBegun(s, e, c) ==
    LET w == e.dev[Cd]
    IN  /\ But(s, e, {"dev", "irq"}) /\ DevBut(s, e, Cd, Working \ {"dma", "spi"})
        /\ InPhase(w) /\ Asking(w) /\ e.irq = 1 /\ w.expected = (c.cmd # "IDENTIFY")
        /\ c.cmd \in Responses \cup {"READ", "READ_CD"}
        /\ w.xfer_cnt \in Nat \ {0} /\ Piece(Answered(c), 0, w.xfer_cnt, w.buf)
        /\ w.remain \in Nat /\ w.xfer_cnt + w.remain = Total(c)
        /\ c.cmd \in Responses => w.remain = 0
        /\ c.cmd \notin Responses => w.pos = First(c) + w.xfer_cnt /\ Multiple(w.remain)
        /\ c.cmd # "IDENTIFY" => w.byte_count = w.xfer_cnt
        /\ c.cmd = "IDENTIFY" => w.xfer_cnt = RespWords
CommandEnded(s, e) ==
    LET w == e.dev[Cd]
    IN  /\ But(s, e, {"dev", "irq"}) /\ DevBut(s, e, Cd, Working \ {"dma", "spi"})
        /\ "DRQ" \notin w.status /\ "BSY" \notin w.status /\ e.irq \in {0, 1}
        /\ w.xfer_cnt = 0 /\ w.remain = 0

LEMMA DataBegunOk ==
  ASSUME NEW s, NEW h, IdeOk(s, h), h.st \in Running, CdSide(s, h), h.got = <<>>, NEW e, DataBegun(s, e, h.c),
         NEW g, Onward(s, h, g), g.got = h.got, g.st = "wait"
  PROVE  IdeOk(e, g)
<1> DEFINE u == s.dev[Cd]
           w == e.dev[Cd]
           c == h.c
<1>1. /\ IdeTyped(s) /\ Cd \in Devs /\ Hd # Cd /\ Devs = {Hd, Cd} /\ Chosen(h.dev, c)
  BY RunningFacts
<1>2. h.dev = Cd /\ Resting(s.dev[Hd]) /\ s.slow = <<>> /\ NoDone(s.fast)
  BY DEF CdSide
<1>3. /\ But(s, e, {"dev", "irq"}) /\ DevBut(s, e, Cd, Working \ {"dma", "spi"})
      /\ e.irq = 1 /\ w.xfer_cnt \in Nat \ {0} /\ w.remain \in Nat
  BY DEF DataBegun
<1>4. u.spi \in Nat /\ u.dma = FALSE /\ s.fast \in Seq(FastTimers) /\ s.slow \in Seq(SlowTimers)
  <2>1. u.dma \in BOOLEAN /\ ~u.dma
    BY <1>1 DEF IdeTyped, DevTyped
  <2>2. u.dma = FALSE
    BY <2>1, Zenon
  <2> QED BY <1>1, <2>2 DEF IdeTyped, DevTyped
<1>5. e.dev[Hd] = s.dev[Hd] /\ w.dma = FALSE /\ w.spi = u.spi /\ e.fast = s.fast /\ e.slow = s.slow
  BY <1>1, <1>3, <1>4 DEF But, DevBut, IdeFields, DevFields, Working
<1>6. g.c = c /\ g.dev = Cd
  BY <1>2 DEF Onward
<1>7. StepOf(s, e, h, g, Cd)
  <2>1. But(s, e, IdeFields \ Kept) /\ DevBut(s, e, Cd, Working)
    BY <1>3 DEF But, DevBut, IdeFields, Kept
  <2> QED BY <1>1, <1>3, <1>4, <1>5, <2>1 DEF StepOf
<1>8. IdeTyped(e) /\ ChanOk(e, g) /\ HostTyped(e, g)
  BY <1>1, <1>7, StepTyped
<1>9. CdData(e, g)
  <2>1. CdSide(e, g)
    BY <1>2, <1>5, <1>6 DEF CdSide
  <2>2. g.got = <<>> /\ Len(g.got) = 0 /\ Piece(Answered(c), 0, 0, g.got)
    BY PieceNone, EmptySeq
  <2>3. InPhase(w) /\ w.expected = (c.cmd # "IDENTIFY") /\ c.cmd \in Responses \cup {"READ", "READ_CD"}
    BY DEF DataBegun
  <2>4. First(c) \in Nat /\ Total(c) \in Nat
    BY <1>1, CommandFacts
  <2>5. Piece(Answered(c), 0, w.xfer_cnt, w.buf) /\ w.xfer_cnt + w.remain = Total(c) /\ (c.cmd \in Responses => w.remain = 0)
    BY DEF DataBegun
  <2>6. c.cmd \notin Responses => w.pos = First(c) + w.xfer_cnt /\ Multiple(w.remain)
    BY DEF DataBegun
  <2>7. 0 + w.xfer_cnt + w.remain = Total(c) /\ (c.cmd \notin Responses => w.pos = First(c) + 0 + w.xfer_cnt)
    BY <1>3, <2>4, <2>5, <2>6
  <2> QED BY <1>3, <1>6, <2>1, <2>2, <2>3, <2>5, <2>6, <2>7 DEF CdData
<1>10. CdWaits(e, g)
  <2>1. Asking(w) /\ (c.cmd # "IDENTIFY" => w.byte_count = w.xfer_cnt) /\ (c.cmd = "IDENTIFY" => w.xfer_cnt = RespWords)
    BY DEF DataBegun
  <2> QED BY <1>3, <1>6, <1>9, <2>1 DEF CdWaits
<1>11. Phase(e, g)
  BY <1>10 DEF Phase
<1> QED BY <1>8, <1>11 DEF IdeOk

LEMMA CommandEndedOk ==
  ASSUME NEW s, NEW h, IdeOk(s, h), h.st \in Running, CdSide(s, h), NEW e, CommandEnded(s, e),
         NEW g, Onward(s, h, g), g.got = h.got, g.st = "wait", Complete(s, h, h.got)
  PROVE  IdeOk(e, g)
<1> DEFINE u == s.dev[Cd]
           w == e.dev[Cd]
           c == h.c
<1>1. IdeTyped(s) /\ Cd \in Devs /\ Hd # Cd /\ Devs = {Hd, Cd} /\ Chosen(h.dev, c)
  BY RunningFacts
<1>2. h.dev = Cd /\ Resting(s.dev[Hd]) /\ s.slow = <<>> /\ NoDone(s.fast)
  BY DEF CdSide
<1>3. /\ But(s, e, {"dev", "irq"}) /\ DevBut(s, e, Cd, Working \ {"dma", "spi"})
      /\ e.irq \in {0, 1} /\ "DRQ" \notin w.status /\ "BSY" \notin w.status /\ w.xfer_cnt = 0 /\ w.remain = 0
  BY DEF CommandEnded
<1>4. u.spi \in Nat /\ u.dma = FALSE /\ s.fast \in Seq(FastTimers) /\ s.slow \in Seq(SlowTimers)
  <2>1. u.dma \in BOOLEAN /\ ~u.dma
    BY <1>1 DEF IdeTyped, DevTyped
  <2>2. u.dma = FALSE
    BY <2>1, Zenon
  <2> QED BY <1>1, <2>2 DEF IdeTyped, DevTyped
<1>5. /\ e.dev[Hd] = s.dev[Hd] /\ w.dma = FALSE /\ w.spi = u.spi /\ e.fast = s.fast /\ e.slow = s.slow
      /\ w.xfer_cnt = 0 /\ w.remain = 0 /\ e.image = s.image
  BY <1>1, <1>3, <1>4 DEF But, DevBut, IdeFields, DevFields, Working
<1>6. g.c = c /\ g.dev = Cd
  BY <1>2 DEF Onward
<1>7. StepOf(s, e, h, g, Cd)
  <2>1. But(s, e, IdeFields \ Kept) /\ DevBut(s, e, Cd, Working)
    BY <1>3 DEF But, DevBut, IdeFields, Kept
  <2>2. e.irq \in {0, 1} /\ e.fast \in Seq(FastTimers) /\ e.slow \in Seq(SlowTimers)
    BY <1>3, <1>4, <1>5
  <2>3. w.xfer_cnt \in Nat /\ w.spi \in Nat /\ w.spi = u.spi
    BY <1>4, <1>5
  <2>4. w.dma = FALSE
    BY <1>5, Zenon
  <2> QED BY <2>1, <2>2, <2>3, <2>4 DEF StepOf
<1>8. IdeTyped(e) /\ ChanOk(e, g) /\ HostTyped(e, g)
  BY <1>1, <1>7, StepTyped
<1>9. c.cmd \in CdCommands
  BY <1>1, <1>2, DriverAssumption DEF Chosen, Hd, Cd
<1>10. ~IsDma(c) /\ c.cmd \notin {"SILENT", "UNSUPPORTED"}
  BY <1>9 DEF IsDma, CdCommands
<1>11. AtRest(e)
  BY <1>2, <1>3, <1>5 DEF AtRest, Resting
<1>12. Ended(e, g)
  BY <1>5, <1>6, <1>10, <1>11 DEF Ended, Outcome, Complete
<1>13. Phase(e, g)
  BY <1>12 DEF Phase
<1> QED BY <1>8, <1>13 DEF IdeOk

\* perform_packet_command is ready to: the CD-ROM is selected and has no data.
CdReady(s) == /\ Shape(s) /\ s.dev[Cd].ien = FALSE /\ s.dev[Cd].head = Cd
              /\ s.dev[Cd].xfer_cnt = 0 /\ s.dev[Cd].remain = 0
Expecting(s, e) == /\ But(s, e, {"dev"}) /\ DevBut(s, e, Cd, {"status", "expected", "pos"})
                   /\ e.dev[Cd].expected = TRUE

LEMMA ReadyEffects ==
  ASSUME NEW s, NEW e, CdReady(s), Expecting(s, e)
  PROVE  CdReady(e) /\ e.dev[Cd].byte_count = s.dev[Cd].byte_count /\ e.irq = s.irq
BY DEF CdReady, Expecting, But, DevBut, IdeFields, DevFields

\* A READ fetches what the request, the cache and the limit allow.
LEMMA ReadFacts ==
  ASSUME NEW s, NEW a, NEW c \in Packets, c.cmd \in {"READ", "READ_CD"}, c.count # 0,
         CdReady(s), Expecting(s, a), a.dev[Cd].pos = First(c),
         NEW limit \in Nat \ {0}, Multiple(limit), NEW e, e = DataInPhase(ReadBegin(a, c.count, limit))
  PROVE  DataBegun(s, e, c)
<1> DEFINE size == Lesser(c.count * SecWords, Lesser(CacheSecs * SecWords, limit))
           remain == c.count * SecWords - size
           b == Deliver(a, size, remain)
           w == e.dev[Cd]
<1>1. Chosen(Cd, c) /\ c.count \in Nat \ {0} /\ First(c) \in Nat /\ Size(c) \in Nat /\ c.count * SecWords = Size(c)
  <2>1. Chosen(Cd, c)
    BY DEF Chosen
  <2> QED BY <2>1, CommandFacts DEF Size
<1>2. Size(c) \in Nat \ {0} /\ Multiple(Size(c))
  <2>1. Multiple(c.count * SecWords)
    BY <1>1, MultipleFacts
  <2>2. \A x, y \in Nat \ {0} : x * y # 0
    OBVIOUS
  <2>3. c.count * SecWords # 0
    BY <1>1, <2>2, AtaSizes
  <2> QED BY <1>1, <2>1, <2>3
<1>3. size \in Nat \ {0} /\ size <= Size(c) /\ Multiple(size)
  <2>1. Lesser(CacheWords, limit) \in Nat \ {0} /\ Multiple(Lesser(CacheWords, limit))
    <3>1. CacheWords \in Nat \ {0} /\ Multiple(CacheWords)
      BY CacheFacts
    <3>2. Lesser(CacheWords, limit) \in Nat \ {0}
      BY <3>1 DEF Lesser
    <3> QED BY <3>1, <3>2, MultipleLesser
  <2>2. size = Lesser(Size(c), Lesser(CacheWords, limit))
    BY <1>1 DEF CacheWords
  <2> HIDE DEF size
  <2>3. size \in Nat \ {0} /\ size <= Size(c)
    BY <1>2, <2>1, <2>2 DEF Lesser
  <2> DEFINE m == Lesser(CacheWords, limit)
             n == Size(c)
  <2>4. m \in Nat /\ n \in Nat /\ Multiple(m) /\ Multiple(n) /\ size = Lesser(n, m)
    BY <1>2, <2>1, <2>2
  <2> HIDE DEF m, n
  <2>5. Multiple(Lesser(n, m))
    BY <2>4, MultipleLesser
  <2> QED BY <2>3, <2>4, <2>5
<1>4. remain \in Nat /\ Multiple(remain) /\ size + remain = Size(c)
  <2>1. remain = Size(c) - size
    BY <1>1
  <2> HIDE DEF remain, size
  <2> DEFINE n == Size(c)
  <2>2. n \in Nat /\ size \in Nat /\ size <= n /\ Multiple(size) /\ Multiple(n) /\ remain = n - size
    BY <1>2, <1>3, <2>1
  <2> HIDE DEF n
  <2>3. Multiple(n - size)
    BY <2>2, MultipleMinus
  <2> QED BY <2>2, <2>3 DEF n
<1>5. CdReady(a)
  BY ReadyEffects
<1>6. e = DataInPhase(b)
  BY DEF ReadBegin
<1> HIDE DEF size, remain
<1>7. Delivered(a, b, size, remain)
  BY <1>1, <1>3, <1>5, DeliverFacts DEF CdReady
<1> HIDE DEF b
<1>8. Shape(b) /\ b.dev[Cd].ien = FALSE /\ b.dev[Cd].head = Cd
  BY <1>5, <1>7 DEF Delivered, But, DevBut, DevFields, CdReady
<1>9. Presented(b, e)
  BY <1>6, <1>8, InPhaseFacts
<1>10. But(s, e, {"dev", "irq"}) /\ e.irq = 1
  BY <1>7, <1>9 DEF Expecting, Delivered, Presented, But, IdeFields
<1>11. /\ DevBut(s, e, Cd, {"status", "expected", "pos", "buf", "xfer_cnt", "byte_count", "remain", "io", "cod"})
       /\ InPhase(w) /\ Asking(w)
  BY <1>7, <1>9 DEF Expecting, Delivered, Presented, DevBut
<1>12. /\ w.buf = Addresses(First(c), size) /\ w.xfer_cnt = size /\ w.byte_count = size /\ w.remain = remain
       /\ w.pos = First(c) + size /\ w.expected = TRUE
  <2>1. /\ b.dev[Cd].buf = Addresses(First(c), size) /\ b.dev[Cd].xfer_cnt = size /\ b.dev[Cd].byte_count = size
        /\ b.dev[Cd].remain = remain /\ b.dev[Cd].pos = First(c) + size
    BY <1>7 DEF Delivered
  <2>2. b.dev[Cd].expected = TRUE
    BY <1>7 DEF Delivered, Expecting, DevBut, DevFields
  <2>3. \A x \in {"buf", "xfer_cnt", "byte_count", "remain", "pos", "expected"} : w[x] = b.dev[Cd][x]
    BY <1>9 DEF Presented, DevBut, DevFields
  <2> QED BY <2>1, <2>2, <2>3
<1>13. DevBut(s, e, Cd, Working \ {"dma", "spi"})
  BY <1>11 DEF DevBut, Working
<1>14. Piece(Answered(c), 0, size, Addresses(First(c), size))
  <2>1. 0 \in Nat /\ 0 + size <= Size(c) /\ First(c) = First(c) + 0 /\ size \in Nat
    BY <1>1, <1>3
  <2> QED BY <1>1, <2>1, NextWords
<1>15. c.cmd # "IDENTIFY" /\ c.cmd \notin Responses /\ Total(c) = Size(c)
  BY DEF Responses, Total
<1>16. w.expected = (c.cmd # "IDENTIFY")
  BY <1>12, <1>15, Zenon
<1> QED BY <1>3, <1>4, <1>10, <1>11, <1>12, <1>13, <1>14, <1>15, <1>16 DEF DataBegun

LEMMA LimitFacts ==
  ASSUME NEW limit \in ByteLimits
  PROVE  limit \in Nat \ {0} /\ Multiple(limit)
<1>1. limit \in Nat /\ SecWords \in Nat \ {0}
  BY DriverAssumption, AtaSizes
<1>2. PICK k \in 1 .. limit : limit = k * SecWords
  BY DriverAssumption
<1> QED BY <1>1, <1>2, MultipleFacts

\* An INQUIRY is answered from no medium.
LEMMA InquiryFacts ==
  ASSUME NEW s, NEW a, NEW c \in Packets, c.cmd = "INQUIRY", CdReady(s), Expecting(s, a),
         NEW e, e = DataInPhase(Set(a, Cd, [buf |-> [i \in 1 .. RespWords |-> NoData],
                                            xfer_cnt |-> RespWords, byte_count |-> RespWords]))
  PROVE  DataBegun(s, e, c)
<1> DEFINE answer == [i \in 1 .. RespWords |-> NoData]
           f == [buf |-> answer, xfer_cnt |-> RespWords, byte_count |-> RespWords]
           b == Set(a, Cd, f)
           w == e.dev[Cd]
<1>1. CdReady(a)
  BY ReadyEffects
<1>2. /\ DOMAIN f = {"buf", "xfer_cnt", "byte_count"} /\ DOMAIN f \subseteq DevFields /\ Cd \in Devs
      /\ f.buf = answer /\ f.xfer_cnt = RespWords /\ f.byte_count = RespWords
  BY DEF DevFields, Devs
<1> HIDE DEF f
<1>3. But(a, b, {"dev"}) /\ DevBut(a, b, Cd, DOMAIN f) /\ \A x \in DOMAIN f : b.dev[Cd][x] = f[x]
  BY <1>1, <1>2, SetFacts DEF CdReady
<1>4. e = DataInPhase(b)
  BY DEF f
<1> HIDE DEF b, answer
<1>5. /\ DevBut(a, b, Cd, {"buf", "xfer_cnt", "byte_count"}) /\ b.dev[Cd].buf = answer /\ b.dev[Cd].xfer_cnt = RespWords
      /\ b.dev[Cd].byte_count = RespWords /\ Shape(b)
  BY <1>2, <1>3 DEF But
<1>6. b.dev[Cd].ien = FALSE /\ b.dev[Cd].head = Cd
  BY <1>1, <1>5 DEF DevBut, DevFields, CdReady
<1>7. Presented(b, e)
  BY <1>4, <1>5, <1>6, InPhaseFacts
<1>8. But(s, e, {"dev", "irq"}) /\ e.irq = 1
  BY <1>3, <1>7 DEF Expecting, Presented, But, IdeFields
<1>9. /\ DevBut(s, e, Cd, {"status", "expected", "pos", "buf", "xfer_cnt", "byte_count", "io", "cod"})
      /\ InPhase(w) /\ Asking(w)
  <2>1. DevBut(s, a, Cd, {"status", "expected", "pos"})
    BY DEF Expecting
  <2>2. DevBut(b, e, Cd, {"io", "cod", "status"}) /\ InPhase(w) /\ Asking(w)
    BY <1>7 DEF Presented
  <2> QED BY <1>5, <2>1, <2>2 DEF DevBut
<1>10. w.buf = answer /\ w.xfer_cnt = RespWords /\ w.byte_count = RespWords /\ w.remain = 0
  <2>1. \A x \in {"buf", "xfer_cnt", "byte_count"} : w[x] = b.dev[Cd][x]
    BY <1>7 DEF Presented, DevBut, DevFields
  <2>2. w.remain = 0
    BY <1>9 DEF DevBut, DevFields, CdReady
  <2> QED BY <1>5, <2>1, <2>2
<1>11. w.expected = (c.cmd # "IDENTIFY")
  <2>1. b.dev[Cd].expected = TRUE
    BY <1>5 DEF Expecting, DevBut, DevFields
  <2>2. w.expected = b.dev[Cd].expected
    BY <1>7 DEF Presented, DevBut, DevFields
  <2>3. c.cmd # "IDENTIFY"
    OBVIOUS
  <2> QED BY <2>1, <2>2, <2>3, Zenon
<1>12. DevBut(s, e, Cd, Working \ {"dma", "spi"})
  BY <1>9 DEF DevBut, Working
<1>13. c.cmd \in Responses /\ Answered(c) = answer /\ Total(c) = RespWords /\ c.cmd # "IDENTIFY"
  BY DEF Responses, Answered, Total, answer
<1>14. RespWords \in Nat \ {0} /\ Piece(answer, 0, RespWords, answer)
  BY ResponseFacts DEF answer
<1> QED BY <1>8, <1>9, <1>10, <1>11, <1>12, <1>13, <1>14 DEF DataBegun

\* A command without data shows its status.
LEMMA ShownFacts ==
  ASSUME NEW s, NEW a, CdReady(s), Expecting(s, a), NEW e, e = PresentStatus(a)
  PROVE  CommandEnded(s, e)
<1>1. CdReady(a)
  BY ReadyEffects
<1>2. StatusShown(a, e)
  BY <1>1, StatusShownFacts DEF CdReady
<1>3. But(s, e, {"dev", "irq"})
  BY <1>2 DEF StatusShown, Expecting, But, IdeFields
<1>4. DevBut(s, e, Cd, {"status", "expected", "pos", "io", "cod"})
  BY <1>2 DEF StatusShown, Expecting, DevBut
<1>5. DevBut(s, e, Cd, Working \ {"dma", "spi"})
  BY <1>4 DEF DevBut, Working
<1>6. e.dev[Cd].xfer_cnt = 0 /\ e.dev[Cd].remain = 0
  BY <1>4 DEF DevBut, DevFields, CdReady
<1> QED BY <1>2, <1>3, <1>5, <1>6 DEF StatusShown, CommandEnded

Dataless(c) == c.cmd = "TEST_UNIT_READY" \/ (c.cmd \in {"READ", "READ_CD"} /\ c.count = 0)

LEMMA PacketFacts ==
  ASSUME NEW s, CdReady(s), s.dev[Cd].byte_count \in ByteLimits, NEW c \in Packets, c.cmd \notin {"IDENTIFY", "PLAIN"},
         NEW e, e = PerformPacketCommand(s, c)
  PROVE  DataBegun(s, e, c) \/ (CommandEnded(s, e) /\ Dataless(c))
<1> DEFINE f == [status |-> (Status(s, Cd) \cup {"BSY"}) \ {"ERR"}, expected |-> TRUE]
           a == Set(s, Cd, f)
           g == [pos |-> c.lba * SecWords]
           at == Set(a, Cd, g)
<1>1. /\ DOMAIN f = {"status", "expected"} /\ f.expected = TRUE /\ DOMAIN g = {"pos"} /\ g.pos = First(c)
      /\ DOMAIN f \subseteq DevFields /\ DOMAIN g \subseteq DevFields /\ Cd \in Devs
  BY DEF DevFields, Devs, First
<1>2. c.cmd \in {"READ", "READ_CD", "INQUIRY", "TEST_UNIT_READY"}
  <2>1. c.cmd \in CdCommands
    BY DriverAssumption
  <2> QED BY <2>1 DEF CdCommands
<1>3. /\ c.cmd \in {"READ", "READ_CD"} /\ c.count = 0 => e = PresentStatus(a)
      /\ c.cmd = "READ" /\ c.count # 0 => e = DataInPhase(ReadBegin(at, c.count, c.count * SecWords))
      /\ c.cmd = "READ_CD" /\ c.count # 0 => e = DataInPhase(ReadBegin(at, c.count, a.dev[Cd].byte_count))
      /\ c.cmd = "INQUIRY" => e = DataInPhase(Set(a, Cd, [buf |-> [i \in 1 .. RespWords |-> NoData],
                                                        xfer_cnt |-> RespWords, byte_count |-> RespWords]))
      /\ c.cmd = "TEST_UNIT_READY" => e = PresentStatus(a)
  BY DEF PerformPacketCommand
<1> HIDE DEF f, g
<1>4. But(s, a, {"dev"}) /\ DevBut(s, a, Cd, DOMAIN f) /\ \A x \in DOMAIN f : a.dev[Cd][x] = f[x]
  BY <1>1, SetFacts DEF CdReady
<1> HIDE DEF a
<1>5. Expecting(s, a)
  BY <1>1, <1>4 DEF Expecting, DevBut
<1>6. CdReady(a) /\ a.dev[Cd].byte_count = s.dev[Cd].byte_count
  BY <1>5, ReadyEffects
<1>7. But(a, at, {"dev"}) /\ DevBut(a, at, Cd, DOMAIN g) /\ \A x \in DOMAIN g : at.dev[Cd][x] = g[x]
  BY <1>1, <1>6, SetFacts DEF CdReady
<1> HIDE DEF at
<1>8. Expecting(s, at) /\ at.dev[Cd].pos = First(c)
  BY <1>1, <1>5, <1>7 DEF Expecting, But, DevBut, DevFields, IdeFields
<1>9. CASE Dataless(c)
  <2>1. e = PresentStatus(a)
    BY <1>3, <1>9 DEF Dataless
  <2> QED BY <1>5, <1>9, <2>1, ShownFacts
<1>10. CASE c.cmd = "INQUIRY"
  BY <1>3, <1>5, <1>10, InquiryFacts
<1>11. CASE c.cmd \in {"READ", "READ_CD"} /\ c.count # 0
  <2>1. PICK limit \in Nat \ {0} : Multiple(limit) /\ e = DataInPhase(ReadBegin(at, c.count, limit))
    <3>1. CASE c.cmd = "READ"
      <4>1. c.count \in Nat \ {0} /\ SecWords \in Nat \ {0}
        BY <1>11, DriverAssumption, AtaSizes
      <4>2. c.count * SecWords \in Nat \ {0} /\ Multiple(c.count * SecWords)
        <5>1. \A n \in Nat : Multiple(n * SecWords)
          BY MultipleFacts
        <5>2. Multiple(c.count * SecWords)
          BY <4>1, <5>1
        <5> QED BY <4>1, <5>2
      <4> QED BY <1>3, <1>11, <3>1, <4>2
    <3>2. CASE c.cmd = "READ_CD"
      <4>1. a.dev[Cd].byte_count \in Nat \ {0} /\ Multiple(a.dev[Cd].byte_count)
        BY <1>6, LimitFacts
      <4> QED BY <1>3, <1>11, <3>2, <4>1
    <3> QED BY <1>11, <3>1, <3>2
  <2> QED BY <1>8, <1>11, <2>1, ReadFacts
<1> QED BY <1>2, <1>9, <1>10, <1>11 DEF Dataless

LEMMA PacketOk ==
  ASSUME IdeOk(ide, host), HostPacket
  PROVE  IdeOk(ide', host')
<1> DEFINE s == ide
           h == host
           e == ide'
           g == host'
           u == s.dev[Cd]
           c == h.c
           st == IF host.left = 1 THEN "wait" ELSE "packet"
           f == [xfer_cnt |-> u.xfer_cnt - 1]
           a == Set(s, Cd, f)
           sb == u.status \ {"DRQ"}
           b == WithStatus(a, Cd, sb)
<1>1. h.st = "packet" /\ h.st \in Running
  BY DEF HostPacket, Running
<1>2. CdPacket(s, h)
  BY <1>1 DEF IdeOk, Phase
<1>3. /\ CdSide(s, h) /\ s.irq = 0 /\ c.cmd \notin {"IDENTIFY", "PLAIN"}
      /\ u.xfer_cnt = h.left /\ u.xfer_cnt # 0 /\ u.io = FALSE /\ u.cod = TRUE /\ u.remain = 0
      /\ Asking(u) /\ h.got = <<>> /\ u.byte_count \in ByteLimits
  BY <1>2 DEF CdPacket
<1>4. h.dev = Cd /\ Resting(s.dev[Hd]) /\ s.slow = <<>> /\ NoDone(s.fast)
  BY <1>3 DEF CdSide
<1>5. /\ Shape(s) /\ IdeTyped(s) /\ Cd \in Devs /\ Hd \in Devs /\ Hd # Cd /\ Devs = {Hd, Cd} /\ DOMAIN h = HostFields
      /\ Chosen(h.dev, c) /\ u.ien = FALSE /\ u.head = Cd /\ s.dev[Hd].head = Cd
  BY <1>1, <1>4, RunningFacts, ZenonT(30)
<1>6. c \in Packets /\ c.cmd \in CdCommands
  BY <1>4, <1>5, DriverAssumption DEF Chosen
<1>7. g = Gone(h, st, h.left - 1, h.got)
  BY <1>5 DEF HostPacket, HostFields, Gone
<1>8. st \in Running /\ ~IsDma(c)
  BY <1>6 DEF Running, IsDma, CdCommands
<1> HIDE DEF g, st
<1>9. Onward(s, h, g) /\ g.st = st /\ g.left = h.left - 1 /\ g.got = h.got /\ g.c = c /\ g.dev = Cd
  BY <1>1, <1>4, <1>7, <1>8, GoesOn
<1>10. DOMAIN f = {"xfer_cnt"} /\ f.xfer_cnt = u.xfer_cnt - 1 /\ DOMAIN f \subseteq DevFields
  BY DEF DevFields
<1>11. e = IF u.xfer_cnt > 1 THEN a ELSE PerformPacketCommand(b, c)
  <2>1. HdWriteData(s, c) = s
    BY <1>5 DEF HdWriteData, IsSelected
  <2>2. e = CdWriteData(s, c)
    BY <2>1 DEF HostPacket, WriteData
  <2> QED BY <1>3, <2>2 DEF CdWriteData
<1> HIDE DEF e, f
<1>12. But(s, a, {"dev"}) /\ DevBut(s, a, Cd, DOMAIN f) /\ \A x \in DOMAIN f : a.dev[Cd][x] = f[x]
  BY <1>5, <1>10, SetFacts
<1> HIDE DEF a, sb
<1>13. DevBut(s, a, Cd, {"xfer_cnt"}) /\ a.dev[Cd].xfer_cnt = u.xfer_cnt - 1 /\ Shape(a)
  BY <1>10, <1>12 DEF But
<1>14. But(a, b, {"dev"}) /\ DevBut(a, b, Cd, {"status"}) /\ Status(b, Cd) = sb
  BY <1>5, <1>13, StatusFacts
<1> HIDE DEF b
<1>15. u.xfer_cnt \in Nat \ {0} /\ u.spi \in Nat /\ u.dma = FALSE /\ s.fast \in Seq(FastTimers) /\ s.slow \in Seq(SlowTimers)
  <2>1. u.dma \in BOOLEAN /\ ~u.dma
    BY <1>5 DEF IdeTyped, DevTyped
  <2>2. u.dma = FALSE
    BY <2>1, Zenon
  <2> QED BY <1>3, <1>5, <2>2 DEF IdeTyped, DevTyped
<1>16. CASE u.xfer_cnt > 1
  <2>1. e = a /\ st = "packet"
    BY <1>3, <1>11, <1>16 DEF st
  <2>2. /\ e.dev[Hd] = s.dev[Hd] /\ \A x \in DevFields \ {"xfer_cnt"} : e.dev[Cd][x] = u[x]
    BY <1>5, <1>13, <2>1 DEF DevBut
  <2>3. /\ e.dev[Cd].dma = FALSE /\ e.dev[Cd].spi = u.spi /\ e.dev[Cd].remain = 0 /\ e.dev[Cd].io = FALSE
        /\ e.dev[Cd].cod = TRUE /\ e.dev[Cd].status = u.status /\ e.dev[Cd].byte_count \in ByteLimits
        /\ e.dev[Cd].xfer_cnt = u.xfer_cnt - 1
    BY <1>3, <1>13, <1>15, <2>1, <2>2 DEF DevFields
  <2>4. e.irq = 0 /\ e.fast = s.fast /\ e.slow = s.slow /\ But(s, e, {"dev"})
    BY <1>3, <1>12, <2>1 DEF But, IdeFields
  <2>5. StepOf(s, e, h, g, Cd)
    <3>1. But(s, e, IdeFields \ Kept) /\ DevBut(s, e, Cd, Working)
      BY <1>13, <2>1, <2>4 DEF But, DevBut, IdeFields, Kept, Working
    <3>2. e.dev[Cd].xfer_cnt \in Nat /\ e.dev[Cd].spi \in Nat
      BY <1>15, <2>3
    <3> QED BY <1>9, <1>15, <2>3, <2>4, <3>1, <3>2 DEF StepOf
  <2>6. IdeTyped(e) /\ ChanOk(e, g) /\ HostTyped(e, g)
    BY <1>5, <2>5, StepTyped
  <2>7. CdSide(e, g)
    BY <1>4, <1>9, <2>2, <2>4 DEF CdSide
  <2>8. CdPacket(e, g)
    BY <1>3, <1>9, <1>15, <1>16, <2>3, <2>4, <2>7 DEF CdPacket, Asking
  <2>9. Phase(e, g)
    BY <1>9, <2>1, <2>8 DEF Phase
  <2> QED BY <2>6, <2>9 DEF IdeOk, e, g
<1>17. CASE u.xfer_cnt = 1
  <2>1. e = PerformPacketCommand(b, c) /\ st = "wait"
    BY <1>3, <1>11, <1>17 DEF st
  <2>2. But(s, b, {"dev"}) /\ DevBut(s, b, Cd, {"xfer_cnt", "status"}) /\ b.dev[Cd].xfer_cnt = 0
    <3>1. But(s, b, {"dev"})
      BY <1>12, <1>14 DEF But, IdeFields
    <3>2. DevBut(s, b, Cd, {"xfer_cnt", "status"})
      BY <1>13, <1>14 DEF DevBut
    <3>3. b.dev[Cd].xfer_cnt = 0
      BY <1>13, <1>14, <1>17 DEF DevBut, DevFields
    <3> QED BY <3>1, <3>2, <3>3
  <2>3. CdReady(b) /\ b.dev[Cd].byte_count \in ByteLimits
    BY <1>3, <1>5, <2>2 DEF CdReady, But, DevBut, DevFields
  <2>4. DataBegun(b, e, c) \/ (CommandEnded(b, e) /\ Dataless(c))
    BY <1>3, <1>6, <2>1, <2>3, PacketFacts
  <2>5. CASE DataBegun(b, e, c)
    <3>1. But(s, e, {"dev", "irq"}) /\ DevBut(s, e, Cd, Working \ {"dma", "spi"})
      BY <2>2, <2>5 DEF DataBegun, But, DevBut, IdeFields, Working
    <3>2. DataBegun(s, e, c)
      BY <2>5, <3>1 DEF DataBegun
    <3>3. IdeOk(e, g)
      BY <1>1, <1>3, <1>9, <2>1, <3>2, DataBegunOk
    <3> QED BY <3>3 DEF e, g
  <2>6. CASE CommandEnded(b, e) /\ Dataless(c)
    <3>1. But(s, e, {"dev", "irq"}) /\ DevBut(s, e, Cd, Working \ {"dma", "spi"})
      BY <2>2, <2>6 DEF CommandEnded, But, DevBut, IdeFields, Working
    <3>2. CommandEnded(s, e)
      BY <2>6, <3>1 DEF CommandEnded
    <3>3. Complete(s, h, h.got)
      <4>1. c.cmd \in {"READ", "READ_CD"} => Total(c) = 0
        <5>1. c.cmd \in {"READ", "READ_CD"} => c.count = 0 /\ SecWords \in Nat
          BY <2>6, AtaSizes DEF Dataless
        <5> QED BY <5>1 DEF Total, Size, Responses
      <4>2. Piece(Answered(c), 0, 0, h.got)
        BY <1>3, PieceNone
      <4> QED BY <2>6, <4>1, <4>2 DEF Complete, Dataless, HdReads, HdWrites, Responses
    <3>4. IdeOk(e, g)
      BY <1>1, <1>3, <1>9, <2>1, <3>2, <3>3, CommandEndedOk
    <3> QED BY <3>4 DEF e, g
  <2> QED BY <2>4, <2>5, <2>6
<1> QED BY <1>15, <1>16, <1>17

-----------------------------------------------------------------------------
(* The driver sends a command to the disk. *)

HdReady(s) == /\ Shape(s) /\ s.dev[Hd].ien = FALSE /\ s.dev[Hd].head = Hd /\ Resting(s.dev[Hd])
              /\ s.dev[Hd].spi \in Nat

\* A command without data is over at once.
HdCommandEnded(s, e, c) ==
    LET w == e.dev[Hd]
    IN  /\ But(s, e, {"dev", "irq"}) /\ DevBut(s, e, Hd, {"status", "spi"}) /\ e.irq \in {s.irq, 1}
        /\ "BSY" \notin w.status /\ "DRQ" \notin w.status
        /\ w.spi \in Nat /\ (w.spi = s.dev[Hd].spi \/ c.cmd = "SET_MULTIPLE_MODE")
        /\ c.cmd \in {"SILENT", "UNSUPPORTED"} => e.irq = s.irq

\* The status of the disk changes, and nothing else.
Restated(s, e, st) == But(s, e, {"dev"}) /\ DevBut(s, e, Hd, {"status"}) /\ e.dev[Hd].status = st

LEMMA RestatedFacts ==
  ASSUME NEW s, Shape(s), NEW st
  PROVE  Restated(s, WithStatus(s, Hd, st), st)
<1>1. Hd \in Devs
  BY DEF Devs
<1> QED BY <1>1, StatusFacts DEF Restated, Status

\* With it or with nothing, the end is announced.
LEMMA HdAnnounced ==
  ASSUME NEW s, NEW a, NEW c, HdReady(s), But(s, a, {"dev"}), DevBut(s, a, Hd, {"status", "spi"}),
         "BSY" \notin a.dev[Hd].status, "DRQ" \notin a.dev[Hd].status, a.dev[Hd].spi \in Nat,
         a.dev[Hd].spi = s.dev[Hd].spi \/ c.cmd = "SET_MULTIPLE_MODE",
         NEW e, e = UpdateIntrq(a, Hd, 1), c.cmd \notin {"SILENT", "UNSUPPORTED"}
  PROVE  HdCommandEnded(s, e, c)
<1>1. Hd \in Devs
  BY DEF Devs
<1>2. Shape(a) /\ a.dev[Hd].ien = FALSE /\ a.dev[Hd].head = Hd
  BY DEF HdReady, But, DevBut, DevFields
<1>3. But(a, e, {"irq"}) /\ e.irq = 1
  BY <1>1, <1>2, IntrqFacts
<1>4. But(s, e, {"dev", "irq"}) /\ e.dev = a.dev
  BY <1>3 DEF But, IdeFields
<1>5. DevBut(s, e, Hd, {"status", "spi"})
  BY <1>4 DEF DevBut
<1> QED BY <1>3, <1>4, <1>5 DEF HdCommandEnded

LEMMA HdOthersFacts ==
  ASSUME NEW s, HdReady(s), NEW c \in HdCommands, c.cmd \in HdOthers \ {"IDENTIFY"},
         NEW e, e = PerformHdCommand(s, c)
  PROVE  HdCommandEnded(s, e, c)
<1> DEFINE v == s.dev[Hd]
           sa == v.status \cup {"BSY"}
           a == WithStatus(s, Hd, sa)
           sr == sa \ {"BSY"}
           ready == WithStatus(a, Hd, sr)
           sf == sa \ {"BSY", "DRQ", "ERR"}
           se == sr \cup {"ERR"}
           flushed == WithStatus(a, Hd, sf)
           failed == WithStatus(ready, Hd, se)
           f == [spi |-> c.count]
           set == Set(ready, Hd, f)
           g == [head |-> 0, status |-> {}]
           signed == Set(a, Hd, g)
<1>1. /\ Shape(s) /\ v.head = Hd /\ v.spi \in Nat /\ Hd \in Devs
      /\ "BSY" \notin v.status /\ "DRQ" \notin v.status
  BY DEF HdReady, Resting, Devs
<1>2. /\ "BSY" \notin sr /\ "DRQ" \notin sr /\ "BSY" \notin sf /\ "DRQ" \notin sf /\ "BSY" \notin se /\ "DRQ" \notin se
  BY <1>1
<1>3. Restated(s, a, sa)
  BY <1>1, RestatedFacts
<1>4. Status(s, Hd) = v.status
  BY DEF Status
<1> HIDE DEF sa, a
<1>5. Shape(a) /\ Status(a, Hd) = sa
  BY <1>3 DEF Restated, But, Status
<1> HIDE DEF sr, sf, se, f, g
<1>6. Restated(a, ready, sr) /\ Restated(a, flushed, sf)
  BY <1>5, RestatedFacts
<1>7. Shape(ready) /\ Status(ready, Hd) = sr
  BY <1>6 DEF Restated, But, Status
<1>8. Restated(ready, failed, se)
  BY <1>7, RestatedFacts
<1>9. /\ DOMAIN f = {"spi"} /\ f.spi = c.count /\ DOMAIN f \subseteq DevFields
      /\ DOMAIN g = {"head", "status"} /\ g.head = 0 /\ g.status = {} /\ DOMAIN g \subseteq DevFields
  BY DEF DevFields, f, g
<1>10. But(ready, set, {"dev"}) /\ DevBut(ready, set, Hd, DOMAIN f) /\ \A x \in DOMAIN f : set.dev[Hd][x] = f[x]
  BY <1>1, <1>7, <1>9, SetFacts
<1>11. But(a, signed, {"dev"}) /\ DevBut(a, signed, Hd, DOMAIN g) /\ \A x \in DOMAIN g : signed.dev[Hd][x] = g[x]
  BY <1>1, <1>5, <1>9, SetFacts
<1>12. /\ c.cmd = "PLAIN" => e = UpdateIntrq(ready, Hd, 1)
       /\ c.cmd = "FLUSH_CACHE" => e = UpdateIntrq(flushed, Hd, 1)
       /\ c.cmd = "SET_MULTIPLE_MODE" =>
            e = UpdateIntrq(IF c.count \in {1, 2, 4, 8, 16} THEN set ELSE failed, Hd, 1)
       /\ c.cmd = "DIAGNOSTICS" => e = UpdateIntrq(signed, Hd, 1)
       /\ c.cmd = "SILENT" => e = ready
       /\ c.cmd = "UNSUPPORTED" => e = failed
  <2>1. WithStatus(s, Hd, Status(s, Hd) \cup {"BSY"}) = a /\ Status(a, Hd) \ {"BSY"} = sr
        /\ Status(a, Hd) \ {"BSY", "DRQ", "ERR"} = sf
    BY <1>4, <1>5 DEF a, sa, sr, sf
  <2>2. WithStatus(a, Hd, sr) = ready /\ Status(ready, Hd) \cup {"ERR"} = se
    BY <1>7 DEF se
  <2>3. WithStatus(ready, Hd, se) = failed /\ WithStatus(a, Hd, sf) = flushed /\ SetSignature(a, Hd) = signed
        /\ Set(ready, Hd, [spi |-> c.count]) = set
    BY DEF SetSignature, f, g
  <2> HIDE DEF ready, failed, flushed, set, signed
  <2> QED BY <2>1, <2>2, <2>3 DEF PerformHdCommand
<1> HIDE DEF ready, failed, flushed, set, signed
<1>13. /\ Restated(s, ready, sr) /\ Restated(s, flushed, sf) /\ Restated(s, failed, se)
  <2>1. ASSUME NEW x, NEW y, NEW st, NEW su, Restated(x, y, st), Restated(s, x, su) PROVE Restated(s, y, st)
    BY <2>1 DEF Restated, But, DevBut, IdeFields
  <2>2. Restated(s, ready, sr) /\ Restated(s, flushed, sf)
    BY <1>3, <1>6, <2>1
  <2> QED BY <1>8, <2>1, <2>2
<1>14. But(s, set, {"dev"}) /\ DevBut(s, set, Hd, {"status", "spi"}) /\ set.dev[Hd].status = sr /\ set.dev[Hd].spi = c.count
  <2>1. But(s, set, {"dev"})
    BY <1>10, <1>13 DEF Restated, But, IdeFields
  <2>2. DevBut(ready, set, Hd, {"spi"}) /\ set.dev[Hd].spi = c.count
    BY <1>9, <1>10
  <2>3. DevBut(s, set, Hd, {"status", "spi"}) /\ set.dev[Hd].status = sr
    BY <1>13, <2>2 DEF Restated, DevBut, DevFields
  <2> QED BY <2>1, <2>2, <2>3
<1>15. But(s, signed, {"dev"}) /\ DevBut(s, signed, Hd, {"status", "spi"}) /\ signed.dev[Hd].status = {} /\ signed.dev[Hd].spi = v.spi
  <2>1. But(s, signed, {"dev"})
    BY <1>3, <1>11 DEF Restated, But, IdeFields
  <2>2. DevBut(a, signed, Hd, {"head", "status"}) /\ signed.dev[Hd].head = Hd /\ signed.dev[Hd].status = {}
    BY <1>9, <1>11 DEF Hd
  <2>3. DevBut(s, signed, Hd, {"head", "status"})
    BY <1>3, <2>2 DEF Restated, DevBut
  <2>4. DevBut(s, signed, Hd, {"status", "spi"}) /\ signed.dev[Hd].spi = v.spi
    BY <1>1, <2>2, <2>3 DEF DevBut, DevFields
  <2> QED BY <2>1, <2>2, <2>4
<1>16. ASSUME NEW y, NEW st, Restated(s, y, st)
       PROVE  /\ But(s, y, {"dev"}) /\ DevBut(s, y, Hd, {"status", "spi"}) /\ y.dev[Hd].status = st
              /\ y.dev[Hd].spi = v.spi /\ But(s, y, {"dev", "irq"}) /\ y.irq = s.irq
  BY <1>16 DEF Restated, But, DevBut, DevFields, IdeFields
<1>17. CASE c.cmd = "PLAIN"
  BY <1>1, <1>2, <1>12, <1>13, <1>16, <1>17, HdAnnounced
<1>18. CASE c.cmd = "FLUSH_CACHE"
  BY <1>1, <1>2, <1>12, <1>13, <1>16, <1>18, HdAnnounced
<1>19. CASE c.cmd = "SET_MULTIPLE_MODE"
  <2>1. CASE c.count \in {1, 2, 4, 8, 16}
    <3>1. c.count \in Nat /\ e = UpdateIntrq(set, Hd, 1)
      BY <1>12, <1>19, <2>1
    <3> QED BY <1>2, <1>14, <1>19, <3>1, HdAnnounced
  <2>2. CASE c.count \notin {1, 2, 4, 8, 16}
    <3>1. e = UpdateIntrq(failed, Hd, 1)
      BY <1>12, <1>19, <2>2
    <3> QED BY <1>1, <1>2, <1>13, <1>16, <1>19, <3>1, HdAnnounced
  <2> QED BY <2>1, <2>2
<1>20. CASE c.cmd = "DIAGNOSTICS"
  BY <1>1, <1>12, <1>15, <1>20, HdAnnounced
<1>21. CASE c.cmd \in {"SILENT", "UNSUPPORTED"}
  BY <1>1, <1>2, <1>12, <1>13, <1>16, <1>21 DEF HdCommandEnded
<1> QED BY <1>17, <1>18, <1>19, <1>20, <1>21 DEF HdOthers

LEMMA HdEndedOk ==
  ASSUME NEW s, NEW h, IdeOk(s, h), h.st = "setup", h.dev = Hd, h.c.cmd \in HdOthers \ {"IDENTIFY"},
         NEW e, HdCommandEnded(s, e, h.c), NEW g, Onward(s, h, g), g.got = h.got, g.st = "wait"
  PROVE  IdeOk(e, g) /\ Ended(e, g)
<1> DEFINE v == s.dev[Hd]
           w == e.dev[Hd]
           c == h.c
<1>1. /\ IdeTyped(s) /\ Hd \in Devs /\ Cd \in Devs /\ Hd # Cd /\ Devs = {Hd, Cd} /\ h.st \in Running
  <2>1. h.st \in Running
    BY DEF Running
  <2> QED BY <2>1, RunningFacts
<1>2. AtRest(s) /\ s.irq = 0
  BY DEF IdeOk, Phase
<1>3. /\ But(s, e, {"dev", "irq"}) /\ DevBut(s, e, Hd, {"status", "spi"}) /\ e.irq \in {0, 1}
      /\ "BSY" \notin w.status /\ "DRQ" \notin w.status /\ w.spi \in Nat
      /\ w.spi = v.spi \/ c.cmd = "SET_MULTIPLE_MODE"
      /\ c.cmd \in {"SILENT", "UNSUPPORTED"} => e.irq = 0
  BY <1>2 DEF HdCommandEnded
<1>4. v.dma = FALSE /\ s.fast \in Seq(FastTimers) /\ s.slow \in Seq(SlowTimers)
  BY <1>1, <1>2 DEF AtRest, Resting, IdeTyped
<1>5. /\ e.dev[Cd] = s.dev[Cd] /\ w.dma = FALSE /\ w.xfer_cnt = 0 /\ e.fast = s.fast /\ e.slow = s.slow
  BY <1>1, <1>2, <1>3 DEF But, DevBut, IdeFields, DevFields, AtRest, Resting
<1>6. g.c = c /\ g.dev = Hd
  BY DEF Onward
<1>7. StepOf(s, e, h, g, Hd)
  <2>1. But(s, e, IdeFields \ Kept) /\ DevBut(s, e, Hd, Working)
    BY <1>3 DEF But, DevBut, IdeFields, Kept, Working
  <2>2. e.irq \in {0, 1} /\ e.fast \in Seq(FastTimers) /\ e.slow \in Seq(SlowTimers)
    BY <1>3, <1>4, <1>5
  <2>3. w.xfer_cnt \in Nat /\ w.spi \in Nat /\ (w.spi = v.spi \/ c.cmd = "SET_MULTIPLE_MODE")
    BY <1>3, <1>5
  <2>4. w.dma = FALSE
    BY <1>5, Zenon
  <2> QED BY <1>1, <2>1, <2>2, <2>3, <2>4 DEF StepOf
<1>8. IdeTyped(e) /\ ChanOk(e, g) /\ HostTyped(e, g)
  BY <1>1, <1>7, StepTyped
<1>9. AtRest(e)
  BY <1>2, <1>3, <1>5 DEF AtRest, Resting
<1>10. ~IsDma(c) /\ c.cmd \notin HdReads \cup Responses \cup {"READ", "READ_CD"} /\ c.cmd \notin HdWrites
  BY DEF IsDma, HdOthers, HdReads, HdWrites, Responses
<1>11. Ended(e, g)
  BY <1>3, <1>6, <1>9, <1>10 DEF Ended, Outcome, Complete
<1>12. Phase(e, g)
  BY <1>11 DEF Phase
<1> QED BY <1>8, <1>11, <1>12 DEF IdeOk

-----------------------------------------------------------------------------
(* Data commands of the disk. *)

Prepared(s, e, size, block) ==
    LET w == e.dev[Hd]
    IN  /\ But(s, e, {"dev"}) /\ DevBut(s, e, Hd, {"xfer_cnt", "chunk_cnt", "chunk_size"})
        /\ w.xfer_cnt = size /\ w.chunk_cnt = Lesser(size, block) /\ w.chunk_size = block

LEMMA PreparedFacts ==
  ASSUME NEW s, Shape(s), NEW size, NEW block
  PROVE  Prepared(s, PrepareAta(s, Hd, size, block), size, block)
<1> DEFINE f == [xfer_cnt |-> size, chunk_cnt |-> Lesser(size, block), chunk_size |-> block]
           e == Set(s, Hd, f)
<1>1. /\ DOMAIN f = {"xfer_cnt", "chunk_cnt", "chunk_size"} /\ DOMAIN f \subseteq DevFields /\ Hd \in Devs
      /\ f.xfer_cnt = size /\ f.chunk_cnt = Lesser(size, block) /\ f.chunk_size = block
  BY DEF DevFields, Devs
<1> HIDE DEF f
<1>2. But(s, e, {"dev"}) /\ DevBut(s, e, Hd, DOMAIN f) /\ \A x \in DOMAIN f : e.dev[Hd][x] = f[x]
  BY <1>1, SetFacts
<1>3. Prepared(s, e, size, block)
  BY <1>1, <1>2 DEF Prepared
<1> QED BY <1>3 DEF PrepareAta, e, f

BlockFields == {"xfer_cnt", "chunk_cnt", "chunk_size"}
DataFields == BlockFields \cup {"status", "buf", "wbuf", "pos"}
ReadStarts(s, e, c) ==
    LET w == e.dev[Hd]
    IN  /\ But(s, e, {"dev", "slow", "irq"}) /\ DevBut(s, e, Hd, DataFields)
        /\ w.buf = Answered(c) /\ w.xfer_cnt = Total(c) /\ w.chunk_size = BlockOf(s, c)
        /\ w.chunk_cnt = Lesser(w.xfer_cnt, w.chunk_size)
        /\ \/ e.irq = s.irq /\ SlowStarted(s, e, "ready")
           \/ e.irq = 1 /\ e.slow = s.slow /\ Asking(w)
WriteStarts(s, e, c) ==
    LET w == e.dev[Hd]
    IN  /\ But(s, e, {"dev"}) /\ DevBut(s, e, Hd, DataFields)
        /\ w.wbuf = <<>> /\ w.pos = First(c) /\ w.xfer_cnt = Size(c) /\ w.chunk_size = BlockOf(s, c)
        /\ w.chunk_cnt = Lesser(w.xfer_cnt, w.chunk_size) /\ Asking(w)
DmaStarts(s, e, c) ==
    LET w == e.dev[Hd]
    IN  /\ But(s, e, {"dev", "fast"}) /\ DevBut(s, e, Hd, DataFields \cup {"dma"})
        /\ w.dma = TRUE /\ "BSY" \notin w.status /\ w.xfer_cnt = Size(c)
        /\ e.fast = Append(s.fast, FastTimerOf(Hd, "dmareq"))
        /\ c.cmd = "READ_DMA" => w.buf = Addresses(First(c), Size(c))
        /\ c.cmd = "WRITE_DMA" => w.wbuf = <<>> /\ w.pos = First(c)

\* The timer that asks for DMA, started in a state with one device changed.
LEMMA DmaRequested ==
  ASSUME NEW s, NEW b, NEW c, Shape(s), But(s, b, {"dev"}), DevBut(s, b, Hd, DataFields),
         NEW f, DOMAIN f = {"dma", "status"}, f.dma = TRUE, "BSY" \notin f.status,
         b.dev[Hd].xfer_cnt = Size(c),
         c.cmd = "READ_DMA" => b.dev[Hd].buf = Addresses(First(c), Size(c)),
         c.cmd = "WRITE_DMA" => b.dev[Hd].wbuf = <<>> /\ b.dev[Hd].pos = First(c),
         NEW e, e = After500ns(Set(b, Hd, f), Hd, "dmareq")
  PROVE  DmaStarts(s, e, c)
<1> DEFINE a == Set(b, Hd, f)
           w == e.dev[Hd]
<1>1. Hd \in Devs /\ Shape(b) /\ DOMAIN f \subseteq DevFields
  BY DEF Devs, But, DevFields
<1>2. But(b, a, {"dev"}) /\ DevBut(b, a, Hd, DOMAIN f) /\ \A x \in DOMAIN f : a.dev[Hd][x] = f[x]
  BY <1>1, SetFacts
<1> HIDE DEF a
<1>3. DevBut(b, a, Hd, {"dma", "status"}) /\ a.dev[Hd].dma = f.dma /\ a.dev[Hd].status = f.status /\ Shape(a)
  BY <1>2 DEF But
<1>4. But(a, e, {"fast"}) /\ e.fast = Append(a.fast, FastTimerOf(Hd, "dmareq"))
  BY <1>3, FastFacts DEF a
<1>5. But(s, e, {"dev", "fast"}) /\ e.dev = a.dev /\ e.fast = Append(s.fast, FastTimerOf(Hd, "dmareq"))
  BY <1>2, <1>4 DEF But, IdeFields
<1>6. \A x \in DevFields \ {"dma", "status"} : w[x] = b.dev[Hd][x]
  BY <1>3, <1>5 DEF DevBut
<1>7. w.xfer_cnt = b.dev[Hd].xfer_cnt /\ w.buf = b.dev[Hd].buf /\ w.wbuf = b.dev[Hd].wbuf /\ w.pos = b.dev[Hd].pos
  BY <1>6 DEF DevFields
<1>8. DevBut(s, e, Hd, DataFields \cup {"dma"})
  BY <1>3, <1>5, <1>6 DEF DevBut, DataFields
<1>9. w.status = f.status
  BY <1>3, <1>5
<1>10. w.dma = TRUE
  BY <1>3, <1>5, Zenon
<1> QED BY <1>5, <1>7, <1>8, <1>9, <1>10 DEF DmaStarts

LEMMA HdReadFacts ==
  ASSUME NEW s, HdReady(s), s.slow = <<>>, s.fast \in Seq(FastTimers), NEW c \in HdCommands, c.cmd \in HdReads,
         c.cmd = "READ_MULTIPLE" => s.dev[Hd].spi # 0, NEW e, e = PerformHdCommand(s, c)
  PROVE  IF c.cmd = "READ_DMA" THEN DmaStarts(s, e, c) ELSE ReadStarts(s, e, c)
<1> DEFINE sa == s.dev[Hd].status \cup {"BSY"}
           a == WithStatus(s, Hd, sa)
           size == c.count * SecWords
           words == Addresses(c.lba * SecWords, size)
           ints == CASE c.cmd = "READ_DMA" -> size
                     [] c.cmd = "READ_MULTIPLE" -> SecWords * a.dev[Hd].spi
                     [] OTHER -> SecWords
           f == [buf |-> words]
           b == Set(a, Hd, f)
           d == PrepareAta(b, Hd, size, ints)
           g == [dma |-> TRUE, status |-> Status(a, Hd) \ {"BSY", "DRQ", "ERR"}]
<1>1. /\ Shape(s) /\ Hd \in Devs /\ s.dev[Hd].spi \in Nat /\ SecWords \in Nat \ {0} /\ size = Size(c) /\ size \in Nat \ {0}
      /\ words = Answered(c) /\ words = Addresses(First(c), Size(c)) /\ Total(c) = size
  <2>1. c.cmd \in HdReads \cup HdWrites
    OBVIOUS
  <2>2. words = Addresses(First(c), Size(c)) /\ size = Size(c)
    BY DEF First, Size
  <2> QED BY <2>1, <2>2, AtaSizes, DataCommand DEF HdReady, Devs
<1>2. WithStatus(s, Hd, Status(s, Hd) \cup {"BSY"}) = a
  BY DEF Status
<1>3. Restated(s, a, sa)
  BY <1>1, RestatedFacts
<1> HIDE DEF a, sa
<1>4. a.dev[Hd].spi = s.dev[Hd].spi /\ Shape(a) /\ a.dev[Hd].buf = s.dev[Hd].buf
  BY <1>3 DEF Restated, But, DevBut, DevFields
<1>5. ints \in Nat \ {0} /\ (c.cmd # "READ_DMA" => ints = BlockOf(s, c))
  <2>1. CASE c.cmd = "READ_MULTIPLE"
    <3>1. ints = SecWords * s.dev[Hd].spi
      BY <1>4, <2>1
    <3>2. SecWords * s.dev[Hd].spi \in Nat \ {0}
      BY <1>1, <2>1
    <3> QED BY <2>1, <3>1, <3>2 DEF BlockOf
  <2>2. CASE c.cmd = "READ_DMA"
    BY <1>1, <2>2
  <2>3. CASE c.cmd = "READ_SECTOR"
    BY <1>1, <2>3 DEF BlockOf
  <2> QED BY <2>1, <2>2, <2>3 DEF HdReads
<1>6. e = IF c.cmd = "READ_DMA" THEN After500ns(Set(d, Hd, g), Hd, "dmareq") ELSE After100us(d, Hd, "ready")
  <2>1. e = HdRead(a, c)
    BY <1>2 DEF PerformHdCommand, HdReads
  <2>2. ints # 0
    BY <1>5
  <2> QED BY <2>1, <2>2 DEF HdRead
<1> HIDE DEF ints, words, size
<1>7. /\ DOMAIN f = {"buf"} /\ f.buf = words /\ DOMAIN f \subseteq DevFields
      /\ DOMAIN g = {"dma", "status"} /\ "BSY" \notin g.status
  BY DEF DevFields
<1>8. g.dma = TRUE
  OBVIOUS
<1> HIDE DEF f, g
<1>9. But(a, b, {"dev"}) /\ DevBut(a, b, Hd, DOMAIN f) /\ \A x \in DOMAIN f : b.dev[Hd][x] = f[x]
  BY <1>1, <1>4, <1>7, SetFacts
<1> HIDE DEF b
<1>10. DevBut(a, b, Hd, {"buf"}) /\ b.dev[Hd].buf = words /\ Shape(b)
  BY <1>7, <1>9 DEF But
<1>11. Prepared(b, d, size, ints)
  BY <1>10, PreparedFacts
<1> HIDE DEF d
<1>12. But(s, d, {"dev"}) /\ d.slow = <<>> /\ d.fast \in Seq(FastTimers) /\ Shape(d) /\ d.irq = s.irq
  BY <1>3, <1>9, <1>11 DEF Restated, Prepared, But, IdeFields
<1>13. DevBut(s, d, Hd, BlockFields \cup {"status", "buf"}) /\ d.dev[Hd].buf = words
  BY <1>3, <1>10, <1>11 DEF Restated, Prepared, DevBut, DevFields, BlockFields
<1>14. d.dev[Hd].xfer_cnt = size /\ d.dev[Hd].chunk_cnt = Lesser(size, ints) /\ d.dev[Hd].chunk_size = ints
  BY <1>11 DEF Prepared
<1>15. DevBut(s, d, Hd, DataFields)
  BY <1>13 DEF DevBut, DataFields
<1>16. CASE c.cmd = "READ_DMA"
  <2>1. e = After500ns(Set(d, Hd, g), Hd, "dmareq")
    BY <1>6, <1>16
  <2>2. DmaStarts(s, e, c)
    BY <1>1, <1>7, <1>8, <1>12, <1>13, <1>14, <1>15, <1>16, <2>1, DmaRequested
  <2> QED BY <1>16, <2>2
<1>17. CASE c.cmd # "READ_DMA"
  <2>1. e = After100us(d, Hd, "ready")
    BY <1>6, <1>17
  <2>2. But(d, e, {"slow"}) /\ SlowStarted(d, e, "ready")
    BY <1>12, <2>1, FirstTimer
  <2>3. But(s, e, {"dev", "slow", "irq"}) /\ e.dev = d.dev /\ e.irq = s.irq /\ SlowStarted(s, e, "ready")
    BY <1>12, <2>2 DEF But, IdeFields, SlowStarted
  <2>4. DevBut(s, e, Hd, DataFields)
    BY <1>15, <2>3 DEF DevBut
  <2> QED BY <1>1, <1>5, <1>13, <1>14, <1>17, <2>3, <2>4 DEF ReadStarts
<1> QED BY <1>16, <1>17

LEMMA HdIdentifyFacts ==
  ASSUME NEW s, HdReady(s), NEW c \in HdCommands, c.cmd = "IDENTIFY", NEW e, e = PerformHdCommand(s, c)
  PROVE  ReadStarts(s, e, c)
<1> DEFINE sa == s.dev[Hd].status \cup {"BSY"}
           a == WithStatus(s, Hd, sa)
           words == [i \in 1 .. RespWords |-> NoData]
           f == [buf |-> words]
           b == Set(a, Hd, f)
           d == PrepareAta(b, Hd, RespWords, RespWords)
           sd == (Status(d, Hd) \cup {"DRQ"}) \ {"BSY"}
           w == e.dev[Hd]
<1>1. Shape(s) /\ Hd \in Devs /\ words = Answered(c) /\ Total(c) = RespWords /\ BlockOf(s, c) = RespWords
      /\ RespWords \in Nat \ {0} /\ s.dev[Hd].ien = FALSE /\ s.dev[Hd].head = Hd
  BY AtaSizes DEF HdReady, Devs, Answered, Total, BlockOf, Responses
<1>2. WithStatus(s, Hd, Status(s, Hd) \cup {"BSY"}) = a
  BY DEF Status
<1>3. Restated(s, a, sa)
  BY <1>1, RestatedFacts
<1> HIDE DEF a, sa
<1>4. Shape(a)
  BY <1>3 DEF Restated, But
<1>5. e = Announce(d, Hd, sd)
  BY <1>2 DEF PerformHdCommand, SignalDataReady, Announce
<1> HIDE DEF words
<1>6. DOMAIN f = {"buf"} /\ f.buf = words /\ DOMAIN f \subseteq DevFields
  BY DEF DevFields
<1> HIDE DEF f
<1>7. But(a, b, {"dev"}) /\ DevBut(a, b, Hd, DOMAIN f) /\ \A x \in DOMAIN f : b.dev[Hd][x] = f[x]
  BY <1>1, <1>4, <1>6, SetFacts
<1> HIDE DEF b
<1>8. DevBut(a, b, Hd, {"buf"}) /\ b.dev[Hd].buf = words /\ Shape(b)
  BY <1>6, <1>7 DEF But
<1>9. Prepared(b, d, RespWords, RespWords)
  BY <1>8, PreparedFacts
<1> HIDE DEF d
<1>10. But(s, d, {"dev"}) /\ d.slow = s.slow /\ Shape(d)
  BY <1>3, <1>7, <1>9 DEF Restated, Prepared, But, IdeFields
<1>11. DevBut(s, d, Hd, BlockFields \cup {"status", "buf"}) /\ d.dev[Hd].buf = words
  BY <1>3, <1>8, <1>9 DEF Restated, Prepared, DevBut, DevFields, BlockFields
<1>12. d.dev[Hd].xfer_cnt = RespWords /\ d.dev[Hd].chunk_cnt = RespWords /\ d.dev[Hd].chunk_size = RespWords
  BY <1>1, <1>9 DEF Prepared, Lesser
<1>13. d.dev[Hd].ien = FALSE /\ d.dev[Hd].head = Hd
  BY <1>1, <1>11 DEF DevBut, DevFields, BlockFields
<1>14. "DRQ" \in sd /\ "BSY" \notin sd
  OBVIOUS
<1> HIDE DEF sd
<1>15. But(d, e, {"dev", "irq"}) /\ DevBut(d, e, Hd, {"status"}) /\ Status(e, Hd) = sd /\ e.irq = 1
  <2>1. Shape(d) /\ Hd \in Devs
    BY <1>1, <1>10
  <2> DEFINE n == Announce(d, Hd, sd)
  <2>2. But(d, n, {"dev", "irq"}) /\ DevBut(d, n, Hd, {"status"}) /\ Status(n, Hd) = sd /\ n.irq = 1
    BY <1>13, <2>1, AnnounceFacts, ZenonT(30)
  <2> HIDE DEF n
  <2>3. n = e
    BY <1>5 DEF n
  <2> QED BY <2>2, <2>3
<1>16. But(s, e, {"dev", "slow", "irq"}) /\ e.slow = s.slow
  BY <1>10, <1>15 DEF But, IdeFields
<1>17. DevBut(s, e, Hd, DataFields)
  BY <1>11, <1>15 DEF DevBut, DataFields
<1>18. w.buf = words /\ w.xfer_cnt = RespWords /\ w.chunk_cnt = RespWords /\ w.chunk_size = RespWords
  BY <1>11, <1>12, <1>15 DEF DevBut, DevFields
<1>19. Asking(w)
  BY <1>14, <1>15 DEF Asking, Status
<1> QED BY <1>1, <1>15, <1>16, <1>17, <1>18, <1>19 DEF ReadStarts, Lesser

LEMMA HdWriteFacts ==
  ASSUME NEW s, HdReady(s), NEW c \in HdCommands, c.cmd \in HdWrites,
         c.cmd = "WRITE_MULTIPLE" => s.dev[Hd].spi # 0, NEW e, e = PerformHdCommand(s, c)
  PROVE  IF c.cmd = "WRITE_DMA" THEN DmaStarts(s, e, c) ELSE WriteStarts(s, e, c)
<1> DEFINE sa == s.dev[Hd].status \cup {"BSY"}
           a == WithStatus(s, Hd, sa)
           size == c.count * SecWords
           ints == CASE c.cmd = "WRITE_DMA" -> size
                     [] c.cmd = "WRITE_MULTIPLE" -> SecWords * a.dev[Hd].spi
                     [] OTHER -> SecWords
           f == [pos |-> c.lba * SecWords, wbuf |-> <<>>]
           b == Set(a, Hd, f)
           d == PrepareAta(b, Hd, size, ints)
           g == [dma |-> TRUE, status |-> Status(a, Hd) \ {"BSY", "DRQ", "ERR"}]
           sd == (Status(a, Hd) \cup {"DRQ"}) \ {"BSY"}
<1>1. /\ Shape(s) /\ Hd \in Devs /\ s.dev[Hd].spi \in Nat /\ SecWords \in Nat \ {0} /\ size = Size(c) /\ size \in Nat \ {0}
      /\ c.lba * SecWords = First(c)
  <2>1. c.cmd \in HdReads \cup HdWrites
    OBVIOUS
  <2>2. size = Size(c) /\ c.lba * SecWords = First(c)
    BY DEF First, Size
  <2> QED BY <2>1, <2>2, AtaSizes, DataCommand DEF HdReady, Devs
<1>2. WithStatus(s, Hd, Status(s, Hd) \cup {"BSY"}) = a
  BY DEF Status
<1>3. Restated(s, a, sa)
  BY <1>1, RestatedFacts
<1> HIDE DEF a, sa
<1>4. a.dev[Hd].spi = s.dev[Hd].spi /\ Shape(a)
  BY <1>3 DEF Restated, But, DevBut, DevFields
<1>5. ints \in Nat \ {0} /\ (c.cmd # "WRITE_DMA" => ints = BlockOf(s, c))
  <2>1. CASE c.cmd = "WRITE_MULTIPLE"
    <3>1. ints = SecWords * s.dev[Hd].spi
      BY <1>4, <2>1
    <3>2. SecWords * s.dev[Hd].spi \in Nat \ {0}
      BY <1>1, <2>1
    <3> QED BY <2>1, <3>1, <3>2 DEF BlockOf
  <2>2. CASE c.cmd = "WRITE_DMA"
    BY <1>1, <2>2
  <2>3. CASE c.cmd = "WRITE_SECTOR"
    BY <1>1, <2>3 DEF BlockOf
  <2> QED BY <2>1, <2>2, <2>3 DEF HdWrites
<1>6. e = IF c.cmd = "WRITE_DMA" THEN After500ns(Set(d, Hd, g), Hd, "dmareq") ELSE WithStatus(d, Hd, sd)
  <2>1. e = HdWrite(a, c)
    BY <1>2 DEF PerformHdCommand, HdWrites
  <2>2. ints # 0
    BY <1>5
  <2> QED BY <2>1, <2>2 DEF HdWrite
<1>7. /\ DOMAIN f = {"pos", "wbuf"} /\ f.pos = First(c) /\ f.wbuf = <<>> /\ DOMAIN f \subseteq DevFields
      /\ DOMAIN g = {"dma", "status"} /\ "BSY" \notin g.status
  BY <1>1 DEF DevFields
<1>8. g.dma = TRUE /\ "DRQ" \in sd /\ "BSY" \notin sd
  OBVIOUS
<1> HIDE DEF ints, size, f, g, sd
<1>9. But(a, b, {"dev"}) /\ DevBut(a, b, Hd, DOMAIN f) /\ \A x \in DOMAIN f : b.dev[Hd][x] = f[x]
  BY <1>1, <1>4, <1>7, SetFacts
<1> HIDE DEF b
<1>10. DevBut(a, b, Hd, {"pos", "wbuf"}) /\ b.dev[Hd].pos = First(c) /\ b.dev[Hd].wbuf = <<>> /\ Shape(b)
  BY <1>7, <1>9 DEF But
<1>11. Prepared(b, d, size, ints)
  BY <1>10, PreparedFacts
<1> HIDE DEF d
<1>12. But(s, d, {"dev"}) /\ Shape(d)
  BY <1>3, <1>9, <1>11 DEF Restated, Prepared, But, IdeFields
<1>13. DevBut(s, d, Hd, BlockFields \cup {"status", "pos", "wbuf"}) /\ d.dev[Hd].pos = First(c) /\ d.dev[Hd].wbuf = <<>>
  BY <1>3, <1>10, <1>11 DEF Restated, Prepared, DevBut, DevFields, BlockFields
<1>14. d.dev[Hd].xfer_cnt = size /\ d.dev[Hd].chunk_cnt = Lesser(size, ints) /\ d.dev[Hd].chunk_size = ints
  BY <1>11 DEF Prepared
<1>15. DevBut(s, d, Hd, DataFields)
  BY <1>13 DEF DevBut, DataFields
<1>16. CASE c.cmd = "WRITE_DMA"
  <2>1. e = After500ns(Set(d, Hd, g), Hd, "dmareq")
    BY <1>6, <1>16
  <2>2. DmaStarts(s, e, c)
    BY <1>1, <1>7, <1>8, <1>12, <1>13, <1>14, <1>15, <1>16, <2>1, DmaRequested
  <2> QED BY <1>16, <2>2
<1>17. CASE c.cmd # "WRITE_DMA"
  <2>1. e = WithStatus(d, Hd, sd)
    BY <1>6, <1>17
  <2>2. Restated(d, e, sd)
    BY <1>12, <2>1, RestatedFacts
  <2>3. But(s, e, {"dev"})
    BY <1>12, <2>2 DEF Restated, But, IdeFields
  <2>4. DevBut(s, e, Hd, DataFields)
    BY <1>15, <2>2 DEF Restated, DevBut, DataFields
  <2>5. /\ e.dev[Hd].xfer_cnt = size /\ e.dev[Hd].chunk_cnt = Lesser(size, ints) /\ e.dev[Hd].chunk_size = ints
        /\ e.dev[Hd].pos = First(c) /\ e.dev[Hd].wbuf = <<>>
    BY <1>13, <1>14, <2>2 DEF Restated, DevBut, DevFields
  <2>6. Asking(e.dev[Hd])
    BY <1>8, <2>2 DEF Restated, Asking
  <2> QED BY <1>1, <1>5, <1>17, <2>3, <2>4, <2>5, <2>6 DEF WriteStarts
<1> QED BY <1>16, <1>17

\* The disk takes up a command with data, and what that leaves as it was.
TakesUp(s, h, e, g) ==
    /\ h.st = "setup" /\ h.dev = Hd /\ Onward(s, h, g)
    /\ But(s, e, {"dev", "slow", "fast", "irq"}) /\ DevBut(s, e, Hd, DataFields \cup {"dma"})
    /\ e.irq \in {0, 1} /\ e.slow \in Seq(SlowTimers) /\ e.fast \in Seq(FastTimers)
    /\ e.dev[Hd].xfer_cnt \in Nat /\ e.dev[Hd].dma \in BOOLEAN
TakenUp(s, h, e, g) ==
    /\ IdeTyped(e) /\ ChanOk(e, g) /\ HostTyped(e, g) /\ g.c = h.c /\ g.dev = Hd
    /\ AtRest(s) /\ s.irq = 0 /\ s.memory = <<>> /\ s.sent = 0 /\ s.image = <<>> /\ h.got = <<>>
    /\ e.memory = s.memory /\ e.sent = s.sent /\ e.image = s.image
    /\ e.dev[Cd] = s.dev[Cd] /\ BlockOf(e, h.c) = BlockOf(s, h.c) /\ e.dev[Hd].spi = s.dev[Hd].spi

LEMMA HdStart ==
  ASSUME NEW s, NEW h, IdeOk(s, h), NEW e, NEW g, TakesUp(s, h, e, g)
  PROVE  TakenUp(s, h, e, g)
<1>0. /\ h.st = "setup" /\ h.dev = Hd /\ Onward(s, h, g)
      /\ But(s, e, {"dev", "slow", "fast", "irq"}) /\ DevBut(s, e, Hd, DataFields \cup {"dma"})
      /\ e.irq \in {0, 1} /\ e.slow \in Seq(SlowTimers) /\ e.fast \in Seq(FastTimers)
      /\ e.dev[Hd].xfer_cnt \in Nat
  BY DEF TakesUp
<1>1. /\ IdeTyped(s) /\ Hd \in Devs /\ Cd \in Devs /\ Hd # Cd /\ Devs = {Hd, Cd} /\ h.st \in Running
  <2>1. h.st \in Running
    BY <1>0 DEF Running
  <2> QED BY <2>1, RunningFacts
<1>2. AtRest(s) /\ s.irq = 0 /\ s.memory = <<>> /\ s.sent = 0 /\ s.image = <<>> /\ h.got = <<>>
  BY <1>0 DEF IdeOk, Phase
<1>3. e.dev[Cd] = s.dev[Cd] /\ e.dev[Hd].spi = s.dev[Hd].spi /\ e.memory = s.memory /\ e.sent = s.sent /\ e.image = s.image
  BY <1>0, <1>1 DEF But, DevBut, DevFields, DataFields, BlockFields, IdeFields
<1>4. BlockOf(e, h.c) = BlockOf(s, h.c)
  BY <1>3 DEF BlockOf
<1>5. g.c = h.c /\ g.dev = Hd
  BY <1>0 DEF Onward
<1>6. StepOf(s, e, h, g, Hd)
  <2>1. But(s, e, IdeFields \ Kept) /\ DevBut(s, e, Hd, Working)
    BY <1>0 DEF But, DevBut, IdeFields, Kept, Working, DataFields, BlockFields
  <2>2. e.dev[Hd].spi \in Nat
    BY <1>1, <1>3 DEF IdeTyped, DevTyped
  <2>3. e.dev[Hd].dma \in BOOLEAN
    BY DEF TakesUp
  <2> QED BY <1>0, <1>1, <1>3, <2>1, <2>2, <2>3 DEF StepOf
<1>7. IdeTyped(e) /\ ChanOk(e, g) /\ HostTyped(e, g)
  BY <1>1, <1>6, StepTyped
<1> QED BY <1>2, <1>3, <1>4, <1>5, <1>7 DEF TakenUp


\* A read of the disk has begun: the driver waits for its first block.
LEMMA ReadStartsOk ==
  ASSUME NEW s, NEW h, IdeOk(s, h), h.st = "setup", h.dev = Hd, h.c \in HdCommands,
         h.c.cmd \in {"READ_SECTOR", "READ_MULTIPLE", "IDENTIFY"},
         NEW e, ReadStarts(s, e, h.c), NEW g, Onward(s, h, g), g.got = h.got, g.st = "wait"
  PROVE  IdeOk(e, g)
<1> DEFINE v == s.dev[Hd]
           w == e.dev[Hd]
           c == h.c
<1>1. IdeTyped(s) /\ AtRest(s) /\ s.irq = 0 /\ Hd \in Devs /\ Cd \in Devs
  BY DEF IdeOk, Phase, Devs
<1>2. v.xfer_cnt \in Nat /\ v.spi \in Nat /\ v.dma = FALSE /\ s.fast \in Seq(FastTimers) /\ s.slow = <<>> /\ NoDone(s.fast)
  BY <1>1 DEF IdeTyped, DevTyped, AtRest, Resting
<1>3. /\ But(s, e, {"dev", "slow", "irq"}) /\ DevBut(s, e, Hd, DataFields)
      /\ w.buf = Answered(c) /\ w.xfer_cnt = Total(c) /\ w.chunk_size = BlockOf(s, c)
      /\ w.chunk_cnt = Lesser(w.xfer_cnt, w.chunk_size)
      /\ \/ e.irq = 0 /\ e.slow \in Seq(SlowTimers) /\ OneSlow(e.slow, "ready")
         \/ e.irq = 1 /\ e.slow = <<>> /\ Asking(w)
  BY <1>1, <1>2 DEF ReadStarts, SlowStarted
<1>4. Chosen(Hd, c)
  BY DEF Chosen
<1>5. Total(c) \in Nat \ {0} /\ Answered(c) \in Seq(WordSet) /\ Len(Answered(c)) = Total(c)
  <2>1. Total(c) \in Nat /\ Answered(c) \in Seq(WordSet) /\ Len(Answered(c)) = Total(c)
    BY <1>4, CommandFacts
  <2>2. CASE c.cmd = "IDENTIFY"
    BY <2>1, <2>2, AtaSizes DEF Total, Responses
  <2>3. CASE c.cmd # "IDENTIFY"
    <3>1. c.cmd \in HdReads \cup HdWrites
      BY <2>3 DEF HdReads
    <3>2. Size(c) \in Nat \ {0} /\ Total(c) = Size(c)
      BY <3>1, DataCommand
    <3> QED BY <2>1, <3>2
  <2> QED BY <2>2, <2>3
<1>6. BlockOf(s, c) \in Nat \ {0}
  <2>1. CASE c.cmd = "READ_MULTIPLE"
    <3>1. v.spi # 0
      BY <2>1 DEF IdeOk, HostTyped
    <3>2. SecWords * v.spi \in Nat \ {0}
      BY <1>2, <3>1, AtaSizes, SMTT(30)
    <3> QED BY <2>1, <3>2 DEF BlockOf
  <2>2. CASE c.cmd # "READ_MULTIPLE"
    BY <2>2, AtaSizes DEF BlockOf
  <2> QED BY <2>1, <2>2
<1>7. w.dma = FALSE
  BY <1>2, <1>3 DEF DevBut, DevFields, DataFields, BlockFields
<1>8. e.fast = s.fast /\ e.slow \in Seq(SlowTimers) /\ e.irq \in {0, 1}
  <2>1. <<>> \in Seq(SlowTimers)
    BY EmptySeq
  <2> QED BY <1>3, <2>1 DEF But, IdeFields
<1>9. But(s, e, {"dev", "slow", "fast", "irq"}) /\ DevBut(s, e, Hd, DataFields \cup {"dma"})
  BY <1>3 DEF But, DevBut
<1>10. w.dma \in BOOLEAN /\ w.xfer_cnt \in Nat
  BY <1>3, <1>5, <1>7
<1>11. /\ IdeTyped(e) /\ ChanOk(e, g) /\ HostTyped(e, g) /\ g.c = c /\ g.dev = Hd /\ h.got = <<>>
       /\ e.dev[Cd] = s.dev[Cd] /\ BlockOf(e, c) = BlockOf(s, c)
  <2>1. TakesUp(s, h, e, g)
    BY <1>2, <1>8, <1>9, <1>10 DEF TakesUp
  <2> QED BY <2>1, HdStart DEF TakenUp
<1>12. w.chunk_cnt \in 1 .. Lesser(w.xfer_cnt, w.chunk_size) /\ w.xfer_cnt \in 1 .. Total(c)
  BY <1>3, <1>5, <1>6 DEF Lesser
<1>13. HdBlocks(e, g)
  BY <1>1, <1>2, <1>3, <1>6, <1>7, <1>8, <1>11, <1>12 DEF HdBlocks, HdTransfer, AtRest
<1>14. Part(w) = 0
  BY <1>3, <1>5, <1>6 DEF Part, Lesser
<1>15. HdReading(e, g)
  <2>1. Total(c) - w.xfer_cnt + Part(w) = 0
    BY <1>3, <1>5, <1>14
  <2>2. Piece(Answered(c), 0, 0, g.got)
    BY <1>11, PieceNone
  <2>3. Total(c) - 0 = Total(c) /\ Piece(Answered(c), 0, Total(c), w.buf)
    BY <1>3, <1>5, PieceAll
  <2>4. c.cmd = "IDENTIFY" => w.xfer_cnt = RespWords
    BY <1>3 DEF Total, Responses
  <2> QED BY <1>11, <1>13, <2>1, <2>2, <2>3, <2>4 DEF HdReading
<1>16. HdWaits(e, g)
  BY <1>3, <1>15 DEF HdWaits
<1>17. Phase(e, g)
  BY <1>16 DEF Phase
<1> QED BY <1>11, <1>17 DEF IdeOk

LEMMA SameMapping ==
  ASSUME NEW f, NEW g, Mapping(f), Mapping(g), DOMAIN g = DOMAIN f, \A x \in DOMAIN g : f[x] = g[x]
  PROVE  f = g
<1>1. f = [x \in DOMAIN f |-> f[x]] /\ g = [x \in DOMAIN g |-> g[x]]
  BY DEF Mapping
<1>2. [x \in DOMAIN f |-> f[x]] = [x \in DOMAIN g |-> g[x]]
  OBVIOUS
<1> QED BY <1>1, <1>2, Zenon

LEMMA NoImage == Mapping(<<>>)
<1>1. <<>> \in [1 .. 0 -> Nat]
  BY EmptySeq
<1> QED BY <1>1 DEF Mapping

\* A write of the disk has begun: the driver sends the first block at once.
LEMMA WriteStartsOk ==
  ASSUME NEW s, NEW h, IdeOk(s, h), h.st = "setup", h.dev = Hd, h.c \in HdCommands,
         h.c.cmd \in {"WRITE_SECTOR", "WRITE_MULTIPLE"},
         NEW e, WriteStarts(s, e, h.c), NEW g, Onward(s, h, g), g.got = h.got, g.st = "out",
         g.left = Lesser(Words(h.c), BlockOf(s, h.c))
  PROVE  IdeOk(e, g)
<1> DEFINE v == s.dev[Hd]
           w == e.dev[Hd]
           c == h.c
<1>1. IdeTyped(s) /\ AtRest(s) /\ s.irq = 0 /\ Hd \in Devs /\ Cd \in Devs
  BY DEF IdeOk, Phase, Devs
<1>2. v.xfer_cnt \in Nat /\ v.spi \in Nat /\ v.dma = FALSE /\ s.fast \in Seq(FastTimers) /\ s.slow = <<>> /\ NoDone(s.fast)
  BY <1>1 DEF IdeTyped, DevTyped, AtRest, Resting
<1>3. /\ But(s, e, {"dev"}) /\ DevBut(s, e, Hd, DataFields)
      /\ w.wbuf = <<>> /\ w.pos = First(c) /\ w.xfer_cnt = Size(c) /\ w.chunk_size = BlockOf(s, c)
      /\ w.chunk_cnt = Lesser(w.xfer_cnt, w.chunk_size) /\ Asking(w)
  BY DEF WriteStarts
<1>4. Size(c) \in Nat \ {0} /\ Total(c) = Size(c) /\ Words(c) = Size(c) /\ First(c) \in Nat
  <2>1. c.cmd \in HdReads \cup HdWrites /\ Chosen(Hd, c)
    BY DEF HdWrites, Chosen
  <2> QED BY <2>1, DataCommand, CommandFacts
<1>5. BlockOf(s, c) \in Nat \ {0}
  <2>1. CASE c.cmd = "WRITE_MULTIPLE"
    <3>1. v.spi # 0
      BY <2>1 DEF IdeOk, HostTyped
    <3>2. SecWords * v.spi \in Nat \ {0}
      BY <1>2, <3>1, AtaSizes
    <3> QED BY <2>1, <3>2 DEF BlockOf
  <2>2. CASE c.cmd = "WRITE_SECTOR"
    BY <2>2, AtaSizes DEF BlockOf
  <2> QED BY <2>1, <2>2
<1>6. w.dma = FALSE
  BY <1>2, <1>3 DEF DevBut, DevFields, DataFields, BlockFields
<1>7. e.fast = s.fast /\ e.slow = <<>> /\ e.irq = 0 /\ e.slow \in Seq(SlowTimers)
  <2>1. <<>> \in Seq(SlowTimers)
    BY EmptySeq
  <2> QED BY <1>1, <1>2, <1>3, <2>1 DEF But, IdeFields
<1>8. But(s, e, {"dev", "slow", "fast", "irq"}) /\ DevBut(s, e, Hd, DataFields \cup {"dma"})
  BY <1>3 DEF But, DevBut
<1>9. w.dma \in BOOLEAN /\ w.xfer_cnt \in Nat /\ e.irq \in {0, 1}
  BY <1>3, <1>4, <1>6, <1>7
<1>10. /\ IdeTyped(e) /\ ChanOk(e, g) /\ HostTyped(e, g) /\ g.c = c /\ g.dev = Hd
       /\ s.sent = 0 /\ s.image = <<>> /\ e.sent = s.sent /\ e.image = s.image
       /\ e.dev[Cd] = s.dev[Cd] /\ BlockOf(e, c) = BlockOf(s, c)
  <2>1. TakesUp(s, h, e, g)
    BY <1>2, <1>7, <1>8, <1>9 DEF TakesUp
  <2> QED BY <2>1, HdStart DEF TakenUp
<1>11. w.chunk_cnt \in 1 .. Lesser(w.xfer_cnt, w.chunk_size) /\ w.xfer_cnt \in 1 .. Total(c)
  BY <1>3, <1>4, <1>5 DEF Lesser
<1>12. HdBlocks(e, g)
  BY <1>1, <1>2, <1>3, <1>5, <1>6, <1>7, <1>10, <1>11 DEF HdBlocks, HdTransfer, AtRest
<1>13. Part(w) = 0
  BY <1>3, <1>4, <1>5 DEF Part, Lesser
<1>14. Stored(e.image, c, 0)
  <2>1. First(c) .. First(c) + 0 - 1 = {}
    BY <1>4
  <2>2. DOMAIN e.image = {}
    BY <1>10
  <2>3. Mapping(e.image)
    BY <1>10, NoImage
  <2> QED BY <2>1, <2>2, <2>3 DEF Stored
<1>15. HdWriting(e, g)
  <2>1. Size(c) - w.xfer_cnt = 0 /\ e.sent = 0 + Part(w) /\ w.pos = First(c) + 0
    BY <1>3, <1>4, <1>10, <1>13
  <2>2. Piece(Sent(c), 0, Part(w), w.wbuf)
    BY <1>3, <1>13, PieceNone
  <2> QED BY <1>10, <1>12, <1>14, <2>1, <2>2 DEF HdWriting
<1>16. HdMoves(e, g)
  BY <1>3, <1>4, <1>7, <1>15 DEF HdMoves
<1>17. Phase(e, g)
  BY <1>16 DEF Phase
<1> QED BY <1>10, <1>17 DEF IdeOk

\* A DMA transfer has begun: the timer that asks for it is running.
LEMMA DmaStartsOk ==
  ASSUME NEW s, NEW h, IdeOk(s, h), h.st = "setup", h.dev = Hd, h.c \in HdCommands, IsDma(h.c),
         NEW e, DmaStarts(s, e, h.c), NEW g, Onward(s, h, g), g.got = h.got, g.st = "wait"
  PROVE  IdeOk(e, g)
<1> DEFINE w == e.dev[Hd]
           c == h.c
           t == FastTimerOf(Hd, "dmareq")
<1>1. IdeTyped(s) /\ AtRest(s) /\ s.irq = 0 /\ Hd \in Devs /\ Cd \in Devs
  BY DEF IdeOk, Phase, Devs
<1>2. s.fast \in Seq(FastTimers) /\ s.slow = <<>> /\ NoDone(s.fast)
  BY <1>1 DEF IdeTyped, AtRest
<1>3. /\ But(s, e, {"dev", "fast"}) /\ DevBut(s, e, Hd, DataFields \cup {"dma"})
      /\ "BSY" \notin w.status /\ w.xfer_cnt = Size(c) /\ e.fast = Append(s.fast, t)
      /\ c.cmd = "READ_DMA" => w.buf = Addresses(First(c), Size(c))
      /\ c.cmd = "WRITE_DMA" => w.wbuf = <<>> /\ w.pos = First(c)
  BY DEF DmaStarts
<1>4. w.dma = TRUE
  BY DEF DmaStarts
<1>5. c.cmd \in {"READ_DMA", "WRITE_DMA"}
  BY DEF IsDma
<1>6. Size(c) \in Nat \ {0} /\ Total(c) = Size(c) /\ First(c) \in Nat /\ Answered(c) = Addresses(First(c), Size(c))
      /\ Answered(c) \in Seq(WordSet) /\ Len(Answered(c)) = Total(c)
  <2>1. c.cmd \in HdReads \cup HdWrites /\ Chosen(Hd, c)
    BY <1>5 DEF HdReads, HdWrites, Chosen
  <2> QED BY <2>1, DataCommand, CommandFacts
<1>7. e.fast \in Seq(FastTimers) /\ NoDone(e.fast)
  <2>1. t \in FastTimers /\ t.what # "dmadone"
    BY <1>1 DEF FastTimerOf, FastTimers, Devs
  <2> HIDE DEF t
  <2> QED BY <1>2, <1>3, <2>1, TimerAppend
<1>8. e.slow = <<>> /\ e.irq = 0 /\ e.slow \in Seq(SlowTimers)
  <2>1. <<>> \in Seq(SlowTimers)
    BY EmptySeq
  <2> QED BY <1>1, <1>2, <1>3, <2>1 DEF But, IdeFields
<1>9. But(s, e, {"dev", "slow", "fast", "irq"})
  BY <1>3 DEF But
<1>10. w.dma \in BOOLEAN /\ w.xfer_cnt \in Nat /\ e.irq \in {0, 1}
  BY <1>3, <1>4, <1>6, <1>8
<1>11. /\ IdeTyped(e) /\ ChanOk(e, g) /\ HostTyped(e, g) /\ g.c = c /\ g.dev = Hd
       /\ s.memory = <<>> /\ s.sent = 0 /\ s.image = <<>>
       /\ e.memory = s.memory /\ e.sent = s.sent /\ e.image = s.image /\ e.dev[Cd] = s.dev[Cd]
  <2>1. TakesUp(s, h, e, g)
    BY <1>3, <1>7, <1>8, <1>9, <1>10 DEF TakesUp
  <2> QED BY <2>1, HdStart DEF TakenUp
<1>12. HdTransfer(e, g)
  <2>1. w.xfer_cnt \in 1 .. Total(c)
    BY <1>3, <1>6
  <2> QED BY <1>1, <1>7, <1>11, <2>1 DEF HdTransfer, AtRest
<1>13. Size(c) - w.xfer_cnt = 0
  BY <1>3, <1>6
<1>14. HdDma(e, g)
  <2>1. CASE c.cmd = "READ_DMA"
    <3>1. Piece(Answered(c), 0, 0, e.memory)
      BY <1>11, PieceNone
    <3>2. Piece(Answered(c), 0, w.xfer_cnt, w.buf)
      BY <1>3, <1>6, <2>1, PieceAll
    <3> QED BY <1>3, <1>4, <1>8, <1>11, <1>12, <1>13, <2>1, <3>1, <3>2 DEF HdDma
  <2>2. CASE c.cmd = "WRITE_DMA"
    <3>1. Stored(e.image, c, 0)
      <4>1. First(c) .. First(c) + 0 - 1 = {}
        BY <1>6
      <4>2. DOMAIN e.image = {}
        BY <1>11
      <4>3. Mapping(e.image)
        BY <1>11, NoImage
      <4> QED BY <4>1, <4>2, <4>3 DEF Stored
    <3>2. Piece(Sent(c), 0, 0, w.wbuf)
      BY <1>3, <2>2, PieceNone
    <3> QED BY <1>3, <1>4, <1>8, <1>11, <1>12, <1>13, <2>2, <3>1, <3>2 DEF HdDma
  <2> QED BY <1>5, <2>1, <2>2
<1>15. Phase(e, g)
  BY <1>14 DEF Phase
<1> QED BY <1>11, <1>15 DEF IdeOk


\* PerformHdCommand, whatever the command.
LEMMA HdPerformed ==
  ASSUME NEW s, NEW h, IdeOk(s, h), h.st = "setup", h.dev = Hd, NEW e, e = PerformHdCommand(s, h.c),
         NEW g, Onward(s, h, g), g.got = h.got, g.st = IF IsOut(h.c) THEN "out" ELSE "wait",
         IsOut(h.c) => g.left = Lesser(Words(h.c), BlockOf(s, h.c))
  PROVE  IdeOk(e, g) /\ e.dev[Cd] = s.dev[Cd] /\ (h.c.cmd = "DIAGNOSTICS" => Ended(e, g))
<1> DEFINE c == h.c
<1>1. /\ Shape(s) /\ IdeTyped(s) /\ Chosen(h.dev, c) /\ Hd \in Devs /\ Cd \in Devs /\ Hd # Cd
      /\ s.dev[Hd].head = Hd /\ s.dev[Hd].ien = FALSE
  <2>1. h.st \in Running
    BY DEF Running
  <2> QED BY <2>1, RunningFacts
<1>2. AtRest(s) /\ s.irq = 0 /\ s.slow = <<>> /\ s.fast \in Seq(FastTimers)
  BY <1>1 DEF IdeOk, Phase, AtRest, IdeTyped
<1>3. c \in HdCommands /\ c.cmd \in HdReads \cup HdWrites \cup HdOthers
  BY <1>1, DriverAssumption DEF Chosen
<1>4. HdReady(s)
  BY <1>1, <1>2 DEF HdReady, AtRest, IdeTyped, DevTyped
<1>5. c.cmd \in {"READ_MULTIPLE", "WRITE_MULTIPLE"} => s.dev[Hd].spi # 0
  BY DEF IdeOk, HostTyped
<1>6. \A G : DevBut(s, e, Hd, G) => e.dev[Cd] = s.dev[Cd]
  BY <1>1 DEF DevBut
<1>7. CASE c.cmd \in HdReads
  <2>1. IF c.cmd = "READ_DMA" THEN DmaStarts(s, e, c) ELSE ReadStarts(s, e, c)
    BY <1>2, <1>3, <1>4, <1>5, <1>7, HdReadFacts
  <2>2. ~IsOut(c) /\ c.cmd # "DIAGNOSTICS" /\ g.st = "wait"
    BY <1>7 DEF IsOut, HdReads
  <2>3. CASE c.cmd = "READ_DMA"
    <3>1. DmaStarts(s, e, c) /\ IsDma(c)
      BY <2>1, <2>3 DEF IsDma
    <3>2. IdeOk(e, g)
      BY <1>3, <2>2, <3>1, DmaStartsOk
    <3> QED BY <1>6, <2>2, <3>1, <3>2 DEF DmaStarts
  <2>4. CASE c.cmd # "READ_DMA"
    <3>1. ReadStarts(s, e, c) /\ c.cmd \in {"READ_SECTOR", "READ_MULTIPLE", "IDENTIFY"}
      BY <1>7, <2>1, <2>4 DEF HdReads
    <3>2. IdeOk(e, g)
      BY <1>3, <2>2, <3>1, ReadStartsOk
    <3> QED BY <1>6, <2>2, <3>1, <3>2 DEF ReadStarts
  <2> QED BY <2>3, <2>4
<1>8. CASE c.cmd \in HdWrites
  <2>1. IF c.cmd = "WRITE_DMA" THEN DmaStarts(s, e, c) ELSE WriteStarts(s, e, c)
    BY <1>3, <1>4, <1>5, <1>8, HdWriteFacts
  <2>2. c.cmd # "DIAGNOSTICS"
    BY <1>8 DEF HdWrites
  <2>3. CASE c.cmd = "WRITE_DMA"
    <3>1. DmaStarts(s, e, c) /\ IsDma(c) /\ g.st = "wait"
      BY <2>1, <2>3 DEF IsDma, IsOut
    <3>2. IdeOk(e, g)
      BY <1>3, <3>1, DmaStartsOk
    <3> QED BY <1>6, <2>2, <3>1, <3>2 DEF DmaStarts
  <2>4. CASE c.cmd # "WRITE_DMA"
    <3>1. WriteStarts(s, e, c) /\ c.cmd \in {"WRITE_SECTOR", "WRITE_MULTIPLE"} /\ IsOut(c)
      BY <1>8, <2>1, <2>4 DEF HdWrites, IsOut
    <3>2. IdeOk(e, g)
      BY <1>3, <3>1, WriteStartsOk
    <3> QED BY <1>6, <2>2, <3>1, <3>2 DEF WriteStarts
  <2> QED BY <2>3, <2>4
<1>9. CASE c.cmd = "IDENTIFY"
  <2>1. ReadStarts(s, e, c) /\ g.st = "wait"
    BY <1>3, <1>4, <1>9, HdIdentifyFacts DEF IsOut
  <2>2. IdeOk(e, g)
    BY <1>3, <1>9, <2>1, ReadStartsOk
  <2> QED BY <1>6, <1>9, <2>1, <2>2 DEF ReadStarts
<1>10. CASE c.cmd \in HdOthers \ {"IDENTIFY"}
  <2>1. HdCommandEnded(s, e, c)
    BY <1>3, <1>4, <1>10, HdOthersFacts
  <2>2. g.st = "wait"
    BY <1>10 DEF IsOut, HdOthers
  <2>3. IdeOk(e, g) /\ Ended(e, g)
    BY <1>10, <2>1, <2>2, HdEndedOk
  <2> QED BY <1>6, <2>1, <2>3 DEF HdCommandEnded
<1> QED BY <1>3, <1>7, <1>8, <1>9, <1>10

\* EXECUTE DEVICE DIAGNOSTICS reaches the CD-ROM, too, which does not know it.
LEMMA Diagnosed ==
  ASSUME NEW s, Shape(s), s.dev[Cd].head = Hd, Resting(s.dev[Cd]), NEW c, c.cmd = "DIAGNOSTICS",
         NEW e, e = PerformCdCommand(s, c)
  PROVE  But(s, e, {"dev"}) /\ DevBut(s, e, Cd, {"status"}) /\ Resting(e.dev[Cd])
<1> DEFINE s1 == (Status(s, Cd) \cup {"BSY"}) \ {"ERR"}
           a == WithStatus(s, Cd, s1)
           s2 == Status(a, Cd) \ {"BSY"}
           b == WithStatus(a, Cd, s2)
           s3 == Status(b, Cd) \cup {"ERR"}
           d == WithStatus(b, Cd, s3)
<1>1. Cd \in Devs /\ Cd # Hd /\ "DRQ" \notin Status(s, Cd)
  BY DEF Devs, Hd, Cd, Resting, Status
<1>2. e = UpdateIntrq(d, Cd, 1)
  BY DEF PerformCdCommand
<1>3. "DRQ" \notin s1
  BY <1>1
<1> HIDE DEF s1
<1>4. But(s, a, {"dev"}) /\ DevBut(s, a, Cd, {"status"}) /\ Status(a, Cd) = s1 /\ Shape(a)
  BY <1>1, StatusFacts DEF But
<1> HIDE DEF a
<1>5. "DRQ" \notin s2 /\ "BSY" \notin s2
  BY <1>3, <1>4
<1> HIDE DEF s2
<1>6. But(a, b, {"dev"}) /\ DevBut(a, b, Cd, {"status"}) /\ Status(b, Cd) = s2 /\ Shape(b)
  BY <1>1, <1>4, StatusFacts DEF But
<1> HIDE DEF b
<1>7. "DRQ" \notin s3 /\ "BSY" \notin s3
  BY <1>5, <1>6
<1> HIDE DEF s3
<1>8. But(b, d, {"dev"}) /\ DevBut(b, d, Cd, {"status"}) /\ Status(d, Cd) = s3
  BY <1>1, <1>6, StatusFacts
<1> HIDE DEF d
<1>9. But(s, d, {"dev"})
  BY <1>4, <1>6, <1>8 DEF But
<1>10. DevBut(s, d, Cd, {"status"})
  BY <1>4, <1>6, <1>8 DEF DevBut
<1>11. d.dev[Cd].head # Cd
  BY <1>1, <1>10 DEF DevBut, DevFields
<1>12. e = d
  BY <1>2, <1>11, IntrqDropped
<1>13. d.dev[Cd].xfer_cnt = s.dev[Cd].xfer_cnt /\ d.dev[Cd].dma = s.dev[Cd].dma /\ d.dev[Cd].status = s3
  BY <1>8, <1>10 DEF DevBut, DevFields, Status
<1>14. Resting(d.dev[Cd])
  BY <1>7, <1>13 DEF Resting
<1> QED BY <1>9, <1>10, <1>12, <1>14

LEMMA DiagnosedOk ==
  ASSUME NEW s, NEW h, IdeOk(s, h), h.st = "wait", Ended(s, h), NEW e, But(s, e, {"dev"}),
         DevBut(s, e, Cd, {"status"}), Resting(e.dev[Cd])
  PROVE  IdeOk(e, h)
<1> DEFINE u == s.dev[Cd]
           w == e.dev[Cd]
<1>1. IdeTyped(s) /\ Hd # Cd /\ Devs = {Hd, Cd} /\ Cd \in Devs /\ DOMAIN h = HostFields /\ h.st \in Running
  <2>1. h.st \in Running
    BY DEF Running
  <2> QED BY <2>1, RunningFacts
<1>2. /\ e.dev[Hd] = s.dev[Hd] /\ w.spi = u.spi /\ w.remain = u.remain /\ w.xfer_cnt = 0
      /\ e.irq = s.irq /\ e.fast = s.fast /\ e.slow = s.slow /\ e.image = s.image /\ e.memory = s.memory
  BY <1>1 DEF But, DevBut, IdeFields, DevFields, Resting
<1>3. w.dma = FALSE
  BY DEF Resting
<1>4. StepOf(s, e, h, h, Cd)
  <2>1. But(s, e, IdeFields \ Kept) /\ DevBut(s, e, Cd, Working)
    BY DEF But, DevBut, IdeFields, Kept, Working
  <2>2. e.irq \in {0, 1} /\ e.fast \in Seq(FastTimers) /\ e.slow \in Seq(SlowTimers)
    BY <1>1, <1>2 DEF IdeTyped
  <2>3. w.xfer_cnt \in Nat /\ w.spi \in Nat /\ w.spi = u.spi
    BY <1>1, <1>2 DEF IdeTyped, DevTyped
  <2>4. Onward(s, h, h)
    BY <1>1 DEF Onward
  <2> QED BY <1>3, <2>1, <2>2, <2>3, <2>4 DEF StepOf
<1>5. IdeTyped(e) /\ ChanOk(e, h) /\ HostTyped(e, h)
  BY <1>1, <1>4, StepTyped
<1>6. Ended(e, h)
  BY <1>2 DEF Ended, AtRest, Outcome, Complete
<1>7. Phase(e, h)
  BY <1>6 DEF Phase
<1> QED BY <1>5, <1>7 DEF IdeOk


\* The driver sends a command: the disk takes it.
LEMMA HdCommandOk ==
  ASSUME IdeOk(ide, host), HostCommand, host.dev = Hd
  PROVE  IdeOk(ide', host')
<1> DEFINE c == host.c
           g == host'
           e == PerformHdCommand(ide, c)
           st == IF IsOut(c) THEN "out" ELSE "wait"
           left == IF IsOut(c) THEN Lesser(Words(c), Block(c)) ELSE IF host.dev = Cd THEN PktWords ELSE 0
<1>1. /\ host.st = "setup" /\ host.st \in Running
      /\ Hd # Cd /\ Shape(ide) /\ ide.dev[Hd].head = Hd /\ ide.dev[Cd].head = Hd
  <2>1. host.st = "setup" /\ host.st \in Running
    BY DEF HostCommand, Running
  <2> QED BY <2>1, RunningFacts
<1>2. DOMAIN host = HostFields
  BY <1>1, RunningFacts
<1>3. g = Gone(host, st, left, host.got)
  <2>1. g = [host EXCEPT !.st = st, !.left = left]
    BY <1>1 DEF HostCommand
  <2> HIDE DEF g, st, left
  <2> QED BY <1>2, <2>1 DEF Gone, HostFields
<1>4. AtRest(ide)
  BY <1>1 DEF IdeOk, Phase
<1>5. "BSY" \notin Status(ide, Hd) /\ IsSelected(ide, Hd)
  BY <1>1, <1>4 DEF AtRest, Resting, Status, IsSelected
<1>6. ide' = IF IsSelected(e, Cd) \/ c.cmd = "DIAGNOSTICS" THEN PerformCdCommand(e, c) ELSE e
  <2>1. ide' = WriteCommand(ide, c)
    BY <1>1 DEF HostCommand
  <2> QED BY <1>5, <2>1 DEF WriteCommand
<1>7. st \in Running /\ (st \in {"setup", "wait", "dmaend"} \/ ~IsDma(c))
  BY DEF Running, IsOut, IsDma
<1> HIDE DEF left
<1>8. Onward(ide, host, g) /\ g.st = st /\ g.left = left /\ g.got = host.got
  <2> HIDE DEF g, st
  <2> QED BY <1>1, <1>3, <1>7, GoesOn
<1>9. IsOut(c) => g.left = Lesser(Words(c), BlockOf(ide, c))
  <2>1. IsOut(c) => Block(c) = BlockOf(ide, c)
    BY DEF IsOut, Block, BlockOf
  <2> QED BY <1>8, <2>1 DEF left
<1> HIDE DEF g, e
<1>10. IdeOk(e, g) /\ e.dev[Cd] = ide.dev[Cd] /\ (c.cmd = "DIAGNOSTICS" => Ended(e, g))
  BY <1>1, <1>8, <1>9, HdPerformed DEF e
<1>11. ~IsSelected(e, Cd)
  BY <1>1, <1>10 DEF IsSelected
<1>12. CASE c.cmd # "DIAGNOSTICS"
  <2>1. ide' = e
    BY <1>6, <1>11, <1>12
  <2> QED BY <1>10, <2>1 DEF g
<1>13. CASE c.cmd = "DIAGNOSTICS"
  <2>1. ide' = PerformCdCommand(e, c)
    BY <1>6, <1>13
  <2>2. Shape(e) /\ e.dev[Cd].head = Hd /\ Resting(e.dev[Cd])
    BY <1>1, <1>4, <1>10, OkShape DEF AtRest
  <2>3. But(e, ide', {"dev"}) /\ DevBut(e, ide', Cd, {"status"}) /\ Resting(ide'.dev[Cd])
    <3> DEFINE n == PerformCdCommand(e, c)
    <3>1. But(e, n, {"dev"}) /\ DevBut(e, n, Cd, {"status"}) /\ Resting(n.dev[Cd])
      BY <1>13, <2>2, Diagnosed
    <3> HIDE DEF n
    <3>2. n = ide'
      BY <2>1 DEF n
    <3> QED BY <3>1, <3>2
  <2>4. g.st = "wait"
    BY <1>8, <1>13 DEF IsOut
  <2>5. IdeOk(ide', g)
    BY <1>10, <1>13, <2>3, <2>4, DiagnosedOk
  <2> QED BY <2>5 DEF g
<1> QED BY <1>12, <1>13

-----------------------------------------------------------------------------
(* The driver sends a command to the CD-ROM. *)

\* IDENTIFY PACKET DEVICE.
LEMMA CdIdentified ==
  ASSUME NEW s, CdReady(s), NEW c, c.cmd = "IDENTIFY", NEW e, e = PerformCdCommand(s, c)
  PROVE  DataBegun(s, e, c)
<1> DEFINE st == (Status(s, Cd) \cup {"BSY"}) \ {"ERR"}
           a == WithStatus(s, Cd, st)
           words == [i \in 1 .. RespWords |-> NoData]
           f == [buf |-> words, xfer_cnt |-> RespWords, expected |-> FALSE]
           b == Set(a, Cd, f)
           w == e.dev[Cd]
<1>1. Cd \in Devs /\ Shape(s) /\ RespWords \in Nat \ {0} /\ words = Answered(c) /\ Total(c) = RespWords /\ c.cmd \in Responses
      /\ s.dev[Cd].ien = FALSE /\ s.dev[Cd].head = Cd /\ s.dev[Cd].remain = 0
  BY AtaSizes DEF Devs, CdReady, Answered, Total, Responses
<1>2. e = DataInPhase(b)
  BY DEF PerformCdCommand
<1>3. Piece(Answered(c), 0, RespWords, words)
  BY <1>1, ResponseFacts
<1> HIDE DEF st, words
<1>4. But(s, a, {"dev"}) /\ DevBut(s, a, Cd, {"status"}) /\ Shape(a)
  BY <1>1, StatusFacts DEF But
<1> HIDE DEF a
<1>5. DOMAIN f = {"buf", "xfer_cnt", "expected"} /\ f.buf = words /\ f.xfer_cnt = RespWords /\ DOMAIN f \subseteq DevFields
  BY DEF DevFields
<1>6. f.expected = FALSE
  OBVIOUS
<1> HIDE DEF f
<1>7. But(a, b, {"dev"}) /\ DevBut(a, b, Cd, DOMAIN f) /\ \A x \in DOMAIN f : b.dev[Cd][x] = f[x]
  BY <1>1, <1>4, <1>5, SetFacts
<1> HIDE DEF b
<1>8. But(s, b, {"dev"}) /\ DevBut(s, b, Cd, {"status", "buf", "xfer_cnt", "expected"}) /\ Shape(b)
  BY <1>4, <1>5, <1>7 DEF But, DevBut
<1>9. b.dev[Cd].buf = words /\ b.dev[Cd].xfer_cnt = RespWords /\ b.dev[Cd].expected = f.expected
  BY <1>5, <1>7
<1>10. b.dev[Cd].ien = FALSE /\ b.dev[Cd].head = Cd /\ b.dev[Cd].remain = 0
  BY <1>1, <1>8 DEF DevBut, DevFields
<1>11. Presented(b, e)
  <2> DEFINE n == DataInPhase(b)
  <2>1. Presented(b, n)
    BY <1>8, <1>10, InPhaseFacts
  <2> HIDE DEF n
  <2>2. n = e
    BY <1>2 DEF n
  <2> QED BY <2>1, <2>2
<1>12. But(s, e, {"dev", "irq"}) /\ InPhase(w) /\ Asking(w) /\ e.irq = 1
  BY <1>8, <1>11 DEF Presented, But
<1>13. DevBut(s, e, Cd, Working \ {"dma", "spi"})
  BY <1>8, <1>11 DEF Presented, DevBut, Working
<1>14. w.buf = words /\ w.xfer_cnt = RespWords /\ w.remain = 0 /\ w.expected = b.dev[Cd].expected
  BY <1>9, <1>10, <1>11 DEF Presented, DevBut, DevFields
<1>15. w.expected = FALSE
  BY <1>6, <1>9, <1>14, Zenon
<1>16. w.expected = (c.cmd # "IDENTIFY")
  BY <1>15
<1>17. RespWords + 0 = RespWords
  BY <1>1
<1> QED BY <1>1, <1>3, <1>12, <1>13, <1>14, <1>16, <1>17 DEF DataBegun

\* A command without data.
LEMMA CdPlain ==
  ASSUME NEW s, CdReady(s), "DRQ" \notin s.dev[Cd].status, NEW c, c.cmd = "PLAIN", NEW e, e = PerformCdCommand(s, c)
  PROVE  CommandEnded(s, e)
<1> DEFINE s1 == (Status(s, Cd) \cup {"BSY"}) \ {"ERR"}
           a == WithStatus(s, Cd, s1)
           s2 == Status(a, Cd) \ {"BSY"}
           w == e.dev[Cd]
<1>1. Cd \in Devs /\ Shape(s) /\ s.dev[Cd].ien = FALSE /\ s.dev[Cd].head = Cd /\ s.dev[Cd].xfer_cnt = 0 /\ s.dev[Cd].remain = 0
  BY DEF Devs, CdReady
<1>2. e = Announce(a, Cd, s2)
  BY DEF PerformCdCommand, Announce
<1>3. "DRQ" \notin s1
  BY DEF Status
<1> HIDE DEF s1
<1>4. But(s, a, {"dev"}) /\ DevBut(s, a, Cd, {"status"}) /\ Status(a, Cd) = s1 /\ Shape(a)
  BY <1>1, StatusFacts DEF But
<1> HIDE DEF a
<1>5. "DRQ" \notin s2 /\ "BSY" \notin s2
  BY <1>3, <1>4
<1> HIDE DEF s2
<1>6. a.dev[Cd].ien = FALSE /\ a.dev[Cd].head = Cd
  BY <1>1, <1>4 DEF DevBut, DevFields
<1>7. But(a, e, {"dev", "irq"}) /\ DevBut(a, e, Cd, {"status"}) /\ Status(e, Cd) = s2 /\ e.irq = 1
  <2> DEFINE n == Announce(a, Cd, s2)
  <2>1. But(a, n, {"dev", "irq"}) /\ DevBut(a, n, Cd, {"status"}) /\ Status(n, Cd) = s2 /\ n.irq = 1
    BY <1>1, <1>4, <1>6, AnnounceFacts
  <2> HIDE DEF n
  <2>2. n = e
    BY <1>2 DEF n
  <2> QED BY <2>1, <2>2
<1>8. But(s, e, {"dev", "irq"}) /\ DevBut(s, e, Cd, {"status"})
  BY <1>4, <1>7 DEF But, DevBut
<1>9. DevBut(s, e, Cd, Working \ {"dma", "spi"}) /\ w.xfer_cnt = 0 /\ w.remain = 0
  BY <1>1, <1>8 DEF DevBut, DevFields, Working
<1> QED BY <1>5, <1>7, <1>8, <1>9 DEF CommandEnded, Status


\* PACKET: the CD-ROM asks for the words of a packet.
PacketAsked(s, e, limit) ==
    LET w == e.dev[Cd]
    IN  /\ But(s, e, {"dev"}) /\ DevBut(s, e, Cd, {"byte_count", "xfer_cnt", "io", "cod", "status"})
        /\ w.byte_count = limit /\ w.xfer_cnt = PktWords /\ w.io = FALSE /\ w.cod = TRUE /\ Asking(w)

LEMMA CdPacketAsked ==
  ASSUME NEW s, Shape(s), NEW c, c.cmd = "PACKET", NEW limit,
         NEW e, e = PerformCdCommand([s EXCEPT !.dev[Cd].byte_count = limit], c)
  PROVE  PacketAsked(s, e, limit)
<1> DEFINE o == [s.dev[Cd] EXCEPT !.byte_count = limit]
           a == [s EXCEPT !.dev[Cd].byte_count = limit]
           sb == (Status(a, Cd) \cup {"BSY"}) \ {"ERR"}
           b == WithStatus(a, Cd, sb)
           st == (Status(b, Cd) \cup {"DRQ"}) \ {"BSY"}
           f == [xfer_cnt |-> PktWords, io |-> FALSE, cod |-> TRUE, status |-> st]
           w == e.dev[Cd]
<1>1. Cd \in Devs
  BY DEF Devs
<1>2. e = Set(b, Cd, f)
  BY DEF PerformCdCommand
<1>3. DOMAIN o = DevFields /\ o.byte_count = limit /\ \A x \in DevFields \ {"byte_count"} : o[x] = s.dev[Cd][x]
  BY <1>1 DEF Shape, DevFields
<1>4. a = [s EXCEPT !.dev[Cd] = o]
  OBVIOUS
<1>5. "DRQ" \in st /\ "BSY" \notin st
  OBVIOUS
<1> HIDE DEF o, a, sb, st
<1>6. /\ DOMAIN a = IdeFields /\ \A x \in IdeFields \ {"dev"} : a[x] = s[x]
      /\ DOMAIN a.dev = Devs /\ a.dev[Cd] = o /\ \A d \in Devs : d # Cd => a.dev[d] = s.dev[d]
  BY <1>1, <1>4 DEF Shape, IdeFields
<1>7. \A d \in Devs : DOMAIN a.dev[d] = DevFields
  BY <1>3, <1>6 DEF Shape
<1>8. But(s, a, {"dev"}) /\ DevBut(s, a, Cd, {"byte_count"}) /\ Shape(a) /\ a.dev[Cd].byte_count = limit
  BY <1>3, <1>6, <1>7 DEF But, DevBut, Shape, IdeFields
<1>9. But(a, b, {"dev"}) /\ DevBut(a, b, Cd, {"status"}) /\ Shape(b)
  BY <1>1, <1>8, StatusFacts DEF But
<1> HIDE DEF b
<1>10. DOMAIN f = {"xfer_cnt", "io", "cod", "status"} /\ f.xfer_cnt = PktWords /\ f.status = st /\ DOMAIN f \subseteq DevFields
  BY DEF DevFields
<1>11. f.io = FALSE /\ f.cod = TRUE
  OBVIOUS
<1> HIDE DEF f
<1>12. But(b, e, {"dev"}) /\ DevBut(b, e, Cd, DOMAIN f) /\ \A x \in DOMAIN f : w[x] = f[x]
  <2> DEFINE n == Set(b, Cd, f)
  <2>1. But(b, n, {"dev"}) /\ DevBut(b, n, Cd, DOMAIN f) /\ \A x \in DOMAIN f : n.dev[Cd][x] = f[x]
    BY <1>1, <1>9, <1>10, SetFacts
  <2> HIDE DEF n
  <2>2. n = e
    BY <1>2 DEF n
  <2> QED BY <2>1, <2>2
<1>13. But(s, e, {"dev"})
  BY <1>8, <1>9, <1>12 DEF But
<1>14. DevBut(s, e, Cd, {"byte_count", "xfer_cnt", "io", "cod", "status"})
  BY <1>8, <1>9, <1>10, <1>12 DEF DevBut
<1>15. w.byte_count = limit
  BY <1>8, <1>9, <1>10, <1>12 DEF DevBut, DevFields
<1>16. w.xfer_cnt = PktWords /\ Asking(w)
  BY <1>5, <1>10, <1>12 DEF Asking
<1>17. w.io = f.io /\ w.cod = f.cod
  BY <1>10, <1>12
<1>18. w.io = FALSE /\ w.cod = TRUE
  BY <1>11, <1>17, Zenon
<1> QED BY <1>13, <1>14, <1>15, <1>16, <1>18 DEF PacketAsked

LEMMA PacketAskedOk ==
  ASSUME NEW s, NEW h, IdeOk(s, h), h.st = "setup", h.dev = Cd, h.c.cmd \notin {"IDENTIFY", "PLAIN"},
         NEW limit \in ByteLimits, NEW e, PacketAsked(s, e, limit),
         NEW g, Onward(s, h, g), g.got = h.got, g.st = "packet", g.left = PktWords
  PROVE  IdeOk(e, g)
<1> DEFINE u == s.dev[Cd]
           w == e.dev[Cd]
<1>1. IdeTyped(s) /\ Hd # Cd /\ Devs = {Hd, Cd} /\ Cd \in Devs /\ PktWords \in Nat \ {0}
  <2>1. h.st \in Running
    BY DEF Running
  <2> QED BY <2>1, RunningFacts, AtaSizes
<1>2. AtRest(s) /\ s.irq = 0 /\ h.got = <<>>
  BY DEF IdeOk, Phase
<1>3. /\ But(s, e, {"dev"}) /\ DevBut(s, e, Cd, {"byte_count", "xfer_cnt", "io", "cod", "status"})
      /\ w.byte_count = limit /\ w.xfer_cnt = PktWords /\ w.io = FALSE /\ w.cod = TRUE /\ Asking(w)
  BY DEF PacketAsked
<1>4. e.dev[Hd] = s.dev[Hd] /\ w.spi = u.spi /\ w.remain = 0 /\ e.irq = 0 /\ e.fast = s.fast /\ e.slow = s.slow
  BY <1>1, <1>2, <1>3 DEF But, DevBut, IdeFields, DevFields, AtRest
<1>5. w.dma = FALSE
  <2>1. w.dma = u.dma
    BY <1>3 DEF DevBut, DevFields
  <2>2. u.dma = FALSE
    BY <1>2 DEF AtRest, Resting
  <2> QED BY <2>1, <2>2, Zenon
<1>6. StepOf(s, e, h, g, Cd)
  <2>1. But(s, e, IdeFields \ Kept) /\ DevBut(s, e, Cd, Working)
    BY <1>3 DEF But, DevBut, IdeFields, Kept, Working
  <2>2. e.irq \in {0, 1} /\ e.fast \in Seq(FastTimers) /\ e.slow \in Seq(SlowTimers)
    BY <1>1, <1>4 DEF IdeTyped
  <2>3. w.xfer_cnt \in Nat /\ w.spi \in Nat /\ w.spi = u.spi
    BY <1>1, <1>3, <1>4 DEF IdeTyped, DevTyped
  <2> QED BY <1>5, <2>1, <2>2, <2>3 DEF StepOf
<1>7. IdeTyped(e) /\ ChanOk(e, g) /\ HostTyped(e, g)
  BY <1>1, <1>6, StepTyped
<1>8. g.c = h.c /\ g.dev = Cd
  BY DEF Onward
<1>9. CdSide(e, g)
  BY <1>2, <1>4, <1>8 DEF CdSide, AtRest
<1>10. CdPacket(e, g)
  BY <1>1, <1>2, <1>3, <1>4, <1>8, <1>9 DEF CdPacket
<1>11. Phase(e, g)
  BY <1>10 DEF Phase
<1> QED BY <1>7, <1>11 DEF IdeOk

LEMMA CdCommandOk ==
  ASSUME IdeOk(ide, host), HostCommand, host.dev = Cd
  PROVE  IdeOk(ide', host')
<1> DEFINE c == host.c
           g == host'
           e == ide'
           st == IF c.cmd \in {"IDENTIFY", "PLAIN"} THEN "wait" ELSE "packet"
           left == PktWords
<1>1. /\ host.st = "setup" /\ host.st \in Running /\ DOMAIN host = HostFields /\ Chosen(Cd, c)
      /\ Hd # Cd /\ Shape(ide) /\ ide.dev[Hd].head = Cd /\ ide.dev[Cd].head = Cd /\ ide.dev[Cd].ien = FALSE
  <2>1. host.st = "setup" /\ host.st \in Running
    BY DEF HostCommand, Running
  <2> QED BY <2>1, RunningFacts, ZenonT(30)
<1>2. c.cmd \in CdCommands
  BY <1>1, DriverAssumption DEF Chosen
<1>3. ~IsOut(c) /\ ~IsDma(c) /\ c.cmd # "DIAGNOSTICS"
  BY <1>2 DEF CdCommands, IsOut, IsDma
<1>4. g = Gone(host, st, left, host.got)
  <2>1. g = [host EXCEPT !.st = st, !.left = left]
    BY <1>1, <1>3 DEF HostCommand
  <2> HIDE DEF g, st, left
  <2> QED BY <1>1, <2>1 DEF Gone, HostFields
<1>5. st \in Running
  BY DEF Running
<1> HIDE DEF left
<1>6. Onward(ide, host, g) /\ g.st = st /\ g.left = left /\ g.got = host.got
  <2> HIDE DEF g, st
  <2> QED BY <1>1, <1>3, <1>4, <1>5, GoesOn
<1>7. AtRest(ide) /\ host.got = <<>>
  BY <1>1 DEF IdeOk, Phase
<1>8. CdSide(ide, host) /\ CdReady(ide) /\ "DRQ" \notin ide.dev[Cd].status
  BY <1>1, <1>7 DEF CdSide, CdReady, AtRest, Resting
<1>9. CASE c.cmd \in {"IDENTIFY", "PLAIN"}
  <2>1. e = WriteCommand(ide, c)
    BY <1>1, <1>9 DEF HostCommand
  <2>2. e = PerformCdCommand(ide, c)
    BY <1>1, <1>3, <2>1 DEF WriteCommand, IsSelected
  <2>3. g.st = "wait"
    BY <1>6, <1>9
  <2> HIDE DEF e, g
  <2>4. CASE c.cmd = "IDENTIFY"
    <3>1. DataBegun(ide, e, c)
      BY <1>8, <2>2, <2>4, CdIdentified
    <3>2. IdeOk(e, g)
      BY <1>1, <1>6, <1>7, <1>8, <2>3, <3>1, DataBegunOk
    <3> QED BY <3>2 DEF e, g
  <2>5. CASE c.cmd = "PLAIN"
    <3>1. CommandEnded(ide, e)
      BY <1>8, <2>2, <2>5, CdPlain
    <3>2. Complete(ide, host, host.got)
      BY <2>5 DEF Complete, HdReads, HdWrites, Responses
    <3>3. IdeOk(e, g)
      BY <1>1, <1>6, <1>8, <2>3, <3>1, <3>2, CommandEndedOk
    <3> QED BY <3>3 DEF e, g
  <2> QED BY <1>9, <2>4, <2>5
<1>10. CASE c.cmd \notin {"IDENTIFY", "PLAIN"}
  <2> DEFINE p == [NoCommand EXCEPT !.cmd = "PACKET"]
  <2>1. PICK limit \in ByteLimits : e = WriteCommand([ide EXCEPT !.dev[Cd].byte_count = limit], p)
    BY <1>1, <1>10 DEF HostCommand
  <2> DEFINE a == [ide EXCEPT !.dev[Cd].byte_count = limit]
  <2>2. p.cmd = "PACKET"
    BY DEF NoCommand
  <2>3. a.dev[Hd].head = Cd /\ a.dev[Cd].head = Cd
    BY <1>1 DEF Shape, IdeFields, Devs, DevFields
  <2> HIDE DEF p
  <2>4. e = PerformCdCommand(a, p)
    <3> HIDE DEF a
    <3>1. e = WriteCommand(a, p)
      BY <2>1 DEF a
    <3> QED BY <1>1, <2>2, <2>3, <3>1 DEF WriteCommand, IsSelected
  <2>5. g.st = "packet" /\ g.left = PktWords
    BY <1>6, <1>10 DEF left
  <2> HIDE DEF e, g
  <2>6. PacketAsked(ide, e, limit)
    BY <1>1, <2>2, <2>4, CdPacketAsked
  <2>7. IdeOk(e, g)
    BY <1>1, <1>6, <1>8, <1>10, <2>5, <2>6, PacketAskedOk DEF CdSide
  <2> QED BY <2>7 DEF e, g
<1> QED BY <1>9, <1>10

-----------------------------------------------------------------------------
(* The whole. *)

LEMMA InitOk ==
  ASSUME IdeInit
  PROVE  IdeOk(ide, host)
<1>1. \A d \in Devs : /\ DevTyped(InitDevice(d)) /\ Resting(InitDevice(d)) /\ InitDevice(d).remain = 0
                      /\ InitDevice(d).dma = FALSE
  BY DEF InitDevice, DevTyped, DevFields, Resting, Hd
<1>2. ide.dev[Hd] = InitDevice(Hd) /\ ide.dev[Cd] = InitDevice(Cd) /\ DOMAIN ide.dev = {Hd, Cd} /\ Devs = {Hd, Cd}
  BY DEF IdeInit, Devs
<1>3. /\ DOMAIN ide = IdeFields /\ ide.cur_dev = Hd /\ ide.irq = 0 /\ ide.fast = <<>> /\ ide.slow = <<>>
  BY DEF IdeInit, IdeFields, Hd
<1>4. <<>> \in Seq(FastTimers) /\ <<>> \in Seq(SlowTimers) /\ NoDone(<<>>)
  BY EmptySeq DEF NoDone
<1>5. IdeTyped(ide)
  BY <1>1, <1>2, <1>3, <1>4 DEF IdeTyped
<1>6. /\ DOMAIN ide.chan = ChanFields /\ ide.chan.active = FALSE /\ ide.chan.loop = FALSE /\ ide.chan.dir = "undef"
      /\ ide.chan.queue = 0 /\ ide.chan.program = <<>>
  BY DEF IdeInit, ChanFields
<1>7. host.st = "idle" /\ DOMAIN host = HostFields
  BY DEF IdeInit, IdleHost, HostFields
<1>8. ChanOk(ide, host)
  <2>1. <<>> \in Seq(Nat)
    BY EmptySeq
  <2>2. ide.chan.active \in BOOLEAN /\ ide.chan.loop \in BOOLEAN /\ ~ide.chan.active
    BY <1>6, Zenon
  <2>3. ide.chan.queue \in Nat /\ ide.chan.program \in Seq(Nat)
    BY <1>6, <2>1
  <2> QED BY <1>6, <2>2, <2>3 DEF ChanOk
<1>9. HostTyped(ide, host)
  BY <1>7 DEF HostTyped
<1>10. AtRest(ide)
  BY <1>1, <1>2, <1>3, <1>4 DEF AtRest
<1>11. Phase(ide, host)
  BY <1>3, <1>7, <1>10 DEF Phase
<1> QED BY <1>5, <1>8, <1>9, <1>11 DEF IdeOk


LEMMA IdeStep ==
  ASSUME IdeOk(ide, host), [IdeNext]_ideVars
  PROVE  IdeOk(ide', host')
<1>1. CASE FastTimer
  <2>1. ide' = Fire(Popped(ide), Head(ide.fast)) /\ ide.fast # <<>> /\ host' = host
    BY <1>1 DEF FastTimer, FastDue, Popped
  <2> QED BY <2>1, FastOk
<1>2. CASE SlowTimer
  <2>1. ide' = Fire([ide EXCEPT !.slow = Tail(@)], Head(ide.slow)) /\ ide.slow # <<>> /\ host' = host
    BY <1>2 DEF SlowTimer, SlowDue
  <2> QED BY <2>1, SlowOk
<1>3. CASE HostCommand
  <2>1. host.st = "setup" /\ host.dev \in {Hd, Cd}
    BY <1>3 DEF HostCommand, IdeOk, HostTyped
  <2> QED BY <1>3, <2>1, HdCommandOk, CdCommandOk
<1>4. CASE HostPacket
  BY <1>4, PacketOk
<1>5. CASE HostOut
  BY <1>5, OutOk
<1>6. CASE HostInterrupt
  BY <1>6, InterruptOk
<1>7. CASE HostIn
  BY <1>7, InOk
<1>8. CASE HostPoll
  BY <1>8, PollOk DEF HostPoll, Unannounced
<1>9. CASE HostDmaEnd
  BY <1>9, DmaEndOk DEF HostDmaEnd
<1>10. CASE HostNext
  BY <1>10, NextOk DEF HostNext
<1>11. CASE HostReset
  BY <1>11, ResetOk DEF HostReset
<1>12. CASE HostResetEnd
  BY <1>12, ResetEndOk DEF HostResetEnd
<1>13. ASSUME NEW c \in HdCommands, HostSetupDisk(c) PROVE IdeOk(ide', host')
  <2>1. /\ host.st = "idle" /\ ide' = Begun(ide, Hd) /\ host' = [IdleHost EXCEPT !.st = "setup", !.c = c, !.dev = Hd]
        /\ c.cmd \in {"READ_MULTIPLE", "WRITE_MULTIPLE"} => ide.dev[Hd].spi # 0
    BY <1>13 DEF HostSetupDisk, HostSetup, Begun
  <2>2. Hd \in Devs /\ Chosen(Hd, c)
    BY DEF Devs, Chosen
  <2> QED BY <2>1, <2>2, SetupOk
<1>14. ASSUME NEW c \in Packets, HostSetupCd(c) PROVE IdeOk(ide', host')
  <2>1. host.st = "idle" /\ ide' = Begun(ide, Cd) /\ host' = [IdleHost EXCEPT !.st = "setup", !.c = c, !.dev = Cd]
    BY <1>14 DEF HostSetupCd, HostSetup, Begun
  <2>2. Cd \in Devs /\ Chosen(Cd, c) /\ Cd # Hd
    BY DEF Devs, Chosen, Hd, Cd
  <2> QED BY <2>1, <2>2, SetupOk
<1>15. ASSUME NEW split \in Splits, HostDma(split) PROVE IdeOk(ide', host')
  BY <1>15, DmaStartOk DEF HostDma
<1>16. CASE UNCHANGED ideVars
  BY <1>16 DEF ideVars
<1> QED BY <1>1, <1>2, <1>3, <1>4, <1>5, <1>6, <1>7, <1>8, <1>9, <1>10, <1>11, <1>12, <1>13, <1>14, <1>15, <1>16
        DEF IdeNext, IdeWork

\* What a finished command has done, in the words of the property.
LEMMA OkIntact == IdeOk(ide, host) => MediumIntact
<1> SUFFICES ASSUME IdeOk(ide, host), host.st = "done" PROVE MediumIntact
  BY DEF MediumIntact
<1> DEFINE c == host.c
           first == c.lba * SecWords
<1>1. host.st \in Running /\ Complete(ide, host, host.got)
  BY DEF Running, IdeOk, Phase
<1>2. Chosen(host.dev, c)
  BY <1>1, RunningFacts
<1>3. /\ First(c) \in Nat /\ Size(c) \in Nat /\ Words(c) = Size(c) /\ First(c) = first
      /\ Total(c) \in Nat /\ Answered(c) \in Seq(WordSet) /\ Len(Answered(c)) = Total(c)
  BY <1>2, CommandFacts DEF First
<1>4. c.cmd \in HdReads \cup Responses \cup {"READ", "READ_CD"} => host.got = Answered(c)
  <2>1. Piece(Answered(c), 0, Total(c), host.got) => host.got = Answered(c)
    BY <1>3, PieceAll
  <2> QED BY <1>1, <2>1 DEF Complete
<1>5. c.cmd \in {"READ_SECTOR", "READ_MULTIPLE", "READ_DMA", "READ", "READ_CD"} =>
        host.got = Addresses(first, Words(c))
  BY <1>3, <1>4 DEF HdReads, Responses, Answered
<1>6. c.cmd \in {"IDENTIFY", "INQUIRY"} => host.got = [i \in 1 .. RespWords |-> NoData]
  BY <1>4 DEF Responses, Answered
<1>7. ASSUME c.cmd \in HdWrites PROVE ide.image = [a \in first .. first + Words(c) - 1 |-> a - first + 1]
  <2> DEFINE n == [a \in first .. first + Words(c) - 1 |-> a - first + 1]
  <2>1. Stored(ide.image, c, Size(c))
    BY <1>1, <1>7 DEF Complete
  <2>2. Mapping(n) /\ DOMAIN n = DOMAIN ide.image /\ \A a \in DOMAIN n : ide.image[a] = n[a]
    BY <1>3, <2>1 DEF Mapping, Stored
  <2>3. Mapping(ide.image)
    BY <2>1 DEF Stored
  <2> HIDE DEF n
  <2>4. ide.image = n
    BY <2>2, <2>3, SameMapping
  <2> QED BY <2>4 DEF n
<1> QED BY <1>5, <1>6, <1>7 DEF MediumIntact, HdWrites

LEMMA OkPending == IdeOk(ide, host) => NothingPending
<1> SUFFICES ASSUME IdeOk(ide, host), host.st = "done" PROVE NothingPending
  BY DEF NothingPending
<1>1. AtRest(ide) /\ ide.irq = 0 /\ ide.fast \in Seq(FastTimers)
  BY DEF IdeOk, Phase, IdeTyped
<1>2. \A t \in Range(ide.fast) : t.what # "dmadone"
  BY <1>1 DEF AtRest, NoDone, Range
<1> QED BY <1>1, <1>2 DEF NothingPending, AtRest, Resting

LEMMA IdeAlwaysOk == IdeSpec => []IdeOk(ide, host)
<1>1. IdeOk(ide, host) /\ [IdeNext]_ideVars => IdeOk(ide, host)'
  BY IdeStep
<1> QED BY <1>1, InitOk, PTL DEF IdeSpec

\* Whatever the driver asks of the channel, in whichever order its interrupts,
\* its timers and the DMA channel come, a command that is over has read the
\* words of the medium it asked for and no others, in order, and has written
\* the words it was given to the sectors it was given, and nowhere else:
\* perform_command, read, write, pull_data, push_data and post_xfer_action of
\* the disk, read, write and the packet commands of the CD-ROM, for media,
\* blocks, caches, packets and DMA descriptors of any size.
THEOREM MediumStaysIntact == IdeSpec => []MediumIntact
BY IdeAlwaysOk, OkIntact, PTL

\* When the driver takes a command to be over, the channel has no interrupt,
\* no timer of the devices, no transfer and no BSY or DRQ left of it.
THEOREM NothingLeftPending == IdeSpec => []NothingPending
BY IdeAlwaysOk, OkPending, PTL
=============================================================================
