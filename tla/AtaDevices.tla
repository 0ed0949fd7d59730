------------------------------ MODULE AtaDevices ------------------------------
(***************************************************************************)
(* The two devices of an IDE channel: a hard disk (AtaBaseDevice and       *)
(* AtaHardDisk) and a CD-ROM (AtapiBaseDevice, AtapiCdrom), as operators   *)
(* on the record s of the channel.  A word of a medium is its address, a   *)
(* sector has SecWords of them.  s.slow holds the 100 us timers of the     *)
(* devices, s.fast the 500 ns ones, each in the order they were started.   *)
(***************************************************************************)
EXTENDS Integers, Sequences, FiniteSets, SequencesExt

CONSTANTS SecWords,     \* words of a sector
          CacheSecs,    \* cache_blocks: sectors the CD-ROM reads at once
          PktWords,     \* words of a command packet
          RespWords,    \* words of an IDENTIFY or INQUIRY response
          NoData        \* the word of a response that comes from no medium

ASSUME AtaSizes == {SecWords, CacheSecs, PktWords, RespWords} \subseteq Nat \ {0}

Hd == 0
Cd == 1
Lesser(a, b) == IF a < b THEN a ELSE b
Over(f, g) == [x \in DOMAIN f \cup DOMAIN g |-> IF x \in DOMAIN f THEN f[x] ELSE g[x]]
Set(s, d, fields) == [s EXCEPT !.dev[d] = Over(fields, @)]
Status(s, d) == s.dev[d].status
WithStatus(s, d, st) == [s EXCEPT !.dev[d].status = st]

(* Timers.  A 100 us timer cannot overtake a 500 ns one started before it, *)
(* of which it keeps the number.                                           *)
After100us(s, d, what) ==
  [s EXCEPT !.slow = Append(@, [what |-> what, dev |-> d, behind |-> Len(s.fast)])]
After500ns(s, d, what) == [s EXCEPT !.fast = Append(@, [what |-> what, dev |-> d])]

(* is_selected, update_intrq with IdeChannel::report_intrq: a device that  *)
(* is not selected, or whose nIEN is set, drops the report.                *)
IsSelected(s, d) == s.dev[d].head = d
UpdateIntrq(s, d, level) ==
  IF ~IsSelected(s, d) \/ s.dev[d].ien THEN s ELSE [s EXCEPT !.irq = level]

SignalDataReady(s, d) ==
  UpdateIntrq(WithStatus(s, d, (Status(s, d) \cup {"DRQ"}) \ {"BSY"}), d, 1)

(* device_set_signature of the two kinds. *)
SetSignature(s, d) ==
  IF d = Hd THEN Set(s, d, [head |-> 0, status |-> {}])
            ELSE Set(s, d, [head |-> 0, status |-> {}, io |-> FALSE, cod |-> TRUE])

(* device_control: the two phases of a soft reset.  Neither stops a timer  *)
(* nor a transfer.                                                         *)
DeviceControl(s, d, srst, ien) ==
  LET reset == IF srst /\ ~s.dev[d].srst
               THEN WithStatus(s, d, Status(s, d) \cup {"BSY"})
               ELSE IF s.dev[d].srst /\ ~srst THEN SetSignature(s, d) ELSE s
  IN  Set(reset, d, [srst |-> srst, ien |-> ien])

Addresses(first, n) == [i \in 1..n |-> first + i - 1]
PrepareAta(s, d, size, block) ==
  Set(s, d, [xfer_cnt |-> size, chunk_cnt |-> Lesser(size, block), chunk_size |-> block])

-----------------------------------------------------------------------------
(* AtaHardDisk::perform_command.  Plain stands for the commands that only  *)
(* raise an interrupt, Flush for FLUSH_CACHE and IDLE_IMMEDIATE, Silent    *)
(* for the ones that end without an interrupt.                             *)
HdRead(s, c) ==
  LET is_dma == c.cmd = "READ_DMA"
      size == c.count * SecWords
      ints == CASE is_dma -> size
                [] c.cmd = "READ_MULTIPLE" -> SecWords * s.dev[Hd].spi
                [] OTHER -> SecWords
      begun == PrepareAta(Set(s, Hd, [buf |-> Addresses(c.lba * SecWords, size)]),
                           Hd, size, ints)
  IN  IF ints = 0
      THEN WithStatus(s, Hd, (Status(s, Hd) \cup {"ERR"}) \ {"BSY"})
      ELSE IF is_dma
      THEN After500ns(Set(begun, Hd, [dma |-> TRUE,
                                      status |-> Status(s, Hd) \ {"BSY", "DRQ", "ERR"}]),
                      Hd, "dmareq")
      ELSE After100us(begun, Hd, "ready")

HdWrite(s, c) ==
  LET is_dma == c.cmd = "WRITE_DMA"
      size == c.count * SecWords
      ints == CASE is_dma -> size
                [] c.cmd = "WRITE_MULTIPLE" -> SecWords * s.dev[Hd].spi
                [] OTHER -> SecWords
      placed == Set(s, Hd, [pos |-> c.lba * SecWords, wbuf |-> <<>>])
      begun == PrepareAta(placed, Hd, size, ints)
  IN  IF ints = 0
      THEN WithStatus(placed, Hd, (Status(s, Hd) \cup {"ERR"}) \ {"BSY"})
      ELSE IF is_dma
      THEN After500ns(Set(begun, Hd, [dma |-> TRUE,
                                      status |-> Status(s, Hd) \ {"BSY", "DRQ", "ERR"}]),
                      Hd, "dmareq")
      ELSE WithStatus(begun, Hd, (Status(s, Hd) \cup {"DRQ"}) \ {"BSY"})

PerformHdCommand(s0, c) ==
  LET s == WithStatus(s0, Hd, Status(s0, Hd) \cup {"BSY"})
      ready == WithStatus(s, Hd, Status(s, Hd) \ {"BSY"})
  IN  CASE c.cmd \in {"READ_SECTOR", "READ_MULTIPLE", "READ_DMA"} -> HdRead(s, c)
        [] c.cmd \in {"WRITE_SECTOR", "WRITE_MULTIPLE", "WRITE_DMA"} -> HdWrite(s, c)
        [] c.cmd = "PLAIN" -> UpdateIntrq(ready, Hd, 1)
        [] c.cmd = "FLUSH_CACHE" ->
             UpdateIntrq(WithStatus(s, Hd, Status(s, Hd) \ {"BSY", "DRQ", "ERR"}), Hd, 1)
        [] c.cmd = "SET_MULTIPLE_MODE" ->
             UpdateIntrq(IF c.count \in {1, 2, 4, 8, 16}
                         THEN Set(ready, Hd, [spi |-> c.count])
                         ELSE WithStatus(ready, Hd, Status(ready, Hd) \cup {"ERR"}), Hd, 1)
        [] c.cmd = "DIAGNOSTICS" -> UpdateIntrq(SetSignature(s, Hd), Hd, 1)
        [] c.cmd = "IDENTIFY" ->
             SignalDataReady(PrepareAta(Set(s, Hd, [buf |-> [i \in 1..RespWords |-> NoData]]),
                                         Hd, RespWords, RespWords), Hd)
        [] c.cmd = "SILENT" -> ready
        [] c.cmd = "NOP" -> s
        [] OTHER -> WithStatus(ready, Hd, Status(ready, Hd) \cup {"ERR"})

(* Mutant: a read goes on after its last full chunk. *)
HdReadDataOneMore(s) ==
  LET v == s.dev[Hd]
      left == v.chunk_cnt - 1
      after == Set(s, Hd, [buf |-> Tail(v.buf), chunk_cnt |-> left])
      rest == v.xfer_cnt - v.chunk_size
  IN  IF left > 0 THEN after
      ELSE IF rest < 0
      THEN Set(after, Hd, [xfer_cnt |-> 0, status |-> v.status \ {"DRQ"}])
      ELSE After100us(Set(after, Hd, [xfer_cnt |-> rest,
                                      chunk_cnt |-> Lesser(rest, v.chunk_size)]),
                      Hd, "intrq")

(* AtaBaseDevice::read of DATA: the word, and the end of a chunk. *)
HdReadData(s) ==
  LET v == s.dev[Hd]
      left == v.chunk_cnt - 1
      after == Set(s, Hd, [buf |-> Tail(v.buf), chunk_cnt |-> left])
      rest == v.xfer_cnt - v.chunk_size
  IN  IF left > 0 THEN after
      ELSE IF rest <= 0
      THEN Set(after, Hd, [xfer_cnt |-> 0, status |-> v.status \ {"DRQ"}])
      ELSE After100us(Set(after, Hd, [xfer_cnt |-> rest,
                                      chunk_cnt |-> Lesser(rest, v.chunk_size)]),
                      Hd, "intrq")

(* post_xfer_action: the words gathered go to the image at cur_fpos. *)
PostXferAction(s) ==
  LET v == s.dev[Hd]
      here == v.pos .. v.pos + Len(v.wbuf) - 1
  IN  [s EXCEPT !.image = Over([a \in here |-> v.wbuf[a - v.pos + 1]], @),
                !.dev[Hd].pos = v.pos + Len(v.wbuf)]

(* AtaBaseDevice::write of DATA. *)
HdWriteData(s0, word) ==
  LET v == s0.dev[Hd]
      left == v.chunk_cnt - 1
      s == Set(s0, Hd, [wbuf |-> Append(v.wbuf, word), chunk_cnt |-> left])
      rest == v.xfer_cnt - v.chunk_size
  IN  IF ~IsSelected(s0, Hd) \/ v.xfer_cnt = 0 THEN s0
      ELSE IF left > 0 THEN s
      ELSE IF rest <= 0
      THEN After100us(Set(PostXferAction(s), Hd,
                          [xfer_cnt |-> 0, status |-> v.status \ {"DRQ"}]), Hd, "written")
      ELSE After100us(Set(PostXferAction(s), Hd,
                          [wbuf |-> <<>>, xfer_cnt |-> rest,
                           chunk_cnt |-> Lesser(rest, v.chunk_size)]), Hd, "ready")

(* pull_data and push_data: a DMA channel asks for, or brings, len words.  *)
DmaMoves(s, d, len) ==
  IF s.dev[d].xfer_cnt = 0 \/ ~s.dev[d].dma THEN 0 ELSE Lesser(s.dev[d].xfer_cnt, len)
DmaProgress(s, d, n) ==
  LET rest == s.dev[d].xfer_cnt - n
  IN  IF rest = 0
      THEN After500ns(Set(s, d, [xfer_cnt |-> 0, dma |-> FALSE]), d, "dmadone")
      ELSE Set(s, d, [xfer_cnt |-> rest,
                      status |-> (Status(s, d) \ {"BSY"}) \cup {"DRQ"}])
PullData(s, d, len) ==
  LET n == DmaMoves(s, d, len)
      words == SubSeq(s.dev[d].buf, 1, n)
  IN  IF s.dev[d].xfer_cnt = 0 \/ ~s.dev[d].dma THEN s
      ELSE DmaProgress([Set(s, d, [buf |-> SubSeq(s.dev[d].buf, n + 1, Len(s.dev[d].buf))])
                          EXCEPT !.memory = @ \o words], d, n)
PushData(s, d, len) ==
  LET n == DmaMoves(s, d, len)
      got == Set(s, d, [wbuf |-> s.dev[d].wbuf \o Addresses(s.sent + 1, n)])
      all == IF s.dev[d].xfer_cnt = n THEN PostXferAction(got) ELSE got
  IN  IF s.dev[d].xfer_cnt = 0 \/ ~s.dev[d].dma THEN s
      ELSE DmaProgress([all EXCEPT !.sent = @ + n], d, n)

-----------------------------------------------------------------------------
(* The CD-ROM.  data_available is what READ has left (remain_size). *)
DataAvailable(s) == s.dev[Cd].remain # 0
DataInPhase(s) == SignalDataReady(Set(s, Cd, [io |-> TRUE, cod |-> FALSE]), Cd)
PresentStatus(s) ==
  UpdateIntrq(Set(s, Cd, [io |-> TRUE, cod |-> TRUE,
                          status |-> Status(s, Cd) \ {"DRQ", "BSY"}]), Cd, 1)

(* read_begin of the block device, bounded by the cache and by max_len, and *)
(* read_more (request_data); fill_cache reads whole blocks, what is left of *)
(* a broken one is whatever the cache held.                                 *)
Deliver(s, size, remain) ==
  LET whole == (size \div SecWords) * SecWords
  IN  Set(s, Cd, [buf |-> Addresses(s.dev[Cd].pos, whole) \o [i \in 1..(size - whole) |-> NoData],
                  xfer_cnt |-> size, byte_count |-> size, remain |-> remain,
                  pos |-> s.dev[Cd].pos + whole])
ReadBegin(s, nblocks, max_len) ==
  LET size == Lesser(nblocks * SecWords, Lesser(CacheSecs * SecWords, max_len))
  IN  Deliver(s, size, nblocks * SecWords - size)

(* Mutant: read_more hands out a full cache and forgets the rest. *)
RequestDataDrop(s) ==
  LET size == Lesser(s.dev[Cd].remain, CacheSecs * SecWords)
  IN  Deliver(s, size, 0)

RequestData(s) ==
  LET size == Lesser(s.dev[Cd].remain, CacheSecs * SecWords)
  IN  Deliver(s, size, s.dev[Cd].remain - size)

(* perform_packet_command, with the SCSI commands it hands on. *)
PerformPacketCommand(s0, p) ==
  LET s == Set(s0, Cd, [status |-> (Status(s0, Cd) \cup {"BSY"}) \ {"ERR"},
                        expected |-> TRUE])
      at == Set(s, Cd, [pos |-> p.lba * SecWords])
  IN  IF p.cmd \in {"READ", "READ_CD"} /\ p.count = 0 THEN PresentStatus(s)
      ELSE CASE p.cmd = "READ" -> DataInPhase(ReadBegin(at, p.count, p.count * SecWords))
             [] p.cmd = "READ_CD" -> DataInPhase(ReadBegin(at, p.count, s.dev[Cd].byte_count))
             [] p.cmd = "INQUIRY" ->
                  DataInPhase(Set(s, Cd, [buf |-> [i \in 1..RespWords |-> NoData],
                                          xfer_cnt |-> RespWords, byte_count |-> RespWords]))
             [] p.cmd = "TEST_UNIT_READY" -> PresentStatus(s)

(* AtapiBaseDevice::perform_command: unlike the disk, it does not look at BSY *)
(* first.                                                                     *)
PerformCdCommand(s0, c) ==
  LET s == WithStatus(s0, Cd, (Status(s0, Cd) \cup {"BSY"}) \ {"ERR"})
      ready == WithStatus(s, Cd, Status(s, Cd) \ {"BSY"})
  IN  CASE c.cmd = "SOFT_RESET" -> SetSignature(Set(s, Cd, [ien |-> TRUE]), Cd)
        [] c.cmd = "PACKET" ->
             Set(s, Cd, [xfer_cnt |-> PktWords, io |-> FALSE, cod |-> TRUE,
                         status |-> (Status(s, Cd) \cup {"DRQ"}) \ {"BSY"}])
        [] c.cmd = "IDENTIFY" ->
             DataInPhase(Set(s, Cd, [buf |-> [i \in 1..RespWords |-> NoData],
                                     xfer_cnt |-> RespWords, expected |-> FALSE]))
        [] c.cmd = "PLAIN" -> UpdateIntrq(ready, Cd, 1)
        [] OTHER -> UpdateIntrq(WithStatus(ready, Cd, Status(ready, Cd) \cup {"ERR"}), Cd, 1)

(* AtapiBaseDevice::read of DATA and of STATUS. *)
CdReadData(s) ==
  LET v == s.dev[Cd]
      after == Set(s, Cd, [buf |-> Tail(v.buf), xfer_cnt |-> v.xfer_cnt - 1])
      end == WithStatus(after, Cd, v.status \ {"DRQ"})
  IN  IF v.xfer_cnt > 1 THEN after
      ELSE IF ~(v.io /\ ~v.cod) THEN end
      ELSE IF DataAvailable(s)
      THEN UpdateIntrq(WithStatus(end, Cd, Status(end, Cd) \cup {"BSY"}), Cd, 1)
      ELSE IF v.expected THEN PresentStatus(end) ELSE end
CdReadStatus(s0) ==
  LET s == UpdateIntrq(s0, Cd, 0)
  IN  IF "BSY" \in Status(s, Cd) /\ DataAvailable(s)
      THEN DataInPhase(RequestData(s)) ELSE s

(* AtapiBaseDevice::write of DATA: the words of the packet. *)
CdWriteData(s, p) ==
  LET v == s.dev[Cd]
      after == Set(s, Cd, [xfer_cnt |-> v.xfer_cnt - 1])
      end == WithStatus(after, Cd, v.status \ {"DRQ"})
  IN  IF v.io \/ v.xfer_cnt = 0 THEN s
      ELSE IF v.xfer_cnt > 1 THEN after
      ELSE IF v.cod THEN PerformPacketCommand(end, p) ELSE end
=============================================================================
