------------------------------ MODULE IdeChannel ------------------------------
(***************************************************************************)
(* An IDE channel of the Mac I/O controller: its registers and interrupt,  *)
(* the DBDMA channel that moves data for it, and an interrupt-driven guest *)
(* driver (external) that runs one command after another.                  *)
(***************************************************************************)
EXTENDS AtaDevices

CONSTANTS HdCommands,   \* commands the driver sends the disk: [cmd, lba, count]
          Packets,      \* packets it sends the CD-ROM: [cmd, lba, count]
          ByteLimits,   \* byte counts it allows for READ_CD
          Splits        \* ways it cuts a transfer into DMA descriptors

HdReads == {"READ_SECTOR", "READ_MULTIPLE", "READ_DMA"}
HdWrites == {"WRITE_SECTOR", "WRITE_MULTIPLE", "WRITE_DMA"}
HdOthers == {"PLAIN", "FLUSH_CACHE", "SET_MULTIPLE_MODE", "DIAGNOSTICS", "IDENTIFY", "SILENT",
             "UNSUPPORTED"}
CdCommands == {"READ", "READ_CD", "INQUIRY", "TEST_UNIT_READY", "IDENTIFY", "PLAIN"}

\* A sector count of 0 means 256; limits are whole blocks; the descriptors of a
\* transfer have its length.
ASSUME DriverAssumption ==
    /\ \A c \in HdCommands : /\ c.cmd \in HdReads \cup HdWrites \cup HdOthers
                             /\ c.lba \in Nat /\ c.count \in Nat
                             /\ c.cmd \in HdReads \cup HdWrites => c.count > 0
    /\ \A p \in Packets : p.cmd \in CdCommands /\ p.lba \in Nat /\ p.count \in Nat
    /\ \A limit \in ByteLimits : limit \in Nat /\ \E k \in 1 .. limit : limit = k * SecWords
    /\ \A split \in Splits, c \in HdCommands :
          split \in Nat /\ (c.cmd \in HdReads \cup HdWrites => split <= c.count * SecWords)

VARIABLES ide, host
ideVars == <<ide, host>>

NoCommand == [cmd |-> "NONE", lba |-> 0, count |-> 0]
IdleHost == [st |-> "idle", c |-> NoCommand, dev |-> Hd, got |-> <<>>, left |-> 0,
             dma |-> FALSE]

(* IdeChannel::write: the channel tracks the device, both devices see every *)
(* write.  read: the device the channel tracks.                             *)
WriteDeviceHead(s, d) ==
  [s EXCEPT !.cur_dev = d, !.dev[Hd].head = d, !.dev[Cd].head = d]
WriteDevCtrl(s, srst, ien) == DeviceControl(DeviceControl(s, Hd, srst, ien), Cd, srst, ien)
WriteCommand(s, c) ==
  LET hd == IF "BSY" \notin Status(s, Hd) /\ (IsSelected(s, Hd) \/ c.cmd = "DIAGNOSTICS")
            THEN PerformHdCommand(s, c) ELSE s
  IN  IF IsSelected(hd, Cd) \/ c.cmd = "DIAGNOSTICS" THEN PerformCdCommand(hd, c) ELSE hd
WriteData(s, w) == CdWriteData(HdWriteData(s, w), w)
ReadStatus(s) ==
  IF s.cur_dev = Hd THEN UpdateIntrq(s, Hd, 0) ELSE CdReadStatus(s)
ReadData(s) == IF s.cur_dev = Hd THEN HdReadData(s) ELSE CdReadData(s)
HasData(s) == s.dev[s.cur_dev].xfer_cnt # 0

-----------------------------------------------------------------------------
(* The DBDMA channel, not polled for IDE: input or output descriptors and a *)
(* STOP.  queue is what the current descriptor has left.                    *)
Transfer(s) ==
  LET d == s.cur_dev
      n == DmaMoves(s, d, s.chan.queue)
      moved == IF s.chan.dir = "from" THEN PullData(s, d, s.chan.queue)
                                      ELSE PushData(s, d, s.chan.queue)
  IN  [moved EXCEPT !.chan.queue = @ - n]
ScheduleCmd(s) ==
  IF s.chan.loop THEN s ELSE After500ns([s EXCEPT !.chan.loop = TRUE], s.cur_dev, "loop")
InterpretCmd(s) ==
  IF s.chan.program = <<>>
  THEN [s EXCEPT !.chan.active = FALSE, !.chan.busy = TRUE, !.chan.dir = "undef"]
  ELSE Transfer([s EXCEPT !.chan.busy = TRUE, !.chan.dir = s.chan.kind,
                          !.chan.queue = Head(s.chan.program),
                          !.chan.program = Tail(@)])
LoopTimed(s0) ==
  LET s == [s0 EXCEPT !.chan.loop = FALSE]
      finished == [s EXCEPT !.chan.busy = FALSE]
  IN  IF s.chan.active /\ s.chan.busy /\ s.chan.queue > 0 THEN s
      ELSE IF ~s.chan.active THEN finished
      ELSE ScheduleCmd(InterpretCmd(finished))

(* Mutant: without schedule_cmd nobody goes on to the next descriptor. *)
XferRetryOnly(s) == IF s.chan.dir = "undef" THEN s ELSE Transfer(s)

(* xfer_retry, run by the timer of assert_dmareq. *)
XferRetry(s) ==
  ScheduleCmd(IF s.chan.dir = "undef" THEN s ELSE Transfer(s))

Fire(s, t) ==
  CASE t.what = "ready" -> SignalDataReady(s, t.dev)
    [] t.what = "intrq" -> UpdateIntrq(s, t.dev, 1)
    [] t.what = "written" ->
         UpdateIntrq(WithStatus(s, t.dev, Status(s, t.dev) \ {"BSY"}), t.dev, 1)
    [] t.what = "dmadone" ->
         UpdateIntrq(WithStatus(s, t.dev, Status(s, t.dev) \ {"BSY", "DRQ"}), t.dev, 1)
    [] t.what = "dmareq" -> XferRetry(s)
    [] t.what = "loop" -> LoopTimed(s)

\* One 500 ns timer fewer is before this 100 us one.
Sooner(t) == [t EXCEPT !.behind = IF @ = 0 THEN 0 ELSE @ - 1]
FastDue == ide.fast # <<>>
FastTimer ==
  /\ FastDue
  /\ ide' = Fire([ide EXCEPT !.fast = Tail(@), !.slow = [i \in DOMAIN @ |-> Sooner(@[i])]],
                 Head(ide.fast))
  /\ UNCHANGED host
SlowDue == ide.slow # <<>> /\ ide.slow[1].behind = 0
SlowTimer ==
  /\ SlowDue
  /\ ide' = Fire([ide EXCEPT !.slow = Tail(@)], Head(ide.slow))
  /\ UNCHANGED host

-----------------------------------------------------------------------------
(* The driver (external).  It selects the device and sends the command,    *)
(* starts the DMA channel before or after it, and then follows the device's *)
(* interrupts.                                                             *)
IsDma(c) == c.cmd \in {"READ_DMA", "WRITE_DMA"}
IsIn(c) == c.cmd \in {"READ_SECTOR", "READ_MULTIPLE", "IDENTIFY"}
IsOut(c) == c.cmd \in {"WRITE_SECTOR", "WRITE_MULTIPLE"}
Words(c) == c.count * SecWords
Block(c) == IF c.cmd \in {"READ_MULTIPLE", "WRITE_MULTIPLE"}
            THEN SecWords * ide.dev[Hd].spi ELSE SecWords

HostSetup(d, c) ==
  /\ host.st = "idle"
  /\ host' = [IdleHost EXCEPT !.st = "setup", !.c = c, !.dev = d]
  /\ ide' = [WriteDeviceHead(ide, d) EXCEPT !.memory = <<>>, !.sent = 0, !.image = <<>>]
HostSetupDisk(c) == /\ c.cmd \in {"READ_MULTIPLE", "WRITE_MULTIPLE"} => ide.dev[Hd].spi # 0
                    /\ HostSetup(Hd, c)
HostSetupCd(c) == HostSetup(Cd, c)
HostDma(split) ==
  /\ IsDma(host.c) /\ host.st \in {"setup", "wait"} /\ ~host.dma
  /\ host' = [host EXCEPT !.dma = TRUE]
  /\ ide' = ScheduleCmd([ide EXCEPT
       !.chan = [@ EXCEPT !.active = TRUE,
                          !.kind = IF host.c.cmd = "READ_DMA" THEN "from" ELSE "to",
                          !.program = IF split = 0 THEN <<Words(host.c)>>
                                      ELSE <<split, Words(host.c) - split>>]])
HostCommand ==
  /\ host.st = "setup"
  /\ \/ host.dev = Hd /\ ide' = WriteCommand(ide, host.c)
     \/ /\ host.dev = Cd
        /\ host.c.cmd \in {"IDENTIFY", "PLAIN"}
        /\ ide' = WriteCommand(ide, host.c)
     \/ /\ host.dev = Cd
        /\ host.c.cmd \notin {"IDENTIFY", "PLAIN"}
        /\ \E limit \in ByteLimits :
             ide' = WriteCommand([ide EXCEPT !.dev[Cd].byte_count = limit],
                                 [NoCommand EXCEPT !.cmd = "PACKET"])
  /\ host' = [host EXCEPT !.st = IF host.dev = Cd /\ host.c.cmd \notin {"IDENTIFY", "PLAIN"}
                                 THEN "packet"
                                 ELSE IF IsOut(host.c) THEN "out" ELSE "wait",
                          !.left = IF IsOut(host.c) THEN Lesser(Words(host.c), Block(host.c))
                                   ELSE IF host.dev = Cd THEN PktWords ELSE 0]

HostPacket ==
  /\ host.st = "packet"
  /\ ide' = WriteData(ide, host.c)
  /\ host' = [host EXCEPT !.left = @ - 1, !.st = IF host.left = 1 THEN "wait" ELSE "packet"]

(* Data of a disk write: sent words are numbered. *)
HostOut ==
  /\ host.st = "out"
  /\ ide' = [WriteData(ide, ide.sent + 1) EXCEPT !.sent = @ + 1]
  /\ host' = [host EXCEPT !.left = @ - 1, !.st = IF host.left = 1 THEN "wait" ELSE "out"]

(* An interrupt while the driver waits for one: it reads the status.  DRQ: *)
(* move a block; none: the command is over.                                *)
HostInterrupt ==
  /\ host.st = "wait" /\ ide.irq = 1
  /\ LET s == ReadStatus(ide)
         drq == "DRQ" \in Status(s, s.cur_dev)
     IN  /\ ide' = s
         /\ host' = CASE ~drq -> [host EXCEPT !.st = IF IsDma(host.c) THEN "dmaend" ELSE "done"]
                      [] drq /\ host.dev = Cd ->
                           [host EXCEPT !.st = "in",
                                        !.left = IF host.c.cmd = "IDENTIFY" THEN RespWords
                                                 ELSE s.dev[Cd].byte_count]
                      [] drq /\ host.dev = Hd /\ IsOut(host.c) ->
                           [host EXCEPT !.st = "out",
                                        !.left = Lesser(Words(host.c) - s.sent, Block(host.c))]
                      [] drq /\ host.dev = Hd /\ ~IsOut(host.c) ->
                           [host EXCEPT !.st = "in",
                                        !.left = IF host.c.cmd = "IDENTIFY" THEN RespWords
                                                 ELSE Lesser(Words(host.c) - Len(host.got),
                                                             Block(host.c))]
HostIn ==
  /\ host.st = "in" /\ HasData(ide)
  /\ ide' = ReadData(ide)
  /\ LET got == Append(host.got, Head(ide.dev[ide.cur_dev].buf))
         last == \/ host.c.cmd = "IDENTIFY"
                 \/ host.dev = Hd /\ Len(got) = Words(host.c)
     IN  host' = [host EXCEPT !.got = got, !.left = @ - 1,
                              !.st = CASE host.left > 1 -> "in"
                                       [] host.left = 1 /\ last -> "done"
                                       [] OTHER -> "wait"]

(* A command that ends without an interrupt: the driver looks at the status. *)
Unannounced == host.c.cmd \in {"SILENT", "UNSUPPORTED"}
HostPoll ==
  /\ host.st = "wait" /\ Unannounced /\ "BSY" \notin Status(ide, ide.cur_dev)
  /\ host' = [host EXCEPT !.st = "done"]
  /\ UNCHANGED ide

(* A DMA command is over when the channel has stopped, too. *)
HostDmaEnd ==
  /\ host.st = "dmaend" /\ ~ide.chan.active
  /\ host' = [host EXCEPT !.st = "done", !.got = ide.memory]
  /\ UNCHANGED ide

HostNext ==
  /\ host.st = "done"
  /\ host' = IdleHost
  /\ ide' = [ide EXCEPT !.memory = <<>>, !.sent = 0, !.image = <<>>]

(* A soft reset of the channel between two commands. *)
HostReset ==
  /\ host.st = "idle" /\ ~ide.dev[Hd].srst
  /\ ide' = WriteDevCtrl(ide, TRUE, FALSE) /\ host' = [IdleHost EXCEPT !.st = "reset"]
HostResetEnd ==
  /\ host.st = "reset"
  /\ ide' = WriteDevCtrl(ide, FALSE, FALSE) /\ host' = IdleHost

-----------------------------------------------------------------------------
InitDevice(d) ==
  [status |-> {}, ien |-> FALSE, srst |-> FALSE, head |-> 0, buf |-> <<>>,
   wbuf |-> <<>>, pos |-> 0, xfer_cnt |-> 0, chunk_cnt |-> 0, chunk_size |-> 0,
   dma |-> FALSE, spi |-> 0, io |-> FALSE, cod |-> d = Cd, byte_count |-> 0,
   remain |-> 0, expected |-> FALSE]
IdeInit ==
  /\ ide = [cur_dev |-> 0, irq |-> 0, dev |-> [d \in {Hd, Cd} |-> InitDevice(d)],
            slow |-> <<>>, fast |-> <<>>, memory |-> <<>>, sent |-> 0, image |-> <<>>,
            chan |-> [active |-> FALSE, busy |-> FALSE, dir |-> "undef", kind |-> "from",
                      queue |-> 0, program |-> <<>>, loop |-> FALSE]]
  /\ host = IdleHost

IdeWork == HostCommand \/ HostPacket \/ HostOut \/ HostInterrupt \/ HostIn \/ HostPoll \/ HostDmaEnd
           \/ HostNext \/ HostResetEnd
IdeNext ==
  \/ FastTimer \/ SlowTimer \/ IdeWork
  \/ \E c \in HdCommands : HostSetupDisk(c)
  \/ \E c \in Packets : HostSetupCd(c)
  \/ \E split \in Splits : HostDma(split)
  \/ HostReset
IdeSpec == IdeInit /\ [][IdeNext]_ideVars

(* Timers fire and the driver goes on with a command it has begun; it need *)
(* not begin one.                                                          *)
WorkReady ==
  \/ host.st \in {"setup", "packet", "out", "done", "reset"}
  \/ host.st = "wait" /\ ide.irq = 1
  \/ host.st = "wait" /\ Unannounced /\ "BSY" \notin Status(ide, ide.cur_dev)
  \/ host.st = "in" /\ HasData(ide)
  \/ host.st = "dmaend" /\ ~ide.chan.active
DmaReady == IsDma(host.c) /\ host.st \in {"setup", "wait"} /\ ~host.dma
IdeFairness ==
  /\ []<>(~FastDue) \/ []<><<FastTimer>>_ideVars
  /\ []<>(~SlowDue) \/ []<><<SlowTimer>>_ideVars
  /\ []<>(~WorkReady) \/ []<><<IdeWork>>_ideVars
  /\ []<>(~DmaReady) \/ []<><<\E split \in Splits : HostDma(split)>>_ideVars
IdeFairSpec == IdeSpec /\ IdeFairness

-----------------------------------------------------------------------------
(* What a finished command read is what the medium holds at the address it *)
(* asked for, word for word, whichever way the words came (one interrupt a *)
(* sector, READ MULTIPLE with a short last block, DMA descriptors of any   *)
(* size started before or after the command, refills of the CD-ROM cache); *)
(* a finished write put word i of the command at word i of its sectors and *)
(* wrote nothing else (post_xfer_action and cur_fpos).                     *)
MediumIntact ==
  host.st = "done" =>
    LET first == host.c.lba * SecWords
    IN  /\ host.c.cmd \in {"READ_SECTOR", "READ_MULTIPLE", "READ_DMA", "READ", "READ_CD"} =>
             host.got = Addresses(first, Words(host.c))
        /\ host.c.cmd \in {"IDENTIFY", "INQUIRY"} =>
             host.got = [i \in 1..RespWords |-> NoData]
        /\ host.c.cmd \in {"WRITE_SECTOR", "WRITE_MULTIPLE", "WRITE_DMA"} =>
             ide.image = [a \in first .. first + Words(host.c) - 1 |-> a - first + 1]

(* When the driver takes a command to be over, so has the channel: no       *)
(* interrupt, timer, transfer, BSY or DRQ is left that a next command would *)
(* take for its own.                                                        *)
NothingPending ==
  host.st = "done" =>
    /\ ide.irq = 0 /\ ide.slow = <<>>
    /\ \A t \in Range(ide.fast) : t.what # "dmadone"
    /\ \A d \in {Hd, Cd} : /\ ide.dev[d].status \cap {"BSY", "DRQ"} = {}
                           /\ ide.dev[d].xfer_cnt = 0 /\ ~ide.dev[d].dma

(* Every command the driver begins ends: no interrupt is lost and no DMA   *)
(* request goes by unseen, in whichever order channel and device start.    *)
CommandEnds == host.st # "idle" ~> host.st = "idle"
=============================================================================
