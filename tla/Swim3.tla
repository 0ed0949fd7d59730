-------------------------------- MODULE Swim3 --------------------------------
(***************************************************************************)
(* The floppy controller (devices/floppy/swim3.cpp), the drives on it      *)
(* (devices/floppy/superdrive.cpp) and a driver in the guest.              *)
(*                                                                         *)
(* fdc holds the controller's registers, drive[d] for the drives and       *)
(* blocks, what its DMA channel was given.  access_timer is "none", "sync" *)
(* (the timer of start_disk_access), "next" (the one of disk_access) or    *)
(* "fired": the id is kept though no timer has it.  Disks are MFM disks;   *)
(* how long the head takes to reach a sector is left open, but for what    *)
(* sync_to_disk makes of two accesses that begin in the same index gap.    *)
(***************************************************************************)
EXTENDS Integers, Sequences

CONSTANTS Connected,   \* the drives connected to the controller, of 1 and 2
          NumTracks,
          SectorsPerTrack,
          NumberMod,   \* values of a sector number in the register: 128
          GapSector,   \* the sector a second access in the same gap starts from
          Steps,       \* step counts the driver uses
          MaxOps       \* bound: operations of the driver

\* A sector's number has eight bits in its header and seven in the register,
\* where the highest is none.  GapSector stands for -186315420 on disks with 9
\* sectors a track and for -1365125131 on those with 18: of such a number only
\* its last eight bits are looked at, for the weeks it takes to count up to 0.
ASSUME FloppySizes == /\ Connected \subseteq {1, 2}
                      /\ NumTracks \in Nat \ {0} /\ NumberMod \in 3 .. 128
                      /\ SectorsPerTrack \in 1 .. NumberMod - 2
                      /\ GapSector \in -2 * NumberMod .. -1
                      /\ Steps \subseteq Nat

VARIABLES fdc, fd, fd_ops
floppyVars == <<fdc, fd, fd_ops>>

Heads == {0, 1}
NoDrive == 0
NoSector == NumberMod - 1   \* 0x7F
Sectors == 0 .. SectorsPerTrack - 1

-----------------------------------------------------------------------------
(* The drive. *)

SetMotor(v, on) ==
    IF v.motor_stat = on THEN v
    ELSE [v EXCEPT !.motor_stat = on, !.is_ready = IF on THEN v.has_disk ELSE @, !.in_gap = FALSE]

Clamped(t) == IF t < 0 THEN 0 ELSE IF t >= NumTracks THEN NumTracks - 1 ELSE t

DriveCommand(v, addr, on) ==
    CASE addr = "Step_Direction" -> [v EXCEPT !.step_dir = IF on THEN -1 ELSE 1]
      [] addr = "Do_Step" -> IF on THEN v ELSE [v EXCEPT !.cur_track = Clamped(@ + v.step_dir)]
      [] addr = "Motor_On_Off" -> SetMotor(v, ~on)
      [] addr = "Eject_Disk" ->
           IF on THEN [v EXCEPT !.eject_latch = TRUE, !.has_disk = FALSE, !.motor_stat = FALSE,
                                !.cur_track = 0, !.is_ready = FALSE]
           ELSE v
      [] addr = "Reset_Eject_Latch" -> [v EXCEPT !.eject_latch = IF on THEN FALSE ELSE @]

\* sync_to_disk: some sector of the track comes next, the first one if the head
\* is in the index gap.  A second call in the same gap takes the gap from a time
\* smaller than it, without a sign.
SyncToDisk(v) ==
    [next_sector : Sectors, in_gap : {FALSE}]
      \cup [next_sector : {0} \cup IF v.in_gap THEN {GapSector} ELSE {}, in_gap : {TRUE}]

NoSync == [next_sector |-> 0, in_gap |-> FALSE]

\* MFM sectors count from 1, in an unsigned byte.
Number(sector) == (sector + 1) % (2 * NumberMod)

\* next_sector_delay, next_addr_mark_delay: the sector after this one.
NextSector(v) ==
    IF v.cur_sector < 0 THEN Number(v.cur_sector) - 2 * NumberMod
    ELSE IF v.cur_sector + 1 >= SectorsPerTrack THEN 0 ELSE v.cur_sector + 1

\* Mutant: the head is not counted.
BlockOneSided(v, sector) == v.cur_track * SectorsPerTrack * 2 + sector - 1

\* The block get_sector_data_ptr points to.
BlockAt(v, sector) ==
    v.cur_track * SectorsPerTrack * 2 + v.cur_head * SectorsPerTrack + sector - 1

-----------------------------------------------------------------------------
(* The controller. *)

\* Nothing is reported, and nothing withdrawn, while INT_ENA is clear.
UpdateFdcIrq(s) ==
    IF "INT_ENA" \in s.mode THEN [s EXCEPT !.irq = s.int_flags \cap s.int_mask # {}] ELSE s

RaiseFlag(s, f) == UpdateFdcIrq([s EXCEPT !.int_flags = @ \cup {f}])

StopStepping(s) == [s EXCEPT !.step_timer = FALSE, !.step_count = 0]

DoStep(s) ==
    IF "GO_STEP" \notin s.mode \/ s.step_count = 0 THEN s
    ELSE LET moved == IF s.selected = NoDrive THEN s
                      ELSE [s EXCEPT !.drive[s.selected] = DriveCommand(@, "Do_Step", FALSE)]
             n == [moved EXCEPT !.step_count = @ - 1]
         IN  IF n.step_count = 0
             THEN RaiseFlag(IF s.step_timer THEN StopStepping(n) ELSE n, "STEP_DONE")
             ELSE n

\* The first step is made at once, more than one need the timer.
StartStepping(s) ==
    IF \/ s.step_count = 0
       \/ "GO_STEP" \in s.mode \/ s.step_timer
       \/ "GO" \in s.mode \/ s.access_timer # "none"
       \/ s.phase # "Do_Step"
    THEN s
    ELSE DoStep([s EXCEPT !.mode = @ \cup {"GO_STEP"}, !.step_timer = s.step_count > 1])

StartDiskAccess(s, sync) ==
    IF \/ "GO" \in s.mode \/ s.access_timer # "none"
       \/ "GO_STEP" \in s.mode \/ s.step_timer
       \/ "WR_MODE" \in s.mode
    THEN s
    ELSE LET n == [s EXCEPT !.mode = @ \cup {"GO"}, !.target_sect = s.first_sec]
         IN  IF s.selected = NoDrive THEN n
             ELSE [n EXCEPT !.access_timer = "sync",
                               !.drive[s.selected].next_sector = sync.next_sector,
                               !.drive[s.selected].in_gap = sync.in_gap]

\* Mutant: access_timer_id is not cleared.
StopDiskAccessKeepsId(s) == [s EXCEPT !.access_timer = IF @ = "none" THEN @ ELSE "fired"]

StopDiskAccess(s) == [s EXCEPT !.access_timer = "none"]

\* disk_access, looking for an address mark: the head has left the gap.
ReadHeader(s) ==
    LET d == s.selected
        v == [s.drive[d] EXCEPT !.cur_sector = s.drive[d].next_sector, !.in_gap = FALSE]
        num == Number(v.cur_sector) % NumberMod
        found == num = s.target_sect
        n == RaiseFlag([s EXCEPT !.cur_track = [side |-> v.cur_head, track |-> v.cur_track],
                                 !.cur_sector = num, !.valid = TRUE], "ID_READ")
    IN  [n EXCEPT !.cur_state = IF found THEN "DATA_XFER" ELSE "ADDR_MARK_SEARCH",
                  !.drive[d] = IF found THEN v ELSE [v EXCEPT !.next_sector = NextSector(v)],
                  !.access_timer = "next"]

\* disk_access, after the data of a sector.  What the DMA channel takes is not
\* looked at.
TransferSector(s) ==
    LET d == s.selected
        v == s.drive[d]
        n == [s EXCEPT !.blocks = Append(@, <<d, BlockAt(v, s.cur_sector)>>),
                       !.xfer_cnt = (@ - 1) % 256]
    IN  IF n.xfer_cnt = 0 THEN RaiseFlag(StopDiskAccess(n), "SECT_DONE")
        ELSE [n EXCEPT !.cur_state = "ADDR_MARK_SEARCH", !.drive[d].next_sector = NextSector(v),
                       !.target_sect = Number(NextSector(v)), !.access_timer = "next"]

\* The timer of the access.  Without a drive the id stays behind.
DiskAccess(s0) ==
    LET s == IF s0.access_timer = "sync" THEN [s0 EXCEPT !.cur_state = "ADDR_MARK_SEARCH"] ELSE s0
    IN  CASE s.selected = NoDrive -> [s EXCEPT !.access_timer = "fired"]
          [] s.selected # NoDrive /\ s.cur_state = "ADDR_MARK_SEARCH" -> ReadHeader(s)
          [] s.selected # NoDrive /\ s.cur_state = "DATA_XFER" -> TransferSector(s)

\* mode_change: drive 1 wins if both are selected; the motor of a drive that
\* is not selected is switched off.
SelectDrive(s, mode) ==
    LET wanted == IF "DRIVE_1" \in mode THEN 1 ELSE IF "DRIVE_2" \in mode THEN 2 ELSE NoDrive
    IN  [s EXCEPT !.selected = IF wanted \in Connected THEN wanted ELSE NoDrive,
                  !.cur_track = [side |-> 1, track |-> NoSector], !.cur_sector = NoSector,
                  !.valid = FALSE,
                  !.drive = [d \in Connected |-> IF d = wanted THEN @[d] ELSE SetMotor(@[d], FALSE)]]

Toggled(a, b) == (a \ b) \cup (b \ a)

ModeChange(s, mode, sync) ==
    LET changed == Toggled(s.mode, mode)
        t == IF changed \cap {"DRIVE_1", "DRIVE_2"} = {} THEN s ELSE SelectDrive(s, mode)
        u == CASE "GO_STEP" \in changed -> IF "GO_STEP" \in mode THEN StartStepping(t) ELSE StopStepping(t)
               [] "GO_STEP" \notin changed /\ "GO" \in changed ->
                    IF "GO" \in mode THEN StartDiskAccess(t, sync)
                    ELSE [StopDiskAccess(t) EXCEPT !.valid = FALSE]
               [] OTHER -> t
    IN  [u EXCEPT !.mode = mode]

\* Status_Mode0 clears bits of the mode register, Handshake_Mode1 sets some.
ClearMode(s, bits) == ModeChange(s, s.mode \ bits, NoSync)
SetMode(s, bits, sync) == ModeChange(s, s.mode \cup bits, sync)

\* Phase: the strobe sends a command to the drive; the lines keep the address.
\* Reading the status of a head selects it; the address is then that of
\* Step_Direction.
Strobe(s, addr, on) ==
    LET n == [s EXCEPT !.phase = addr]
    IN  IF s.selected = NoDrive THEN n
        ELSE [n EXCEPT !.drive[s.selected] = DriveCommand(@, addr, on)]

SelectHead(s, head) ==
    LET n == [s EXCEPT !.phase = "Step_Direction"]
    IN  IF s.selected = NoDrive THEN n ELSE [n EXCEPT !.drive[s.selected].cur_head = head]

\* Interrupt_Flags: read and cleared.
ReadFlags(s) == UpdateFdcIrq([s EXCEPT !.int_flags = {}])

-----------------------------------------------------------------------------
(* Timers. *)

StepTimer == /\ fdc.step_timer
             /\ fdc' = DoStep(fdc)
             /\ UNCHANGED <<fd, fd_ops>>

AccessTimer == /\ fdc.access_timer \in {"sync", "next"}
               /\ fdc' = DiskAccess(fdc)
               /\ UNCHANGED <<fd, fd_ops>>

\* init_timer, a driver's delay: written again, the first timer goes on.
UsTimer == /\ fdc.us_timers > 0
           /\ fdc' = RaiseFlag([fdc EXCEPT !.us_timers = @ - 1, !.timer_val = FALSE], "TIMER_DONE")
           /\ UNCHANGED <<fd, fd_ops>>

\* The user inserts a disk into an empty drive.
InsertDisk(d) == /\ ~fdc.drive[d].has_disk
                 /\ fdc' = [fdc EXCEPT !.drive[d].has_disk = TRUE]
                 /\ UNCHANGED <<fd, fd_ops>>

-----------------------------------------------------------------------------
(* The driver: external.  It enables interrupts once, takes one operation   *)
(* at a time to its end or gives it up, and clears the flags and the mode   *)
(* bit of an operation before it starts another.                            *)

IdleFd == [pc |-> "idle", want |-> <<>>, track |-> 0]
Driven == fdc.drive[fdc.selected]

FdOp(s, st) == /\ fd.pc = "idle"
               /\ fd_ops < MaxOps
               /\ fd_ops' = fd_ops + 1
               /\ fdc' = s
               /\ fd' = st

FdSelect(d) ==
    LET bit == IF d = 1 THEN "DRIVE_1" ELSE "DRIVE_2"
    IN  /\ bit \notin fdc.mode
        /\ FdOp(SetMode(ClearMode(fdc, {"DRIVE_1", "DRIVE_2"}), {bit}, NoSync), fd)

FdMotorOn == /\ fdc.selected # NoDrive /\ Driven.has_disk /\ ~Driven.motor_stat
             /\ FdOp(Strobe(fdc, "Motor_On_Off", FALSE), fd)

FdEject == /\ fdc.selected # NoDrive /\ Driven.has_disk
           /\ FdOp(Strobe(Strobe(fdc, "Eject_Disk", TRUE), "Reset_Eject_Latch", TRUE), fd)

FdDelay == /\ ~fdc.timer_val
           /\ FdOp([fdc EXCEPT !.timer_val = TRUE, !.us_timers = @ + 1], fd)

FdSeek(n, inwards) ==
    /\ fdc.selected # NoDrive
    /\ LET s == [Strobe(ReadFlags(fdc), "Step_Direction", ~inwards)
                    EXCEPT !.phase = "Do_Step", !.step_count = n, !.int_mask = {"STEP_DONE"}]
       IN  FdOp(SetMode(s, {"GO_STEP"}, NoSync),
                [IdleFd EXCEPT !.pc = "seek",
                               !.track = Clamped(Driven.cur_track + IF inwards THEN n ELSE -n)])

FdRead(head, first, n, sync) ==
    /\ fdc.selected # NoDrive /\ Driven.has_disk /\ Driven.is_ready
    /\ LET s == [SelectHead(ReadFlags(fdc), head)
                    EXCEPT !.first_sec = first, !.xfer_cnt = n, !.blocks = <<>>,
                           !.int_mask = {"ID_READ", "SECT_DONE"}]
       IN  FdOp(SetMode(s, {"GO"}, sync),
                [IdleFd EXCEPT !.pc = "read",
                               !.want = [k \in 1 .. n |-> <<fdc.selected,
                                           (Driven.cur_track * 2 + head) * SectorsPerTrack + first + k - 2>>]])

FdInterrupt ==
    LET done == IF fd.pc = "seek" THEN "STEP_DONE" ELSE "SECT_DONE"
    IN  /\ fd.pc \in {"seek", "read"} /\ fdc.irq
        /\ fdc' = ReadFlags(fdc)
        /\ fd' = IF done \in fdc.int_flags THEN [fd EXCEPT !.pc = "stop"] ELSE fd
        /\ UNCHANGED fd_ops

\* The driver gives up; it may turn the drive off before it stops the access.
FdGiveUp == /\ fd.pc \in {"seek", "read"}
            /\ fd' = [fd EXCEPT !.pc = "abort"]
            /\ \E off \in SUBSET {"DRIVE_1", "DRIVE_2"} :
                  fdc' = IF off = {} THEN fdc ELSE ClearMode(fdc, off)
            /\ UNCHANGED fd_ops

FdStop == /\ fd.pc \in {"stop", "abort"}
          /\ fdc' = [ClearMode(fdc, {"GO", "GO_STEP"}) EXCEPT !.blocks = <<>>]
          /\ fd' = IdleFd
          /\ UNCHANGED fd_ops

FloppyInit ==
    /\ fdc = [mode |-> {"INT_ENA"}, int_flags |-> {}, int_mask |-> {}, irq |-> FALSE,
              step_count |-> 0, xfer_cnt |-> 0, first_sec |-> 255, target_sect |-> 0,
              cur_track |-> [side |-> 1, track |-> NoSector], cur_sector |-> NoSector,
              valid |-> FALSE, cur_state |-> "IDLE", phase |-> "Step_Direction",
              selected |-> NoDrive, step_timer |-> FALSE, access_timer |-> "none",
              timer_val |-> FALSE, us_timers |-> 0, blocks |-> <<>>,
              drive |-> [d \in Connected |->
                  [has_disk |-> FALSE, eject_latch |-> FALSE, motor_stat |-> FALSE,
                   is_ready |-> FALSE, step_dir |-> 1, cur_track |-> 0, cur_head |-> 0,
                   cur_sector |-> 0, next_sector |-> 0, in_gap |-> FALSE]]]
    /\ fd = IdleFd
    /\ fd_ops = 0

FloppyNext ==
    \/ StepTimer \/ AccessTimer \/ UsTimer
    \/ \E d \in Connected : InsertDisk(d)
    \/ \E d \in {1, 2} : FdSelect(d)
    \/ FdMotorOn \/ FdEject \/ FdDelay
    \/ \E n \in Steps, inwards \in BOOLEAN : FdSeek(n, inwards)
    \/ /\ fdc.selected # NoDrive
       /\ \E head \in Heads, first \in 1 .. SectorsPerTrack, sync \in SyncToDisk(Driven) :
             \E n \in 1 .. SectorsPerTrack + 1 - first : FdRead(head, first, n, sync)
    \/ FdInterrupt \/ FdGiveUp \/ FdStop

FloppySpec == FloppyInit /\ [][FloppyNext]_floppyVars

\* Timers fire, and the driver takes its interrupts and ends what it stops.
FloppyFairness ==
    /\ WF_floppyVars(StepTimer) /\ WF_floppyVars(AccessTimer)
    /\ WF_floppyVars(FdInterrupt) /\ WF_floppyVars(FdStop)

FloppyFairSpec == FloppySpec /\ FloppyFairness

-----------------------------------------------------------------------------
(* Properties. *)

\* A read brings the blocks of the sectors asked for, from the head and track
\* asked for, in order and each once, wherever on the track it began; an access
\* that was given up, also with the drive turned off between the header and
\* the data, brings nothing to a later one (disk_access, next_addr_mark_delay,
\* get_sector_data_ptr, stop_disk_access).  When STEP_DONE is reported the head
\* has made as many steps as it was told, the one made at once included, and
\* stops there (start_stepping, do_step).
SectorsAsAsked ==
    /\ IF fd.pc = "read" /\ "SECT_DONE" \in fdc.int_flags THEN fdc.blocks = fd.want
       ELSE \E n \in 0 .. Len(fd.want) : fdc.blocks = SubSeq(fd.want, 1, n)
    /\ fd.pc = "seek" /\ "STEP_DONE" \in fdc.int_flags =>
          Driven.cur_track = fd.track /\ ~fdc.step_timer

\* After a read that began with the second access in an index gap: the number
\* looked for, of eight bits, is none that the register of seven can have.
SectorLost == fd.pc = "read" /\ fdc.target_sect >= NumberMod

\* A seek and a read end: none is refused for what an earlier one, done or
\* given up, left behind (start_stepping, start_disk_access), but for the reads
\* whose next sector is lost: a second access in one index gap does not take
\* the first sector as the next one (sync_to_disk).
FloppyEnds == []<>(fd.pc = "idle" \/ SectorLost)
=============================================================================
