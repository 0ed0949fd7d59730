# TLA+ models of DingusPPC

DingusPPC emulates PowerPC Macintosh computers: a PowerPC interpreter, the
memory map, and the devices of each machine. Guest code runs on one host thread
(the *emulation thread*), which also runs every timer callback. Two other host
threads touch emulated state: the *audio thread* of the host's sound library,
which pulls samples through a DMA channel, and, in realtime mode, the *realtime
timer thread*, which tells the interpreter that a timer is due. Nearly all of
the difficulty is in who may run between which two steps: an interrupt between
an instruction and the commit of the next address, a timer added while the
queue is being scanned, a channel stopped between two of its timers.

The modules here model that core (the timer queue, the interpreter loop, the
event loop with its two time bases), the interrupt controllers, the two kinds of
DMA engine that share state with the audio thread, and, around them, the
devices whose protocols take several steps of guest and timers: Cuda and ADB,
serial, floppy, SCSI and ATA; and the parts whose difficulty is in values that
must agree: integer and load/store instructions, address translation, the
address map and PCI bus numbers. TLC checks small instances; TLAPS proves the
main invariants of the core for every value of the constants. `PROJECT.json`
maps every definition to the lines it was translated from.

## Inventory

| component | state | operations | hard behaviour | what makes it correct |
|---|---|---|---|---|
| timer manager (`core/timermanager`) | queue of timers ordered by expiry, id counter, `cb_active` | add one-shot / cyclic / immediate, cancel, process | two threads; the lock is released between choosing, removing, re-arming and calling | no timer lost, early, twice or after its cancellation; the event loop never sleeps past an expiry |
| interpreter loop and exceptions (`cpu/ppc/ppcexec`, `ppcexceptions`) | pc, next address, `exec_flags`, MSR, SRR0/1, the interrupt pin, decrementer, opcode table | fetch/execute, branch, mtmsr, rfi, exceptions, sleep, assert and release of the pin | interrupts arrive in the middle of an instruction or in a callback; exceptions `longjmp` out of the loop | enabled interrupts are taken at once and resume exactly where the program was |
| event loop (`ppcexec.cpp`, `main.cpp`) | deadline, `exec_timer`, mode, throttle, the realtime thread | process events in both modes, switch, sleep, throttle | a sleeping thread, a join from a callback, suppressed notifications | due timers are processed in either mode and across switches |
| Mac I/O interrupt controller (`ioctrl/maciobase`, `maciotwo`, `grandcentral`) | events, levels, mask, mode, CPU latch | device and DMA reports, register writes | edge and level behaviour in two modes, the latch before the pin | what is pending and enabled is signalled, no edge is lost |
| DBDMA (`common/dbdma`) | channel status, command pointer, current command, queue of bytes, two timers | ChannelControl writes, interpreter loop, push/pull/transfer by devices, interrupts | timers outlive the command they were set for; the audio thread runs the same interpreter | every byte moved once, no interrupt lost, the program goes on |
| sound (`sound/soundserver_*`, `awacs`, `burgundy`) | stream, codec registers | open, start, close, data callback | callback on a host thread | sound DMA goes on while the stream is open |
| VIA and Cuda (`common/viacuda`) | VIA registers, shift register, TIP/BYTEACK/TREQ, packet buffers, T1/T2 | register access, handshake, packet processing, autopoll | every edge of the handshake races the timer of the previous one | packets whole, every command answered, every rise of the interrupt reported |
| ADB (`common/adb`) | device registers, addresses, SRQ | talk, listen, flush, poll | autopoll while the host talks | events in order and once |
| AMIC (`ioctrl/amic`) | slot, VIA2, DMA and CPU interrupt registers, sound buffers | register access, device reports, sound DMA | three levels of enables; the audio thread changes the same registers | pending and enabled reaches the CPU |
| SCSI (`common/scsi`) | bus lines, controller sequences, FIFO, phases, target's pointers and cache | arbitration, selection, phase changes, commands | sequences in steps of a timer, aborts and resets in between | lines and phases agree, data intact, the bus left free |
| ATA/ATAPI (`common/ata`) | task file, status, data buffer, timers | register access, commands, packet phases, timed DMAREQ | a timed request that outlives its command | data intact, nothing left for the next command |
| USB OHCI (`common/usb`) | lists in guest memory | register access | unfinished: no frames, no transfers | - |
| integer, load and store instructions (`cpu/ppc/ppcopcodes`, `poweropcodes`) | registers, CA, OV, MQ, CR, reservation | one per instruction | edge operands, carries between instructions, a fault in the middle | results of programs, restartable |
| MMU (`cpu/ppc/ppcmmu`) | TLBs, BATs, segment registers, modes | translate, refill, flush | cached translations after a change | a hit equals the page walk |
| memory controllers, PCI (`memctrl`, `common/pci`) | address ranges, BARs, bus numbers | add, remove, find; BAR writes; configuration cycles | ranges moved over each other; buses being numbered | an access reaches the device that was set there |
| floppy (`floppy/swim3`, `superdrive`) | SWIM3 registers, steps, sector search | commands, step and access timers | commands while a timer is pending | the sectors asked for, once |
| serial (`serial/escc`, `chario`) | channel registers, throttle, DMA | register access, polling | a throttle between poll and read | no character lost |
| ethernet, NVRAM, images, video, NuBus, I2C, clock generators | registers, files | register access, I/O | little: sequential | - |
| machines, debugger, disassembler, host events | configuration | construction, tools | - | - |

Interactions: devices and the CPU call `TimerManager`; the manager notifies the
interpreter (`force_cycle_counter_reload`), which calls `process_timers`;
devices call `InterruptCtrl::ack_int` and `ack_dma_int`; the controller calls
`ppc_assert_int` / `ppc_release_int`, which may enter the exception handler
inside the very register access; devices move data with `push_data`,
`pull_data` and `xfer_retry` of their DMA channel; the channel adds timers and
reports completions to the interrupt controller.

`hazards` in `PROJECT.json` lists, line by line, what can go wrong in this code
in ways a test would hardly reach, and the properties aimed at each.

## Modules

| module | models |
|---|---|
| `TimerInfo` | the records and helpers of timers shared by the next two |
| `TimerService` | abstract: armed timers, fire the first that is due, cancel |
| `TimerManager` | `TimerManager` lock scope by lock scope, with an emulation and an audio thread; `ImplementsService` is the refinement |
| `PpcExec` | the loop of `ppc_exec_inner` and everything that diverts it |
| `EventLoop` | `process_events`, `process_events_real`, both instances of the loop, the realtime thread, the idle throttle |
| `MacIoInterrupt` | `MacIoBase` with the registers of `MacIoTwo` / `GrandCentral` |
| `InterruptPin` | the pin that CPU and interrupt controller share |
| `MacIoCpu` | composition of `PpcExec` and `MacIoInterrupt`, which share the pin |
| `DBDMA` | `DMAChannel` with its device, driver, timers and the audio thread |
| `Amic` | the interrupt cascade of AMIC, and its sound output with both threads |
| `IntOps` | integer instructions on words of `W` bits, run as short programs |
| `LoadStore` | integer loads and stores, executed again after a page fault |
| `Mmu` | block and page translation and the software TLBs in front of it |
| `AddressMap` | `MemCtrlBase`'s regions and the BARs that move them |
| `PciBuses` | routing of configuration cycles while buses are numbered |
| `AdbBus`, `Cuda` | the ADB with keyboard and mouse; Cuda above it, with a driver |
| `ViaInterrupt` | the VIA's flags, enables and timers; extends `MacIoInterrupt`, of which it drives one line |
| `Escc` | the serial controller and the back ends of its channels |
| `Swim3` | the floppy controller, its drives, a driver |
| `ScsiBus`, `ScsiTarget` | bus object; a disk on it with its block cache |
| `Mesh`, `Sc53C94` | the two host adapters, each on `ScsiTarget`, each with a driver |
| `AtaDevices`, `IdeChannel` | disk and CD-ROM; their channel with its DBDMA channel and a driver |
| `*_proofs` | theorems about the modules they extend |
| `MC*` | instances for TLC: `MCTimerManager`, `MCCpu` (`PpcExec`, `IntOps`, `LoadStore`), `MCMemory` (`Mmu`, `AddressMap`, `PciBuses`), `MCInterrupts` (`MacIoCpu`, `Amic`), `MCDBDMA`, `MCDevices` (`EventLoop`, `Cuda`, `ViaInterrupt`, `Escc`, `Swim3`), `MCStorage` (`Mesh`, `Sc53C94`, `IdeChannel`) |

An `MC` module of several components is a sum, not a product: a variable `part`,
chosen in the initial state, says which component moves, and the variables of
the others keep their initial values. Components that interact are composed in
modules of their own (`MacIoCpu`, `ViaInterrupt`, `Cuda` with `AdbBus`, the host
adapters with `ScsiTarget` and `ScsiBus`, `IdeChannel`). Fairness and liveness
are stated for the part that moves.

Drivers and peers in the guest or outside the emulator are marked external in
the map. A driver follows the documented protocol of its device (it waits for
the interrupt of a command before it gives the next) and is otherwise free:
which commands, in which order, by PIO or DMA, when to give up.

### TimerManager

`pc` is where the emulation thread is: in guest code, or in `process_timers`
after the first lock scope (`scan`), after a timer was found expired, after it
was removed (and re-armed, if cyclic), or in its callback. Guest code and
callbacks add and cancel timers; the audio thread adds in two steps, the push
under the lock and the notification after it. `cb_active` is a plain bool read
by the audio thread without a lock: `raced` records that it was written since
the push, and then the read may return either value. `event_deadline` stands
for the loop's own deadline and is the one `process_events` computes.

The refinement maps the queue, together with the timer `process_timers` has
chosen and will still deliver, to the armed timers of `TimerService`.

### PpcExec

A loop iteration executes an instruction, processes due timers, then commits
the next address. `Plain` is any instruction that does not change the flow
(device accesses included), the others are branches, `mtmsr`, `rfi`, `mtspr
DEC`, exceptions, and entering sleep. Addresses are counted in instructions and
wrap at `AddrMod`; the three vectors stand for 0x500, 0x900 and the synchronous
vectors. Of the MSR only EE, FP, POW and PR are kept: the other bits take no
part in the loop's control. `resume` is a ghost: the address at which the
interrupted program has to go on, written by the program's own semantics and
never read by the code's. A guest never executes `rfi` to an address outside
`Targets`.

### EventLoop

The queue is reduced to its expiries (0 is an immediate timer) and
`process_timers` to one step. Guest time is one clock. The verdict of
`guest_is_idle` is nondeterministic. `pc = "join"` is the emulation thread
waiting in `std::thread::join` for the realtime thread to see
`g_realtime_timer_stop`.

### MacIoInterrupt and MacIoCpu

Register words are sets of interrupt sources. `Signalled` and `Released` are
`signal_cpu_int` and `clear_cpu_int`. In `MacIoCpu` a register access is part of
an instruction and a device report part of an instruction or of a callback, so
that the exception handler is entered inside them, as in the code.

### DBDMA

`ch` is the `DMAChannel` object, and the handlers are functions from one `ch` to
the next in the order of the calls in the code. The program is what the guest
has in memory. The `s` bits and the select registers are reduced to what their
comparison yields, and `_MORE` / `_LAST` to one OUTPUT and one INPUT operation.
`loop_timers` and `irq_timers` count the channel's timers in the timer queue.
The audio thread's steps are `pull_data`'s decrement of `queue_len`, its other
two assignments, `schedule_cmd` with its `try_lock`, and the storing of timer
ids. Left out: commands with a key other than 0 and the combinations that end in
`ABORT_F` (LOAD/STORE_QUAD with branch bits, RUN and PAUSE set together), the
contents of the buffers, the reads of the registers.
`ch_stat = (ch_stat & ~mask) | ...` in `reg_write` is one step, although the
audio thread may write `ch_stat` between its read and its write.

`dbdma` runs channels of devices and the sound channel; the invariants
`BufferAccounted`, `InterruptNotLost` and `OneLoopTimer` are about channels the
audio thread does not touch, `SoundGoesOn` about the one it does.

### Amic

`amic` has the flags and enables of the three levels as sets: slots, VIA2, DMA
and the CPU's lines. `DeviceReport` is `ack_int` and `ack_dma_int`,
`RegisterWrite` every write that changes one of the registers; each computes the
levels above it as far as the code does, and no further. `seen` remembers the
lines at the guest's last clear of the CPU interrupt. `snd` is `AmicSndOutDma`:
both threads change `dma_out_ctrl` and `irq_level` without a lock, so every read
and every write of them is a step of its own (`emu.pc`, `aud.pc`; `update_irq`
computes the level, compares it, stores it and starts the timer), and a
read-modify-write can be lost. The cascade takes DMA reports in any order; the
sound output reports to it by the same operator. In native mode of `Int_Ctrl`
the emulator stops (`ABORT_F`), which is `aborted`.

### IntOps and LoadStore

Both are pure operators on a record of registers, one per instruction, driven by
a small state machine. `IntOps` runs programs of the kind compilers and
run-time libraries use (multi-word sums and differences, shifts of double
words, 64-bit products, divisions, field insertion, comparisons) and compares
the result with unbounded integers: an instruction's carry is right only if the
next one can use it. `LoadStore` has paged memory: an access to a page that is
not present ends the instruction with what it had done so far, the guest brings
the page in (or another one out) and executes it again. Record forms, immediate
forms that only differ in where the operand comes from, and floating point are
left out.

### Mmu

An effective page is a segment and an index, a physical one a block and an
index. `Translation` is what the guest's registers and tables say, without any
TLB; the actions are those of the code: lookups that hit the primary or the
secondary TLB, misses that walk and refill, register writes, the deferred
invalidation at a context synchronisation, `tlbie`. `unsynced` and `unflushed`
record what the guest still owes by the architecture, and `Coherent` promises
nothing about those pages.

### AddressMap and PciBuses

`address_map` is the sequence of regions of `MemCtrlBase` in the order of
`find_range`. A write to a BAR is the whole of `change_one_bar`: remove the old
region, refuse or add the new one. `remove_mmio_region` knows a region by its
range and its device, so two registers of one device and one size (`Twins`) that
were set to one address cannot be told apart by it. `granted` is a history of the
registers that have a right to their region: the range was free when they were
set, and no twin has asked for the same place (`Grants`). In `PciBuses` the firmware (external) scans
the tree depth first, in any order of slots, with the configuration cycles whose
routing is the model.

### AdbBus, Cuda and ViaInterrupt

Cuda's handlers are operators from the state of Cuda to the next in the order of
the calls: a write of port B evaluates TIP and BYTEACK, shifts a byte, processes
a packet or begins the next response. The shift register's interrupt and the
delayed TREQ are timers. Lines are booleans that mean asserted. The driver
(external) waits for the interrupt of each byte but may resynchronise at any
time. `ViaInterrupt` has the flags and enables of the VIA and reports to the
controller of `MacIoInterrupt`.

### Escc and Swim3

`Escc`: no interrupt is generated in the code, so a guest polls or uses DMA; the
back ends deny characters after `Burst` in a row for a while (`Silence`, the
polls). `Swim3`: the step and access timers, the search for a sector from
wherever the head is, the data moved by DMA, and a driver that seeks, reads,
stops and turns the drive off at any time. `SyncToDisk` is what `sync_to_disk`
may yield: some sector of the track, the first one from the index gap, and from
a second access in the same gap, which does not resynchronise (`in_gap`), a
negative number: `track_time_ns` is smaller than `index_delay` there, and the
difference has no sign. Numbers have eight bits in a header and seven in the
register. `SectorLost` is a read of such a number, which may not end.

### ScsiBus, ScsiTarget, Mesh and Sc53C94

One record is the whole bus: lines per device, the wired-OR of them, the phase,
selection in its four steps, the target's pointers into its buffers and cache,
and the host adapter's registers and sequencer. Every timer that is pending is
in the record. The drivers (external) take the phase from the lines, as drivers
do, send commands with and without messages, and move data by FIFO and by DMA.
None of them asserts RST: what a disk makes of a reset is listed under Findings.

### AtaDevices and IdeChannel

Both devices of a channel see every register write, as in the code. `slow` and
`fast` are the 100 us and 500 ns timers in the order they were started; none is
cancelled by a reset or a new command. The DBDMA channel is reduced to the
descriptor in progress; `Splits` are the ways a driver cuts a transfer into
descriptors. The driver starts the channel before or after the command.

## Runs

| run | question | result |
|---|---|---|
| `timers` | adds, cancels and callbacks of two threads in every order of the lock scopes | ids unique (`UniqueIds`), no wakeup lost (`NoLostWakeup`), the service implemented (`ImplementsService`), if timers cease to be added, every due timer is delivered or cancelled (`DueTimersFire`) |
| `cpu` | interrupts at every point of the loop; integer programs over edge operands; loads and stores that fault | no interrupt missed, every return address exact, one decrementer timer; results as in unbounded integers (`WideResults`, `BitResults`); faulting instructions can be restarted (`Restartable`) |
| `memory` | accesses and register changes in any order; BARs moved about; buses being numbered | TLBs answer as the tables do (`Coherent`), R and C bits are kept (`ReferencesRecorded`), regions follow the BARs, but for twins (`RegionsFollowBars`), cycles reach the numbered buses (`BusesReached`) |
| `interrupts` | device reports and register writes in any order, with the CPU; AMIC's cascade; AMIC's sound output with two threads | pending means signalled; no enabled interrupt pending while EE is set; in 68k mode no edge is lost; what the cascade has enabled reaches the CPU (`CascadeReachesCpu`); the last sound level is reported (`SoundLevelReported`) |
| `dbdma` | a device channel, polled or not, with any driver; the sound channel with its two threads | bytes accounted for, no interrupt lost, one chain of timers; no stall (`NoStall`) unless the driver set RUN or WAKE while the channel was paused; sound goes on |
| `devices` | the event loop; Cuda, ADB, VIA, serial, floppy, each with its timers and driver | the thread lives exactly in realtime mode, virtual time keeps its schedule; packets whole, keys in order, commands answered; characters in order; the sectors asked for; every rise of the VIA's line reported; everything goes on (`DevicesGoOn`) but a floppy read that began in an index gap for the second time |
| `storage` | MESH, 53C94 and IDE with disk, CD-ROM and driver | lines and phases agree, data intact on each path, nothing left over for the next command, every command ends |
| `exec_fpu` | is the FP table in use while MSR.FP is 0? | yes: finding |
| `tw` | does `tw` trap on the condition its mnemonic names? | no: finding |
| `event_loop_idle` | due timers while the throttle is active | may never be processed: finding |
| `escc_dma` | does a DMA receive stay within its descriptor? | no: finding |
| `dbdma_sound_irq` | `InterruptNotLost` with the audio thread | does not hold: finding |

### Bounds

- `timers`: three timers and a clock that advances twice are enough for a timer
  to be added by each thread while a third is being delivered, for a cyclic
  timer to be re-armed behind another and for a callback to cancel itself.
  `IdMod` exceeds `MaxAdds`, so ids do not wrap; what happens after 2^32 timers
  is not covered.
- `cpu`: four addresses, of which three are vectors: the handler may branch to,
  be interrupted at and return to each, and the address space wraps. Three timer
  ids allow a stale one, a current one and a new one. Words of four bits with
  the operands 0, 1, -1 and the largest and smallest integer, each of which
  behaves as at 32 bits. Three pages of eight bytes and four registers: a string
  or multiple access crosses a page at every place and wraps the registers;
  three faults reach a page that is taken away again.
- `memory`: two segments share the slots of one page index with one way, so every
  miss competes; two changes of the guest's context and two refills in any order,
  on a 601 and on a later CPU. `IoOverBlocks = FALSE` excludes the case listed
  under the findings. Six blocks of addresses, of which RAM has two, and four
  BARs cannot all be placed at once: two twins of one device, a ROM of another,
  and GrandCentral's, whose place is fixed. Six bridges in a tree of
  depth three.
- `interrupts`: a DMA interrupt in bank 1 and a device interrupt in bank 2, the
  two kinds of bit the registers tell apart; the theorems cover every set. EE is
  the only MSR bit, as `cpu` covers FP, POW and PR. AMIC has two slots, two VIA2
  sources and three CPU lines, one that is combined and one that is not at each
  level; sound buffers of two pulls, and two timers of the sound channel in the
  queue.
- `dbdma`: three programs of three commands in which every operation and every
  kind of `i`, `b` and `w` condition occurs, buffers of at most two bytes (a
  device can move none, some or all of it), every single-bit ChannelControl
  write and the combined ones drivers use. `MaxTimers = 2` tells none, one and
  more than one. Sound uses a ring of two buffers.
- `devices`: event loop with three timers and six ticks and slices of two: the
  thread can be asleep, be overtaken by an earlier timer, and a switch there and
  back can happen before it wakes up. Cuda has a command of each kind of answer
  (a bare header, open-ended data, the ADB's), two keys and two seconds, so that a key, a
  second and a command meet in every order. The throttle of the serial back ends
  is 3 characters and 6 polls for the 15, 400 and 800 of the code; three
  characters are sent, which starts it once. `DmaLengths` is at least what can
  have arrived, as the shorter ones are the finding of `escc_dma`. Two drives
  with two sectors a track and five operations of the driver. `NumberMod = 4`
  and `GapSector = -6` stand for 128 and the numbers of the code: as there, the
  sector a second access in the gap starts from may have the number asked for
  in its low bits, and none of the track follows it.
- `storage`: one disk and an ID nobody answers at; FIFOs and caches of two bytes
  or sectors with transfers shorter, equal and longer, not multiples of them;
  IDE byte limits of one word and of a sector, one descriptor or two.

Deadlock is not checked where behaviours end because a bound is used up, an
initial part has nothing to do, or the emulator itself stops (`crashed`,
`aborted`).

### Fairness

The emulation thread keeps running (weak fairness on its steps), the host's
audio callback returns once entered and is called again while the stream is
open, the realtime thread is scheduled, host time advances (`EventLoop` only),
and timers in the queue fire (`DueTimersFire`, which supposes that callbacks do
not add timers for ever, and, unless the throttle is active, `DevicesGoOn` of the
event loop are why it may be assumed). A driver
that waits for an interrupt acts on it when it comes (Cuda, floppy, storage), and
a guest that receives by polling keeps polling (`SerialReceived`); without that
no command could end. Nothing is assumed of users, of devices and peers outside
the emulator, or of a driver that has nothing outstanding. In an `MC` module the
n-th fairness conjuncts of the parts are one formula: as only one part moves in a
behaviour, that is the conjunction of the parts' own. `MCStorage` writes weak
fairness with the enabling condition spelled out, which TLC evaluates faster
than `ENABLED` of the actions.

## Findings

Each has a run, and is quoted with its lines in `PROJECT.json`.

1. `ppc_exception_handler` assigns `exec_flags` and loses the request to reload
   the opcode table: the handler's floating-point instructions do not trap
   until the next reload (`exec_fpu`).
2. `tw` takes its operands from each other's fields: it traps on `>` where the
   mnemonic says `<` (`tw`).
3. Once the idle throttle has been active nothing raises `exec_timer` and the
   loop has no instruction budget: timers stop (`event_loop_idle`).
4. A serial DMA receive copies all that has arrived, whatever the length of the
   descriptor (`escc_dma`).
5. The audio thread may store the id of an interrupt timer that has fired, after
   which the channel's interrupts are dropped (`dbdma_sound_irq`).

Met while modelling, modelled as the code has them (unless said otherwise), and
without a run, since no comment, document or test says otherwise or the case is
outside what the models' drivers do:

CPU and event loop
- Callbacks that keep adding immediate timers keep `process_timers` in its loop
  (`timermanager.cpp:97`), and later timers wait for ever; nothing bounds what
  devices add. `DueTimersFire` has as its premise that adds cease.
- The realtime thread is not woken when a timer earlier than its target is added
  (`ppcexec.cpp:714`); that timer is late, not lost.
- `g_idle_throttle_active` survives the switch to virtual time, although the
  comment at `ppcexec.cpp:825` says it is never active there.
- On a 601 a segment register with T set hides a BAT, but an entry cached through
  the BAT is not tracked to the segment register (`ppcmmu.cpp:142`): `Coherent`
  fails with `IoOverBlocks = TRUE`.
- Changes of the memory map do not flush the TLBs; the reservation of `lwarx` has
  no address; `tlbia` is a placeholder.

Interrupt controllers
- A write to InterruptMask2 is ORed into the mask (`maciotwo.cpp:405`), so it
  disables nothing; `heathrow.md:83` says a 0 disables.
- In native mode a second report of a raised line withdraws its pending event
  (`maciobase.cpp:158`).
- AMIC: a write to Slot_IER recomputes nothing (`amic.cpp:526`);
  `write_dma_out_ctrl` stores the new enables after it has computed the level
  (865-873), although the comment at 891 says IF and IE make the interrupt;
  `init()` forgets a raised `irq_level` without reporting it (838); flags can be
  lost in unlocked read-modify-writes, and a level can be stored that no flag
  justifies, after which interrupts do not come until the guest writes the
  flags; a `snd_buf_size` of 0 makes the audio callback spin (not modelled).

DBDMA and sound
- Clearing RUN before the first fetch dereferences a null `cur_host`
  (`dbdma.cpp:527`; `crashed` in the model).
- RUN, then PAUSE, then a write that sets RUN and clears PAUSE leaves the channel
  ACTIVE with `is_paused` set and no timer: `reg_write` clears PAUSE without
  `resume()` (`dbdma.cpp:505`), `start()` does not clear `is_paused` (772), and
  the loop ends at once (232); clearing and setting RUN again does not help. WAKE
  while PAUSE is set stalls likewise (545). `NoStall` excepts channels that were
  driven so (`DrivesPaused`). A loop timer that fires while the channel is paused
  finishes a command with data left.
- A command whose `w` condition holds it back is never looked at again
  (`dbdma.cpp:265`), so `NoStall` excepts it.
- `pull_data` publishes `queue_len` before `res_count` and `queue_data`; when
  the timer callback finishes the command in between, the next command's fields
  are changed. `BufferAccounted` fails for a channel with `Threaded = TRUE`.
- A write that clears RUN and PAUSE leaves PAUSE set, because `reg_write` looks
  at PAUSE only if RUN is set or is not in the mask; the next start gives up.
- `resume()` does not reopen the stream that `pause()` closed (`dbdma.cpp:790`).
- `deterministic_poll_cb` loops until a channel has no data, which a ring or
  AMIC's double buffer never reports (`soundserver_cubeb.cpp:191`; not modelled).

Cuda, ADB, serial, floppy
- A packet of Cuda's own may replace a response the driver has not begun to read
  (`viacuda.cpp:721`), so a resynchronising driver can lose one; a command longer
  than `in_buf` gets no interrupt (580); short packets are interpreted with what
  an earlier one left in the buffer; a one-second mode above 3 sends nothing.
- A DMA receive that has reached the end of a back end's input never ends; the
  two back ends on a terminal share one saved `orig_termios`.
- An access to a floppy that begins in the index gap, when an earlier one of the
  same turn of the disk did so too, subtracts the gap from a smaller unsigned time
  (`superdrive.cpp:371`; the branch at 362 for a head before the first address
  mark is only taken at the first access of a turn) and starts from a negative
  sector number: it is 4 seconds late, and on disks with 9 sectors a track a read
  of several sectors does not end. `DevicesGoOn` excepts it (`SectorLost`).
- `access_timer_id` is kept after the timer fired (`swim3.cpp`); the next start
  cancels a timer that is gone.

Storage
- A disk ignores a bus reset (`scsiphysdevice.cpp:40`).
- MESH: a DMA data-in of at most 16 bytes does not complete
  (`scsibusctrl.cpp:252`); a push into a full FIFO is dropped; a new command does
  not cancel the sequencer's timers.
- FORMAT UNIT's timer leaves the COMMAND phase without REQ; `end_selection` looks
  at a `target_id` that may be an earlier one's (`scsibus.cpp:343`).
- 53C94: `xfer_from` does not move the rest of the FIFO down after a short
  segment.
- ATA: timers survive a soft reset and a new command (`atabasedevice.cpp:126`,
  210), `update_intrq` drops the report of a device that is not selected (282),
  NOP leaves BSY set; `set_property` of the IDE channel takes `cdr_img` and
  `hdd_img` for each other (`idechannel.cpp:103`).

PCI
- BAR0 and BAR2 of the NV40 have the same size (`nvidianv.h:49`,
  `nvidianv.cpp:148`, 170, 172). When the second is set to the address of the
  first it is refused, and when it is moved on, the region of the first is
  removed (`memctrlbase.cpp:338`): accesses there find nothing.
  `RegionsFollowBars` promises a register its region until that happens.
- GrandCentral never gives its region back (`grandcentral.cpp:163`); clearing the
  memory enable does not unmap (`pcibase.cpp:49`).

## Proofs

| module | theorems | inductive invariant |
|---|---|---|
| `TimerManager_proofs` | `TimerIdsUnique`, `NoWakeupLost`, `ManagerImplementsService` | `IInv`: the types, both invariants and `Bookkeeping`, which says where the timer in delivery is (still queued, removed, re-armed) for each `pc`, and that what the audio thread holds is new |
| `PpcExec_proofs` | `InterruptsNotMissed`, `InterruptsResumeExactly`, `LoopGoesOnExactly`, `DecrementerHasOneTimer` | `ExecIInv`: `NextAddress` ties `exec_flags` and the next address to the ghost `resume` in every part of the loop; `ResumeExact` alone is not inductive, as the handler computes SRR0 from them. `DecInv`: the decrementer has no timer and no id, or just the timer the id names |
| `MacIoInterrupt_proofs` | `PendingSignalled`, `EdgesRecorded` | `IntInv`: latch and pin agree and cover what is pending and enabled |
| `Interrupts_proofs` | `ControllerRefined`, `EnabledInterruptsDelivered`; of AMIC `CascadeDelivered`, `SoundLevelKept` | for `MacIoCpu` none of its own: every step is a step of each component (`CpuRefined`, `ControllerRefined`), and the two components' theorems share the pin. For AMIC each register of the cascade is a function of the one before, and for the sound level what each `pc` of the two threads still has to report |
| `DBDMA_proofs` | `BytesAccounted`, `InterruptsKept`, `LoopHasOneTimer`, `ChannelDoesNotStall` | `DmaInv`, for a channel that the emulation thread drives alone: the command pointer stays in the program, the queue and the bytes left add up to the request, and which timers the status bits and ids allow; the four properties are only inductive together |
| `Devices_proofs` | `ViaRiseReachesCpu`; `SerialDelivered`; `PacketsAreWhole`, `CommandsAreAnswered`, `KeysStayInOrder`; `SectorsAreAsAsked`; of the event loop `ThreadFollowsMode`, `VirtualTimeKept` | `ViaInv` (the controller has the level reported last) over `IntInv`; `SerialInv` (what was polled is still there); `CudaInv`: for each state of the handshake which timer is pending, who holds which line and how much of the packet has passed; `KeyInv`: events taken, in the packet and in the keyboard's queue are ordered and follow each other; `FloppyOk`: what an access still has to bring equals its count, the sector looked for is the next or one that is never found, track and steps to come add up; `ThreadInv` (the stop flag is the negation of the mode, the thread is gone once joined) and `ScheduleInv` (the deadline is no later than the first expiry) |
| `Memory_proofs` | `TlbsCoherent`, `ReferencesKept`; `RegionsKept`; `CyclesArrive` | `MmuInv`: the address space in force, what is promised until the next synchronisation, and for every slot of the four TLBs whether it came from a block, a page or an I/O segment and that this source still says so; `MapInv`: regions are apart, RAM first, each owned by its register; `BusInv`: the bridges being scanned are a path down from the host to ever higher numbers and lead to all numbers above, ranges are nested as the bridges are and apart on one bus, so behind every bridge that leads to a number is one that has it or leads on |
| `Storage_proofs` | `MediumStaysIntact`, `NothingLeftPending` | `IdeOk`, see below |

The invariant of the IDE channel. `MediumIntact` and `NothingPending` speak of the
moment a command is over; what makes them inductive is what is true on the way.
`IdeOk` has four parts: the types of the channel, its devices and its timers
(`IdeTyped`); that the DBDMA channel runs only for a DMA command and moves data
in its direction (`ChanOk`); which device and command the driver is at
(`HostTyped`); and `Phase`, which says for each step of the driver what it may
find in the channel. While a disk moves data (`HdReading`, `HdWriting`, `HdDma`)
the words passed and the words left in the device's count and in its current
block add up to the command, and what has been received, what is still in the
buffer and what has been written are pieces of the command's words. Between
blocks (`HdWaits`) either a "ready" or an "intrq" timer is in the queue or the
interrupt is raised, and just one of these; after the last block or DMA word it
is "written" or "dmadone". For the CD-ROM the words received, those in the buffer
and those still on the medium add up likewise (`CdData`), and between packets the
device is busy with an interrupt raised. A soft reset is part of it: in "reset"
no timer is left that would report data or completion. TLC checked `IdeOk` on an
instance like `MCStorage`'s (a million states) before it was proved.

Each theorem holds for every value of the constants that the named assumptions
allow, and without the bounds of the runs: any number of timers, programs,
characters, keys, tracks, devices.

Assumptions. `MaxAdds < IdMod` (ids do not wrap); `DmaIrqs` among the interrupts
of bank 1 and disjoint banks; the typing of the constants. `DbdmaAssumption`: a
program ends in a STOP or a branch that is taken, and a driver never sets RUN and
PAUSE at once. `MmuAssumption`: what segment registers, page tables and BATs may
hold. `MapAssumption`: RAM and every register's aperture have a size, in the
range of addresses. `BridgeTree`: each
bridge is registered on one bus, once, and there are enough bus numbers.
`AtaSizes` and `DriverAssumption`: a sector, a cache, a packet and a response have
at least one word; the driver sends commands that the devices know, transfers of
at least one sector, byte limits of whole sectors, and DMA descriptors that
together are as long as the transfer. `SerialAssumption`: the silence after a
burst is longer than the burst. `CudaAssumption`: commands fit the buffer and are
ones the code knows. `FloppySizes`: at most 126 sectors on a track, the numbers
have seven bits and 0x7F is none; the number a second access in the gap starts
from is negative (-186315420 with 9 sectors a track, -1365125131 with 18; only
its last eight bits are looked at in the weeks it takes to count up to 0).

Hypotheses of theorems. `VirtualTimeKept` excepts the states in which the
throttle flag has survived a switch to virtual time: new timers are not notified
in them. `TlbsCoherent` excepts guests that turn a segment mapped by a block of
the 601 into an I/O segment (`IoOverBlocks`): `mmu_pat_ctx_changed` leaves block
entries alone. `KeysStayInOrder` is about one keyboard: two of them have no
common order. `CascadeDelivered` lets DMA channels report anything;
`SoundLevelKept` leaves the sound flag to the sound channel. `RegionsKept` and `ChannelDoesNotStall` have the premises of their properties:
`granted` and `driven_paused`. The DBDMA properties
are about channels that the emulation thread drives alone: with the audio thread
they do not hold (see Findings).

Only model-checked, and why:

- liveness (`DueTimersFire`, `DevicesGoOn`, `SoundGoesOn`, `StorageCommandsEnd`)
  is out of the prover's reach;
- `IntOps` uses `Bitwise`, which the prover cannot take, and compares algorithms
  with what they compute, which needs induction over words;
- `LoadStore` (`Restartable`) compares folds over registers with a reference:
  induction over data;
- the SCSI modules (`BusConsistent`, `DataIntact`, `CurioDataIntact`): the bytes
  that pass between cache, buffer and FIFO are moved by folds, and also what is
  left on the bus depends on how many these move: induction over data.

## Not modelled

`components` in `PROJECT.json` lists every part with its status. Left out are:

- floating-point instructions: values of host arithmetic, not control;
- the contents of buffers and memory beyond what tells one byte from another,
  formatting and logging, file and host I/O, image formats, the key maps;
- video (pixel conversion and register files, which together with register
  headers are the larger part of the source), ethernet, NVRAM, I2C, FireWire,
  NuBus, clock generators: register files that are read back, with at most a
  cyclic timer;
- USB OHCI: an unfinished skeleton whose list walk does not end;
- the 53C825, whose command engine is a copy of the 53C94's;
- construction of machines, the debugger and its loops, the disassembler;
- third-party code and the drivers under `devices/video/ndrv`, which run in the
  guest.

Most of the repository's lines are in these parts: register definitions of
graphics chips, vendored headers, a guest driver and debugger tables make up
well over half of it.

## Plan

1. Theorems: that `EventLoop`'s queue is implemented by `TimerManager`; a DBDMA channel driven
   by the audio thread, under an exclusion the code does not have.
2. Models: the deterministic mode of the sound server; `DBDMA` with
   `reg_write`'s read-modify-write of `ch_stat` split; AMIC's SCSI and floppy
   DMA; GCR disks; the commands of the SCSI CD-ROM.
