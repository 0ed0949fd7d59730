------------------------------- MODULE AdbBus -------------------------------
(***************************************************************************)
(* The Apple Desktop Bus (devices/common/adb): the bus, which Cuda asks to *)
(* poll and to carry out commands, and its keyboard and mouse.             *)
(*                                                                         *)
(* The state is a function from devices to records; process_command and    *)
(* poll are operators from a state to a result, for Cuda's handlers.  A    *)
(* device's data is the sequence of what it has to report: key events, or  *)
(* for a mouse at most one entry, the motion and buttons accumulated since *)
(* the last report.                                                        *)
(***************************************************************************)
EXTENDS Naturals, Sequences, SequencesExt

CONSTANTS
    BusOrder,   \* names of the devices, in the order of registration
    Keyboards   \* those that are keyboards; the others are mice

AdbDevs == {BusOrder[i] : i \in 1 .. Len(BusOrder)}

ASSUME BusAssumption == Keyboards \subseteq AdbDevs /\ Len(BusOrder) \in Nat

VARIABLES
    adb,       \* per device: address, srq_flag and pending data
    typed      \* how many key events the host window has produced

adbVars == <<adb, typed>>

KeyboardAddr == 2
MouseAddr    == 3

\* AdbKeyboard::reset and AdbMouse::reset: a keyboard drops its events and
\* asks for no service; a mouse may ask at once.
ResetDevice(d) ==
    [addr |-> IF d \in Keyboards THEN KeyboardAddr ELSE MouseAddr,
     srq  |-> d \notin Keyboards,
     data |-> <<>>]

AdbInit ==
    /\ adb = [d \in AdbDevs |-> ResetDevice(d)]
    /\ typed = 0

-----------------------------------------------------------------------------
\* AdbKeyboard::event_handler; key events are numbered.
KeyEvent(bus, d, key) ==
    [bus EXCEPT ![d].data = Append(@, key),
                ![d].srq  = @ \/ bus[d].data = <<>>]

\* AdbMouse::event_handler accumulates.
MouseEvent(bus, d) == [bus EXCEPT ![d].data = <<0>>]

Lesser(m, n) == IF m < n THEN m ELSE n

\* Mutant: the second event is reported but not removed.
TakeRegister0PopsOne(bus, d) ==
    LET n == Lesser(2, Len(bus[d].data))
    IN  [out |-> SubSeq(bus[d].data, 1, n),
         bus |-> [bus EXCEPT ![d].data = Tail(@),
                             ![d].srq  = @ /\ ~(d \in Keyboards /\ Len(bus[d].data) = 1)]]

\* get_register_0 of a device with data: a keyboard reports up to two events
\* and drops its request with the last one.
TakeRegister0(bus, d) ==
    LET n    == Lesser(2, Len(bus[d].data))
        rest == SubSeq(bus[d].data, n + 1, Len(bus[d].data))
    IN  [out |-> SubSeq(bus[d].data, 1, n),
         bus |-> [bus EXCEPT ![d].data = rest,
                             ![d].srq  = @ /\ ~(d \in Keyboards /\ rest = <<>>)]]

\* The first device, in bus order, of a set that is not empty.
FirstOf(S) == BusOrder[CHOOSE i \in 1 .. Len(BusOrder) :
                          BusOrder[i] \in S /\ \A j \in 1 .. i - 1 : BusOrder[j] \notin S]

NoAnswer(bus) == [ok |-> FALSE, addr |-> 0, out |-> <<>>, bus |-> bus]

Answer(r0, addr) == [ok |-> TRUE, addr |-> addr, out |-> r0.out, bus |-> r0.bus]

\* AdbBus::poll: the first device that requests service and has data.
PollBus(bus) ==
    LET ready == {d \in AdbDevs : bus[d].srq /\ bus[d].data # <<>>}
    IN  IF ready = {} THEN NoAnswer(bus)
        ELSE Answer(TakeRegister0(bus, FirstOf(ready)), bus[FirstOf(ready)].addr)

\* Talk: the first device at the address that answers ends the loop, so no
\* device ever sees already_answered() and got_collision stays false.
Talk(bus, addr, reg) ==
    LET there == {d \in AdbDevs : bus[d].addr = addr /\ (reg = 0 => bus[d].data # <<>>)}
    IN  IF there = {} THEN NoAnswer(bus)
        ELSE IF reg = 0 THEN Answer(TakeRegister0(bus, FirstOf(there)), addr)
        ELSE Answer([out |-> <<0>>, bus |-> bus], addr)

\* Listen R3 with handler 0 sets address and service request; with 0xFE it
\* sets the address of every device there, as no collision was noted.
ListenR3(bus, addr, new, srq) ==
    [d \in AdbDevs |->
        IF bus[d].addr # addr THEN bus[d]
        ELSE [bus[d] EXCEPT !.addr = new, !.srq = IF srq = "keep" THEN @ ELSE srq = "on"]]

\* AdbBus::process_command; Flush and an unsupported command change nothing.
ProcessCommand(bus, c) ==
    CASE c.op = "reset"  -> [NoAnswer([d \in AdbDevs |-> ResetDevice(d)]) EXCEPT !.ok = TRUE]
      [] c.op = "flush"  -> [NoAnswer(bus) EXCEPT !.ok = TRUE]
      [] c.op = "talk"   -> Talk(bus, c.addr, c.reg)
      [] c.op = "listen" -> [NoAnswer(ListenR3(bus, c.addr, c.new, c.srq)) EXCEPT !.ok = TRUE]
=============================================================================
