-------------------------------- MODULE Escc --------------------------------
(***************************************************************************)
(* The serial controller (devices/serial/escc.cpp) and the character       *)
(* back ends of its two channels (devices/serial/chario.cpp).              *)
(*                                                                         *)
(* No interrupt is generated: a guest polls RR0 or lets the DMA channel    *)
(* take what there is.  The back ends throttle a guest that polls: after   *)
(* Burst characters they deny for a while that there are more.  Baud rates *)
(* and the registers that only they depend on are logged and used for      *)
(* nothing else; they are left out.                                        *)
(***************************************************************************)
EXTENDS Naturals, Sequences, SequencesExt

CONSTANTS
    Backend,      \* by channel: "null", "stdio" or "socket"
    Burst,        \* characters reported in a row (15)
    Silence,      \* value at which the count starts again (400, or 800)
    MaxSent,      \* bound: characters a peer sends
    MaxWrites,    \* bound: control writes of the guest
    DmaLengths    \* lengths of the DMA transfers

ASSUME SerialAssumption ==
    /\ Backend \in [{"A", "B"} -> {"null", "stdio", "socket"}]
    /\ Burst \in Nat /\ Silence \in Nat /\ 0 < Burst /\ Burst < Silence

VARIABLES
    scc,      \* reg_ptr, by channel the enable bit of WR3, and the terminal
    io,       \* by channel: the back end
    sent,     \* by channel: the characters the peer sent, numbered from 1
    taken,    \* by channel: what the guest received
    polled,   \* by channel: RR0 reported a character that is not yet read
    writes,
    fault     \* a DMA transfer that brought more than it was asked for

serialVars == <<scc, io, sent, taken, polled, writes, fault>>

Channel == DOMAIN Backend
Garbage == 0   \* a character that nobody sent

-----------------------------------------------------------------------------
(* Back ends.  A poll may accept a connection and counts what it reports.  *)

Counted(b) == [b EXCEPT !.consecutivechars = IF @ < Silence THEN @ + 1 ELSE @]

\* rcv_char_available_now: an accepted socket can always be written to, so
\* that only stdin sees the count go back when nothing waits.
AvailableNow(ch, b) ==
    LET waiting == b.inbox # <<>>
    IN  CASE Backend[ch] = "null"  -> [io |-> b, yes |-> FALSE]
          [] Backend[ch] = "stdio" ->
               [io |-> IF waiting THEN Counted(b) ELSE [b EXCEPT !.consecutivechars = 0], yes |-> waiting]
          [] Backend[ch] = "socket" /\ b.accepted ->
               [io |-> IF waiting THEN Counted(b) ELSE b, yes |-> waiting]
          [] Backend[ch] = "socket" /\ ~b.accepted ->
               [io |-> IF b.connecting THEN [b EXCEPT !.accepted = TRUE]
                                       ELSE [b EXCEPT !.consecutivechars = 0], yes |-> FALSE]

\* rcv_char_available.
Available(ch, b) ==
    IF b.consecutivechars < Burst \/ Backend[ch] = "null" THEN AvailableNow(ch, b)
    ELSE [io |-> [b EXCEPT !.consecutivechars = IF @ + 1 >= Silence THEN 0 ELSE @ + 1], yes |-> FALSE]

\* Mutant: receive_byte asks the throttled question again.
ReceiveByteThrottled(ch, b) ==
    LET r == Available(ch, b)
    IN  IF r.yes THEN [io |-> [r.io EXCEPT !.inbox = Tail(@)], c |-> Head(b.inbox)]
                 ELSE [io |-> r.io, c |-> Garbage]

\* EsccChannel::receive_byte: asks again, whatever RR0 said.
ReceiveByte(ch, b) ==
    LET r == AvailableNow(ch, b)
    IN  IF r.yes THEN [io |-> [r.io EXCEPT !.inbox = Tail(@)], c |-> Head(b.inbox)]
                 ELSE [io |-> r.io, c |-> Garbage]

\* EsccChannel::xfer_from: everything that waits, each character asked for
\* twice, and a last question that is answered no; len is not looked at.
Drained(ch, b) == AvailableNow(ch, [b EXCEPT !.inbox = <<>>,
                      !.consecutivechars = IF @ + 2 * Len(b.inbox) < Silence
                                           THEN @ + 2 * Len(b.inbox) ELSE Silence]).io
Reachable(ch, b) == IF Backend[ch] = "socket" /\ ~b.accepted THEN <<>> ELSE b.inbox

-----------------------------------------------------------------------------
(* The receiver.  A back end on stdin takes the terminal over; the saved   *)
(* state is static, shared by all of them.                                 *)

\* CharIoStdin::rcv_enable.
Enable(m, ch) ==
    IF m.io[ch].inited THEN m
    ELSE LET n == [m EXCEPT !.io[ch].inited = TRUE]
         IN  IF Backend[ch] = "stdio" THEN [n EXCEPT !.tty = "raw", !.saved = m.tty] ELSE n

\* CharIoStdin::rcv_disable.
Disable(m, ch) ==
    IF ~m.io[ch].inited THEN m
    ELSE LET n == [m EXCEPT !.io[ch].inited = FALSE]
         IN  IF Backend[ch] = "stdio" THEN [n EXCEPT !.tty = m.saved] ELSE n

\* WR3, on a change of its enable bit.  The hunt bit of RR0, which disabling
\* the receiver sets, is set by the first reset and cleared by nothing.
WriteWr3(m, ch, rx) ==
    IF m.rx[ch] = rx THEN m
    ELSE LET n == [m EXCEPT !.rx[ch] = rx] IN IF rx THEN Enable(n, ch) ELSE Disable(n, ch)

\* EsccChannel::reset.
ResetChannel(m, ch) == WriteWr3(Disable(m, ch), ch, FALSE)

\* WR9 of the controller.
WriteWr9(m, cmd) ==
    CASE cmd \in Channel    -> ResetChannel(m, cmd)
      [] cmd = "hardware"   -> ResetChannel(ResetChannel(m, "A"), "B")
      [] cmd = "none"       -> m

WriteRegs == [reg : {"WR3"}, value : BOOLEAN] \cup [reg : {"WR9"}, value : Channel \cup {"hardware", "none"}]

-----------------------------------------------------------------------------
(* The guest: a pointer written to WR0, a register read or written.  The   *)
(* pointer is the controller's, not the channel's.                         *)

PointTo(reg) == /\ scc.reg_ptr = "0"
                /\ writes < MaxWrites
                /\ scc' = [scc EXCEPT !.reg_ptr = reg]
                /\ writes' = writes + 1
                /\ UNCHANGED <<io, sent, taken, polled, fault>>

WriteReg(ch, w) ==
    /\ scc.reg_ptr = w.reg
    /\ LET m == [rx |-> scc.rx, tty |-> scc.tty, saved |-> scc.saved, io |-> io]
           n == IF w.reg = "WR3" THEN WriteWr3(m, ch, w.value) ELSE WriteWr9(m, w.value)
       IN  /\ scc' = [reg_ptr |-> "0", rx |-> n.rx, tty |-> n.tty, saved |-> n.saved]
           /\ io' = n.io
    /\ UNCHANGED <<sent, taken, polled, writes, fault>>

\* A read of the command port returns RR0 unless a pointer was left, and
\* takes the pointer back.  A guest reads the character it was told of
\* before it asks again.
ReadRr0(ch) ==
    /\ ~polled[ch]
    /\ scc' = [scc EXCEPT !.reg_ptr = "0"]
    /\ IF scc.reg_ptr = "0"
         THEN LET r == Available(ch, io[ch])
              IN  io' = [io EXCEPT ![ch] = r.io] /\ polled' = [polled EXCEPT ![ch] = r.yes]
         ELSE UNCHANGED <<io, polled>>
    /\ UNCHANGED <<sent, taken, writes, fault>>

\* The data port, read when RR0 said that there is a character.
ReadData(ch) ==
    /\ polled[ch]
    /\ LET r == ReceiveByte(ch, io[ch])
       IN  /\ io' = [io EXCEPT ![ch] = r.io]
           /\ taken' = [taken EXCEPT ![ch] = Append(@, r.c)]
    /\ polled' = [polled EXCEPT ![ch] = FALSE]
    /\ UNCHANGED <<scc, sent, writes, fault>>

\* DMAChannel::xfer_from_device aborts if it gets more than it asked for.
DmaReceive(ch, len) ==
    LET got == Reachable(ch, io[ch])
    IN  /\ ~polled[ch]
        /\ Backend[ch] # "null"
        /\ fault' = (fault \/ Len(got) > len)
        /\ taken' = [taken EXCEPT ![ch] = @ \o got]
        /\ io' = [io EXCEPT ![ch] = IF got = <<>> THEN AvailableNow(ch, @).io ELSE Drained(ch, @)]
        /\ UNCHANGED <<scc, sent, polled, writes>>

\* EsccChannel::send_byte, xmit_char: sending to a socket accepts a connection.
SendByte(ch) ==
    /\ Backend[ch] = "socket" /\ ~io[ch].accepted
    /\ io' = [io EXCEPT ![ch] = AvailableNow(ch, @).io]
    /\ UNCHANGED <<scc, sent, taken, polled, writes, fault>>

(* The peer of a channel: external. *)

Connect(ch) == /\ Backend[ch] = "socket"
               /\ ~io[ch].connecting
               /\ io' = [io EXCEPT ![ch].connecting = TRUE]
               /\ UNCHANGED <<scc, sent, taken, polled, writes, fault>>

PeerSends(ch) ==
    /\ Backend[ch] # "null"
    /\ Backend[ch] = "socket" => io[ch].connecting
    /\ sent[ch] < MaxSent
    /\ sent' = [sent EXCEPT ![ch] = @ + 1]
    /\ io' = [io EXCEPT ![ch].inbox = Append(@, sent[ch] + 1)]
    /\ UNCHANGED <<scc, taken, polled, writes, fault>>

SerialInit ==
    /\ scc = [reg_ptr |-> "0", rx |-> [ch \in Channel |-> FALSE], tty |-> "original", saved |-> "none"]
    /\ io = [ch \in Channel |-> [inbox |-> <<>>, connecting |-> FALSE, accepted |-> FALSE,
                                 inited |-> FALSE, consecutivechars |-> 0]]
    /\ sent = [ch \in Channel |-> 0]
    /\ taken = [ch \in Channel |-> <<>>]
    /\ polled = [ch \in Channel |-> FALSE]
    /\ writes = 0
    /\ fault = FALSE

SerialNext ==
    \/ \E reg \in {"WR3", "WR9"} : PointTo(reg)
    \/ \E ch \in Channel : \/ \E w \in WriteRegs : WriteReg(ch, w)
                           \/ ReadRr0(ch) \/ ReadData(ch) \/ SendByte(ch) \/ Connect(ch) \/ PeerSends(ch)
                           \/ \E len \in DmaLengths : DmaReceive(ch, len)

SerialSpec == SerialInit /\ [][SerialNext]_serialVars

\* A guest that keeps polling a channel and reads what is reported.
SerialFairness == \A ch \in Channel : WF_serialVars(ReadRr0(ch)) /\ WF_serialVars(ReadData(ch))
SerialFairSpec == SerialSpec /\ SerialFairness

-----------------------------------------------------------------------------
(* Properties. *)

\* What a guest receives, by polling and by DMA in any order, is what the
\* peer sent, in its order, without a gap and without a character of the
\* controller's own, also where the throttle starts between the poll and the
\* read (receive_byte, rcv_char_available).
SerialInOrder == \A ch \in Channel : taken[ch] \o io[ch].inbox = [k \in 1 .. sent[ch] |-> k]

\* A guest that keeps polling receives every character: the silence of the
\* throttle ends (rcv_char_available).
SerialReceived ==
    \A ch \in Channel : []<>(Len(taken[ch]) = sent[ch])

\* A DMA transfer brings no more than it asked for, which
\* DMAChannel::xfer_from_device asserts.
DmaWithinRequest == ~fault
=============================================================================
