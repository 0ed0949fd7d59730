--------------------------- MODULE Devices_proofs ---------------------------
(***************************************************************************)
(* Devices, and the event loop that takes their timers on.  The VIA: a     *)
(* rise of its interrupt reaches the CPU.  The serial controller:          *)
(* characters arrive in order.  Cuda: packets arrive whole, every command  *)
(* is answered, key events keep their order.  The floppy controller: a     *)
(* read brings the sectors asked for.  The event loop: the realtime thread *)
(* is there exactly in realtime mode, and the virtual-time loop never runs *)
(* past an expiry while the idle throttle is off.  All for any number of   *)
(* characters, commands, keys, tracks, sectors and timers, any back ends   *)
(* and any throttle.                                                       *)
(***************************************************************************)
EXTENDS ViaInterrupt, Escc, Cuda, Swim3, EventLoop, MacIoInterrupt_proofs,
        SequenceTheorems, WellFoundedInduction

-----------------------------------------------------------------------------
(* The VIA.  The controller has the level that update_irq reported last,   *)
(* which is the VIA's bit 7: so a rise is one for the controller too.      *)

ViaInv == IntInv /\ via_irq \in BOOLEAN /\ (via_irq <=> ViaIrq \in int_levels)

\* update_irq keeps the two in agreement and makes an event of a rise.
LEMMA UpdateIrqStep ==
  ASSUME ViaInv, NEW ifr, NEW ier, UpdateIrq(ifr, ier)
  PROVE  ViaInv' /\ RiseIsEvent(ViaIrq)
<1> DEFINE irq_state == ifr \intersect ier # {}
<1>1. ViaIrq \in Irqs
  BY ViaAssumption
<1>2. via_irq' = irq_state /\ irq_state \in BOOLEAN
  BY DEF UpdateIrq
<1>3. CASE irq_state \/ via_irq
  <2>1. AckInt(ViaIrq, irq_state)
    BY <1>3 DEF UpdateIrq
  <2>2. IntInv'
    BY <1>1, <1>2, <2>1, NextIntInv DEF ViaInv, IntNext, DeviceReports
  <2>3. irq_state <=> ViaIrq \in int_levels'
    BY <2>1 DEF AckInt
  <2>4. ASSUME ~via_irq, irq_state
        PROVE  ViaIrq \in int_events' /\ (ViaIrq \in int_mask' => int_pin')
    <3>1. ViaIrq \in int_events'
      BY <2>1, <2>4 DEF AckInt, ViaInv
    <3> QED BY <2>2, <3>1 DEF IntInv, IntTypeOK, PendingIsSignalled
  <2> QED BY <1>2, <2>2, <2>3, <2>4 DEF ViaInv, RiseIsEvent
<1>4. CASE ~(irq_state \/ via_irq)
  <2>1. UNCHANGED intVars
    BY <1>4 DEF UpdateIrq
  <2>2. IntInv' /\ int_levels' = int_levels
    BY <2>1, NextIntInv DEF ViaInv, intVars
  <2> QED BY <1>2, <1>4, <2>2 DEF ViaInv, RiseIsEvent
<1> QED BY <1>3, <1>4

\* The rest of the machine leaves the VIA's line alone.
LEMMA OtherInterruptsStep ==
  ASSUME ViaInv, OtherInterrupts
  PROVE  ViaInv' /\ RiseIsEvent(ViaIrq)
<1>1. via_irq' = via_irq
  BY DEF OtherInterrupts, viaVars
<1>2. IntNext
  BY DEF OtherInterrupts, IntNext, DeviceReports
<1>3. IntInv'
  BY <1>2, NextIntInv DEF ViaInv
<1>4. ViaIrq \in int_levels' <=> ViaIrq \in int_levels
  <2>1. CASE GuestWrites
    BY <2>1, ViaAssumption DEF GuestWrites, WriteMask1, WriteMask2, WriteClear1, WriteClear2, ClearAll
  <2>2. CASE \E irq \in Irqs \ {ViaIrq}, state \in BOOLEAN : AckInt(irq, state)
    BY <2>2 DEF AckInt
  <2> QED BY <2>1, <2>2 DEF OtherInterrupts
<1> QED BY <1>1, <1>3, <1>4 DEF ViaInv, RiseIsEvent

\* Whenever the VIA's interrupt rises the controller notes an event, in either
\* mode, and the CPU is asked if the guest enabled it.
THEOREM ViaRiseReachesCpu == ViaSpec => RiseReachesCpu
<1>1. ViaInit => ViaInv
  BY DEF ViaInit, ViaInv, IntInit, IntInv, IntTypeOK, PendingIsSignalled
<1>2. ViaInv /\ [ViaNext]_viaAllVars => ViaInv' /\ RiseIsEvent(ViaIrq)
  <2> SUFFICES ASSUME ViaInv, [ViaNext]_viaAllVars PROVE ViaInv' /\ RiseIsEvent(ViaIrq)
    OBVIOUS
  <2>1. CASE \E ifr, ier : UpdateIrq(ifr, ier)
    BY <2>1, UpdateIrqStep
  <2>2. CASE OtherInterrupts
    BY <2>2, OtherInterruptsStep
  <2>3. CASE WriteAcr \/ UNCHANGED viaAllVars
    <3>1. via_irq' = via_irq /\ UNCHANGED intVars
      BY <2>3 DEF WriteAcr, viaAllVars, viaVars
    <3>2. IntInv'
      BY <3>1, NextIntInv DEF ViaInv
    <3> QED BY <3>1, <3>2 DEF ViaInv, RiseIsEvent, intVars
  <2>4. ClearFlags \/ WriteIer \/ WriteT1Ch \/ WriteT2Ch \/ T1Fires \/ T2Fires \/ AssertFlag
          => \E ifr, ier : UpdateIrq(ifr, ier)
    BY DEF ClearFlags, WriteIer, WriteT1Ch, WriteT2Ch, T1Fires, T2Fires, AssertFlag
  <2> QED BY <2>1, <2>2, <2>3, <2>4 DEF ViaNext
<1> QED BY <1>1, <1>2, PTL DEF ViaSpec, RiseReachesCpu

-----------------------------------------------------------------------------
(* The serial controller. *)

BackType == [inbox: Seq(Nat), connecting: BOOLEAN, accepted: BOOLEAN, inited: BOOLEAN,
             consecutivechars: Nat]

\* Nothing but an accepted connection keeps characters from the guest.
CanRead(ch, b) == Backend[ch] # "null" /\ (Backend[ch] = "socket" => b.accepted)

SccType == [reg_ptr: {"0", "WR3", "WR9"}, rx: [Channel -> BOOLEAN],
            tty: {"original", "raw", "none"}, saved: {"original", "raw", "none"}]

SerialTypeOK ==
    /\ scc \in SccType
    /\ io \in [Channel -> BackType] /\ sent \in [Channel -> Nat]
    /\ taken \in [Channel -> Seq(Nat)] /\ polled \in [Channel -> BOOLEAN]

\* What RR0 reported is still there when the guest reads it.
PolledWaits ==
    \A ch \in Channel : polled[ch] => io[ch].inbox # <<>> /\ CanRead(ch, io[ch])

SerialInv == SerialTypeOK /\ PolledWaits /\ SerialInOrder

\* A character moved from one sequence to the other, a character sent, and
\* everything taken at once.
LEMMA MoveOne ==
  ASSUME NEW t \in Seq(Nat), NEW i \in Seq(Nat), i # <<>>
  PROVE  /\ Append(t, Head(i)) \in Seq(Nat) /\ Tail(i) \in Seq(Nat)
         /\ Append(t, Head(i)) \o Tail(i) = t \o i
<1>1. Head(i) \in Nat /\ Tail(i) \in Seq(Nat) /\ Len(Tail(i)) = Len(i) - 1
      /\ \A k \in 1 .. Len(Tail(i)) : Tail(i)[k] = i[k + 1]
  BY HeadTailProperties
<1>2. /\ Append(t, Head(i)) \in Seq(Nat) /\ Len(Append(t, Head(i))) = Len(t) + 1
      /\ \A k \in 1 .. Len(t) : Append(t, Head(i))[k] = t[k]
      /\ Append(t, Head(i))[Len(t) + 1] = Head(i)
  BY <1>1, AppendProperties
<1> DEFINE a == Append(t, Head(i))
           u == Tail(i)
<1>3. Head(i) = i[1] /\ Len(t) \in Nat /\ Len(i) \in Nat \ {0}
  BY LenProperties, EmptySeq
<1> HIDE DEF a, u
<1>4. /\ a \o u \in Seq(Nat) /\ Len(a \o u) = Len(a) + Len(u)
      /\ \A k \in 1 .. Len(a) + Len(u) : (a \o u)[k] = IF k <= Len(a) THEN a[k] ELSE u[k - Len(a)]
  BY <1>1, <1>2, ConcatProperties DEF a, u
<1>5. /\ t \o i \in Seq(Nat) /\ Len(t \o i) = Len(t) + Len(i)
      /\ \A k \in 1 .. Len(t) + Len(i) : (t \o i)[k] = IF k <= Len(t) THEN t[k] ELSE i[k - Len(t)]
  BY ConcatProperties
<1>6. Len(a \o u) = Len(t \o i)
  BY <1>1, <1>2, <1>3, <1>4, <1>5 DEF a, u
<1>7. ASSUME NEW k \in 1 .. Len(t) + Len(i) PROVE (a \o u)[k] = (t \o i)[k]
  <2>1. CASE k <= Len(t)
    BY <1>1, <1>2, <1>3, <1>4, <1>5, <2>1 DEF a, u
  <2>2. CASE k = Len(t) + 1
    BY <1>1, <1>2, <1>3, <1>4, <1>5, <2>2 DEF a, u
  <2>3. CASE k > Len(t) + 1
    <3>1. (a \o u)[k] = u[k - (Len(t) + 1)]
      BY <1>1, <1>2, <1>3, <1>4, <2>3 DEF a, u
    <3>2. u[k - (Len(t) + 1)] = i[(k - (Len(t) + 1)) + 1]
      BY <1>1, <1>3, <2>3 DEF u
    <3>3. (k - (Len(t) + 1)) + 1 = k - Len(t)
      BY <1>3
    <3> QED BY <1>3, <1>5, <2>3, <3>1, <3>2, <3>3
  <2>4. k \in Int /\ Len(t) \in Int
    BY <1>3
  <2>5. k <= Len(t) \/ k = Len(t) + 1 \/ k > Len(t) + 1
    BY <2>4
  <2> QED BY <2>1, <2>2, <2>3, <2>5
<1>8. a \o u = t \o i
  BY <1>4, <1>5, <1>6, <1>7, SeqEqual
<1> QED BY <1>1, <1>2, <1>8 DEF a, u

\* The next number sent lengthens the sequence of all of them.
LEMMA SendNext ==
  ASSUME NEW t \in Seq(Nat), NEW i \in Seq(Nat), NEW n \in Nat, t \o i = [k \in 1 .. n |-> k]
  PROVE  Append(i, n + 1) \in Seq(Nat) /\ t \o Append(i, n + 1) = [k \in 1 .. n + 1 |-> k]
<1>1. n + 1 \in Nat
  OBVIOUS
<1> DEFINE x == n + 1
           b == Append(i, x)
           full == [k \in 1 .. n + 1 |-> k]
<1>2. /\ b \in Seq(Nat) /\ Len(b) = Len(i) + 1
      /\ \A k \in 1 .. Len(i) : b[k] = i[k]
      /\ b[Len(i) + 1] = x
  BY <1>1, AppendProperties
<1>3. Len(t) \in Nat /\ Len(i) \in Nat
  BY LenProperties
<1>4. /\ t \o i \in Seq(Nat) /\ Len(t \o i) = Len(t) + Len(i)
      /\ \A k \in 1 .. Len(t) + Len(i) : (t \o i)[k] = IF k <= Len(t) THEN t[k] ELSE i[k - Len(t)]
  BY ConcatProperties, ZenonT(40)
<1>5. Len(t) + Len(i) = n
  <2>1. DOMAIN (t \o i) = 1 .. Len(t \o i)
    BY <1>4, LenProperties
  <2>2. DOMAIN (t \o i) = 1 .. n
    OBVIOUS
  <2> QED BY <1>3, <1>4, <2>1, <2>2
<1>6. \A k \in 1 .. n : (t \o i)[k] = k
  OBVIOUS
<1> HIDE DEF b, x
<1>7. /\ t \o b \in Seq(Nat) /\ Len(t \o b) = Len(t) + Len(b)
      /\ \A k \in 1 .. Len(t) + Len(b) : (t \o b)[k] = IF k <= Len(t) THEN t[k] ELSE b[k - Len(t)]
  BY <1>2, ConcatProperties
<1>8. Len(t) + Len(b) = n + 1
  <2>1. Len(b) = Len(i) + 1
    BY <1>2
  <2>2. ASSUME NEW p \in Nat, NEW q \in Nat, NEW r, p + q = n, r = q + 1
        PROVE  p + r = n + 1
    BY <2>2
  <2> QED BY <1>3, <1>5, <2>1, <2>2
<1>9. ASSUME NEW k \in 1 .. n + 1 PROVE (t \o b)[k] = k
  <2>1. CASE k <= Len(t)
    BY <1>3, <1>4, <1>5, <1>6, <1>7, <1>8, <2>1
  <2>2. CASE k > Len(t) /\ k <= n
    <3>1. (t \o b)[k] = b[k - Len(t)] /\ k - Len(t) \in 1 .. Len(i)
      BY <1>3, <1>5, <1>7, <1>8, <2>2
    <3>2. (t \o i)[k] = i[k - Len(t)]
      BY <1>3, <1>4, <1>5, <2>2
    <3>3. b[k - Len(t)] = i[k - Len(t)]
      BY <1>2, <3>1, ZenonT(40)
    <3>4. (t \o i)[k] = k
      <4>1. k \in 1 .. n
        BY <2>2
      <4> QED BY <1>6, <4>1, ZenonT(40)
    <3> QED BY <3>1, <3>2, <3>3, <3>4
  <2>3. CASE k = n + 1
    <3>1. (t \o b)[k] = b[k - Len(t)] /\ k - Len(t) = Len(i) + 1
      BY <1>3, <1>5, <1>7, <1>8, <2>3
    <3> QED BY <1>2, <2>3, <3>1 DEF x
  <2>4. k \in Int /\ Len(t) \in Int /\ k <= n + 1
    BY <1>3
  <2>5. k <= Len(t) \/ (k > Len(t) /\ k <= n) \/ k = n + 1
    BY <2>4
  <2> QED BY <2>1, <2>2, <2>3, <2>5
<1>10. t \o b = full
  <2>1. DOMAIN (t \o b) = 1 .. n + 1 /\ t \o b \in [1 .. n + 1 -> Nat]
    BY <1>7, <1>8, LenProperties
  <2> QED BY <1>9, <2>1
<1> QED BY <1>2, <1>10 DEF b, x

\* A question to the back end takes no character, and is answered yes exactly
\* if one can be read.
LEMMA AvailableNowFacts ==
  ASSUME NEW ch \in Channel, NEW b \in BackType
  PROVE  LET r == AvailableNow(ch, b)
         IN  /\ r.io \in BackType /\ r.io.inbox = b.inbox /\ (b.accepted => r.io.accepted)
             /\ r.yes \in BOOLEAN /\ (r.yes <=> b.inbox # <<>> /\ CanRead(ch, b))
<1> DEFINE waiting == b.inbox # <<>>
           r == AvailableNow(ch, b)
<1>1. Backend[ch] \in {"null", "stdio", "socket"}
  BY SerialAssumption DEF Channel
<1>2. 0 \in Nat /\ Counted(b) \in BackType /\ Counted(b).inbox = b.inbox
      /\ Counted(b).accepted = b.accepted
  <2>1. (IF b.consecutivechars < Silence THEN b.consecutivechars + 1 ELSE b.consecutivechars) \in Nat
    BY DEF BackType
  <2> QED BY <2>1 DEF BackType, Counted
<1>3. CASE Backend[ch] = "null"
  <2>1. r = [io |-> b, yes |-> FALSE]
    BY <1>3 DEF AvailableNow
  <2> QED BY <1>3, <2>1 DEF CanRead
<1>4. CASE Backend[ch] = "stdio"
  <2> DEFINE c == IF waiting THEN Counted(b) ELSE [b EXCEPT !.consecutivechars = 0]
  <2>1. r = [io |-> c, yes |-> waiting]
    BY <1>4 DEF AvailableNow
  <2>2. c \in BackType /\ c.inbox = b.inbox /\ (b.accepted => c.accepted)
    BY <1>2 DEF BackType
  <2> HIDE DEF c
  <2>3. r.io = c /\ r.yes \in BOOLEAN /\ (r.yes <=> b.inbox # <<>>)
    <3>1. CASE waiting
      <4>1. r = [io |-> c, yes |-> TRUE]
        BY <2>1, <3>1
      <4> QED BY <3>1, <4>1
    <3>2. CASE ~waiting
      <4>1. r = [io |-> c, yes |-> FALSE]
        BY <2>1, <3>2
      <4> QED BY <3>2, <4>1
    <3> QED BY <3>1, <3>2
  <2> QED BY <1>4, <2>2, <2>3 DEF CanRead
<1>5. CASE Backend[ch] = "socket" /\ b.accepted
  <2> DEFINE c == IF waiting THEN Counted(b) ELSE b
  <2>1. r = [io |-> c, yes |-> waiting]
    BY <1>5 DEF AvailableNow
  <2>2. c \in BackType /\ c.inbox = b.inbox /\ (b.accepted => c.accepted)
    BY <1>2
  <2> HIDE DEF c
  <2>3. r.io = c /\ r.yes \in BOOLEAN /\ (r.yes <=> b.inbox # <<>>)
    <3>1. CASE waiting
      <4>1. r = [io |-> c, yes |-> TRUE]
        BY <2>1, <3>1
      <4> QED BY <3>1, <4>1
    <3>2. CASE ~waiting
      <4>1. r = [io |-> c, yes |-> FALSE]
        BY <2>1, <3>2
      <4> QED BY <3>2, <4>1
    <3> QED BY <3>1, <3>2
  <2> QED BY <1>5, <2>2, <2>3 DEF CanRead
<1>6. CASE Backend[ch] = "socket" /\ ~b.accepted
  <2> DEFINE c == IF b.connecting THEN [b EXCEPT !.accepted = TRUE]
                  ELSE [b EXCEPT !.consecutivechars = 0]
  <2>1. r = [io |-> c, yes |-> FALSE]
    BY <1>6 DEF AvailableNow
  <2>2. c \in BackType /\ c.inbox = b.inbox
    BY <1>2 DEF BackType
  <2> HIDE DEF c
  <2> QED BY <1>6, <2>1, <2>2 DEF CanRead
<1> QED BY <1>1, <1>3, <1>4, <1>5, <1>6

\* The throttled question may be denied, but is not answered yes wrongly.
LEMMA AvailableFacts ==
  ASSUME NEW ch \in Channel, NEW b \in BackType
  PROVE  LET r == Available(ch, b)
         IN  /\ r.io \in BackType /\ r.io.inbox = b.inbox /\ (b.accepted => r.io.accepted)
             /\ r.yes \in BOOLEAN /\ (r.yes => b.inbox # <<>> /\ CanRead(ch, b))
<1>1. CASE b.consecutivechars < Burst \/ Backend[ch] = "null"
  BY <1>1, AvailableNowFacts DEF Available
<1>2. CASE ~(b.consecutivechars < Burst \/ Backend[ch] = "null")
  <2> DEFINE n == IF b.consecutivechars + 1 >= Silence THEN 0 ELSE b.consecutivechars + 1
             c == [b EXCEPT !.consecutivechars = n]
  <2>1. n \in Nat
    BY DEF BackType
  <2>2. Available(ch, b) = [io |-> c, yes |-> FALSE]
    BY <1>2 DEF Available
  <2> HIDE DEF n
  <2>3. c \in BackType /\ c.inbox = b.inbox /\ (b.accepted => c.accepted)
    BY <2>1 DEF BackType
  <2> HIDE DEF c
  <2> QED BY <2>2, <2>3
<1> QED BY <1>1, <1>2

\* DMA empties what can be read.
LEMMA DrainedFacts ==
  ASSUME NEW ch \in Channel, NEW b \in BackType
  PROVE  Drained(ch, b) \in BackType /\ Drained(ch, b).inbox = <<>>
<1> DEFINE n == IF b.consecutivechars + 2 * Len(b.inbox) < Silence
                THEN b.consecutivechars + 2 * Len(b.inbox) ELSE Silence
           c == [b EXCEPT !.inbox = <<>>, !.consecutivechars = n]
<1>1. b.inbox \in Seq(Nat) /\ b.consecutivechars \in Nat
  BY DEF BackType
<1>2. Len(b.inbox) \in Nat
  BY <1>1, LenProperties
<1>3. n \in Nat
  BY <1>1, <1>2, SerialAssumption
<1>4. Drained(ch, b) = AvailableNow(ch, c).io
  BY DEF Drained
<1>5. <<>> \in Seq(Nat)
  BY EmptySeq
<1> HIDE DEF n
<1>6. c \in BackType /\ c.inbox = <<>>
  BY <1>3, <1>5 DEF BackType
<1> HIDE DEF c
<1> QED BY <1>4, <1>6, AvailableNowFacts

\* rcv_enable, rcv_disable, the write of WR3 and the resets touch neither the
\* characters nor the connection.
SameChars(f, g) ==
    /\ g \in [Channel -> BackType]
    /\ \A ch \in Channel : g[ch].inbox = f[ch].inbox /\ g[ch].accepted = f[ch].accepted

MType == [rx: [Channel -> BOOLEAN], tty: {"original", "raw", "none"},
          saved: {"original", "raw", "none"}, io: [Channel -> BackType]]

\* Switching a channel's receiver on or off.
LEMMA InitedOnly ==
  ASSUME NEW m \in MType, NEW ch \in Channel, NEW v \in BOOLEAN
  PROVE  LET n == [m EXCEPT !.io[ch].inited = v]
         IN  n \in MType /\ SameChars(m.io, n.io)
<1> DEFINE n == [m EXCEPT !.io[ch].inited = v]
           b == [m.io[ch] EXCEPT !.inited = v]
           f == [m.io EXCEPT ![ch] = b]
<1>1. m.io \in [Channel -> BackType]
  BY DEF MType
<1>2. b \in BackType /\ b.inbox = m.io[ch].inbox /\ b.accepted = m.io[ch].accepted
  BY <1>1 DEF BackType
<1>3. n = [m EXCEPT !.io = f]
  BY DEF MType
<1> HIDE DEF b
<1>4. SameChars(m.io, f)
  BY <1>1, <1>2 DEF SameChars
<1>5. f \in [Channel -> BackType]
  BY <1>4 DEF SameChars
<1> HIDE DEF f, n
<1>6. n \in MType /\ n.io = f
  BY <1>3, <1>5 DEF MType
<1> QED BY <1>4, <1>6 DEF n

\* The terminal's state is not the channels'.
LEMMA EnableDisable ==
  ASSUME NEW m \in MType, NEW ch \in Channel
  PROVE  /\ Enable(m, ch) \in MType /\ SameChars(m.io, Enable(m, ch).io)
         /\ Disable(m, ch) \in MType /\ SameChars(m.io, Disable(m, ch).io)
<1>0. SameChars(m.io, m.io)
  BY DEF MType, SameChars
<1>1. Enable(m, ch) \in MType /\ SameChars(m.io, Enable(m, ch).io)
  <2> DEFINE n == [m EXCEPT !.io[ch].inited = TRUE]
             e == [n EXCEPT !.tty = "raw", !.saved = m.tty]
  <2>1. n \in MType /\ SameChars(m.io, n.io)
    BY InitedOnly
  <2>2. Enable(m, ch) \in {m, n, e}
    BY DEF Enable
  <2> HIDE DEF n
  <2>3. e \in MType /\ e.io = n.io
    BY <2>1 DEF MType
  <2> QED BY <1>0, <2>1, <2>2, <2>3
<1>2. Disable(m, ch) \in MType /\ SameChars(m.io, Disable(m, ch).io)
  <2> DEFINE n == [m EXCEPT !.io[ch].inited = FALSE]
             e == [n EXCEPT !.tty = m.saved]
  <2>1. n \in MType /\ SameChars(m.io, n.io)
    BY InitedOnly
  <2>2. Disable(m, ch) \in {m, n, e}
    BY DEF Disable
  <2> HIDE DEF n
  <2>3. e \in MType /\ e.io = n.io
    BY <2>1 DEF MType
  <2> QED BY <1>0, <2>1, <2>2, <2>3
<1> QED BY <1>1, <1>2

\* WR3.
LEMMA WriteWr3Chars ==
  ASSUME NEW m \in MType, NEW ch \in Channel, NEW rx \in BOOLEAN
  PROVE  WriteWr3(m, ch, rx) \in MType /\ SameChars(m.io, WriteWr3(m, ch, rx).io)
<1> DEFINE n == [m EXCEPT !.rx[ch] = rx]
<1>1. n \in MType /\ n.io = m.io
  BY DEF MType
<1>2. WriteWr3(m, ch, rx) \in {m, Enable(n, ch), Disable(n, ch)}
  BY DEF WriteWr3
<1>3. SameChars(m.io, m.io)
  BY DEF MType, SameChars
<1> HIDE DEF n
<1> QED BY <1>1, <1>2, <1>3, EnableDisable

\* A reset of a channel, and WR9.
LEMMA WriteWr9Chars ==
  ASSUME NEW m \in MType, NEW cmd \in Channel \cup {"hardware", "none"}
  PROVE  WriteWr9(m, cmd) \in MType /\ SameChars(m.io, WriteWr9(m, cmd).io)
<1>1. ASSUME NEW n \in MType, NEW ch \in Channel
      PROVE  ResetChannel(n, ch) \in MType /\ SameChars(n.io, ResetChannel(n, ch).io)
  <2> DEFINE d == Disable(n, ch)
  <2>1. d \in MType /\ SameChars(n.io, d.io)
    BY EnableDisable
  <2> HIDE DEF d
  <2>2. WriteWr3(d, ch, FALSE) \in MType /\ SameChars(d.io, WriteWr3(d, ch, FALSE).io)
    BY <2>1, WriteWr3Chars
  <2>3. SameChars(n.io, WriteWr3(d, ch, FALSE).io)
    BY <2>1, <2>2 DEF SameChars
  <2> QED BY <2>2, <2>3 DEF ResetChannel, d
<1>3. Channel = {"A", "B"}
  BY SerialAssumption DEF Channel
<1>2. CASE cmd \in Channel
  <2>1. WriteWr9(m, cmd) = ResetChannel(m, cmd)
    BY <1>2, <1>3 DEF WriteWr9
  <2> QED BY <1>1, <1>2, <2>1
<1>4. CASE cmd = "hardware"
  <2> DEFINE d == ResetChannel(m, "A")
  <2>1. d \in MType /\ SameChars(m.io, d.io)
    BY <1>1, <1>3
  <2>2. WriteWr9(m, cmd) = ResetChannel(d, "B")
    BY <1>3, <1>4 DEF WriteWr9
  <2> HIDE DEF d
  <2>3. ResetChannel(d, "B") \in MType /\ SameChars(d.io, ResetChannel(d, "B").io)
    BY <1>1, <1>3, <2>1
  <2> QED BY <2>1, <2>2, <2>3 DEF SameChars
<1>5. CASE cmd = "none"
  <2>1. WriteWr9(m, cmd) = m
    BY <1>3, <1>5 DEF WriteWr9
  <2> QED BY <2>1 DEF MType, SameChars
<1> QED BY <1>2, <1>4, <1>5

\* Steps that move no character.
LEMMA NothingMoved ==
  ASSUME SerialInv, scc' \in SccType, SameChars(io, io'), UNCHANGED <<sent, taken, polled>>
  PROVE  SerialInv'
<1> USE DEF SerialInv, SerialTypeOK
<1>1. SerialTypeOK'
  BY DEF SameChars
<1>2. PolledWaits'
  BY DEF SameChars, PolledWaits, CanRead
<1>3. SerialInOrder'
  BY DEF SameChars, SerialInOrder
<1> QED BY <1>1, <1>2, <1>3

\* A register of a channel is written.
LEMMA WriteRegStep ==
  ASSUME SerialInv, NEW ch \in Channel, NEW w \in WriteRegs, WriteReg(ch, w)
  PROVE  SerialInv'
<1> DEFINE m == [rx |-> scc.rx, tty |-> scc.tty, saved |-> scc.saved, io |-> io]
           n == IF w.reg = "WR3" THEN WriteWr3(m, ch, w.value) ELSE WriteWr9(m, w.value)
<1>1. m \in MType /\ m.io = io
  BY DEF SerialInv, SerialTypeOK, SccType, MType
<1>2. \/ w.reg = "WR3" /\ w.value \in BOOLEAN
      \/ w.reg = "WR9" /\ w.value \in Channel \cup {"hardware", "none"}
  BY DEF WriteRegs
<1>3. /\ scc' = [reg_ptr |-> "0", rx |-> n.rx, tty |-> n.tty, saved |-> n.saved]
      /\ io' = n.io
      /\ UNCHANGED <<sent, taken, polled>>
  BY DEF WriteReg
<1> HIDE DEF m
<1>4. n \in MType /\ SameChars(io, n.io)
  BY <1>1, <1>2, WriteWr3Chars, WriteWr9Chars
<1> HIDE DEF n
<1>5. scc' \in SccType
  BY <1>3, <1>4 DEF MType, SccType
<1> QED BY <1>3, <1>4, <1>5, NothingMoved

\* RR0 is read.
LEMMA ReadRr0Step ==
  ASSUME SerialInv, NEW ch \in Channel, ReadRr0(ch)
  PROVE  SerialInv'
<1> USE DEF SerialInv, SerialTypeOK
<1>1. scc' \in SccType
  BY DEF ReadRr0, SccType
<1>2. CASE scc.reg_ptr = "0"
  <2> DEFINE r == Available(ch, io[ch])
  <2>1. /\ r.io \in BackType /\ r.io.inbox = io[ch].inbox /\ (io[ch].accepted => r.io.accepted)
        /\ r.yes \in BOOLEAN /\ (r.yes => io[ch].inbox # <<>> /\ CanRead(ch, io[ch]))
    BY AvailableFacts
  <2>2. /\ io' = [io EXCEPT ![ch] = r.io] /\ polled' = [polled EXCEPT ![ch] = r.yes]
        /\ UNCHANGED <<sent, taken>>
    BY <1>2 DEF ReadRr0
  <2> HIDE DEF r
  <2>3. SerialTypeOK'
    BY <1>1, <2>1, <2>2
  <2>4. \A c \in Channel : io'[c].inbox = io[c].inbox /\ (io[c].accepted => io'[c].accepted)
    BY <2>1, <2>2
  <2>5. PolledWaits'
    BY <2>1, <2>2, <2>4 DEF PolledWaits, CanRead
  <2>6. SerialInOrder'
    BY <2>2, <2>4 DEF SerialInOrder
  <2> QED BY <2>3, <2>5, <2>6
<1>3. CASE scc.reg_ptr # "0"
  <2>1. UNCHANGED <<io, polled, sent, taken>>
    BY <1>3 DEF ReadRr0
  <2>2. SameChars(io, io')
    BY <2>1 DEF SameChars
  <2> QED BY <1>1, <2>1, <2>2, NothingMoved
<1> QED BY <1>2, <1>3

\* The character RR0 reported is read: it is still there, whatever the
\* throttle says by now.
LEMMA ReadDataStep ==
  ASSUME SerialInv, NEW ch \in Channel, ReadData(ch)
  PROVE  SerialInv'
<1> USE DEF SerialInv, SerialTypeOK
<1> DEFINE b == io[ch]
           q == AvailableNow(ch, b)
           d == [q.io EXCEPT !.inbox = Tail(@)]
<1>1. b \in BackType /\ b.inbox # <<>> /\ CanRead(ch, b) /\ b.inbox \in Seq(Nat)
  BY DEF ReadData, PolledWaits, BackType
<1>2. q.io \in BackType /\ q.io.inbox = b.inbox /\ (b.accepted => q.io.accepted) /\ q.yes
  BY <1>1, AvailableNowFacts
<1>3. ReceiveByte(ch, b) = [io |-> d, c |-> Head(b.inbox)]
  BY <1>2 DEF ReceiveByte
<1> HIDE DEF q
<1>4. /\ Append(taken[ch], Head(b.inbox)) \in Seq(Nat) /\ Tail(b.inbox) \in Seq(Nat)
      /\ Append(taken[ch], Head(b.inbox)) \o Tail(b.inbox) = taken[ch] \o b.inbox
  BY <1>1, MoveOne
<1>5. d \in BackType /\ d.inbox = Tail(b.inbox)
  BY <1>2, <1>4 DEF BackType
<1>6. /\ io' = [io EXCEPT ![ch] = d]
      /\ taken' = [taken EXCEPT ![ch] = Append(@, Head(b.inbox))]
      /\ polled' = [polled EXCEPT ![ch] = FALSE] /\ UNCHANGED <<scc, sent>>
  BY <1>3 DEF ReadData
<1> HIDE DEF d
<1>7. SerialTypeOK'
  BY <1>4, <1>5, <1>6
<1>8. PolledWaits'
  BY <1>6 DEF PolledWaits, CanRead
<1>9. SerialInOrder'
  BY <1>4, <1>5, <1>6 DEF SerialInOrder
<1> QED BY <1>7, <1>8, <1>9

\* A DMA transfer takes everything that can be read.
LEMMA DmaReceiveStep ==
  ASSUME SerialInv, NEW ch \in Channel, NEW len, DmaReceive(ch, len)
  PROVE  SerialInv'
<1> USE DEF SerialInv, SerialTypeOK
<1> DEFINE b == io[ch]
           got == Reachable(ch, b)
           d == IF got = <<>> THEN AvailableNow(ch, b).io ELSE Drained(ch, b)
<1>1. b \in BackType /\ b.inbox \in Seq(Nat) /\ taken[ch] \in Seq(Nat) /\ <<>> \in Seq(Nat)
  BY EmptySeq DEF BackType
<1>2. /\ ~polled[ch] /\ io' = [io EXCEPT ![ch] = d]
      /\ taken' = [taken EXCEPT ![ch] = @ \o got] /\ UNCHANGED <<scc, sent, polled>>
  BY DEF DmaReceive
<1>3. /\ d \in BackType /\ got \in Seq(Nat)
      /\ taken[ch] \o got \in Seq(Nat)
      /\ (taken[ch] \o got) \o d.inbox = taken[ch] \o b.inbox
  <2>1. CASE got = <<>>
    <3>1. d \in BackType /\ d.inbox = b.inbox
      BY <1>1, <2>1, AvailableNowFacts
    <3>2. taken[ch] \o got = taken[ch]
      BY <1>1, <2>1, ConcatEmptySeq
    <3> HIDE DEF d, got
    <3> QED BY <1>1, <2>1, <3>1, <3>2
  <2>2. CASE got # <<>>
    <3>1. got = b.inbox
      BY <2>2 DEF Reachable
    <3>2. d \in BackType /\ d.inbox = <<>>
      BY <1>1, <2>2, DrainedFacts
    <3>3. taken[ch] \o b.inbox \in Seq(Nat)
      BY <1>1, ConcatProperties
    <3>4. (taken[ch] \o b.inbox) \o <<>> = taken[ch] \o b.inbox
      BY <3>3, ConcatEmptySeq
    <3> HIDE DEF d, got
    <3> QED BY <1>1, <3>1, <3>2, <3>3, <3>4
  <2> QED BY <2>1, <2>2
<1> HIDE DEF d, got
<1>4. SerialTypeOK'
  BY <1>2, <1>3
<1>5. PolledWaits'
  BY <1>2 DEF PolledWaits, CanRead
<1>6. SerialInOrder'
  BY <1>2, <1>3 DEF SerialInOrder
<1> QED BY <1>4, <1>5, <1>6

\* The peer: a connection, a character sent; and the guest sends one.
LEMMA PeerStep ==
  ASSUME SerialInv, NEW ch \in Channel, SendByte(ch) \/ Connect(ch) \/ PeerSends(ch)
  PROVE  SerialInv'
<1> USE DEF SerialInv, SerialTypeOK
<1> DEFINE b == io[ch]
<1>1. b \in BackType /\ b.inbox \in Seq(Nat) /\ taken[ch] \in Seq(Nat) /\ sent[ch] \in Nat
  BY DEF BackType
<1>2. ASSUME NEW d \in BackType, d.inbox = b.inbox, (b.accepted => d.accepted),
             io' = [io EXCEPT ![ch] = d], UNCHANGED <<scc, sent, taken, polled>>
      PROVE  SerialInv'
  <2>1. SerialTypeOK'
    BY <1>2
  <2>2. \A c \in Channel : io'[c].inbox = io[c].inbox /\ (io[c].accepted => io'[c].accepted)
    BY <1>2
  <2>3. PolledWaits'
    BY <1>2, <2>2 DEF PolledWaits, CanRead
  <2>4. SerialInOrder'
    BY <1>2, <2>2 DEF SerialInOrder
  <2> QED BY <2>1, <2>3, <2>4
<1>3. CASE SendByte(ch)
  <2>1. io' = [io EXCEPT ![ch] = AvailableNow(ch, b).io] /\ UNCHANGED <<scc, sent, taken, polled>>
    BY <1>3 DEF SendByte
  <2>2. /\ AvailableNow(ch, b).io \in BackType /\ AvailableNow(ch, b).io.inbox = b.inbox
        /\ b.accepted => AvailableNow(ch, b).io.accepted
    BY <1>1, AvailableNowFacts
  <2> HIDE DEF SerialInv
  <2> QED BY <1>2, <2>1, <2>2
<1>4. CASE Connect(ch)
  <2> DEFINE d == [b EXCEPT !.connecting = TRUE]
  <2>1. io' = [io EXCEPT ![ch] = d] /\ UNCHANGED <<scc, sent, taken, polled>>
    BY <1>4 DEF Connect
  <2>2. d \in BackType /\ d.inbox = b.inbox /\ (b.accepted => d.accepted)
    BY <1>1 DEF BackType
  <2> HIDE DEF d, SerialInv
  <2> QED BY <1>2, <2>1, <2>2
<1>5. CASE PeerSends(ch)
  <2> DEFINE i == Append(b.inbox, sent[ch] + 1)
             d == [b EXCEPT !.inbox = i]
  <2>1. /\ io' = [io EXCEPT ![ch] = d] /\ sent' = [sent EXCEPT ![ch] = @ + 1]
        /\ UNCHANGED <<scc, taken, polled>>
    BY <1>5 DEF PeerSends
  <2>2. taken[ch] \o b.inbox = [k \in 1 .. sent[ch] |-> k]
    BY DEF SerialInOrder
  <2>3. i \in Seq(Nat) /\ taken[ch] \o i = [k \in 1 .. sent[ch] + 1 |-> k]
    <3>1. ASSUME NEW t \in Seq(Nat), NEW x \in Seq(Nat), NEW n \in Nat,
                 t \o x = [k \in 1 .. n |-> k]
          PROVE  Append(x, n + 1) \in Seq(Nat) /\ t \o Append(x, n + 1) = [k \in 1 .. n + 1 |-> k]
      BY <3>1, SendNext, ZenonT(40)
    <3> HIDE DEF b, SerialInv, SerialTypeOK
    <3> QED BY <1>1, <2>2, <3>1
  <2>4. i # <<>>
    <3>1. ASSUME NEW x \in Seq(Nat), NEW n \in Nat PROVE Append(x, n) # <<>>
      <4>1. Len(Append(x, n)) = Len(x) + 1 /\ Len(x) \in Nat /\ Len(<<>>) = 0
        BY AppendProperties, LenProperties, EmptySeq
      <4>2. ASSUME Append(x, n) = <<>> PROVE FALSE
        <5>1. Len(Append(x, n)) = Len(<<>>)
          BY <4>2, Zenon
        <5>2. Len(x) + 1 = 0
          BY <4>1, <5>1, Zenon
        <5> QED BY <4>1, <5>2
      <4> QED BY <4>2
    <3>2. sent[ch] + 1 \in Nat
      BY <1>1
    <3> HIDE DEF b, SerialInv, SerialTypeOK
    <3> QED BY <1>1, <3>1, <3>2
  <2> HIDE DEF i
  <2>5. d \in BackType /\ d.inbox = i /\ d.accepted = b.accepted
    BY <1>1, <2>3 DEF BackType
  <2> HIDE DEF d
  <2>6. SerialTypeOK'
    BY <1>1, <2>1, <2>5
  <2>7. PolledWaits'
    BY <2>1, <2>4, <2>5 DEF PolledWaits, CanRead
  <2>8. SerialInOrder'
    BY <2>1, <2>3, <2>5 DEF SerialInOrder
  <2> QED BY <2>6, <2>7, <2>8
<1> QED BY <1>3, <1>4, <1>5

\* What the guest receives is what the peer sent, in its order, for any number
\* of characters, back end, burst and DMA transfers.
THEOREM SerialDelivered == SerialSpec => []SerialInOrder
<1>1. SerialInit => SerialInv
  <2> SUFFICES ASSUME SerialInit PROVE SerialInv
    OBVIOUS
  <2>1. <<>> \in Seq(Nat) /\ <<>> \o <<>> = <<>>
    BY EmptySeq, ConcatEmptySeq
  <2>2. [k \in 1 .. 0 |-> k] = <<>>
    OBVIOUS
  <2>3. SerialTypeOK
    BY <2>1 DEF SerialInit, SerialTypeOK, SccType, BackType
  <2>4. PolledWaits
    BY DEF SerialInit, PolledWaits
  <2>5. SerialInOrder
    BY <2>1, <2>2 DEF SerialInit, SerialInOrder
  <2> QED BY <2>3, <2>4, <2>5 DEF SerialInv
<1>2. SerialInv /\ [SerialNext]_serialVars => SerialInv'
  <2> SUFFICES ASSUME SerialInv, [SerialNext]_serialVars PROVE SerialInv'
    OBVIOUS
  <2>1. CASE \E reg \in {"WR3", "WR9"} : PointTo(reg)
    <3>1. scc' \in SccType /\ UNCHANGED <<io, sent, taken, polled>>
      BY <2>1 DEF PointTo, SccType, SerialInv, SerialTypeOK
    <3>2. SameChars(io, io')
      BY <3>1 DEF SameChars, SerialInv, SerialTypeOK
    <3> QED BY <3>1, <3>2, NothingMoved
  <2>2. CASE UNCHANGED serialVars
    <3>1. scc' \in SccType /\ UNCHANGED <<io, sent, taken, polled>>
      BY <2>2 DEF serialVars, SerialInv, SerialTypeOK
    <3>2. SameChars(io, io')
      BY <3>1 DEF SameChars, SerialInv, SerialTypeOK
    <3> QED BY <3>1, <3>2, NothingMoved
  <2>3. ASSUME NEW ch \in Channel,
               \/ \E w \in WriteRegs : WriteReg(ch, w)
               \/ ReadRr0(ch) \/ ReadData(ch) \/ SendByte(ch) \/ Connect(ch) \/ PeerSends(ch)
               \/ \E len \in DmaLengths : DmaReceive(ch, len)
        PROVE  SerialInv'
    BY <2>3, WriteRegStep, ReadRr0Step, ReadDataStep, DmaReceiveStep, PeerStep
  <2> QED BY <2>1, <2>2, <2>3 DEF SerialNext
<1> QED BY <1>1, <1>2, PTL DEF SerialSpec, SerialInv
-----------------------------------------------------------------------------
(* Cuda.  Between transactions a request (TREQ, or the timer that will     *)
(* assert it) stands for a packet of which nothing has been fetched; while *)
(* the driver sends or receives there is no such timer, and no handler     *)
(* prepares a packet; and the interrupt never precedes the request.        *)

IsSeq(s) == \E S : s \in Seq(S)

CudaFields == {"tip", "byteack", "treq", "sync", "shift_out", "sr", "sr_int", "sr_timer", "treq_timer",
               "in_buf", "out_buf", "out_pos", "open_ended", "autopoll", "one_sec_mode", "first_pkt",
               "missed", "last_time"}

CoreOk(c) ==
  /\ DOMAIN c = CudaFields
  /\ c.tip \in BOOLEAN /\ c.byteack \in BOOLEAN /\ c.treq \in BOOLEAN /\ c.shift_out \in BOOLEAN
  /\ c.sr_int \in BOOLEAN /\ c.treq_timer \in BOOLEAN /\ c.open_ended \in BOOLEAN
  /\ c.out_pos \in Nat /\ IsSeq(c.out_buf)
  /\ c.one_sec_mode \in 0 .. 3

BusOk(bus) ==
  /\ DOMAIN bus = AdbDevs
  /\ \A d \in AdbDevs : DOMAIN bus[d] = {"addr", "srq", "data"} /\ bus[d].data \in Seq(Nat)

SignalsOk(c, d) ==
  /\ ~(c.treq_timer /\ c.sr_int)
  /\ d.phase \in {"idle", "armed", "sending", "reading"} => ~c.treq_timer
  /\ c.tip <=> d.phase \in {"sending", "reading"}
  /\ ~c.tip => (c.byteack <=> d.phase = "syncing")

RequestOk(c, d) ==
  /\ d.phase \in {"idle", "armed", "awaiting", "ending"} /\ (c.treq \/ c.treq_timer) =>
        c.out_pos = 0 /\ c.out_buf # <<>>
  /\ d.phase = "awaiting" => c.treq \/ c.treq_timer

SendingOk(c, d) ==
  /\ d.phase # "sending" => c.in_buf = <<>>
  /\ d.phase = "armed" => d.cmd \in CudaCommands /\ c.shift_out /\ c.sr = d.cmd[1]
  /\ d.phase = "sending" =>
        /\ d.cmd \in CudaCommands /\ d.sent \in 1 .. Len(d.cmd)
        /\ IsSeq(c.in_buf) /\ Len(c.in_buf) = d.sent
        /\ \A i \in 1 .. d.sent : c.in_buf[i] = d.cmd[i]

ReadingOk(c, d) ==
  /\ d.phase # "reading" => d.got = <<>>
  /\ d.phase = "reading" /\ ~c.open_ended =>
        /\ IsSeq(d.got) /\ c.out_pos \in 1 .. Len(c.out_buf)
        /\ Append(d.got, c.sr) = SubSeq(c.out_buf, 1, c.out_pos)
        /\ ~c.treq <=> c.out_pos = Len(c.out_buf)

DrvOk(d) ==
  /\ DOMAIN d = {"phase", "cmd", "sent", "got", "keys"}
  /\ d.phase \in {"idle", "armed", "sending", "awaiting", "ending", "reading", "syncing"}

HandshakeOk(c, d) == DrvOk(d) /\ CoreOk(c) /\ SignalsOk(c, d) /\ RequestOk(c, d) /\ SendingOk(c, d) /\ ReadingOk(c, d)

CudaInv == HandshakeOk(cuda, drv) /\ BusOk(adb) /\ typed \in Nat

\* Sequences of bytes of any kind.
LEMMA SequencesOfBytes ==
  /\ \A a : IsSeq(<<a>>) /\ <<a>> # <<>>
  /\ \A a, b : IsSeq(<<a, b>>) /\ <<a, b>> # <<>>
  /\ \A a, b, c : IsSeq(<<a, b, c>>) /\ <<a, b, c>> # <<>>
  /\ IsSeq(<<>>)
  /\ \A a, b : \A t \in Seq(Nat) : IsSeq(<<a, b>> \o t) /\ <<a, b>> \o t # <<>>
<1>1. \A a : IsSeq(<<a>>) /\ <<a>> # <<>>
  <2> TAKE a
  <2>1. <<a>> \in Seq({a})
    OBVIOUS
  <2> QED BY <2>1 DEF IsSeq
<1>2. \A a, b : IsSeq(<<a, b>>) /\ <<a, b>> # <<>>
  <2> TAKE a, b
  <2>1. <<a, b>> \in Seq({a, b})
    OBVIOUS
  <2> QED BY <2>1 DEF IsSeq
<1>3. \A a, b, c : IsSeq(<<a, b, c>>) /\ <<a, b, c>> # <<>>
  <2> TAKE a, b, c
  <2>1. <<a, b, c>> \in Seq({a, b, c})
    OBVIOUS
  <2> QED BY <2>1 DEF IsSeq
<1>4. IsSeq(<<>>)
  <2>1. <<>> \in Seq(Nat)
    OBVIOUS
  <2> QED BY <2>1 DEF IsSeq
<1>5. ASSUME NEW a, NEW b, NEW t \in Seq(Nat) PROVE IsSeq(<<a, b>> \o t) /\ <<a, b>> \o t # <<>>
  <2> DEFINE S == Nat \cup {a, b}
             h == <<a, b>>
  <2>1. h \in Seq(S) /\ t \in Seq(S) /\ Len(h) = 2
    OBVIOUS
  <2> HIDE DEF S, h
  <2>2. h \o t \in Seq(S) /\ Len(h \o t) = Len(h) + Len(t)
    BY <2>1, ConcatProperties
  <2>3. Len(t) \in Nat
    OBVIOUS
  <2>4. Len(h \o t) # 0
    BY <2>1, <2>2, <2>3
  <2>5. h \o t # <<>>
    BY <2>4
  <2> QED BY <2>2, <2>5 DEF IsSeq, h
<1> QED BY <1>1, <1>2, <1>3, <1>4, <1>5

\* The first device of a set is one of it.
LEMMA FirstOfIsMember ==
  ASSUME NEW S, S \subseteq AdbDevs, S # {}
  PROVE  FirstOf(S) \in S
<1> DEFINE T == {i \in 1 .. Len(BusOrder) : BusOrder[i] \in S}
<1>1. T \subseteq Nat /\ T # {} /\ Len(BusOrder) \in Nat
  BY BusAssumption DEF AdbDevs
<1>2. PICK x \in T : \A y \in T : ~(<<y, x>> \in OpToRel(<, Nat))
  BY <1>1, NatLessThanWellFounded, WFMin
<1>3. \A j \in 1 .. x - 1 : BusOrder[j] \notin S
  <2> SUFFICES ASSUME NEW j \in 1 .. x - 1, BusOrder[j] \in S PROVE FALSE
    OBVIOUS
  <2>1. x \in 1 .. Len(BusOrder)
    OBVIOUS
  <2>2. j \in 1 .. Len(BusOrder) /\ j < x /\ j \in Nat /\ x \in Nat
    BY <1>1, <2>1
  <2>3. <<j, x>> \in OpToRel(<, Nat)
    BY <2>2 DEF OpToRel
  <2> QED BY <1>2, <2>2, <2>3
<1>4. \E i \in 1 .. Len(BusOrder) : BusOrder[i] \in S /\ \A j \in 1 .. i - 1 : BusOrder[j] \notin S
  BY <1>2, <1>3
<1> QED BY <1>4 DEF FirstOf

\* What a device reports is a sequence of key events and motions, and what it
\* keeps is one too.
LEMMA TakenIsOk ==
  ASSUME NEW bus, BusOk(bus), NEW d \in AdbDevs
  PROVE  BusOk(TakeRegister0(bus, d).bus) /\ TakeRegister0(bus, d).out \in Seq(Nat)
<1> DEFINE data == bus[d].data
           n    == Lesser(2, Len(data))
           rest == SubSeq(data, n + 1, Len(data))
           out  == SubSeq(data, 1, n)
           flag == bus[d].srq /\ ~(d \in Keyboards /\ rest = <<>>)
           after == [bus EXCEPT ![d].data = rest, ![d].srq = @ /\ ~(d \in Keyboards /\ rest = <<>>)]
<1>1. data \in Seq(Nat) /\ Len(data) \in Nat
  BY DEF BusOk
<1>2. n \in 0 .. Len(data)
  BY <1>1 DEF Lesser
<1>3. rest \in Seq(Nat) /\ out \in Seq(Nat)
  <2> HIDE DEF n
  <2>1. \A i \in n + 1 .. Len(data) : i \in 1 .. Len(data)
    BY <1>1, <1>2
  <2>2. \A i \in 1 .. n : i \in 1 .. Len(data)
    BY <1>1, <1>2
  <2>3. \A i \in 1 .. Len(data) : data[i] \in Nat
    BY <1>1
  <2> HIDE DEF data
  <2> QED BY <1>1, <1>2, <2>1, <2>2, <2>3, SubSeqProperties
<1>4. TakeRegister0(bus, d).bus = after /\ TakeRegister0(bus, d).out = out
  BY DEF TakeRegister0
<1> HIDE DEF rest, out
<1>5. BusOk(after)
  BY <1>3 DEF BusOk
<1> QED BY <1>3, <1>4, <1>5

KnownCommand(c) == c.op \in {"reset", "flush", "talk", "listen"}

AnswerOk(r) == BusOk(r.bus) /\ r.out \in Seq(Nat)

LEMMA BusAnswersOk ==
  ASSUME NEW bus, BusOk(bus)
  PROVE  /\ AnswerOk(NoAnswer(bus)) /\ NoAnswer(bus).ok = FALSE
         /\ AnswerOk(PollBus(bus))
         /\ \A c : KnownCommand(c) => AnswerOk(ProcessCommand(bus, c))
<1>1. ASSUME NEW b, BusOk(b)
      PROVE  AnswerOk(NoAnswer(b)) /\ NoAnswer(b).ok = FALSE /\ AnswerOk([NoAnswer(b) EXCEPT !.ok = TRUE])
  BY <1>1 DEF AnswerOk, NoAnswer
<1>2. ASSUME NEW d \in AdbDevs, NEW addr PROVE AnswerOk(Answer(TakeRegister0(bus, d), addr))
  BY <1>2, TakenIsOk DEF AnswerOk, Answer
<1>3. AnswerOk(PollBus(bus))
  <2> DEFINE ready == {d \in AdbDevs : bus[d].srq /\ bus[d].data # <<>>}
  <2>1. ready # {} => FirstOf(ready) \in AdbDevs
    BY FirstOfIsMember
  <2> HIDE DEF ready
  <2>2. PollBus(bus) = IF ready = {} THEN NoAnswer(bus)
                       ELSE Answer(TakeRegister0(bus, FirstOf(ready)), bus[FirstOf(ready)].addr)
    BY DEF PollBus, ready
  <2> QED BY <1>1, <1>2, <2>1, <2>2
<1>4. ASSUME NEW addr, NEW reg PROVE AnswerOk(Talk(bus, addr, reg))
  <2> DEFINE there == {d \in AdbDevs : bus[d].addr = addr /\ (reg = 0 => bus[d].data # <<>>)}
  <2>1. there # {} => FirstOf(there) \in AdbDevs
    BY FirstOfIsMember
  <2>2. AnswerOk(Answer([out |-> <<0>>, bus |-> bus], addr))
    BY DEF AnswerOk, Answer
  <2> HIDE DEF there
  <2>3. Talk(bus, addr, reg) = IF there = {} THEN NoAnswer(bus)
                               ELSE IF reg = 0 THEN Answer(TakeRegister0(bus, FirstOf(there)), addr)
                               ELSE Answer([out |-> <<0>>, bus |-> bus], addr)
    BY DEF Talk, there
  <2> QED BY <1>1, <1>2, <2>1, <2>2, <2>3
<1>5. BusOk([d \in AdbDevs |-> ResetDevice(d)])
  <2>1. ASSUME NEW d \in AdbDevs
        PROVE  DOMAIN ResetDevice(d) = {"addr", "srq", "data"} /\ ResetDevice(d).data \in Seq(Nat)
    BY DEF ResetDevice
  <2> QED BY <2>1 DEF BusOk
<1>6. ASSUME NEW addr, NEW new, NEW srq PROVE BusOk(ListenR3(bus, addr, new, srq))
  <2> DEFINE entry(d) == IF bus[d].addr # addr THEN bus[d]
                         ELSE [bus[d] EXCEPT !.addr = new, !.srq = IF srq = "keep" THEN @ ELSE srq = "on"]
  <2>1. ASSUME NEW d \in AdbDevs
        PROVE  DOMAIN entry(d) = {"addr", "srq", "data"} /\ entry(d).data \in Seq(Nat)
    BY <2>1 DEF BusOk
  <2>2. ListenR3(bus, addr, new, srq) = [d \in AdbDevs |-> entry(d)]
    BY DEF ListenR3
  <2> HIDE DEF entry
  <2> QED BY <2>1, <2>2 DEF BusOk
<1>7. ASSUME NEW c, KnownCommand(c) PROVE AnswerOk(ProcessCommand(bus, c))
  <2>1. CASE c.op = "reset"
    BY <1>1, <1>5, <2>1 DEF ProcessCommand
  <2>2. CASE c.op = "flush"
    BY <1>1, <2>2 DEF ProcessCommand
  <2>3. CASE c.op = "talk"
    BY <1>4, <2>3 DEF ProcessCommand
  <2>4. CASE c.op = "listen"
    BY <1>1, <1>6, <2>4 DEF ProcessCommand
  <2> QED BY <1>7, <2>1, <2>2, <2>3, <2>4 DEF KnownCommand
<1> QED BY <1>1, <1>3, <1>7
\* The fields a packet's handler leaves alone.
HandshakeFields == {"tip", "byteack", "treq", "sync", "shift_out", "sr", "sr_int", "sr_timer",
                    "treq_timer", "in_buf"}

\* e is c with a packet to fetch.
Answered(c, e) ==
  /\ DOMAIN e = CudaFields /\ \A f \in HandshakeFields : e[f] = c[f]
  /\ e.out_pos = 0 /\ IsSeq(e.out_buf) /\ e.out_buf # <<>>
  /\ e.open_ended \in BOOLEAN /\ e.one_sec_mode \in 0 .. 3

LEMMA RespondIsOk ==
  ASSUME NEW c, DOMAIN c = CudaFields, c.one_sec_mode \in 0 .. 3, NEW p, IsSeq(p), p # <<>>
  PROVE  Answered(c, Respond(c, p))
BY DEF Answered, Respond, CudaFields, HandshakeFields

\* A packet of which nothing is undefined: an ADB command that the bus knows,
\* a mode that there is.
GoodPacket(b) ==
  /\ Len(b) \in Nat
  /\ Len(b) >= 2 /\ b[1] = "adb" => KnownCommand(b[2])
  /\ Len(b) >= 2 /\ b[1] = "pseudo" /\ b[2] = "one_sec" => b[3] \in 0 .. 3

LEMMA PseudoCommandIsOk ==
  ASSUME NEW c, CoreOk(c), c.in_buf[2] = "one_sec" => c.in_buf[3] \in 0 .. 3
  PROVE  Answered(c, PseudoCommand(c))
<1> DEFINE cmd   == c.in_buf[2]
           param == c.in_buf[3]
           header == <<"pseudo", cmd>>
           long == Append(header, "time")
<1>1. DOMAIN c = CudaFields /\ c.one_sec_mode \in 0 .. 3
  BY DEF CoreOk
<1>2. IsSeq(header) /\ header # <<>> /\ IsSeq(<<"error", cmd>>) /\ <<"error", cmd>> # <<>>
  BY SequencesOfBytes
<1>3. IsSeq(long) /\ long # <<>>
  <2> DEFINE S == {"pseudo", cmd, "time"}
  <2>1. header \in Seq(S) /\ "time" \in S
    OBVIOUS
  <2> HIDE DEF S, header
  <2>2. long \in Seq(S) /\ Len(long) = Len(header) + 1 /\ Len(header) \in Nat
    BY <2>1, AppendProperties
  <2> HIDE DEF long
  <2>3. Len(long) # 0
    BY <2>2
  <2>4. long # <<>>
    BY <2>3
  <2> QED BY <2>2, <2>4 DEF IsSeq
<1> HIDE DEF long, header, cmd, param
<1>4. CASE cmd = "autopoll"
  <2> DEFINE d == [c EXCEPT !.autopoll = param = 1]
  <2>1. PseudoCommand(c) = Respond(d, header)
    BY <1>4 DEF PseudoCommand, cmd, header, param
  <2>2. DOMAIN d = CudaFields /\ d.one_sec_mode \in 0 .. 3 /\ \A f \in HandshakeFields : d[f] = c[f]
    BY <1>1 DEF CudaFields, HandshakeFields
  <2> HIDE DEF d
  <2>3. Answered(d, Respond(d, header))
    BY <1>2, <2>2, RespondIsOk
  <2> QED BY <2>1, <2>2, <2>3 DEF Answered
<1>5. CASE cmd = "one_sec"
  <2> DEFINE d == [c EXCEPT !.one_sec_mode = param, !.first_pkt = TRUE]
  <2>1. PseudoCommand(c) = Respond(d, header)
    BY <1>5 DEF PseudoCommand, cmd, header, param
  <2>2. DOMAIN d = CudaFields /\ d.one_sec_mode = param /\ \A f \in HandshakeFields : d[f] = c[f]
    BY <1>1 DEF CudaFields, HandshakeFields
  <2> HIDE DEF d
  <2>3. Answered(d, Respond(d, header))
    BY <1>2, <1>5, <2>2, RespondIsOk DEF cmd, param
  <2> QED BY <2>1, <2>2, <2>3 DEF Answered
<1>6. CASE cmd = "warm_start"
  <2> DEFINE d == DisableAsync(c)
  <2>1. PseudoCommand(c) = Respond(d, header)
    BY <1>6 DEF PseudoCommand, cmd, header
  <2>2. DOMAIN d = CudaFields /\ d.one_sec_mode \in 0 .. 3 /\ \A f \in HandshakeFields : d[f] = c[f]
    BY <1>1 DEF CudaFields, HandshakeFields, DisableAsync
  <2> HIDE DEF d
  <2>3. Answered(d, Respond(d, header))
    BY <1>2, <2>2, RespondIsOk
  <2> QED BY <2>1, <2>2, <2>3 DEF Answered
<1>7. CASE cmd = "get_time"
  <2>1. PseudoCommand(c) = Respond(c, long)
    BY <1>7 DEF PseudoCommand, cmd, header, long
  <2> QED BY <1>1, <1>3, <2>1, RespondIsOk
<1>8. CASE cmd = "read_pram"
  <2> DEFINE e == Respond(c, header)
  <2>1. PseudoCommand(c) = Open(e)
    BY <1>8 DEF PseudoCommand, cmd, header
  <2>2. Answered(c, e)
    BY <1>1, <1>2, RespondIsOk
  <2> HIDE DEF e
  <2> QED BY <2>1, <2>2 DEF Answered, Open, CudaFields, HandshakeFields
<1>9. CASE cmd = "set_param"
  <2>1. PseudoCommand(c) = Respond(c, header)
    BY <1>9 DEF PseudoCommand, cmd, header
  <2> QED BY <1>1, <1>2, <2>1, RespondIsOk
<1>10. CASE cmd \notin {"autopoll", "one_sec", "warm_start", "get_time", "read_pram", "set_param"}
  <2>1. PseudoCommand(c) = Respond(c, <<"error", cmd>>)
    BY <1>10 DEF PseudoCommand, cmd
  <2> QED BY <1>1, <1>2, <2>1, RespondIsOk
<1> QED BY <1>4, <1>5, <1>6, <1>7, <1>8, <1>9, <1>10

LEMMA ProcessPacketIsOk ==
  ASSUME NEW c, CoreOk(c), BusOk(adb), GoodPacket(c.in_buf)
  PROVE  Answered(c, ProcessPacket(c).cuda) /\ BusOk(ProcessPacket(c).bus)
<1> DEFINE b == c.in_buf
<1>1. DOMAIN c = CudaFields /\ c.one_sec_mode \in 0 .. 3
  BY DEF CoreOk
<1>2. ASSUME NEW x PROVE Answered(c, Respond(c, <<"error", x>>))
  BY <1>1, SequencesOfBytes, RespondIsOk
<1>3. CASE Len(b) < 2
  BY <1>2, <1>3 DEF ProcessPacket
<1>4. CASE Len(b) >= 2 /\ b[1] = "adb"
  <2> DEFINE r == ProcessCommand(adb, b[2])
             p == <<"adb", b[2].op>> \o r.out
  <2>1. AnswerOk(r)
    <3>1. PICK x : x = b[2]
      OBVIOUS
    <3>2. KnownCommand(x)
      BY <1>4, <3>1 DEF GoodPacket
    <3>3. AnswerOk(ProcessCommand(adb, x))
      BY <3>2, BusAnswersOk
    <3> QED BY <3>1, <3>3
  <2>2. ProcessPacket(c) = [cuda |-> Respond(c, p), bus |-> r.bus]
    BY <1>4 DEF ProcessPacket, GoodPacket
  <2> HIDE DEF r
  <2>3. IsSeq(p) /\ p # <<>>
    BY <2>1, SequencesOfBytes DEF AnswerOk
  <2> HIDE DEF p
  <2> QED BY <1>1, <2>1, <2>2, <2>3, RespondIsOk DEF AnswerOk
<1>5. CASE Len(b) >= 2 /\ b[1] = "pseudo"
  <2>1. ProcessPacket(c) = [cuda |-> PseudoCommand(c), bus |-> adb]
    BY <1>5 DEF ProcessPacket, GoodPacket
  <2> QED BY <1>5, <2>1, PseudoCommandIsOk DEF GoodPacket
<1>6. CASE Len(b) >= 2 /\ b[1] # "adb" /\ b[1] # "pseudo"
  <2>1. ProcessPacket(c) = [cuda |-> Respond(c, <<"error", "type">>), bus |-> adb]
    BY <1>6 DEF ProcessPacket, GoodPacket
  <2> QED BY <1>2, <2>1
<1> QED BY <1>3, <1>4, <1>5, <1>6 DEF GoodPacket
\* The driver negates both signals; asserts BYTEACK alone; asserts TIP.
SetEnd(c)      == Set(c, FALSE, FALSE)
SetSync(c)     == Set(c, FALSE, TRUE)
SetTip(c, ack) == Set(c, TRUE, ack)

\* The end of a transaction: TREQ is negated, the packet that came in is
\* answered and its response will be requested.
Ended(c, e) ==
  /\ CoreOk(e) /\ ~e.tip /\ ~e.byteack /\ ~e.treq /\ e.sr_int = c.sr_int /\ e.in_buf = <<>>
  /\ c.in_buf = <<>> => e.treq_timer = c.treq_timer
  /\ c.in_buf # <<>> => e.treq_timer /\ e.out_pos = 0 /\ e.out_buf # <<>>

LEMMA WriteBEnds ==
  ASSUME NEW c, CoreOk(c), c.tip \/ c.byteack, BusOk(adb), GoodPacket(c.in_buf), SetEnd(c)
  PROVE  Ended(c, cuda') /\ BusOk(adb')
<1> DEFINE c0 == [c EXCEPT !.tip = FALSE, !.byteack = FALSE]
           c1 == [c0 EXCEPT !.treq = FALSE]
           c2 == Unsynced(c1)
           p  == ProcessPacket(c2)
           e  == [p.cuda EXCEPT !.treq_timer = TRUE, !.in_buf = <<>>]
<1>1. cuda' = EndTransaction(c0).cuda /\ adb' = EndTransaction(c0).bus
  BY DEF SetEnd, Set, WriteB, CoreOk
<1>2. EndTransaction(c0) = IF c2.in_buf = <<>> THEN [cuda |-> ScheduleSrInt(c2), bus |-> adb]
                           ELSE [cuda |-> ScheduleSrInt(e), bus |-> p.bus]
  BY DEF EndTransaction
<1>3. DOMAIN c1 = CudaFields /\ c1.tip = FALSE /\ c1.byteack = FALSE /\ c1.treq = FALSE
      /\ \A f \in CudaFields \ {"tip", "byteack", "treq"} : c1[f] = c[f]
  BY DEF CoreOk, CudaFields
<1> HIDE DEF c1
<1>4. /\ DOMAIN c2 = CudaFields /\ c2.one_sec_mode \in {0, c1.one_sec_mode}
      /\ \A f \in CudaFields \ {"sync", "autopoll", "one_sec_mode", "first_pkt", "missed"} : c2[f] = c1[f]
  <2>1. CASE c1.sync
    BY <1>3, <2>1 DEF Unsynced, DisableAsync, CudaFields
  <2>2. CASE ~c1.sync
    BY <1>3, <2>2 DEF Unsynced
  <2> QED BY <2>1, <2>2
<1> HIDE DEF c2
<1>5. CoreOk(c2) /\ c2.tip = FALSE /\ c2.byteack = FALSE /\ c2.treq = FALSE /\ c2.sr_int = c.sr_int
      /\ c2.in_buf = c.in_buf /\ c2.treq_timer = c.treq_timer
  <2>1. c2.tip = FALSE /\ c2.byteack = FALSE /\ c2.treq = FALSE /\ c2.sr_int = c.sr_int
        /\ c2.in_buf = c.in_buf /\ c2.treq_timer = c.treq_timer /\ c2.shift_out = c.shift_out
        /\ c2.open_ended = c.open_ended /\ c2.out_pos = c.out_pos /\ c2.out_buf = c.out_buf
    BY <1>3, <1>4 DEF CudaFields
  <2>2. c1.one_sec_mode = c.one_sec_mode
    BY <1>3 DEF CudaFields
  <2>3. c2.one_sec_mode \in 0 .. 3
    BY <1>4, <2>2 DEF CoreOk
  <2>4. c2.out_pos \in Nat /\ IsSeq(c2.out_buf)
    BY <2>1 DEF CoreOk
  <2>5. c2.tip \in BOOLEAN /\ c2.byteack \in BOOLEAN /\ c2.treq \in BOOLEAN
    BY <2>1
  <2>6. c2.shift_out \in BOOLEAN /\ c2.sr_int \in BOOLEAN /\ c2.treq_timer \in BOOLEAN
        /\ c2.open_ended \in BOOLEAN
    BY <2>1 DEF CoreOk
  <2> QED BY <1>4, <2>1, <2>3, <2>4, <2>5, <2>6 DEF CoreOk
<1>6. CASE c.in_buf = <<>>
  <2> DEFINE d == ScheduleSrInt(c2)
  <2>1. CoreOk(d) /\ \A f \in CudaFields \ {"sr_timer"} : d[f] = c2[f]
    BY <1>5 DEF ScheduleSrInt, CoreOk, CudaFields
  <2>2. EndTransaction(c0) = [cuda |-> d, bus |-> adb]
    BY <1>2, <1>5, <1>6
  <2> HIDE DEF d
  <2>3. cuda' = d /\ adb' = adb
    BY <1>1, <2>2
  <2>4. ~d.tip /\ ~d.byteack /\ ~d.treq /\ d.sr_int = c.sr_int /\ d.in_buf = <<>>
        /\ d.treq_timer = c.treq_timer
    BY <1>5, <1>6, <2>1 DEF CudaFields
  <2> QED BY <1>6, <2>1, <2>3, <2>4 DEF Ended
<1>7. CASE c.in_buf # <<>>
  <2>1. Answered(c2, p.cuda) /\ BusOk(p.bus)
    BY <1>5, ProcessPacketIsOk
  <2> DEFINE d == ScheduleSrInt(e)
  <2> HIDE DEF p
  <2>2. /\ DOMAIN d = CudaFields /\ d.treq_timer = TRUE /\ d.in_buf = <<>>
        /\ \A f \in CudaFields \ {"sr_timer", "treq_timer", "in_buf"} : d[f] = p.cuda[f]
    BY <2>1 DEF Answered, ScheduleSrInt, CudaFields
  <2>3. EndTransaction(c0) = [cuda |-> d, bus |-> p.bus]
    BY <1>2, <1>5, <1>7
  <2> HIDE DEF d
  <2>4. /\ d.tip = c2.tip /\ d.byteack = c2.byteack /\ d.treq = c2.treq /\ d.sr_int = c2.sr_int
        /\ d.shift_out = c2.shift_out
        /\ d.out_pos = 0 /\ IsSeq(d.out_buf) /\ d.out_buf # <<>>
        /\ d.open_ended \in BOOLEAN /\ d.one_sec_mode \in 0 .. 3
    BY <2>1, <2>2 DEF Answered, CudaFields, HandshakeFields
  <2>5. CoreOk(d)
    <3>1. d.tip \in BOOLEAN /\ d.byteack \in BOOLEAN /\ d.treq \in BOOLEAN /\ d.sr_int \in BOOLEAN
          /\ d.shift_out \in BOOLEAN
      BY <1>5, <2>4 DEF CoreOk
    <3>2. d.treq_timer \in BOOLEAN
      BY <2>2
    <3>3. d.out_pos \in Nat
      BY <2>4
    <3> QED BY <2>2, <2>4, <3>1, <3>2, <3>3 DEF CoreOk
  <2>6. cuda' = d /\ adb' = p.bus
    BY <1>1, <2>3
  <2> QED BY <1>5, <1>7, <2>1, <2>2, <2>4, <2>5, <2>6 DEF Ended
<1> QED BY <1>6, <1>7

LEMMA WriteBSyncs ==
  ASSUME NEW c, CoreOk(c), c.tip \/ ~c.byteack, SetSync(c)
  PROVE  /\ adb' = adb /\ CoreOk(cuda') /\ ~cuda'.tip /\ cuda'.byteack
         /\ cuda'.in_buf = <<>> /\ cuda'.sr_int = c.sr_int /\ cuda'.out_buf = <<>>
<1> DEFINE c0 == [c EXCEPT !.tip = FALSE, !.byteack = TRUE]
           e  == EnterSync(c0)
<1>1. cuda' = e /\ adb' = adb
  BY DEF SetSync, Set, WriteB, CoreOk
<1>2. CoreOk(e) /\ ~e.tip /\ e.byteack /\ e.in_buf = <<>> /\ e.sr_int = c.sr_int /\ e.out_buf = <<>>
  BY SequencesOfBytes DEF CoreOk, CudaFields, EnterSync, ScheduleSrInt
<1> HIDE DEF e
<1> QED BY <1>1, <1>2

LEMMA WriteBSends ==
  ASSUME NEW c, CoreOk(c), NEW ack \in BOOLEAN, ~c.tip \/ ack # c.byteack,
         c.shift_out, Len(c.in_buf) < InBufSize, SetTip(c, ack)
  PROVE  /\ adb' = adb /\ CoreOk(cuda') /\ cuda'.tip
         /\ cuda'.in_buf = Append(c.in_buf, c.sr)
         /\ cuda'.sr_int = c.sr_int /\ cuda'.treq_timer = c.treq_timer
         /\ cuda'.treq = c.treq /\ cuda'.out_buf = c.out_buf /\ cuda'.open_ended = c.open_ended
<1> DEFINE c0 == [c EXCEPT !.tip = TRUE, !.byteack = ack]
           e  == ScheduleSrInt([c0 EXCEPT !.in_buf = Append(c.in_buf, c.sr)])
<1>1. DOMAIN c0 = CudaFields /\ c0.in_buf = c.in_buf /\ c0.sr = c.sr /\ c0.shift_out = c.shift_out
  BY DEF CoreOk, CudaFields
<1>2. TakeByte(c0) = e
  BY <1>1 DEF TakeByte
<1>3. cuda' = e /\ adb' = adb
  <2> HIDE DEF e
  <2> QED BY <1>1, <1>2 DEF SetTip, Set, WriteB, CoreOk
<1>4. CoreOk(e) /\ e.tip /\ e.in_buf = Append(c.in_buf, c.sr) /\ e.sr_int = c.sr_int
      /\ e.treq_timer = c.treq_timer /\ e.treq = c.treq /\ e.out_buf = c.out_buf
      /\ e.open_ended = c.open_ended
  BY DEF CoreOk, CudaFields, ScheduleSrInt
<1> HIDE DEF e
<1> QED BY <1>3, <1>4

\* A byte for the driver: the next of the packet, with TREQ negated at the last.
LEMMA WriteBReads ==
  ASSUME NEW c, CoreOk(c), NEW ack \in BOOLEAN, ~c.tip \/ ack # c.byteack, ~c.shift_out, SetTip(c, ack)
  PROVE  /\ adb' = adb /\ CoreOk(cuda') /\ cuda'.tip
         /\ cuda'.in_buf = c.in_buf /\ cuda'.open_ended = c.open_ended
         /\ cuda'.sr_int = c.sr_int /\ cuda'.treq_timer = c.treq_timer
         /\ c.out_pos < Len(c.out_buf) =>
               /\ cuda'.sr = c.out_buf[c.out_pos + 1] /\ cuda'.out_pos = c.out_pos + 1
               /\ cuda'.out_buf = c.out_buf
               /\ cuda'.treq <=> c.treq /\ (c.open_ended \/ c.out_pos + 1 < Len(c.out_buf))
         /\ c.open_ended => cuda'.out_buf = c.out_buf
<1> DEFINE c0 == [c EXCEPT !.tip = TRUE, !.byteack = ack]
           h  == OutBufHandler(c0)
           e  == ScheduleSrInt(h)
<1>1. DOMAIN c0 = CudaFields /\ c0.tip = TRUE /\ c0.byteack = ack
      /\ \A f \in CudaFields \ {"tip", "byteack"} : c0[f] = c[f]
  BY DEF CoreOk, CudaFields
<1>2. cuda' = e /\ adb' = adb
  <2>1. c0.shift_out = c.shift_out
    BY <1>1 DEF CudaFields
  <2> QED BY <2>1 DEF SetTip, Set, WriteB, CoreOk
<1> HIDE DEF c0
<1>3. CoreOk(c0) /\ c0.shift_out = c.shift_out /\ c0.in_buf = c.in_buf /\ c0.open_ended = c.open_ended
      /\ c0.sr_int = c.sr_int /\ c0.treq_timer = c.treq_timer /\ c0.out_pos = c.out_pos
      /\ c0.out_buf = c.out_buf /\ c0.treq = c.treq
  BY <1>1 DEF CoreOk, CudaFields
<1>4. /\ CoreOk(h) /\ h.tip /\ h.in_buf = c0.in_buf /\ h.open_ended = c0.open_ended
      /\ h.sr_int = c0.sr_int /\ h.treq_timer = c0.treq_timer
      /\ c0.out_pos < Len(c0.out_buf) =>
            /\ h.sr = c0.out_buf[c0.out_pos + 1] /\ h.out_pos = c0.out_pos + 1 /\ h.out_buf = c0.out_buf
            /\ h.treq <=> c0.treq /\ (c0.open_ended \/ c0.out_pos + 1 < Len(c0.out_buf))
      /\ c0.open_ended => h.out_buf = c0.out_buf
  <2>1. CASE c0.out_pos < Len(c0.out_buf)
    <3> DEFINE t == c0.treq /\ (c0.open_ended \/ c0.out_pos + 1 < Len(c0.out_buf))
    <3>1. t \in BOOLEAN
      OBVIOUS
    <3>2. h = [c0 EXCEPT !.sr = c0.out_buf[c0.out_pos + 1], !.out_pos = c0.out_pos + 1, !.treq = t]
      BY <1>1, <2>1 DEF OutBufHandler, CudaFields
    <3>3. c0.out_pos + 1 \in Nat
      BY <1>3 DEF CoreOk
    <3> HIDE DEF t, h
    <3>4. CoreOk(h) /\ h.tip /\ h.in_buf = c0.in_buf /\ h.open_ended = c0.open_ended
          /\ h.sr_int = c0.sr_int /\ h.treq_timer = c0.treq_timer /\ h.treq = t
          /\ h.sr = c0.out_buf[c0.out_pos + 1] /\ h.out_pos = c0.out_pos + 1 /\ h.out_buf = c0.out_buf
      BY <1>1, <1>3, <3>1, <3>2, <3>3 DEF CoreOk, CudaFields
    <3> QED BY <3>4 DEF t
  <2>2. CASE ~(c0.out_pos < Len(c0.out_buf)) /\ c0.open_ended
    <3>1. h = [c0 EXCEPT !.sr = "data"]
      BY <2>2 DEF OutBufHandler
    <3> HIDE DEF h
    <3> QED BY <1>1, <1>3, <2>2, <3>1 DEF CoreOk, CudaFields
  <2>3. CASE ~(c0.out_pos < Len(c0.out_buf)) /\ ~c0.open_ended
    <3>1. h = [c0 EXCEPT !.out_buf = <<>>, !.treq = FALSE]
      BY <2>3 DEF OutBufHandler
    <3> HIDE DEF h
    <3> QED BY <1>1, <1>3, <2>3, <3>1, SequencesOfBytes DEF CoreOk, CudaFields
  <2> QED BY <2>1, <2>2, <2>3
<1> HIDE DEF h
<1>5. CoreOk(e) /\ \A f \in CudaFields \ {"sr_timer"} : e[f] = h[f]
  BY <1>4 DEF CoreOk, CudaFields, ScheduleSrInt
<1> HIDE DEF e
<1>6. e.tip = h.tip /\ e.in_buf = h.in_buf /\ e.open_ended = h.open_ended /\ e.sr_int = h.sr_int
      /\ e.treq_timer = h.treq_timer /\ e.sr = h.sr /\ e.out_pos = h.out_pos /\ e.out_buf = h.out_buf
      /\ e.treq = h.treq
  BY <1>5 DEF CudaFields
<1> QED BY <1>2, <1>3, <1>4, <1>5, <1>6
\* One more byte sent.
LEMMA AppendByte ==
  ASSUME NEW s, IsSeq(s), NEW x
  PROVE  /\ IsSeq(Append(s, x)) /\ Len(s) \in Nat /\ Len(Append(s, x)) = Len(s) + 1
         /\ \A i \in 1 .. Len(s) : Append(s, x)[i] = s[i]
         /\ Append(s, x)[Len(s) + 1] = x
<1>1. PICK S : s \in Seq(S)
  BY DEF IsSeq
<1> DEFINE T == S \cup {x}
<1>2. s \in Seq(T) /\ x \in T
  BY <1>1
<1> HIDE DEF T
<1> QED BY <1>2, AppendProperties, LenProperties DEF IsSeq

\* One more byte fetched.
LEMMA NextByte ==
  ASSUME NEW b, IsSeq(b), NEW pos \in Nat, pos < Len(b)
  PROVE  /\ Len(b) \in Nat
         /\ IsSeq(SubSeq(b, 1, pos)) /\ (pos = 0 => SubSeq(b, 1, pos) = <<>>)
         /\ Append(SubSeq(b, 1, pos), b[pos + 1]) = SubSeq(b, 1, pos + 1)
<1>1. PICK S : b \in Seq(S)
  BY DEF IsSeq
<1>2. Len(b) \in Nat /\ \A i \in 1 .. Len(b) : b[i] \in S
  BY <1>1
<1> DEFINE s == SubSeq(b, 1, pos)
           t == SubSeq(b, 1, pos + 1)
           a == Append(s, b[pos + 1])
<1>3. /\ s \in Seq(S) /\ Len(s) = pos /\ \A i \in 1 .. pos : s[i] = b[i]
      /\ t \in Seq(S) /\ Len(t) = pos + 1 /\ \A i \in 1 .. pos + 1 : t[i] = b[i]
  <2>1. 1 \in 1 .. Len(b) + 1 /\ pos \in 0 .. Len(b) /\ pos + 1 \in 0 .. Len(b)
    BY <1>2
  <2> QED BY <1>1, <1>2, <2>1, SubSeqProperties
<1>4. pos + 1 \in 1 .. Len(b) /\ b[pos + 1] \in S
  BY <1>2
<1> HIDE DEF s, t
<1>5. a \in Seq(S) /\ Len(a) = pos + 1 /\ (\A i \in 1 .. pos : a[i] = s[i]) /\ a[pos + 1] = b[pos + 1]
  BY <1>3, <1>4, AppendProperties
<1> HIDE DEF a
<1>6. \A i \in 1 .. pos + 1 : a[i] = t[i]
  <2> SUFFICES ASSUME NEW i \in 1 .. pos + 1 PROVE a[i] = t[i]
    OBVIOUS
  <2>1. i \in 1 .. pos \/ i = pos + 1
    OBVIOUS
  <2> QED BY <1>3, <1>5, <2>1
<1>7. a = t
  BY <1>3, <1>5, <1>6, SeqEqual
<1>8. pos = 0 => s = <<>>
  BY <1>3
<1>9. IsSeq(s)
  BY <1>3 DEF IsSeq
<1> QED BY <1>2, <1>7, <1>8, <1>9 DEF s, t, a

\* The driver's accesses to the shift register.
LEMMA SrAccess ==
  ASSUME CoreOk(cuda)
  PROVE  /\ CoreOk(ReadSr) /\ ~ReadSr.shift_out /\ ~ReadSr.sr_int
         /\ \A f \in CudaFields \ {"shift_out", "sr_int"} : ReadSr[f] = cuda[f]
         /\ \A x : /\ CoreOk(Write(x)) /\ Write(x).shift_out /\ ~Write(x).sr_int /\ Write(x).sr = x
                   /\ \A f \in CudaFields \ {"shift_out", "sr_int", "sr"} : Write(x)[f] = cuda[f]
<1>1. /\ CoreOk(ReadSr) /\ ~ReadSr.shift_out /\ ~ReadSr.sr_int
      /\ \A f \in CudaFields \ {"shift_out", "sr_int"} : ReadSr[f] = cuda[f]
  BY DEF CoreOk, CudaFields, ReadSr
<1>2. ASSUME NEW x
      PROVE  /\ CoreOk(Write(x)) /\ Write(x).shift_out /\ ~Write(x).sr_int /\ Write(x).sr = x
             /\ \A f \in CudaFields \ {"shift_out", "sr_int", "sr"} : Write(x)[f] = cuda[f]
  BY DEF CoreOk, CudaFields, Write
<1> QED BY <1>1, <1>2

\* What every step keeps but for Cuda and the driver.
StepOk == HandshakeOk(cuda', drv') /\ BusOk(adb') /\ typed' \in Nat

USE DEF HandshakeOk

LEMMA TimersOk ==
  ASSUME CudaInv, TreqTimer \/ SrTimer
  PROVE  StepOk
<1>1. CoreOk(cuda) /\ drv' = drv /\ adb' = adb /\ typed' = typed
  BY DEF CudaInv, TreqTimer, SrTimer, adbVars
<1>2. /\ CoreOk(cuda') /\ DOMAIN cuda' = DOMAIN cuda
      /\ cuda.treq => cuda'.treq
      /\ cuda'.treq => cuda.treq \/ cuda.treq_timer
      /\ cuda'.treq_timer => cuda.treq_timer
      /\ cuda.treq_timer => cuda'.treq \/ cuda'.treq_timer
      /\ cuda'.sr_int => cuda.sr_int \/ ~cuda.treq_timer
      /\ cuda.treq_timer \/ cuda'.treq = cuda.treq
      /\ \A f \in CudaFields \ {"treq", "treq_timer", "sr_timer", "sr_int"} : cuda'[f] = cuda[f]
  <2>1. CASE TreqTimer
    BY <1>1, <2>1 DEF TreqTimer, CoreOk, CudaFields
  <2>2. CASE SrTimer
    BY <1>1, <2>2 DEF SrTimer, CoreOk, CudaFields
  <2> QED BY <2>1, <2>2
<1>3. cuda'.tip = cuda.tip /\ cuda'.byteack = cuda.byteack /\ cuda'.out_pos = cuda.out_pos
      /\ cuda'.out_buf = cuda.out_buf /\ cuda'.in_buf = cuda.in_buf /\ cuda'.shift_out = cuda.shift_out
      /\ cuda'.sr = cuda.sr /\ cuda'.open_ended = cuda.open_ended
  BY <1>2 DEF CudaFields
<1>4. SignalsOk(cuda', drv')
  BY <1>1, <1>2, <1>3 DEF CudaInv, SignalsOk
<1>5. RequestOk(cuda', drv')
  BY <1>1, <1>2, <1>3 DEF CudaInv, RequestOk
<1>6. SendingOk(cuda', drv')
  BY <1>1, <1>3 DEF CudaInv, SendingOk
<1>7. ReadingOk(cuda', drv')
  <2>1. drv.phase = "reading" => ~cuda.treq_timer
    BY DEF CudaInv, SignalsOk
  <2> QED BY <1>1, <1>2, <1>3, <2>1 DEF CudaInv, ReadingOk
<1> QED BY <1>1, <1>2, <1>4, <1>5, <1>6, <1>7 DEF CudaInv, StepOk
\* A packet is prepared only between transactions, and requested at once.
LEMMA AutopollOk ==
  ASSUME CudaInv, AutopollHandler
  PROVE  StepOk
<1> DEFINE poll == IF cuda.autopoll THEN PollBus(adb) ELSE NoAnswer(adb)
           pkt  == <<"adb", "polled">> \o poll.out
           sec  == OneSecPacket(cuda)
<1>1. /\ CoreOk(cuda) /\ ~cuda.tip /\ drv' = drv /\ typed' = typed /\ DOMAIN cuda = CudaFields
      /\ cuda.one_sec_mode \in 0 .. 3
  BY DEF CudaInv, AutopollHandler, CoreOk
<1>2. AnswerOk(poll)
  BY BusAnswersOk DEF CudaInv
<1> HIDE DEF poll
<1>3. \/ poll.ok /\ cuda' = Attention(Respond(cuda, pkt)) /\ adb' = poll.bus
      \/ cuda' = [cuda EXCEPT !.missed = TRUE] /\ adb' = adb
      \/ /\ adb' = adb /\ cuda.one_sec_mode # 0
         /\ cuda' = Attention([Respond(cuda, sec) EXCEPT !.first_pkt = FALSE, !.missed = FALSE,
                                                         !.last_time = real_time])
  BY DEF AutopollHandler, poll
<1>4. IsSeq(pkt) /\ pkt # <<>>
  BY <1>2, SequencesOfBytes DEF AnswerOk
<1> HIDE DEF pkt, sec
<1>5. CASE cuda' = [cuda EXCEPT !.missed = TRUE] /\ adb' = adb
  <2>1. CoreOk(cuda') /\ \A f \in CudaFields \ {"missed"} : cuda'[f] = cuda[f]
    BY <1>1, <1>5 DEF CoreOk, CudaFields
  <2>2. cuda'.tip = cuda.tip /\ cuda'.byteack = cuda.byteack /\ cuda'.out_pos = cuda.out_pos
        /\ cuda'.out_buf = cuda.out_buf /\ cuda'.in_buf = cuda.in_buf /\ cuda'.shift_out = cuda.shift_out
        /\ cuda'.sr = cuda.sr /\ cuda'.open_ended = cuda.open_ended /\ cuda'.treq = cuda.treq
        /\ cuda'.treq_timer = cuda.treq_timer /\ cuda'.sr_int = cuda.sr_int
    BY <2>1 DEF CudaFields
  <2>3. SignalsOk(cuda', drv') /\ RequestOk(cuda', drv')
    BY <1>1, <2>2 DEF CudaInv, SignalsOk, RequestOk
  <2>4. SendingOk(cuda', drv') /\ ReadingOk(cuda', drv')
    BY <1>1, <2>2 DEF CudaInv, SendingOk, ReadingOk
  <2> QED BY <1>1, <1>5, <2>1, <2>3, <2>4 DEF CudaInv, StepOk
<1>6. ASSUME NEW e, Answered(cuda, e), cuda' = Attention(e), BusOk(adb')
      PROVE  StepOk
  <2>1. /\ DOMAIN cuda' = CudaFields /\ cuda'.treq = TRUE
        /\ \A f \in CudaFields \ {"treq", "sr_timer"} : cuda'[f] = e[f]
    BY <1>6 DEF Answered, Attention, ScheduleSrInt, CudaFields
  <2>2. /\ cuda'.tip = cuda.tip /\ cuda'.byteack = cuda.byteack /\ cuda'.in_buf = cuda.in_buf
        /\ cuda'.shift_out = cuda.shift_out /\ cuda'.sr = cuda.sr
        /\ cuda'.treq_timer = cuda.treq_timer /\ cuda'.sr_int = cuda.sr_int
        /\ cuda'.out_pos = 0 /\ IsSeq(cuda'.out_buf) /\ cuda'.out_buf # <<>>
        /\ cuda'.open_ended \in BOOLEAN /\ cuda'.one_sec_mode \in 0 .. 3
    BY <1>6, <2>1 DEF Answered, CudaFields, HandshakeFields
  <2>3. CoreOk(cuda')
    <3>1. cuda'.treq \in BOOLEAN
      BY <2>1
    <3>2. cuda'.out_pos \in Nat
      BY <2>2
    <3>3. cuda'.tip \in BOOLEAN /\ cuda'.byteack \in BOOLEAN /\ cuda'.shift_out \in BOOLEAN
          /\ cuda'.treq_timer \in BOOLEAN /\ cuda'.sr_int \in BOOLEAN
      BY <1>1, <2>2 DEF CoreOk
    <3> QED BY <2>1, <2>2, <3>1, <3>2, <3>3 DEF CoreOk
  <2>4. SignalsOk(cuda', drv') /\ RequestOk(cuda', drv')
    BY <1>1, <2>1, <2>2 DEF CudaInv, SignalsOk, RequestOk
  <2>5. SendingOk(cuda', drv')
    BY <1>1, <2>2 DEF CudaInv, SendingOk
  <2>6. drv.phase # "reading"
    BY <1>1 DEF CudaInv, SignalsOk
  <2>7. ReadingOk(cuda', drv')
    BY <1>1, <2>6 DEF CudaInv, ReadingOk
  <2> QED BY <1>1, <1>6, <2>3, <2>4, <2>5, <2>7 DEF CudaInv, StepOk
<1>7. CASE poll.ok /\ cuda' = Attention(Respond(cuda, pkt)) /\ adb' = poll.bus
  <2>1. Answered(cuda, Respond(cuda, pkt))
    BY <1>1, <1>4, RespondIsOk
  <2> QED BY <1>2, <1>6, <1>7, <2>1 DEF AnswerOk
<1>8. CASE /\ adb' = adb /\ cuda.one_sec_mode # 0
           /\ cuda' = Attention([Respond(cuda, sec) EXCEPT !.first_pkt = FALSE, !.missed = FALSE,
                                                           !.last_time = real_time])
  <2>1. sec \in {<<"pseudo", "second", "time">>, <<"pseudo", "second">>, <<"tick">>}
    <3>1. cuda.one_sec_mode \in {1, 2, 3}
      BY <1>1, <1>8
    <3> QED BY <3>1 DEF OneSecPacket, sec
  <2>2. IsSeq(sec) /\ sec # <<>>
    BY <2>1, SequencesOfBytes
  <2> DEFINE r == Respond(cuda, sec)
             e == [r EXCEPT !.first_pkt = FALSE, !.missed = FALSE, !.last_time = real_time]
  <2>3. Answered(cuda, r)
    BY <1>1, <2>2, RespondIsOk
  <2> HIDE DEF r
  <2>4. Answered(cuda, e)
    BY <2>3 DEF Answered, CudaFields, HandshakeFields
  <2>5. cuda' = Attention(e)
    BY <1>8 DEF r
  <2> HIDE DEF e
  <2>6. BusOk(adb')
    BY <1>8 DEF CudaInv
  <2> QED BY <1>6, <2>4, <2>5, <2>6
<1> QED BY <1>3, <1>5, <1>7, <1>8

LEMMA HostEventsOk ==
  ASSUME CudaInv, Clock \/ KeyPress \/ MouseMove \/ UNCHANGED cudaVars
  PROVE  StepOk
<1>1. HandshakeOk(cuda', drv')
  <2>1. cuda' = cuda /\ drv' = drv
    BY DEF Clock, KeyPress, MouseMove, cudaVars
  <2> QED BY <2>1 DEF CudaInv
<1>2. BusOk(adb') /\ typed' \in Nat
  <2>1. CASE Clock \/ UNCHANGED cudaVars
    BY <2>1 DEF Clock, cudaVars, adbVars, CudaInv
  <2>2. CASE KeyPress
    <3>1. PICK d \in Keyboards : adb' = KeyEvent(adb, d, typed + 1)
      BY <2>2 DEF KeyPress
    <3>2. d \in AdbDevs /\ typed + 1 \in Nat /\ typed' = typed + 1
      BY <2>2, BusAssumption DEF KeyPress, CudaInv
    <3>3. Append(adb[d].data, typed + 1) \in Seq(Nat)
      BY <3>2, AppendProperties DEF CudaInv, BusOk
    <3> QED BY <3>1, <3>2, <3>3 DEF CudaInv, BusOk, KeyEvent
  <2>3. CASE MouseMove
    <3>1. PICK d \in AdbDevs \ Keyboards : adb' = MouseEvent(adb, d)
      BY <2>3 DEF MouseMove
    <3>2. typed' = typed /\ <<0>> \in Seq(Nat)
      BY <2>3 DEF MouseMove
    <3> QED BY <3>1, <3>2 DEF CudaInv, BusOk, MouseEvent
  <2> QED BY <2>1, <2>2, <2>3
<1> QED BY <1>1, <1>2 DEF StepOk
LEMMA DrvPrepareOk ==
  ASSUME CudaInv, DrvPrepare
  PROVE  StepOk
<1>1. PICK cmd \in CudaCommands : /\ cuda' = Write(cmd[1])
                                  /\ drv' = [drv EXCEPT !.phase = "armed", !.cmd = cmd]
  BY DEF DrvPrepare
<1>2. /\ CoreOk(cuda') /\ cuda'.shift_out /\ ~cuda'.sr_int /\ cuda'.sr = cmd[1]
      /\ \A f \in CudaFields \ {"shift_out", "sr_int", "sr"} : cuda'[f] = cuda[f]
  BY <1>1, SrAccess DEF CudaInv
<1>3. cuda'.tip = cuda.tip /\ cuda'.byteack = cuda.byteack /\ cuda'.treq = cuda.treq
      /\ cuda'.treq_timer = cuda.treq_timer /\ cuda'.in_buf = cuda.in_buf
  BY <1>2 DEF CudaFields
<1>4. drv.phase = "idle" /\ ~cuda.treq /\ adb' = adb /\ typed' = typed
  BY DEF DrvPrepare, adbVars
<1>5. DrvOk(drv') /\ drv'.phase = "armed" /\ drv'.cmd = cmd /\ drv'.got = drv.got
  BY <1>1 DEF CudaInv, DrvOk
<1>6. SignalsOk(cuda', drv') /\ RequestOk(cuda', drv')
  BY <1>2, <1>3, <1>4, <1>5 DEF CudaInv, SignalsOk, RequestOk
<1>7. SendingOk(cuda', drv') /\ ReadingOk(cuda', drv')
  BY <1>2, <1>3, <1>4, <1>5 DEF CudaInv, SendingOk, ReadingOk
<1> QED BY <1>2, <1>4, <1>5, <1>6, <1>7 DEF CudaInv, StepOk

LEMMA DrvFirstByteOk ==
  ASSUME CudaInv, DrvFirstByte
  PROVE  StepOk
<1>1. drv.phase = "armed" /\ drv' = [drv EXCEPT !.phase = "sending", !.sent = 1] /\ typed' = typed
      /\ SetTip(cuda, FALSE)
  BY DEF DrvFirstByte, SetTip
<1>2. PICK c : c = cuda
  OBVIOUS
<1>3. /\ CoreOk(c) /\ ~c.tip /\ c.shift_out /\ c.in_buf = <<>> /\ c.sr = drv.cmd[1]
      /\ drv.cmd \in CudaCommands /\ ~c.treq_timer
  BY <1>1, <1>2 DEF CudaInv, SendingOk, SignalsOk
<1>4. Len(drv.cmd) \in 1 .. InBufSize /\ InBufSize \in Nat
  BY <1>3, CudaAssumption
<1>5. Len(c.in_buf) < InBufSize
  BY <1>3, <1>4
<1>6. /\ adb' = adb /\ CoreOk(cuda') /\ cuda'.tip
      /\ cuda'.in_buf = Append(c.in_buf, c.sr)
      /\ cuda'.sr_int = c.sr_int /\ cuda'.treq_timer = c.treq_timer
  <2>1. SetTip(c, FALSE)
    BY <1>1, <1>2
  <2>2. PICK ack \in BOOLEAN : ack = FALSE
    OBVIOUS
  <2>3. SetTip(c, ack)
    BY <2>1, <2>2
  <2> QED BY <1>3, <1>5, <2>3, WriteBSends
<1>7. DrvOk(drv') /\ drv'.phase = "sending" /\ drv'.cmd = drv.cmd /\ drv'.sent = 1 /\ drv'.got = drv.got
  BY <1>1 DEF CudaInv, DrvOk
<1>8. IsSeq(cuda'.in_buf) /\ Len(cuda'.in_buf) = 1 /\ cuda'.in_buf[1] = drv.cmd[1]
  <2>1. cuda'.in_buf = <<drv.cmd[1]>>
    BY <1>3, <1>6
  <2> QED BY <2>1, SequencesOfBytes
<1>9. SignalsOk(cuda', drv') /\ RequestOk(cuda', drv')
  BY <1>3, <1>6, <1>7 DEF SignalsOk, RequestOk
<1>10. SendingOk(cuda', drv')
  BY <1>3, <1>4, <1>7, <1>8 DEF SendingOk
<1>11. ReadingOk(cuda', drv')
  BY <1>1, <1>7 DEF CudaInv, ReadingOk
<1> QED BY <1>1, <1>6, <1>7, <1>9, <1>10, <1>11 DEF CudaInv, StepOk

\* The driver ends a transaction and then has nothing to fetch but the response
\* to what it sent.
LEMMA EndingOk ==
  ASSUME CudaInv, cuda.sr_int, drv.phase \in {"sending", "reading", "syncing"}, SetEnd(ReadSr),
         GoodPacket(cuda.in_buf), typed' = typed, DrvOk(drv'), drv'.got = <<>>,
         drv'.phase = "ending" \/ (drv'.phase = "awaiting" /\ cuda.in_buf # <<>>)
  PROVE  StepOk
<1>1. PICK c : c = ReadSr
  OBVIOUS
<1>2. /\ CoreOk(c) /\ ~c.sr_int /\ c.tip = cuda.tip /\ c.byteack = cuda.byteack /\ c.in_buf = cuda.in_buf
      /\ c.treq_timer = cuda.treq_timer
  BY <1>1, SrAccess DEF CudaInv, CudaFields
<1>3. (c.tip \/ c.byteack) /\ ~c.treq_timer
  BY <1>2 DEF CudaInv, SignalsOk
<1>4. SetEnd(c)
  BY <1>1
<1>5. Ended(c, cuda') /\ BusOk(adb')
  BY <1>2, <1>3, <1>4, WriteBEnds DEF CudaInv
<1>6. CoreOk(cuda')
  BY <1>5 DEF Ended
<1>7. SignalsOk(cuda', drv')
  BY <1>2, <1>5 DEF Ended, SignalsOk
<1>8. RequestOk(cuda', drv')
  BY <1>2, <1>3, <1>5 DEF Ended, RequestOk
<1>9. SendingOk(cuda', drv') /\ ReadingOk(cuda', drv')
  BY <1>5 DEF Ended, SendingOk, ReadingOk
<1> QED BY <1>5, <1>6, <1>7, <1>8, <1>9 DEF CudaInv, StepOk

LEMMA DrvSendOk ==
  ASSUME CudaInv, DrvSend
  PROVE  StepOk
<1>1. drv.phase = "sending" /\ cuda.sr_int /\ typed' = typed
  BY DEF DrvSend
<1>2. /\ drv.cmd \in CudaCommands /\ drv.sent \in 1 .. Len(drv.cmd)
      /\ IsSeq(cuda.in_buf) /\ Len(cuda.in_buf) = drv.sent
      /\ \A i \in 1 .. drv.sent : cuda.in_buf[i] = drv.cmd[i]
  BY <1>1 DEF CudaInv, SendingOk
<1>3. Len(drv.cmd) \in 1 .. InBufSize /\ InBufSize \in Nat
  BY <1>2, CudaAssumption
<1>4. cuda.in_buf # <<>>
  BY <1>2, <1>3
<1>5. drv.got = <<>> /\ DOMAIN drv = {"phase", "cmd", "sent", "got", "keys"}
  BY <1>1 DEF CudaInv, ReadingOk, DrvOk
<1>6. CASE cuda.treq /\ drv.sent = 1
  <2>1. SetEnd(ReadSr) /\ drv' = [drv EXCEPT !.phase = "ending", !.cmd = <<>>, !.sent = 0]
    BY <1>6 DEF DrvSend, SetEnd
  <2>2. DrvOk(drv') /\ drv'.phase = "ending" /\ drv'.got = <<>>
    BY <1>5, <2>1 DEF DrvOk
  <2>3. GoodPacket(cuda.in_buf)
    BY <1>2, <1>6 DEF GoodPacket
  <2> QED BY <1>1, <2>1, <2>2, <2>3, EndingOk
<1>7. CASE ~(cuda.treq /\ drv.sent = 1) /\ drv.sent < Len(drv.cmd)
  <2>1. SetTip(Write(drv.cmd[drv.sent + 1]), ~cuda.byteack) /\ drv' = [drv EXCEPT !.sent = @ + 1]
    BY <1>7 DEF DrvSend, SetTip
  <2>2. PICK x : x = drv.cmd[drv.sent + 1]
    OBVIOUS
  <2>3. PICK c : c = Write(x)
    OBVIOUS
  <2>4. PICK ack \in BOOLEAN : ack = ~cuda.byteack
    OBVIOUS
  <2>5. SetTip(c, ack)
    BY <2>1, <2>2, <2>3, <2>4
  <2>6. /\ CoreOk(c) /\ c.shift_out /\ ~c.sr_int /\ c.sr = x /\ c.byteack = cuda.byteack
        /\ c.in_buf = cuda.in_buf /\ c.treq_timer = cuda.treq_timer
    BY <2>3, SrAccess DEF CudaInv, CudaFields
  <2>7. ack # c.byteack /\ Len(c.in_buf) < InBufSize
    <3>1. ack # c.byteack
      BY <2>4, <2>6 DEF CoreOk
    <3>2. Len(c.in_buf) < InBufSize
      BY <1>2, <1>3, <1>7, <2>6
    <3> QED BY <3>1, <3>2
  <2>8. /\ adb' = adb /\ CoreOk(cuda') /\ cuda'.tip
        /\ cuda'.in_buf = Append(c.in_buf, c.sr)
        /\ cuda'.sr_int = c.sr_int /\ cuda'.treq_timer = c.treq_timer
    BY <2>5, <2>6, <2>7, WriteBSends
  <2>9. /\ DrvOk(drv') /\ drv'.phase = "sending" /\ drv'.cmd = drv.cmd /\ drv'.sent = drv.sent + 1
        /\ drv'.got = <<>>
    BY <1>1, <1>5, <2>1 DEF DrvOk
  <2>10. /\ IsSeq(cuda'.in_buf) /\ Len(cuda'.in_buf) = drv.sent + 1
         /\ \A i \in 1 .. drv.sent : cuda'.in_buf[i] = cuda.in_buf[i]
         /\ cuda'.in_buf[drv.sent + 1] = x
    <3>1. cuda'.in_buf = Append(cuda.in_buf, x)
      BY <2>6, <2>8
    <3> QED BY <1>2, <3>1, AppendByte
  <2>11. \A i \in 1 .. drv.sent + 1 : cuda'.in_buf[i] = drv.cmd[i]
    <3> SUFFICES ASSUME NEW i \in 1 .. drv.sent + 1 PROVE cuda'.in_buf[i] = drv.cmd[i]
      OBVIOUS
    <3>1. i \in 1 .. drv.sent \/ i = drv.sent + 1
      BY <1>2, <1>3
    <3> QED BY <1>2, <2>2, <2>10, <3>1
  <2>12. SendingOk(cuda', drv')
    <3>1. drv.sent + 1 \in 1 .. Len(drv.cmd)
      BY <1>2, <1>3, <1>7
    <3> QED BY <1>2, <2>9, <2>10, <2>11, <3>1 DEF SendingOk
  <2>13. ~cuda.treq_timer
    BY <1>1 DEF CudaInv, SignalsOk
  <2>14. SignalsOk(cuda', drv') /\ RequestOk(cuda', drv')
    BY <2>6, <2>8, <2>9, <2>13 DEF SignalsOk, RequestOk
  <2>15. ReadingOk(cuda', drv')
    BY <2>9 DEF ReadingOk
  <2> QED BY <1>1, <2>8, <2>9, <2>12, <2>14, <2>15 DEF CudaInv, StepOk
<1>8. CASE ~(cuda.treq /\ drv.sent = 1) /\ ~(drv.sent < Len(drv.cmd))
  <2>1. SetEnd(ReadSr) /\ drv' = [drv EXCEPT !.phase = "awaiting", !.sent = 0]
    BY <1>8 DEF DrvSend, SetEnd
  <2>2. DrvOk(drv') /\ drv'.phase = "awaiting" /\ drv'.got = <<>>
    BY <1>5, <2>1 DEF DrvOk
  <2>3. GoodPacket(cuda.in_buf)
    <3>1. drv.sent = Len(drv.cmd) /\ drv.sent \in Nat
      BY <1>2, <1>3, <1>8
    <3>2. drv.sent >= 2 /\ cuda.in_buf[1] = "adb" => KnownCommand(cuda.in_buf[2])
      BY <1>2, <3>1, CudaAssumption DEF KnownCommand
    <3>3. drv.sent >= 2 /\ cuda.in_buf[1] = "pseudo" /\ cuda.in_buf[2] = "one_sec" => cuda.in_buf[3] \in 0 .. 3
      BY <1>2, <3>1, CudaAssumption, SMTT(40)
    <3> QED BY <1>2, <3>1, <3>2, <3>3 DEF GoodPacket
  <2> QED BY <1>1, <1>4, <2>1, <2>2, <2>3, EndingOk
<1> QED BY <1>6, <1>7, <1>8
LEMMA DrvAttentionOk ==
  ASSUME CudaInv, DrvAttention
  PROVE  StepOk
<1>1. drv.phase \in {"idle", "awaiting", "ending"} /\ cuda.sr_int /\ typed' = typed
  BY DEF DrvAttention
<1>2. PICK c : c = ReadSr
  OBVIOUS
<1>3. /\ CoreOk(c) /\ ~c.sr_int /\ ~c.shift_out
      /\ \A f \in CudaFields \ {"shift_out", "sr_int"} : c[f] = cuda[f]
  BY <1>2, SrAccess DEF CudaInv
<1>4. /\ c.tip = cuda.tip /\ c.byteack = cuda.byteack /\ c.in_buf = cuda.in_buf /\ c.treq = cuda.treq
      /\ c.treq_timer = cuda.treq_timer /\ c.out_pos = cuda.out_pos /\ c.out_buf = cuda.out_buf
  BY <1>3 DEF CudaFields
<1>5. ~cuda.treq_timer /\ ~cuda.tip /\ ~cuda.byteack /\ cuda.in_buf = <<>> /\ drv.got = <<>>
      /\ DOMAIN drv = {"phase", "cmd", "sent", "got", "keys"}
  BY <1>1 DEF CudaInv, SignalsOk, SendingOk, ReadingOk, DrvOk
<1>6. CASE cuda.treq
  <2>1. SetTip(ReadSr, FALSE) /\ drv' = [drv EXCEPT !.phase = "reading"]
    BY <1>6 DEF DrvAttention, SetTip
  <2>2. DrvOk(drv') /\ drv'.phase = "reading" /\ drv'.got = <<>>
    BY <1>5, <2>1 DEF DrvOk
  <2>3. PICK ack \in BOOLEAN : ack = FALSE
    OBVIOUS
  <2>4. SetTip(c, ack)
    BY <1>2, <2>1, <2>3
  <2>5. /\ adb' = adb /\ CoreOk(cuda') /\ cuda'.tip
        /\ cuda'.in_buf = c.in_buf /\ cuda'.open_ended = c.open_ended
        /\ cuda'.sr_int = c.sr_int /\ cuda'.treq_timer = c.treq_timer
        /\ c.out_pos < Len(c.out_buf) =>
              /\ cuda'.sr = c.out_buf[c.out_pos + 1] /\ cuda'.out_pos = c.out_pos + 1
              /\ cuda'.out_buf = c.out_buf
              /\ cuda'.treq <=> c.treq /\ (c.open_ended \/ c.out_pos + 1 < Len(c.out_buf))
    BY <1>3, <1>4, <1>5, <2>4, WriteBReads
  <2>6. c.out_pos = 0 /\ c.out_buf # <<>>
    BY <1>1, <1>4, <1>6 DEF CudaInv, RequestOk
  <2>7. IsSeq(c.out_buf) /\ Len(c.out_buf) \in Nat /\ 0 < Len(c.out_buf)
    <3>1. PICK S : c.out_buf \in Seq(S)
      BY <1>3 DEF CoreOk, IsSeq
    <3> QED BY <2>6, <3>1 DEF IsSeq
  <2>8. Append(<<>>, c.out_buf[1]) = SubSeq(c.out_buf, 1, 1)
    <3>1. 0 \in Nat
      OBVIOUS
    <3>2. SubSeq(c.out_buf, 1, 0) = <<>> /\ Append(SubSeq(c.out_buf, 1, 0), c.out_buf[0 + 1]) = SubSeq(c.out_buf, 1, 0 + 1)
      BY <2>7, <3>1, NextByte
    <3> QED BY <3>2
  <2>9. cuda'.sr = c.out_buf[1] /\ cuda'.out_pos = 1 /\ cuda'.out_buf = c.out_buf
        /\ (cuda'.treq <=> c.open_ended \/ 1 < Len(c.out_buf))
    BY <1>4, <1>6, <2>5, <2>6, <2>7
  <2>10. ReadingOk(cuda', drv')
    <3>1. IsSeq(drv'.got)
      BY <2>2, SequencesOfBytes
    <3>2. Append(drv'.got, cuda'.sr) = SubSeq(cuda'.out_buf, 1, cuda'.out_pos)
      BY <2>2, <2>8, <2>9
    <3>3. cuda'.out_pos \in 1 .. Len(cuda'.out_buf)
      BY <2>7, <2>9
    <3>4. ~c.open_ended => (~cuda'.treq <=> cuda'.out_pos = Len(cuda'.out_buf))
      <4>1. PICK n : n = Len(c.out_buf)
        OBVIOUS
      <4>2. ~(1 < n) <=> 1 = n
        <5>1. n \in Nat /\ 0 < n
          BY <2>7, <4>1
        <5> QED BY <5>1
      <4>3. Len(cuda'.out_buf) = n /\ cuda'.out_pos = 1
        BY <2>9, <4>1
      <4> QED BY <2>9, <4>1, <4>2, <4>3
    <3> QED BY <2>2, <2>5, <3>1, <3>2, <3>3, <3>4 DEF ReadingOk
  <2>11. SignalsOk(cuda', drv') /\ RequestOk(cuda', drv') /\ SendingOk(cuda', drv')
    BY <1>3, <1>4, <1>5, <2>2, <2>5 DEF SignalsOk, RequestOk, SendingOk
  <2> QED BY <1>1, <2>2, <2>5, <2>10, <2>11 DEF CudaInv, StepOk
<1>7. CASE ~cuda.treq
  <2>1. cuda' = c /\ adb' = adb /\ drv' = [drv EXCEPT !.phase = "idle", !.cmd = <<>>]
    BY <1>2, <1>7 DEF DrvAttention
  <2>2. DrvOk(drv') /\ drv'.phase = "idle" /\ drv'.got = <<>>
    BY <1>5, <2>1 DEF DrvOk
  <2>3. SignalsOk(cuda', drv') /\ RequestOk(cuda', drv')
    BY <1>3, <1>4, <1>5, <1>7, <2>1, <2>2 DEF SignalsOk, RequestOk
  <2>4. SendingOk(cuda', drv') /\ ReadingOk(cuda', drv')
    BY <1>4, <1>5, <2>1, <2>2 DEF SendingOk, ReadingOk
  <2> QED BY <1>1, <1>3, <2>1, <2>2, <2>3, <2>4 DEF CudaInv, StepOk
<1> QED BY <1>6, <1>7

LEMMA DrvReceiveOk ==
  ASSUME CudaInv, DrvReceive
  PROVE  StepOk
<1> DEFINE got == Append(drv.got, cuda.sr)
           more == cuda.treq /\ ~(cuda.open_ended /\ Len(got) >= 2 + OpenReads)
<1>1. drv.phase = "reading" /\ cuda.sr_int /\ typed' = typed
  BY DEF DrvReceive
<1>2. CoreOk(cuda) /\ ~cuda.treq_timer /\ cuda.tip /\ cuda.in_buf = <<>>
      /\ DOMAIN drv = {"phase", "cmd", "sent", "got", "keys"}
  BY <1>1 DEF CudaInv, SignalsOk, SendingOk, DrvOk
<1>3. CASE more
  <2>1. SetTip(ReadSr, ~cuda.byteack) /\ drv' = [drv EXCEPT !.got = got]
    BY <1>3 DEF DrvReceive, SetTip
  <2> HIDE DEF got
  <2>2. DrvOk(drv') /\ drv'.phase = "reading" /\ drv'.got = got
    BY <1>1, <1>2, <2>1 DEF DrvOk
  <2>3. PICK c : c = ReadSr
    OBVIOUS
  <2>4. PICK ack \in BOOLEAN : ack = ~cuda.byteack
    OBVIOUS
  <2>5. SetTip(c, ack)
    BY <2>1, <2>3, <2>4
  <2>6. /\ CoreOk(c) /\ ~c.sr_int /\ ~c.shift_out
        /\ \A f \in CudaFields \ {"shift_out", "sr_int"} : c[f] = cuda[f]
    BY <1>2, <2>3, SrAccess
  <2>7. /\ c.byteack = cuda.byteack /\ c.in_buf = cuda.in_buf /\ c.treq = cuda.treq
        /\ c.treq_timer = cuda.treq_timer /\ c.out_pos = cuda.out_pos /\ c.out_buf = cuda.out_buf
        /\ c.open_ended = cuda.open_ended
    BY <2>6 DEF CudaFields
  <2>8. ack # c.byteack
    BY <2>4, <2>7, <1>2 DEF CoreOk
  <2>9. /\ adb' = adb /\ CoreOk(cuda') /\ cuda'.tip
        /\ cuda'.in_buf = c.in_buf /\ cuda'.open_ended = c.open_ended
        /\ cuda'.sr_int = c.sr_int /\ cuda'.treq_timer = c.treq_timer
        /\ c.out_pos < Len(c.out_buf) =>
              /\ cuda'.sr = c.out_buf[c.out_pos + 1] /\ cuda'.out_pos = c.out_pos + 1
              /\ cuda'.out_buf = c.out_buf
              /\ cuda'.treq <=> c.treq /\ (c.open_ended \/ c.out_pos + 1 < Len(c.out_buf))
    BY <2>5, <2>6, <2>8, WriteBReads
  <2>10. SignalsOk(cuda', drv') /\ RequestOk(cuda', drv') /\ SendingOk(cuda', drv')
    BY <1>2, <2>2, <2>6, <2>7, <2>9 DEF SignalsOk, RequestOk, SendingOk
  <2>11. ASSUME ~cuda.open_ended
         PROVE  /\ IsSeq(got) /\ cuda'.out_pos \in 1 .. Len(cuda'.out_buf)
                /\ Append(got, cuda'.sr) = SubSeq(cuda'.out_buf, 1, cuda'.out_pos)
                /\ ~cuda'.treq <=> cuda'.out_pos = Len(cuda'.out_buf)
    <3>1. /\ cuda.out_pos \in 1 .. Len(cuda.out_buf) /\ got = SubSeq(cuda.out_buf, 1, cuda.out_pos)
          /\ ~cuda.treq <=> cuda.out_pos = Len(cuda.out_buf)
      BY <1>1, <2>11 DEF CudaInv, ReadingOk, got
    <3>2. IsSeq(c.out_buf) /\ c.out_pos \in Nat /\ Len(c.out_buf) \in Nat
      <4>1. PICK S : c.out_buf \in Seq(S)
        BY <2>6 DEF CoreOk, IsSeq
      <4> QED BY <2>6, <4>1 DEF CoreOk
    <3>3. c.out_pos < Len(c.out_buf) /\ c.treq
      BY <1>3, <2>7, <3>1, <3>2
    <3>4. /\ IsSeq(SubSeq(c.out_buf, 1, c.out_pos))
          /\ Append(SubSeq(c.out_buf, 1, c.out_pos), c.out_buf[c.out_pos + 1]) = SubSeq(c.out_buf, 1, c.out_pos + 1)
      BY <3>2, <3>3, NextByte
    <3>5. /\ cuda'.sr = c.out_buf[c.out_pos + 1] /\ cuda'.out_pos = c.out_pos + 1
          /\ cuda'.out_buf = c.out_buf /\ (cuda'.treq <=> c.out_pos + 1 < Len(c.out_buf))
      BY <2>7, <2>9, <2>11, <3>3
    <3>6. IsSeq(got) /\ Append(got, cuda'.sr) = SubSeq(cuda'.out_buf, 1, cuda'.out_pos)
      BY <2>7, <3>1, <3>4, <3>5
    <3>7. cuda'.out_pos \in 1 .. Len(cuda'.out_buf) /\ (~cuda'.treq <=> cuda'.out_pos = Len(cuda'.out_buf))
      BY <3>2, <3>3, <3>5
    <3> QED BY <3>6, <3>7
  <2>12. ReadingOk(cuda', drv')
    BY <2>2, <2>7, <2>9, <2>11 DEF ReadingOk
  <2> QED BY <1>1, <2>2, <2>9, <2>10, <2>12 DEF CudaInv, StepOk
<1>4. CASE ~more
  <2>1. /\ SetEnd(ReadSr)
        /\ drv' = [drv EXCEPT !.phase = "ending", !.got = <<>>, !.cmd = <<>>, !.keys = @ \o KeysOf(got)]
    BY <1>4 DEF DrvReceive, SetEnd
  <2>2. DrvOk(drv') /\ drv'.phase = "ending" /\ drv'.got = <<>>
    <3> HIDE DEF got
    <3> QED BY <1>2, <2>1 DEF DrvOk
  <2>3. GoodPacket(cuda.in_buf)
    BY <1>2 DEF GoodPacket
  <2> QED BY <1>1, <2>1, <2>2, <2>3, EndingOk
<1> QED BY <1>3, <1>4

LEMMA DrvSyncOk ==
  ASSUME CudaInv, DrvSync \/ DrvSynced
  PROVE  StepOk
<1>1. typed' = typed /\ CoreOk(cuda) /\ DOMAIN drv = {"phase", "cmd", "sent", "got", "keys"}
  BY DEF DrvSync, DrvSynced, CudaInv, DrvOk
<1>2. CASE DrvSync
  <2>1. /\ drv.phase # "syncing" /\ SetSync(ReadSr)
        /\ drv' = [drv EXCEPT !.phase = "syncing", !.cmd = <<>>, !.sent = 0, !.got = <<>>]
    BY <1>2 DEF DrvSync, SetSync
  <2>2. DrvOk(drv') /\ drv'.phase = "syncing" /\ drv'.got = <<>>
    BY <1>1, <2>1 DEF DrvOk
  <2>3. PICK c : c = ReadSr
    OBVIOUS
  <2>4. CoreOk(c) /\ ~c.sr_int /\ c.tip = cuda.tip /\ c.byteack = cuda.byteack
    BY <1>1, <2>3, SrAccess DEF CudaFields
  <2>5. c.tip \/ ~c.byteack
    BY <2>1, <2>4 DEF CudaInv, SignalsOk
  <2>6. SetSync(c)
    BY <2>1, <2>3
  <2>7. /\ adb' = adb /\ CoreOk(cuda') /\ ~cuda'.tip /\ cuda'.byteack
        /\ cuda'.in_buf = <<>> /\ cuda'.sr_int = c.sr_int
    BY <2>4, <2>5, <2>6, WriteBSyncs
  <2>8. SignalsOk(cuda', drv') /\ RequestOk(cuda', drv') /\ SendingOk(cuda', drv') /\ ReadingOk(cuda', drv')
    BY <2>2, <2>4, <2>7 DEF SignalsOk, RequestOk, SendingOk, ReadingOk
  <2> QED BY <1>1, <2>2, <2>7, <2>8 DEF CudaInv, StepOk
<1>3. CASE DrvSynced
  <2>1. drv.phase = "syncing" /\ cuda.sr_int /\ SetEnd(ReadSr) /\ drv' = [drv EXCEPT !.phase = "ending"]
    BY <1>3 DEF DrvSynced, SetEnd
  <2>2. drv.got = <<>> /\ cuda.in_buf = <<>>
    BY <2>1 DEF CudaInv, ReadingOk, SendingOk
  <2>3. DrvOk(drv') /\ drv'.phase = "ending" /\ drv'.got = <<>>
    BY <1>1, <2>1, <2>2 DEF DrvOk
  <2>4. GoodPacket(cuda.in_buf)
    BY <2>2 DEF GoodPacket
  <2> QED BY <1>1, <2>1, <2>3, <2>4, EndingOk
<1> QED BY <1>2, <1>3

LEMMA CudaInvInit == CudaInit => CudaInv
<1> SUFFICES ASSUME CudaInit PROVE CudaInv
  OBVIOUS
<1>1. CoreOk(cuda)
  BY SequencesOfBytes DEF CudaInit, CoreOk, CudaFields
<1>2. SignalsOk(cuda, drv) /\ RequestOk(cuda, drv) /\ SendingOk(cuda, drv) /\ ReadingOk(cuda, drv)
  BY DEF CudaInit, SignalsOk, RequestOk, SendingOk, ReadingOk
<1>3. DrvOk(drv)
  BY DEF CudaInit, DrvOk
<1>4. BusOk(adb) /\ typed \in Nat
  <2>1. ASSUME NEW d \in AdbDevs
        PROVE  DOMAIN ResetDevice(d) = {"addr", "srq", "data"} /\ ResetDevice(d).data \in Seq(Nat)
    BY DEF ResetDevice
  <2> QED BY <2>1 DEF CudaInit, AdbInit, BusOk
<1> QED BY <1>1, <1>2, <1>3, <1>4 DEF CudaInv

LEMMA CudaInvStep == CudaInv /\ [CudaNext]_cudaVars => CudaInv'
<1> SUFFICES ASSUME CudaInv, [CudaNext]_cudaVars PROVE CudaInv'
  OBVIOUS
<1>1. StepOk
  BY TimersOk, AutopollOk, HostEventsOk, DrvPrepareOk, DrvFirstByteOk, DrvSendOk, DrvAttentionOk,
     DrvReceiveOk, DrvSyncOk DEF CudaNext, Driver
<1> QED BY <1>1 DEF StepOk, CudaInv, DrvOk, CoreOk, SignalsOk, RequestOk, SendingOk, ReadingOk, BusOk, IsSeq

LEMMA CudaAlways == CudaSpec => []CudaInv
BY CudaInvInit, CudaInvStep, PTL DEF CudaSpec

\* However timers, autopoll, one-second packets, key presses and
\* resynchronisation interleave, and whatever commands the driver sends: what
\* it has fetched is the beginning of one packet, and TREQ is negated with the
\* last byte of that (out_buf_handler, autopoll_handler).
THEOREM PacketsAreWhole == CudaSpec => []WholePacket
<1>1. CudaInv => WholePacket
  BY DEF CudaInv, ReadingOk, WholePacket
<1> QED BY <1>1, CudaAlways, PTL

\* The interrupt after a command finds TREQ asserted (process_packet, the TREQ
\* timer and schedule_sr_int).
THEOREM CommandsAreAnswered == CudaSpec => []CommandAnswered
<1>1. CudaInv => CommandAnswered
  BY DEF CudaInv, SignalsOk, RequestOk, CommandAnswered
<1> QED BY <1>1, CudaAlways, PTL
-----------------------------------------------------------------------------
(* The order of key events.  Two numbers part the events that the host saw *)
(* into those that the driver has, those of the packet it may yet fetch,   *)
(* and those the keyboard keeps; any of the second may be lost.            *)

Ordered(s, lo, hi) ==
  /\ s \in Seq(Nat) /\ lo \in Nat /\ hi \in Nat /\ lo <= hi
  /\ \A i \in 1 .. Len(s) : lo < s[i] /\ s[i] <= hi
  /\ \A i, j \in 1 .. Len(s) : i < j => s[i] < s[j]

KeptOk(bus, lo, hi) ==
  /\ lo \in Nat /\ hi \in Nat /\ lo <= hi
  /\ \A d \in Keyboards : Ordered(bus[d].data, lo, hi)
  /\ \A d \in AdbDevs \ Keyboards : bus[d].data = <<>> \/ bus[d].data = <<0>>

LEMMA OrderedEmpty ==
  ASSUME NEW lo \in Nat, NEW hi \in Nat, lo <= hi
  PROVE  Ordered(<<>>, lo, hi)
BY DEF Ordered

LEMMA OrderedConcat ==
  ASSUME NEW s, NEW t, NEW lo, NEW mid, NEW hi, Ordered(s, lo, mid), Ordered(t, mid, hi)
  PROVE  Ordered(s \o t, lo, hi)
<1>1. /\ s \in Seq(Nat) /\ t \in Seq(Nat) /\ lo \in Nat /\ mid \in Nat /\ hi \in Nat
      /\ lo <= mid /\ mid <= hi /\ Len(s) \in Nat /\ Len(t) \in Nat
  BY DEF Ordered
<1>2. /\ s \o t \in Seq(Nat) /\ Len(s \o t) = Len(s) + Len(t)
      /\ \A i \in 1 .. Len(s) + Len(t) : (s \o t)[i] = IF i <= Len(s) THEN s[i] ELSE t[i - Len(s)]
  BY <1>1, ConcatProperties
<1> DEFINE u == s \o t
<1> HIDE DEF u
<1>3. ASSUME NEW i \in 1 .. Len(s) + Len(t)
      PROVE  \/ i \in 1 .. Len(s) /\ u[i] = s[i] /\ lo < u[i] /\ u[i] <= mid
             \/ i - Len(s) \in 1 .. Len(t) /\ u[i] = t[i - Len(s)] /\ mid < u[i] /\ u[i] <= hi
  <2>1. CASE i <= Len(s)
    <3>1. i \in 1 .. Len(s) /\ u[i] = s[i]
      BY <1>1, <1>2, <2>1 DEF u
    <3> QED BY <3>1 DEF Ordered
  <2>2. CASE ~(i <= Len(s))
    <3>1. i - Len(s) \in 1 .. Len(t) /\ u[i] = t[i - Len(s)]
      BY <1>1, <1>2, <2>2 DEF u
    <3> QED BY <3>1 DEF Ordered
  <2> QED BY <2>1, <2>2
<1>4. \A i \in 1 .. Len(s) : s[i] \in Nat
  BY <1>1
<1>5. \A i \in 1 .. Len(t) : t[i] \in Nat
  BY <1>1
<1>6. ASSUME NEW i \in 1 .. Len(s) + Len(t) PROVE lo < u[i] /\ u[i] <= hi /\ u[i] \in Nat
  <2>1. u[i] \in Nat
    BY <1>3, <1>4, <1>5
  <2>2. (lo < u[i] /\ u[i] <= mid) \/ (mid < u[i] /\ u[i] <= hi)
    BY <1>3
  <2> QED BY <1>1, <2>1, <2>2
<1>7. ASSUME NEW i \in 1 .. Len(s) + Len(t), NEW j \in 1 .. Len(s) + Len(t), i < j PROVE u[i] < u[j]
  <2>1. CASE i \in 1 .. Len(s) /\ j \in 1 .. Len(s) /\ u[i] = s[i] /\ u[j] = s[j]
    BY <1>7, <2>1 DEF Ordered
  <2>2. CASE u[i] <= mid /\ mid < u[j]
    BY <1>1, <1>6, <2>2
  <2>3. CASE /\ i - Len(s) \in 1 .. Len(t) /\ j - Len(s) \in 1 .. Len(t)
             /\ u[i] = t[i - Len(s)] /\ u[j] = t[j - Len(s)]
    <3>1. i - Len(s) < j - Len(s)
      BY <1>1, <1>7
    <3> QED BY <2>3, <3>1 DEF Ordered
  <2>4. ~(i - Len(s) \in 1 .. Len(t) /\ j \in 1 .. Len(s))
    BY <1>1, <1>7
  <2> QED BY <1>3, <2>1, <2>2, <2>3, <2>4
<1> QED BY <1>1, <1>2, <1>6, <1>7 DEF Ordered, u

LEMMA OrderedSplit ==
  ASSUME NEW s, NEW lo, NEW hi, Ordered(s, lo, hi), NEW n \in 0 .. Len(s)
  PROVE  \E mid \in Nat : /\ Ordered(SubSeq(s, 1, n), lo, mid)
                          /\ Ordered(SubSeq(s, n + 1, Len(s)), mid, hi)
<1>1. s \in Seq(Nat) /\ lo \in Nat /\ hi \in Nat /\ lo <= hi /\ Len(s) \in Nat /\ n \in Nat
      /\ \A i \in 1 .. Len(s) : s[i] \in Nat
  BY DEF Ordered
<1> DEFINE a == SubSeq(s, 1, n)
           b == SubSeq(s, n + 1, Len(s))
<1>2. a \in Seq(Nat) /\ Len(a) = n /\ \A i \in 1 .. n : a[i] = s[i]
  BY <1>1, SubSeqProperties
<1>3. b \in Seq(Nat) /\ Len(b) = Len(s) - n /\ \A i \in 1 .. Len(s) - n : b[i] = s[n + i]
  <2>1. n + 1 \in 1 .. Len(s) + 1 /\ Len(s) \in n .. Len(s)
    BY <1>1
  <2>2. /\ b \in Seq(Nat)
        /\ Len(b) = IF n + 1 <= Len(s) THEN Len(s) - (n + 1) + 1 ELSE 0
        /\ \A i \in 1 .. Len(s) - (n + 1) + 1 : b[i] = s[n + 1 + i - 1]
    BY <1>1, <2>1, SubSeqProperties
  <2>3. Len(s) - (n + 1) + 1 = Len(s) - n /\ \A i \in 1 .. Len(s) - n : n + 1 + i - 1 = n + i
    BY <1>1
  <2> HIDE DEF b
  <2>4. Len(b) = Len(s) - n
    <3>1. CASE n + 1 <= Len(s)
      BY <2>2, <2>3, <3>1
    <3>2. CASE ~(n + 1 <= Len(s))
      <4>1. Len(s) - n = 0
        BY <1>1, <3>2
      <4> QED BY <2>2, <3>2, <4>1
    <3> QED BY <3>1, <3>2
  <2> QED BY <2>2, <2>3, <2>4
<1> HIDE DEF a, b
<1>4. PICK mid \in Nat : mid = IF n = 0 THEN lo ELSE s[n]
  BY <1>1
<1>5. lo <= mid /\ mid <= hi
  BY <1>1, <1>4 DEF Ordered
<1>6. ASSUME NEW i \in 1 .. n PROVE i \in 1 .. Len(s) /\ lo < s[i] /\ s[i] <= mid
  <2>1. i \in 1 .. Len(s) /\ n \in 1 .. Len(s) /\ n # 0 /\ (i < n \/ i = n)
    BY <1>1
  <2>2. lo < s[i] /\ (i < n => s[i] < s[n]) /\ s[i] \in Nat /\ s[n] \in Nat
    BY <1>1, <2>1 DEF Ordered
  <2> QED BY <1>4, <2>1, <2>2
<1>7. Ordered(a, lo, mid)
  <2>1. \A i, j \in 1 .. n : i < j => s[i] < s[j]
    BY <1>6 DEF Ordered
  <2> QED BY <1>1, <1>2, <1>5, <1>6, <2>1 DEF Ordered
<1>8. ASSUME NEW i \in 1 .. Len(s) - n PROVE n + i \in 1 .. Len(s) /\ mid < s[n + i] /\ s[n + i] <= hi
  <2>1. n + i \in 1 .. Len(s) /\ n < n + i /\ (n # 0 => n \in 1 .. Len(s))
    BY <1>1
  <2> QED BY <1>4, <2>1 DEF Ordered
<1>9. Ordered(b, mid, hi)
  <2>1. ASSUME NEW i \in 1 .. Len(s) - n, NEW j \in 1 .. Len(s) - n, i < j PROVE s[n + i] < s[n + j]
    <3>1. n + i < n + j
      BY <1>1, <2>1
    <3> QED BY <1>8, <3>1 DEF Ordered
  <2> QED BY <1>1, <1>3, <1>5, <1>8, <2>1 DEF Ordered
<1> QED BY <1>7, <1>9 DEF a, b

LEMMA OrderedAppend ==
  ASSUME NEW s, NEW lo, NEW hi, Ordered(s, lo, hi)
  PROVE  Ordered(Append(s, hi + 1), lo, hi + 1)
<1> DEFINE t == <<hi + 1>>
<1>1. s \in Seq(Nat) /\ hi \in Nat /\ hi + 1 \in Nat /\ hi <= hi + 1
  BY DEF Ordered
<1>2. t \in Seq(Nat) /\ Len(t) = 1 /\ t[1] = hi + 1
  BY <1>1
<1>3. Append(s, hi + 1) = s \o t
  BY <1>1, AppendIsConcat
<1> HIDE DEF t
<1>4. Ordered(t, hi, hi + 1)
  BY <1>1, <1>2 DEF Ordered
<1> QED BY <1>3, <1>4, OrderedConcat

\* The machines connect at most one keyboard.
OneKeyboard == \A d, e \in Keyboards : d = e

\* The key events in what a device answers.
KeysIn(out) == IF out = <<0>> THEN <<>> ELSE out

LEMMA KeysOfPacket ==
  ASSUME NEW x, NEW out \in Seq(Nat)
  PROVE  KeysOf(<<"adb", x>> \o out) = KeysIn(out)
<1> DEFINE S == Nat \cup {"adb", x}
           h == <<"adb", x>>
           p == h \o out
           t == SubSeq(p, 3, Len(p))
<1>1. h \in Seq(S) /\ out \in Seq(S) /\ Len(h) = 2 /\ h[1] = "adb" /\ Len(out) \in Nat
  OBVIOUS
<1> HIDE DEF S, h
<1>2. /\ p \in Seq(S) /\ Len(p) = 2 + Len(out)
      /\ \A i \in 1 .. 2 + Len(out) : p[i] = IF i <= 2 THEN h[i] ELSE out[i - 2]
  <2>1. /\ p \in Seq(S) /\ Len(p) = Len(h) + Len(out)
        /\ \A i \in 1 .. Len(h) + Len(out) : p[i] = IF i <= Len(h) THEN h[i] ELSE out[i - Len(h)]
    BY <1>1, ConcatProperties
  <2> HIDE DEF p
  <2> QED BY <1>1, <2>1
<1>3. p[1] = "adb"
  <2>1. 1 \in 1 .. 2 + Len(out) /\ 1 <= 2
    BY <1>1
  <2> QED BY <1>1, <1>2, <2>1
<1> HIDE DEF p
<1>4. \A i \in 3 .. Len(p) : p[i] \in S
  <2>1. \A i \in 3 .. Len(p) : i \in 1 .. Len(p)
    BY <1>1, <1>2
  <2> QED BY <1>2, <2>1
<1>5. t \in Seq(S) /\ Len(t) = (IF 3 <= Len(p) THEN Len(p) - 3 + 1 ELSE 0)
      /\ \A i \in 1 .. Len(p) - 3 + 1 : t[i] = p[3 + i - 1]
  BY <1>1, <1>2, <1>4, SubSeqProperties
<1> HIDE DEF t
<1>6. Len(t) = Len(out)
  <2>1. CASE 3 <= Len(p)
    <3>1. Len(p) - 3 + 1 = Len(out)
      BY <1>1, <1>2
    <3> QED BY <1>5, <2>1, <3>1
  <2>2. CASE ~(3 <= Len(p))
    <3>1. Len(out) = 0
      BY <1>1, <1>2, <2>2
    <3> QED BY <1>5, <2>2, <3>1
  <2> QED BY <2>1, <2>2
<1>7. \A i \in 1 .. Len(out) : t[i] = out[i]
  <2> SUFFICES ASSUME NEW i \in 1 .. Len(out) PROVE t[i] = out[i]
    OBVIOUS
  <2>1. i \in 1 .. Len(p) - 3 + 1 /\ 3 + i - 1 \in 1 .. 2 + Len(out) /\ ~(3 + i - 1 <= 2)
        /\ (3 + i - 1) - 2 = i
    BY <1>1, <1>2
  <2> QED BY <1>2, <1>5, <2>1
<1>8. t = out
  BY <1>1, <1>5, <1>6, <1>7, SeqEqual
<1>9. KeysOf(p) = IF p[1] = "adb" /\ t # <<0>> THEN t ELSE <<>>
  BY DEF KeysOf, t
<1>10. KeysOf(p) = KeysIn(out)
  BY <1>3, <1>8, <1>9 DEF KeysIn
<1> QED BY <1>10 DEF p, h

\* Of the events a bus b0 keeps, s are the first and b1 keeps the rest.
Feeds(b0, b1, s) ==
  \A lo, hi \in Nat : KeptOk(b0, lo, hi) =>
     \E mid \in Nat : Ordered(s, lo, mid) /\ KeptOk(b1, mid, hi)

LEMMA FeedsNothing ==
  ASSUME NEW b0, NEW b1, \A d \in AdbDevs : b1[d].data = b0[d].data \/ b1[d].data = <<>>
  PROVE  Feeds(b0, b1, <<>>)
<1> SUFFICES ASSUME NEW lo \in Nat, NEW hi \in Nat, KeptOk(b0, lo, hi)
             PROVE  Ordered(<<>>, lo, lo) /\ KeptOk(b1, lo, hi)
  BY DEF Feeds
<1>1. lo <= hi /\ lo <= lo
  BY DEF KeptOk
<1>2. Ordered(<<>>, lo, lo) /\ Ordered(<<>>, lo, hi)
  BY <1>1, OrderedEmpty
<1>3. Keyboards \subseteq AdbDevs
  BY BusAssumption
<1>4. ASSUME NEW d \in Keyboards PROVE Ordered(b1[d].data, lo, hi)
  BY <1>2, <1>3 DEF KeptOk
<1>5. ASSUME NEW d \in AdbDevs \ Keyboards PROVE b1[d].data = <<>> \/ b1[d].data = <<0>>
  BY DEF KeptOk
<1> QED BY <1>1, <1>2, <1>4, <1>5 DEF KeptOk

LEMMA TakenFeeds ==
  ASSUME OneKeyboard, NEW bus, BusOk(bus), NEW d \in AdbDevs
  PROVE  Feeds(bus, TakeRegister0(bus, d).bus, KeysIn(TakeRegister0(bus, d).out))
<1> DEFINE data == bus[d].data
           n    == Lesser(2, Len(data))
           rest == SubSeq(data, n + 1, Len(data))
           out  == SubSeq(data, 1, n)
           after == TakeRegister0(bus, d).bus
<1>1. data \in Seq(Nat) /\ Len(data) \in Nat
  BY DEF BusOk
<1>2. n \in 0 .. Len(data) /\ (Len(data) < 2 => n = Len(data))
  BY <1>1 DEF Lesser
<1>3. /\ TakeRegister0(bus, d).out = out /\ after[d].data = rest
      /\ \A e \in AdbDevs \ {d} : after[e] = bus[e]
  BY DEF TakeRegister0, BusOk
<1> HIDE DEF after, n
<1> SUFFICES ASSUME NEW lo \in Nat, NEW hi \in Nat, KeptOk(bus, lo, hi)
             PROVE  \E mid \in Nat : Ordered(KeysIn(out), lo, mid) /\ KeptOk(after, mid, hi)
  BY <1>3 DEF Feeds, after
<1>4. CASE d \in Keyboards
  <2>1. Ordered(data, lo, hi)
    BY <1>4 DEF KeptOk
  <2> HIDE DEF data
  <2>2. PICK mid \in Nat : Ordered(out, lo, mid) /\ Ordered(rest, mid, hi)
    BY <1>2, <2>1, OrderedSplit
  <2> HIDE DEF out, rest
  <2>3. out # <<0>>
    <3>1. out = <<0>> => Len(out) = 1 /\ out[1] = 0 /\ 1 \in 1 .. Len(out)
      OBVIOUS
    <3> QED BY <2>2, <3>1 DEF Ordered
  <2>4. KeysIn(out) = out
    BY <2>3 DEF KeysIn
  <2>5. ASSUME NEW e \in Keyboards PROVE Ordered(after[e].data, mid, hi)
    BY <1>3, <1>4, <2>2 DEF OneKeyboard
  <2>6. ASSUME NEW e \in AdbDevs \ Keyboards PROVE after[e].data = <<>> \/ after[e].data = <<0>>
    BY <1>3, <1>4 DEF KeptOk
  <2>7. mid <= hi
    BY <2>2 DEF Ordered
  <2> QED BY <2>2, <2>4, <2>5, <2>6, <2>7 DEF KeptOk
<1>5. CASE d \notin Keyboards
  <2>1. data = <<>> \/ data = <<0>>
    BY <1>5 DEF KeptOk
  <2>2. n = Len(data)
    <3>1. Len(data) < 2
      <4>1. CASE data = <<>>
        BY <4>1
      <4>2. CASE data = <<0>>
        BY <4>2
      <4> QED BY <2>1, <4>1, <4>2
    <3> QED BY <1>2, <3>1
  <2>3. rest = <<>>
    BY <1>1, <2>2, SubSeqEmpty
  <2>4. KeysIn(out) = <<>>
    <3>1. CASE data = <<>>
      <4>1. n = 0
        BY <2>2, <3>1
      <4>2. out = <<>>
        BY <4>1, SubSeqEmpty
      <4> QED BY <4>2 DEF KeysIn
    <3>2. CASE data = <<0>>
      <4>1. out = data
        BY <1>1, <2>2, SubSeqFull
      <4> QED BY <3>2, <4>1 DEF KeysIn
    <3> QED BY <2>1, <3>1, <3>2
  <2>5. Feeds(bus, after, <<>>)
    <3> HIDE DEF rest
    <3>1. \A e \in AdbDevs : after[e].data = bus[e].data \/ after[e].data = <<>>
      BY <1>3, <2>3
    <3> QED BY <3>1, FeedsNothing
  <2> QED BY <2>4, <2>5 DEF Feeds
<1> QED BY <1>4, <1>5
AnswerFeeds(bus, r) == Feeds(bus, r.bus, KeysIn(r.out))

LEMMA BusFeeds ==
  ASSUME OneKeyboard, NEW bus, BusOk(bus)
  PROVE  /\ AnswerFeeds(bus, NoAnswer(bus))
         /\ AnswerFeeds(bus, PollBus(bus))
         /\ \A c : KnownCommand(c) => AnswerFeeds(bus, ProcessCommand(bus, c))
<1>1. ASSUME NEW b, \A d \in AdbDevs : b[d].data = bus[d].data \/ b[d].data = <<>>
      PROVE  /\ AnswerFeeds(bus, NoAnswer(b)) /\ AnswerFeeds(bus, [NoAnswer(b) EXCEPT !.ok = TRUE])
             /\ \A addr : AnswerFeeds(bus, Answer([out |-> <<0>>, bus |-> b], addr))
  <2>1. Feeds(bus, b, <<>>)
    BY <1>1, FeedsNothing
  <2>2. KeysIn(<<>>) = <<>> /\ KeysIn(<<0>>) = <<>>
    BY DEF KeysIn
  <2>3. NoAnswer(b).bus = b /\ NoAnswer(b).out = <<>>
    BY DEF NoAnswer
  <2>4. [NoAnswer(b) EXCEPT !.ok = TRUE].bus = b /\ [NoAnswer(b) EXCEPT !.ok = TRUE].out = <<>>
    BY DEF NoAnswer
  <2>5. ASSUME NEW addr
        PROVE  /\ Answer([out |-> <<0>>, bus |-> b], addr).bus = b
               /\ Answer([out |-> <<0>>, bus |-> b], addr).out = <<0>>
    BY DEF Answer
  <2> QED BY <2>1, <2>2, <2>3, <2>4, <2>5 DEF AnswerFeeds
<1>2. ASSUME NEW d \in AdbDevs, NEW addr PROVE AnswerFeeds(bus, Answer(TakeRegister0(bus, d), addr))
  <2>1. /\ Answer(TakeRegister0(bus, d), addr).bus = TakeRegister0(bus, d).bus
        /\ Answer(TakeRegister0(bus, d), addr).out = TakeRegister0(bus, d).out
    BY DEF Answer
  <2> QED BY <2>1, TakenFeeds DEF AnswerFeeds
<1>3. AnswerFeeds(bus, PollBus(bus))
  <2> DEFINE ready == {d \in AdbDevs : bus[d].srq /\ bus[d].data # <<>>}
  <2>1. ready # {} => FirstOf(ready) \in AdbDevs
    BY FirstOfIsMember
  <2> HIDE DEF ready
  <2>2. PollBus(bus) = IF ready = {} THEN NoAnswer(bus)
                       ELSE Answer(TakeRegister0(bus, FirstOf(ready)), bus[FirstOf(ready)].addr)
    BY DEF PollBus, ready
  <2> QED BY <1>1, <1>2, <2>1, <2>2
<1>4. ASSUME NEW addr, NEW reg PROVE AnswerFeeds(bus, Talk(bus, addr, reg))
  <2> DEFINE there == {d \in AdbDevs : bus[d].addr = addr /\ (reg = 0 => bus[d].data # <<>>)}
  <2>1. there # {} => FirstOf(there) \in AdbDevs
    BY FirstOfIsMember
  <2> HIDE DEF there
  <2>2. Talk(bus, addr, reg) = IF there = {} THEN NoAnswer(bus)
                               ELSE IF reg = 0 THEN Answer(TakeRegister0(bus, FirstOf(there)), addr)
                               ELSE Answer([out |-> <<0>>, bus |-> bus], addr)
    BY DEF Talk, there
  <2> QED BY <1>1, <1>2, <2>1, <2>2
<1>5. ASSUME NEW c, KnownCommand(c) PROVE AnswerFeeds(bus, ProcessCommand(bus, c))
  <2>1. CASE c.op = "reset"
    <3> DEFINE b == [d \in AdbDevs |-> ResetDevice(d)]
    <3>1. \A d \in AdbDevs : b[d].data = <<>>
      BY DEF ResetDevice
    <3> HIDE DEF b
    <3>2. ProcessCommand(bus, c) = [NoAnswer(b) EXCEPT !.ok = TRUE]
      BY <2>1 DEF ProcessCommand, b
    <3> QED BY <1>1, <3>1, <3>2
  <2>2. CASE c.op = "flush"
    BY <1>1, <2>2 DEF ProcessCommand
  <2>3. CASE c.op = "talk"
    BY <1>4, <2>3 DEF ProcessCommand
  <2>4. CASE c.op = "listen"
    <3> DEFINE b == ListenR3(bus, c.addr, c.new, c.srq)
    <3>1. ASSUME NEW d \in AdbDevs PROVE b[d].data = bus[d].data
      BY DEF ListenR3, BusOk
    <3> HIDE DEF b
    <3>2. ProcessCommand(bus, c) = [NoAnswer(b) EXCEPT !.ok = TRUE]
      BY <2>4 DEF ProcessCommand, b
    <3> QED BY <1>1, <3>1, <3>2
  <2> QED BY <1>5, <2>1, <2>2, <2>3, <2>4 DEF KnownCommand
<1> QED BY <1>1, <1>3, <1>5

\* Bytes follow an open-ended header only if it is one of a pseudo command.
OpenOk(c) == c.open_ended => c.out_buf = <<>> \/ c.out_buf[1] = "pseudo"

LEMMA PseudoCommandKeys ==
  ASSUME NEW c, CoreOk(c)
  PROVE  /\ OpenOk(PseudoCommand(c)) /\ KeysOf(PseudoCommand(c).out_buf) = <<>>
<1> DEFINE cmd    == c.in_buf[2]
           header == <<"pseudo", cmd>>
           long   == Append(header, "time")
           error  == <<"error", cmd>>
           r      == PseudoCommand(c)
<1>1. DOMAIN c = CudaFields
  BY DEF CoreOk
<1>2. header[1] = "pseudo" /\ error[1] = "error"
  OBVIOUS
<1>3. long[1] = "pseudo"
  <2>1. IsSeq(header) /\ Len(header) = 2 /\ 1 \in 1 .. Len(header)
    BY SequencesOfBytes
  <2> HIDE DEF header
  <2> QED BY <1>2, <2>1, AppendByte
<1> HIDE DEF long, header, error
<1>4. ASSUME NEW d, DOMAIN d = CudaFields, NEW q
      PROVE  /\ Respond(d, q).out_buf = q /\ Respond(d, q).open_ended = FALSE
             /\ Open(Respond(d, q)).out_buf = q
  BY <1>4 DEF Respond, Open, CudaFields
<1>5. \/ r.out_buf = header
      \/ r.out_buf = long /\ r.open_ended = FALSE
      \/ r.out_buf = error /\ r.open_ended = FALSE
  <2>1. DOMAIN [c EXCEPT !.autopoll = c.in_buf[3] = 1] = CudaFields
    BY <1>1
  <2>2. DOMAIN [c EXCEPT !.one_sec_mode = c.in_buf[3], !.first_pkt = TRUE] = CudaFields
    BY <1>1
  <2>3. DOMAIN DisableAsync(c) = CudaFields
    BY <1>1 DEF DisableAsync
  <2>4. CASE cmd = "autopoll"
    <3>1. r = Respond([c EXCEPT !.autopoll = c.in_buf[3] = 1], header)
      BY <2>4 DEF PseudoCommand, header
    <3> HIDE DEF r
    <3>2. Respond([c EXCEPT !.autopoll = c.in_buf[3] = 1], header).out_buf = header /\ Respond([c EXCEPT !.autopoll = c.in_buf[3] = 1], header).open_ended = FALSE
      BY <1>4, <2>1
    <3> QED BY <3>1, <3>2
  <2>5. CASE cmd = "one_sec"
    <3>1. r = Respond([c EXCEPT !.one_sec_mode = c.in_buf[3], !.first_pkt = TRUE], header)
      BY <2>5 DEF PseudoCommand, header
    <3> HIDE DEF r
    <3>2. Respond([c EXCEPT !.one_sec_mode = c.in_buf[3], !.first_pkt = TRUE], header).out_buf = header /\ Respond([c EXCEPT !.one_sec_mode = c.in_buf[3], !.first_pkt = TRUE], header).open_ended = FALSE
      BY <1>4, <2>2
    <3> QED BY <3>1, <3>2
  <2>6. CASE cmd = "warm_start"
    <3>1. r = Respond(DisableAsync(c), header)
      BY <2>6 DEF PseudoCommand, header
    <3> HIDE DEF r
    <3>2. Respond(DisableAsync(c), header).out_buf = header /\ Respond(DisableAsync(c), header).open_ended = FALSE
      BY <1>4, <2>3
    <3> QED BY <3>1, <3>2
  <2>7. CASE cmd = "get_time"
    <3>1. r = Respond(c, long)
      BY <2>7 DEF PseudoCommand, header, long
    <3> HIDE DEF r
    <3>2. Respond(c, long).out_buf = long /\ Respond(c, long).open_ended = FALSE
      BY <1>1, <1>4
    <3> QED BY <3>1, <3>2
  <2>8. CASE cmd = "read_pram"
    <3>1. r = Open(Respond(c, header))
      BY <2>8 DEF PseudoCommand, header
    <3> HIDE DEF r
    <3>2. Open(Respond(c, header)).out_buf = header
      BY <1>1, <1>4
    <3> QED BY <3>1, <3>2
  <2>9. CASE cmd = "set_param"
    <3>1. r = Respond(c, header)
      BY <2>9 DEF PseudoCommand, header
    <3> HIDE DEF r
    <3>2. Respond(c, header).out_buf = header /\ Respond(c, header).open_ended = FALSE
      BY <1>1, <1>4
    <3> QED BY <3>1, <3>2
  <2>10. CASE cmd \notin {"autopoll", "one_sec", "warm_start", "get_time", "read_pram", "set_param"}
    <3>1. r = Respond(c, error)
      BY <2>10 DEF PseudoCommand, error
    <3> HIDE DEF r
    <3>2. Respond(c, error).out_buf = error /\ Respond(c, error).open_ended = FALSE
      BY <1>1, <1>4
    <3> QED BY <3>1, <3>2
  <2> QED BY <2>4, <2>5, <2>6, <2>7, <2>8, <2>9, <2>10
<1> HIDE DEF r
<1>6. OpenOk(r)
  BY <1>2, <1>3, <1>5 DEF OpenOk
<1>7. KeysOf(r.out_buf) = <<>>
  BY <1>2, <1>3, <1>5 DEF KeysOf
<1> QED BY <1>6, <1>7 DEF r

LEMMA ProcessPacketKeys ==
  ASSUME OneKeyboard, NEW c, CoreOk(c), BusOk(adb), GoodPacket(c.in_buf)
  PROVE  /\ Feeds(adb, ProcessPacket(c).bus, KeysOf(ProcessPacket(c).cuda.out_buf))
         /\ OpenOk(ProcessPacket(c).cuda)
<1> DEFINE b == c.in_buf
           r == ProcessPacket(c)
<1>1. DOMAIN c = CudaFields
  BY DEF CoreOk
<1>2. ASSUME NEW q PROVE Respond(c, q).out_buf = q /\ Respond(c, q).open_ended = FALSE
  BY <1>1 DEF Respond, CudaFields
<1>3. Feeds(adb, adb, <<>>)
  BY FeedsNothing
<1>4. ASSUME NEW x, r = [cuda |-> Respond(c, <<"error", x>>), bus |-> adb]
      PROVE  Feeds(adb, r.bus, KeysOf(r.cuda.out_buf)) /\ OpenOk(r.cuda)
  <2>1. r.bus = adb /\ r.cuda = Respond(c, <<"error", x>>)
    BY <1>4
  <2> HIDE DEF r
  <2>2. r.cuda.out_buf = <<"error", x>> /\ r.cuda.open_ended = FALSE
    BY <1>2, <2>1
  <2>3. KeysOf(r.cuda.out_buf) = <<>>
    <3>1. <<"error", x>>[1] = "error"
      OBVIOUS
    <3> QED BY <2>2, <3>1 DEF KeysOf
  <2> QED BY <1>3, <2>1, <2>2, <2>3 DEF OpenOk
<1>5. CASE Len(b) < 2
  <2>1. r = [cuda |-> Respond(c, <<"error", "size">>), bus |-> adb]
    BY <1>5 DEF ProcessPacket, GoodPacket
  <2> HIDE DEF r
  <2>2. Feeds(adb, r.bus, KeysOf(r.cuda.out_buf)) /\ OpenOk(r.cuda)
    BY <1>4, <2>1
  <2> QED BY <2>2 DEF r
<1>6. CASE Len(b) >= 2 /\ b[1] = "adb"
  <2>1. PICK x : x = b[2]
    OBVIOUS
  <2>2. KnownCommand(x)
    BY <1>6, <2>1 DEF GoodPacket
  <2> DEFINE a == ProcessCommand(adb, x)
             q == <<"adb", x.op>> \o a.out
  <2>3. AnswerOk(a) /\ AnswerFeeds(adb, a)
    BY <2>2, BusAnswersOk, BusFeeds
  <2>4. r = [cuda |-> Respond(c, q), bus |-> a.bus]
    BY <1>6, <2>1 DEF ProcessPacket, GoodPacket
  <2> HIDE DEF a
  <2>5. KeysOf(q) = KeysIn(a.out)
    BY <2>3, KeysOfPacket DEF AnswerOk
  <2> HIDE DEF q, r
  <2>6. r.bus = a.bus /\ r.cuda = Respond(c, q)
    BY <2>4
  <2>7. r.cuda.out_buf = q /\ r.cuda.open_ended = FALSE
    BY <1>2, <2>6
  <2>8. Feeds(adb, r.bus, KeysOf(r.cuda.out_buf)) /\ OpenOk(r.cuda)
    BY <2>3, <2>5, <2>6, <2>7 DEF AnswerFeeds, OpenOk
  <2> QED BY <2>8 DEF r
<1>7. CASE Len(b) >= 2 /\ b[1] = "pseudo"
  <2>1. r = [cuda |-> PseudoCommand(c), bus |-> adb]
    BY <1>7 DEF ProcessPacket, GoodPacket
  <2> HIDE DEF r
  <2>2. r.cuda = PseudoCommand(c) /\ r.bus = adb
    BY <2>1
  <2>3. Feeds(adb, r.bus, KeysOf(r.cuda.out_buf)) /\ OpenOk(r.cuda)
    BY <1>3, <2>2, PseudoCommandKeys
  <2> QED BY <2>3 DEF r
<1>8. CASE Len(b) >= 2 /\ b[1] # "adb" /\ b[1] # "pseudo"
  <2>1. r = [cuda |-> Respond(c, <<"error", "type">>), bus |-> adb]
    BY <1>8 DEF ProcessPacket, GoodPacket
  <2> HIDE DEF r
  <2>2. Feeds(adb, r.bus, KeysOf(r.cuda.out_buf)) /\ OpenOk(r.cuda)
    BY <1>4, <2>1
  <2> QED BY <2>2 DEF r
<1> QED BY <1>5, <1>6, <1>7, <1>8 DEF GoodPacket

\* The end of a transaction: as before if nothing came in, and else an answer.
LEMMA EndKeys ==
  ASSUME OneKeyboard, NEW c, CoreOk(c), c.tip \/ c.byteack, BusOk(adb), GoodPacket(c.in_buf), SetEnd(c)
  PROVE  /\ c.in_buf = <<>> => /\ adb' = adb /\ cuda'.out_buf = c.out_buf
                               /\ cuda'.open_ended = c.open_ended
         /\ c.in_buf # <<>> => Feeds(adb, adb', KeysOf(cuda'.out_buf)) /\ OpenOk(cuda')
<1> DEFINE c0 == [c EXCEPT !.tip = FALSE, !.byteack = FALSE]
           c1 == [c0 EXCEPT !.treq = FALSE]
           c2 == Unsynced(c1)
           p  == ProcessPacket(c2)
           e  == [p.cuda EXCEPT !.treq_timer = TRUE, !.in_buf = <<>>]
<1>1. cuda' = EndTransaction(c0).cuda /\ adb' = EndTransaction(c0).bus
  BY DEF SetEnd, Set, WriteB, CoreOk
<1>2. EndTransaction(c0) = IF c2.in_buf = <<>> THEN [cuda |-> ScheduleSrInt(c2), bus |-> adb]
                           ELSE [cuda |-> ScheduleSrInt(e), bus |-> p.bus]
  BY DEF EndTransaction
<1>3. DOMAIN c1 = CudaFields /\ c1.tip = FALSE /\ c1.byteack = FALSE /\ c1.treq = FALSE
      /\ \A f \in CudaFields \ {"tip", "byteack", "treq"} : c1[f] = c[f]
  BY DEF CoreOk, CudaFields
<1> HIDE DEF c1
<1>4. /\ DOMAIN c2 = CudaFields /\ c2.one_sec_mode \in {0, c1.one_sec_mode}
      /\ \A f \in CudaFields \ {"sync", "autopoll", "one_sec_mode", "first_pkt", "missed"} : c2[f] = c1[f]
  <2>1. CASE c1.sync
    BY <1>3, <2>1 DEF Unsynced, DisableAsync, CudaFields
  <2>2. CASE ~c1.sync
    BY <1>3, <2>2 DEF Unsynced
  <2> QED BY <2>1, <2>2
<1> HIDE DEF c2
<1>5. CoreOk(c2) /\ c2.in_buf = c.in_buf /\ c2.out_buf = c.out_buf /\ c2.open_ended = c.open_ended
  <2>1. c2.tip = FALSE /\ c2.byteack = FALSE /\ c2.treq = FALSE /\ c2.sr_int = c.sr_int
        /\ c2.in_buf = c.in_buf /\ c2.treq_timer = c.treq_timer /\ c2.shift_out = c.shift_out
        /\ c2.open_ended = c.open_ended /\ c2.out_pos = c.out_pos /\ c2.out_buf = c.out_buf
    BY <1>3, <1>4 DEF CudaFields
  <2>2. c1.one_sec_mode = c.one_sec_mode
    BY <1>3 DEF CudaFields
  <2>3. c2.one_sec_mode \in 0 .. 3
    BY <1>4, <2>2 DEF CoreOk
  <2>4. c2.out_pos \in Nat /\ IsSeq(c2.out_buf)
    BY <2>1 DEF CoreOk
  <2>5. c2.tip \in BOOLEAN /\ c2.byteack \in BOOLEAN /\ c2.treq \in BOOLEAN
    BY <2>1
  <2>6. c2.shift_out \in BOOLEAN /\ c2.sr_int \in BOOLEAN /\ c2.treq_timer \in BOOLEAN
        /\ c2.open_ended \in BOOLEAN
    BY <2>1 DEF CoreOk
  <2> QED BY <1>4, <2>1, <2>3, <2>4, <2>5, <2>6 DEF CoreOk
<1>6. CASE c.in_buf = <<>>
  <2> DEFINE d == ScheduleSrInt(c2)
  <2>1. d.out_buf = c2.out_buf /\ d.open_ended = c2.open_ended
    BY <1>5 DEF ScheduleSrInt, CoreOk, CudaFields
  <2>2. EndTransaction(c0) = [cuda |-> d, bus |-> adb]
    BY <1>2, <1>5, <1>6
  <2> HIDE DEF d
  <2>3. cuda' = d /\ adb' = adb
    BY <1>1, <2>2
  <2> QED BY <1>5, <1>6, <2>1, <2>3
<1>7. CASE c.in_buf # <<>>
  <2>1. Answered(c2, p.cuda)
    BY <1>5, ProcessPacketIsOk
  <2>2. Feeds(adb, p.bus, KeysOf(p.cuda.out_buf)) /\ OpenOk(p.cuda)
    BY <1>5, ProcessPacketKeys
  <2> DEFINE d == ScheduleSrInt(e)
  <2> HIDE DEF p
  <2>3. d.out_buf = p.cuda.out_buf /\ d.open_ended = p.cuda.open_ended
    BY <2>1 DEF Answered, ScheduleSrInt, CudaFields
  <2>4. EndTransaction(c0) = [cuda |-> d, bus |-> p.bus]
    BY <1>2, <1>5, <1>7
  <2> HIDE DEF d
  <2>5. cuda' = d /\ adb' = p.bus
    BY <1>1, <2>4
  <2> QED BY <1>7, <2>2, <2>3, <2>5 DEF OpenOk
<1> QED BY <1>6, <1>7

LEMMA OrderedWeaken ==
  ASSUME NEW s, NEW k \in Nat, NEW p, NEW q, k <= p, Ordered(s, p, q)
  PROVE  Ordered(s, k, q)
<1>1. s \in Seq(Nat) /\ p \in Nat /\ q \in Nat /\ p <= q /\ k <= q
  BY DEF Ordered
<1>2. ASSUME NEW i \in 1 .. Len(s) PROVE k < s[i]
  <2>1. s[i] \in Nat /\ p < s[i]
    BY <1>1 DEF Ordered
  <2> QED BY <1>1, <2>1
<1> QED BY <1>1, <1>2 DEF Ordered

\* The driver may fetch the packet in out_buf, or does.
Waiting(c, d) == d.phase # "syncing" /\ (c.treq \/ c.treq_timer \/ d.phase = "reading")

KeysOk(c, d, bus, n) ==
  \E k, p \in Nat : /\ k <= p /\ Ordered(d.keys, 0, k)
                    /\ Waiting(c, d) => Ordered(KeysOf(c.out_buf), k, p)
                    /\ KeptOk(bus, p, n)

FirstOk(c, d) ==
  d.phase = "reading" /\ c.open_ended => IsSeq(d.got) /\ Append(d.got, c.sr)[1] = "pseudo"

KeyInv  == KeysOk(cuda, drv, adb, typed) /\ OpenOk(cuda) /\ FirstOk(cuda, drv)
KeyStep == KeysOk(cuda', drv', adb', typed') /\ OpenOk(cuda') /\ FirstOk(cuda', drv')

\* A step that prepares no packet and delivers none.
LEMMA KeysRest ==
  ASSUME NEW c, NEW d, NEW bus, NEW n, KeysOk(c, d, bus, n), NEW e, NEW f, f.keys = d.keys,
         Waiting(e, f) => Waiting(c, d) /\ e.out_buf = c.out_buf
  PROVE  KeysOk(e, f, bus, n)
<1>1. PICK k \in Nat, p \in Nat : /\ k <= p /\ Ordered(d.keys, 0, k)
                                  /\ Waiting(c, d) => Ordered(KeysOf(c.out_buf), k, p)
                                  /\ KeptOk(bus, p, n)
  BY DEF KeysOk
<1>2. Waiting(e, f) => Ordered(KeysOf(e.out_buf), k, p)
  BY <1>1
<1>3. Ordered(f.keys, 0, k)
  BY <1>1
<1> QED BY <1>1, <1>2, <1>3 DEF KeysOk

\* A step that prepares a packet with the next events of the keyboard; those
\* of the packet before it are lost.
LEMMA KeysFed ==
  ASSUME NEW c, NEW d, NEW bus, NEW n \in Nat, KeysOk(c, d, bus, n), NEW e, NEW f, NEW after,
         f.keys = d.keys, Feeds(bus, after, KeysOf(e.out_buf))
  PROVE  KeysOk(e, f, after, n)
<1>1. PICK k \in Nat, p \in Nat : k <= p /\ Ordered(d.keys, 0, k) /\ KeptOk(bus, p, n)
  BY DEF KeysOk
<1>2. PICK mid \in Nat : Ordered(KeysOf(e.out_buf), p, mid) /\ KeptOk(after, mid, n)
  BY <1>1 DEF Feeds
<1>3. p <= mid
  BY <1>2 DEF Ordered
<1>4. Ordered(KeysOf(e.out_buf), k, mid)
  BY <1>1, <1>2, OrderedWeaken
<1>5. k <= mid /\ Ordered(f.keys, 0, k)
  BY <1>1, <1>3
<1> QED BY <1>2, <1>4, <1>5 DEF KeysOk

\* A step that delivers the packet.
LEMMA KeysDelivered ==
  ASSUME NEW c, NEW d, NEW bus, NEW n, KeysOk(c, d, bus, n), NEW e, NEW f, NEW s,
         f.keys = d.keys \o s, s = <<>> \/ (Waiting(c, d) /\ s = KeysOf(c.out_buf)), ~Waiting(e, f)
  PROVE  KeysOk(e, f, bus, n)
<1>1. PICK k \in Nat, p \in Nat : /\ k <= p /\ Ordered(d.keys, 0, k)
                                  /\ Waiting(c, d) => Ordered(KeysOf(c.out_buf), k, p)
                                  /\ KeptOk(bus, p, n)
  BY DEF KeysOk
<1>2. Ordered(s, k, p)
  <2>1. CASE s = <<>>
    BY <1>1, <2>1, OrderedEmpty
  <2>2. CASE Waiting(c, d) /\ s = KeysOf(c.out_buf)
    BY <1>1, <2>2
  <2> QED BY <2>1, <2>2
<1>3. Ordered(f.keys, 0, p)
  BY <1>1, <1>2, OrderedConcat
<1>4. p <= p
  OBVIOUS
<1> QED BY <1>1, <1>3, <1>4 DEF KeysOk

LEMMA TimersKeys ==
  ASSUME CudaInv, KeyInv, TreqTimer \/ SrTimer \/ Clock \/ UNCHANGED cudaVars
  PROVE  KeyStep
<1>1. drv' = drv /\ adb' = adb /\ typed' = typed
  BY DEF TreqTimer, SrTimer, Clock, cudaVars, adbVars
<1>2. /\ cuda'.out_buf = cuda.out_buf /\ cuda'.open_ended = cuda.open_ended /\ cuda'.sr = cuda.sr
      /\ cuda'.treq => cuda.treq \/ cuda.treq_timer
      /\ cuda'.treq_timer => cuda.treq_timer
  BY DEF TreqTimer, SrTimer, Clock, cudaVars, CudaInv, CoreOk, CudaFields
<1>3. Waiting(cuda', drv') => Waiting(cuda, drv) /\ cuda'.out_buf = cuda.out_buf
  BY <1>1, <1>2 DEF Waiting
<1>4. KeysOk(cuda', drv', adb, typed)
  BY <1>1, <1>3, KeysRest DEF KeyInv
<1> QED BY <1>1, <1>2, <1>4 DEF KeyInv, KeyStep, OpenOk, FirstOk

LEMMA AutopollKeys ==
  ASSUME OneKeyboard, CudaInv, KeyInv, AutopollHandler
  PROVE  KeyStep
<1> DEFINE poll == IF cuda.autopoll THEN PollBus(adb) ELSE NoAnswer(adb)
           pkt  == <<"adb", "polled">> \o poll.out
           sec  == OneSecPacket(cuda)
<1>1. /\ ~cuda.tip /\ drv' = drv /\ typed' = typed /\ typed \in Nat /\ DOMAIN cuda = CudaFields
      /\ cuda.one_sec_mode \in 0 .. 3 /\ drv.phase # "reading"
  BY DEF CudaInv, AutopollHandler, CoreOk, SignalsOk
<1>2. AnswerOk(poll) /\ AnswerFeeds(adb, poll)
  BY BusAnswersOk, BusFeeds DEF CudaInv
<1> HIDE DEF poll
<1>3. \/ poll.ok /\ cuda' = Attention(Respond(cuda, pkt)) /\ adb' = poll.bus
      \/ cuda' = [cuda EXCEPT !.missed = TRUE] /\ adb' = adb
      \/ /\ adb' = adb /\ cuda.one_sec_mode # 0
         /\ cuda' = Attention([Respond(cuda, sec) EXCEPT !.first_pkt = FALSE, !.missed = FALSE,
                                                         !.last_time = real_time])
  BY DEF AutopollHandler, poll
<1>4. KeysOf(pkt) = KeysIn(poll.out)
  BY <1>2, KeysOfPacket DEF AnswerOk
<1> HIDE DEF pkt, sec
<1>5. FirstOk(cuda', drv')
  BY <1>1 DEF FirstOk
<1>6. CASE cuda' = [cuda EXCEPT !.missed = TRUE] /\ adb' = adb
  <2>1. /\ cuda'.out_buf = cuda.out_buf /\ cuda'.open_ended = cuda.open_ended
        /\ cuda'.treq = cuda.treq /\ cuda'.treq_timer = cuda.treq_timer
    BY <1>1, <1>6 DEF CudaFields
  <2>2. Waiting(cuda', drv') => Waiting(cuda, drv) /\ cuda'.out_buf = cuda.out_buf
    BY <1>1, <2>1 DEF Waiting
  <2>3. KeysOk(cuda', drv', adb, typed)
    BY <1>1, <2>2, KeysRest DEF KeyInv
  <2> QED BY <1>1, <1>5, <1>6, <2>1, <2>3 DEF KeyInv, KeyStep, OpenOk
<1>7. ASSUME Feeds(adb, adb', KeysOf(cuda'.out_buf)), cuda'.open_ended = FALSE
      PROVE  KeyStep
  <2>1. KeysOk(cuda', drv', adb', typed)
    BY <1>1, <1>7, KeysFed DEF KeyInv
  <2> QED BY <1>1, <1>5, <1>7, <2>1 DEF KeyStep, OpenOk
<1>8. CASE poll.ok /\ cuda' = Attention(Respond(cuda, pkt)) /\ adb' = poll.bus
  <2>1. cuda'.out_buf = pkt /\ cuda'.open_ended = FALSE
    BY <1>1, <1>8 DEF Attention, ScheduleSrInt, Respond, CudaFields
  <2> QED BY <1>2, <1>4, <1>7, <1>8, <2>1 DEF AnswerFeeds
<1>9. CASE /\ adb' = adb /\ cuda.one_sec_mode # 0
           /\ cuda' = Attention([Respond(cuda, sec) EXCEPT !.first_pkt = FALSE, !.missed = FALSE,
                                                           !.last_time = real_time])
  <2>1. sec \in {<<"pseudo", "second", "time">>, <<"pseudo", "second">>, <<"tick">>}
    <3>1. cuda.one_sec_mode \in {1, 2, 3}
      BY <1>1, <1>9
    <3> QED BY <3>1 DEF OneSecPacket, sec
  <2>2. KeysOf(sec) = <<>>
    <3>1. sec[1] # "adb"
      BY <2>1
    <3> QED BY <3>1 DEF KeysOf
  <2>3. cuda'.out_buf = sec /\ cuda'.open_ended = FALSE
    BY <1>1, <1>9 DEF Attention, ScheduleSrInt, Respond, CudaFields
  <2>4. Feeds(adb, adb, <<>>)
    BY FeedsNothing
  <2> QED BY <1>7, <1>9, <2>2, <2>3, <2>4
<1> QED BY <1>3, <1>6, <1>8, <1>9

LEMMA HostEventsKeys ==
  ASSUME OneKeyboard, CudaInv, KeyInv, KeyPress \/ MouseMove
  PROVE  KeyStep
<1>1. cuda' = cuda /\ drv' = drv
  BY DEF KeyPress, MouseMove
<1>2. PICK k \in Nat, p \in Nat : /\ k <= p /\ Ordered(drv.keys, 0, k)
                                  /\ Waiting(cuda, drv) => Ordered(KeysOf(cuda.out_buf), k, p)
                                  /\ KeptOk(adb, p, typed)
  BY DEF KeyInv, KeysOk
<1>3. KeptOk(adb', p, typed')
  <2>1. /\ DOMAIN adb = AdbDevs /\ typed \in Nat /\ p <= typed
        /\ \A d \in AdbDevs : DOMAIN adb[d] = {"addr", "srq", "data"}
    BY <1>2 DEF CudaInv, BusOk, KeptOk
  <2>2. CASE KeyPress
    <3>1. PICK d \in Keyboards : adb' = KeyEvent(adb, d, typed + 1)
      BY <2>2 DEF KeyPress
    <3>2. typed' = typed + 1 /\ d \in AdbDevs /\ Keyboards \subseteq AdbDevs
      BY <2>2, BusAssumption DEF KeyPress
    <3>3. /\ adb'[d].data = Append(adb[d].data, typed + 1)
          /\ \A e \in AdbDevs \ {d} : adb'[e] = adb[e]
      BY <2>1, <3>1, <3>2 DEF KeyEvent
    <3>4. Ordered(adb[d].data, p, typed)
      BY <1>2 DEF KeptOk
    <3>5. Ordered(adb'[d].data, p, typed')
      BY <3>2, <3>3, <3>4, OrderedAppend
    <3>6. \A e \in Keyboards : e = d
      BY DEF OneKeyboard
    <3>7. typed' \in Nat /\ p <= typed'
      BY <2>1, <3>2
    <3>8. \A e \in Keyboards : Ordered(adb'[e].data, p, typed')
      BY <3>5, <3>6
    <3>9. ASSUME NEW e \in AdbDevs \ Keyboards PROVE adb'[e].data = <<>> \/ adb'[e].data = <<0>>
      BY <1>2, <3>3 DEF KeptOk
    <3> QED BY <3>7, <3>8, <3>9 DEF KeptOk
  <2>3. CASE MouseMove
    <3>1. PICK d \in AdbDevs \ Keyboards : adb' = MouseEvent(adb, d)
      BY <2>3 DEF MouseMove
    <3>2. typed' = typed /\ Keyboards \subseteq AdbDevs
      BY <2>3, BusAssumption DEF MouseMove
    <3>3. /\ adb'[d].data = <<0>>
          /\ \A e \in AdbDevs \ {d} : adb'[e] = adb[e]
      BY <2>1, <3>1 DEF MouseEvent
    <3>4. \A e \in Keyboards : adb'[e] = adb[e]
      BY <3>1, <3>2, <3>3
    <3>5. ASSUME NEW e \in AdbDevs \ Keyboards PROVE adb'[e].data = <<>> \/ adb'[e].data = <<0>>
      BY <1>2, <3>3 DEF KeptOk
    <3> QED BY <1>2, <3>2, <3>4, <3>5 DEF KeptOk
  <2> QED BY <2>2, <2>3
<1>4. KeysOk(cuda, drv, adb', typed')
  BY <1>2, <1>3 DEF KeysOk
<1> QED BY <1>1, <1>4 DEF KeyInv, KeyStep

\* Steps of the driver outside a packet it fetches that leave the packet alone.
LEMMA DriverRests ==
  ASSUME KeyInv, adb' = adb, typed' = typed, drv'.keys = drv.keys, drv'.phase # "reading",
         cuda'.out_buf = cuda.out_buf, cuda'.open_ended = cuda.open_ended,
         Waiting(cuda', drv') => Waiting(cuda, drv)
  PROVE  KeyStep
<1>1. KeysOk(cuda', drv', adb, typed)
  BY KeysRest DEF KeyInv
<1> QED BY <1>1 DEF KeyInv, KeyStep, OpenOk, FirstOk

LEMMA DrvPrepareKeys ==
  ASSUME CudaInv, KeyInv, DrvPrepare
  PROVE  KeyStep
<1>1. PICK cmd \in CudaCommands : /\ cuda' = Write(cmd[1])
                                  /\ drv' = [drv EXCEPT !.phase = "armed", !.cmd = cmd]
  BY DEF DrvPrepare
<1>2. \A f \in CudaFields \ {"shift_out", "sr_int", "sr"} : cuda'[f] = cuda[f]
  BY <1>1, SrAccess DEF CudaInv
<1>3. cuda'.treq = cuda.treq /\ cuda'.treq_timer = cuda.treq_timer
      /\ cuda'.out_buf = cuda.out_buf /\ cuda'.open_ended = cuda.open_ended
  BY <1>2 DEF CudaFields
<1>4. drv.phase = "idle" /\ adb' = adb /\ typed' = typed
  BY DEF DrvPrepare, adbVars
<1>5. drv'.phase = "armed" /\ drv'.keys = drv.keys
  BY <1>1 DEF CudaInv, DrvOk
<1>6. Waiting(cuda', drv') => Waiting(cuda, drv)
  BY <1>3, <1>4, <1>5 DEF Waiting
<1> QED BY <1>3, <1>4, <1>5, <1>6, DriverRests

LEMMA DrvFirstByteKeys ==
  ASSUME CudaInv, KeyInv, DrvFirstByte
  PROVE  KeyStep
<1>1. drv.phase = "armed" /\ drv' = [drv EXCEPT !.phase = "sending", !.sent = 1] /\ typed' = typed
      /\ SetTip(cuda, FALSE)
  BY DEF DrvFirstByte, SetTip
<1>2. PICK c : c = cuda
  OBVIOUS
<1>3. /\ CoreOk(c) /\ ~c.tip /\ c.shift_out /\ c.in_buf = <<>> /\ drv.cmd \in CudaCommands
  BY <1>1, <1>2 DEF CudaInv, SendingOk, SignalsOk
<1>4. Len(drv.cmd) \in 1 .. InBufSize /\ InBufSize \in Nat
  BY <1>3, CudaAssumption
<1>5. Len(c.in_buf) < InBufSize
  BY <1>3, <1>4
<1>6. /\ adb' = adb /\ cuda'.treq_timer = c.treq_timer
      /\ cuda'.treq = c.treq /\ cuda'.out_buf = c.out_buf /\ cuda'.open_ended = c.open_ended
  <2>1. PICK ack \in BOOLEAN : ack = FALSE
    OBVIOUS
  <2>2. SetTip(c, ack)
    BY <1>1, <1>2, <2>1
  <2> QED BY <1>3, <1>5, <2>2, WriteBSends
<1>7. drv'.phase = "sending" /\ drv'.keys = drv.keys
  BY <1>1 DEF CudaInv, DrvOk
<1>8. Waiting(cuda', drv') => Waiting(cuda, drv)
  BY <1>1, <1>2, <1>6, <1>7 DEF Waiting
<1> QED BY <1>1, <1>2, <1>6, <1>7, <1>8, DriverRests

\* The end of a packet that the driver sent.
LEMMA SentKeys ==
  ASSUME OneKeyboard, CudaInv, KeyInv, drv.phase = "sending", SetEnd(ReadSr), GoodPacket(cuda.in_buf),
         cuda.in_buf # <<>>, typed' = typed, drv'.keys = drv.keys, drv'.phase # "reading"
  PROVE  KeyStep
<1>1. PICK c : c = ReadSr
  OBVIOUS
<1>2. CoreOk(c) /\ c.tip = cuda.tip /\ c.in_buf = cuda.in_buf
  BY <1>1, SrAccess DEF CudaInv, CudaFields
<1>3. c.tip /\ SetEnd(c) /\ typed \in Nat /\ BusOk(adb)
  BY <1>1, <1>2 DEF CudaInv, SignalsOk
<1>4. Feeds(adb, adb', KeysOf(cuda'.out_buf)) /\ OpenOk(cuda')
  BY <1>2, <1>3, EndKeys
<1>5. KeysOk(cuda', drv', adb', typed)
  BY <1>3, <1>4, KeysFed DEF KeyInv
<1> QED BY <1>4, <1>5 DEF KeyStep, FirstOk

LEMMA DrvSendKeys ==
  ASSUME OneKeyboard, CudaInv, KeyInv, DrvSend
  PROVE  KeyStep
<1>1. drv.phase = "sending" /\ typed' = typed
  BY DEF DrvSend
<1>2. /\ drv.cmd \in CudaCommands /\ drv.sent \in 1 .. Len(drv.cmd)
      /\ IsSeq(cuda.in_buf) /\ Len(cuda.in_buf) = drv.sent
      /\ \A i \in 1 .. drv.sent : cuda.in_buf[i] = drv.cmd[i]
  BY <1>1 DEF CudaInv, SendingOk
<1>3. Len(drv.cmd) \in 1 .. InBufSize /\ InBufSize \in Nat
  BY <1>2, CudaAssumption
<1>4. cuda.in_buf # <<>>
  BY <1>2, <1>3
<1>5. DOMAIN drv = {"phase", "cmd", "sent", "got", "keys"}
  BY DEF CudaInv, DrvOk
<1>6. CASE cuda.treq /\ drv.sent = 1
  <2>1. SetEnd(ReadSr) /\ drv' = [drv EXCEPT !.phase = "ending", !.cmd = <<>>, !.sent = 0]
    BY <1>6 DEF DrvSend, SetEnd
  <2>2. drv'.phase = "ending" /\ drv'.keys = drv.keys
    BY <1>5, <2>1
  <2>3. GoodPacket(cuda.in_buf)
    BY <1>2, <1>6 DEF GoodPacket
  <2> QED BY <1>1, <1>4, <2>1, <2>2, <2>3, SentKeys
<1>7. CASE ~(cuda.treq /\ drv.sent = 1) /\ drv.sent < Len(drv.cmd)
  <2>1. SetTip(Write(drv.cmd[drv.sent + 1]), ~cuda.byteack) /\ drv' = [drv EXCEPT !.sent = @ + 1]
    BY <1>7 DEF DrvSend, SetTip
  <2>2. PICK x : x = drv.cmd[drv.sent + 1]
    OBVIOUS
  <2>3. PICK c : c = Write(x)
    OBVIOUS
  <2>4. PICK ack \in BOOLEAN : ack = ~cuda.byteack
    OBVIOUS
  <2>5. SetTip(c, ack)
    BY <2>1, <2>2, <2>3, <2>4
  <2>6. /\ CoreOk(c) /\ c.shift_out /\ c.byteack = cuda.byteack /\ c.in_buf = cuda.in_buf
        /\ c.treq = cuda.treq /\ c.treq_timer = cuda.treq_timer /\ c.out_buf = cuda.out_buf
        /\ c.open_ended = cuda.open_ended
    BY <2>3, SrAccess DEF CudaInv, CudaFields
  <2>7. ack # c.byteack
    BY <2>4, <2>6 DEF CoreOk
  <2>8. Len(c.in_buf) < InBufSize
    BY <1>2, <1>3, <1>7, <2>6
  <2>9. /\ adb' = adb /\ cuda'.treq_timer = c.treq_timer
        /\ cuda'.treq = c.treq /\ cuda'.out_buf = c.out_buf /\ cuda'.open_ended = c.open_ended
    BY <2>5, <2>6, <2>7, <2>8, WriteBSends
  <2>10. drv'.phase = "sending" /\ drv'.keys = drv.keys
    BY <1>1, <1>5, <2>1
  <2>11. Waiting(cuda', drv') => Waiting(cuda, drv)
    BY <1>1, <2>6, <2>9, <2>10 DEF Waiting
  <2> QED BY <1>1, <2>6, <2>9, <2>10, <2>11, DriverRests
<1>8. CASE ~(cuda.treq /\ drv.sent = 1) /\ ~(drv.sent < Len(drv.cmd))
  <2>1. SetEnd(ReadSr) /\ drv' = [drv EXCEPT !.phase = "awaiting", !.sent = 0]
    BY <1>8 DEF DrvSend, SetEnd
  <2>2. drv'.phase = "awaiting" /\ drv'.keys = drv.keys
    BY <1>5, <2>1
  <2>3. GoodPacket(cuda.in_buf)
    <3>1. drv.sent = Len(drv.cmd) /\ drv.sent \in Nat
      BY <1>2, <1>3, <1>8
    <3>2. drv.sent >= 2 /\ cuda.in_buf[1] = "adb" => KnownCommand(cuda.in_buf[2])
      BY <1>2, <3>1, CudaAssumption DEF KnownCommand
    <3>3. drv.sent >= 2 /\ cuda.in_buf[1] = "pseudo" /\ cuda.in_buf[2] = "one_sec" => cuda.in_buf[3] \in 0 .. 3
      BY <1>2, <3>1, CudaAssumption, SMTT(40)
    <3> QED BY <1>2, <3>1, <3>2, <3>3 DEF GoodPacket
  <2> QED BY <1>1, <1>4, <2>1, <2>2, <2>3, SentKeys
<1> QED BY <1>6, <1>7, <1>8

LEMMA DrvAttentionKeys ==
  ASSUME CudaInv, KeyInv, DrvAttention
  PROVE  KeyStep
<1>1. drv.phase \in {"idle", "awaiting", "ending"} /\ typed' = typed
  BY DEF DrvAttention
<1>2. PICK c : c = ReadSr
  OBVIOUS
<1>3. /\ CoreOk(c) /\ ~c.shift_out
      /\ \A f \in CudaFields \ {"shift_out", "sr_int"} : c[f] = cuda[f]
  BY <1>2, SrAccess DEF CudaInv
<1>4. /\ c.tip = cuda.tip /\ c.byteack = cuda.byteack /\ c.treq = cuda.treq
      /\ c.treq_timer = cuda.treq_timer /\ c.out_pos = cuda.out_pos /\ c.out_buf = cuda.out_buf
      /\ c.open_ended = cuda.open_ended
  BY <1>3 DEF CudaFields
<1>5. ~cuda.tip /\ drv.got = <<>> /\ DOMAIN drv = {"phase", "cmd", "sent", "got", "keys"}
  BY <1>1 DEF CudaInv, SignalsOk, ReadingOk, DrvOk
<1>6. CASE cuda.treq
  <2>1. SetTip(ReadSr, FALSE) /\ drv' = [drv EXCEPT !.phase = "reading"]
    BY <1>6 DEF DrvAttention, SetTip
  <2>2. drv'.phase = "reading" /\ drv'.got = <<>> /\ drv'.keys = drv.keys
    BY <1>5, <2>1
  <2>3. PICK ack \in BOOLEAN : ack = FALSE
    OBVIOUS
  <2>4. SetTip(c, ack)
    BY <1>2, <2>1, <2>3
  <2>5. /\ adb' = adb /\ cuda'.open_ended = c.open_ended
        /\ c.out_pos < Len(c.out_buf) =>
              cuda'.sr = c.out_buf[c.out_pos + 1] /\ cuda'.out_buf = c.out_buf
    BY <1>3, <1>4, <1>5, <2>4, WriteBReads
  <2>6. c.out_pos = 0 /\ c.out_buf # <<>>
    BY <1>1, <1>4, <1>6 DEF CudaInv, RequestOk
  <2>7. Len(c.out_buf) \in Nat /\ 0 < Len(c.out_buf)
    <3>1. PICK S : c.out_buf \in Seq(S)
      BY <1>3 DEF CoreOk, IsSeq
    <3> QED BY <2>6, <3>1
  <2>8. cuda'.sr = c.out_buf[1] /\ cuda'.out_buf = c.out_buf
    BY <2>5, <2>6, <2>7
  <2>9. OpenOk(cuda')
    BY <1>4, <2>5, <2>8 DEF KeyInv, OpenOk
  <2>10. FirstOk(cuda', drv')
    <3>1. IsSeq(<<>>) /\ Append(<<>>, cuda'.sr)[1] = cuda'.sr
      BY SequencesOfBytes
    <3>2. cuda'.open_ended => cuda'.sr = "pseudo"
      BY <2>6, <2>8, <2>9 DEF OpenOk
    <3> QED BY <2>2, <3>1, <3>2 DEF FirstOk
  <2>11. Waiting(cuda, drv)
    BY <1>1, <1>6 DEF Waiting
  <2>12. KeysOk(cuda', drv', adb, typed)
    BY <1>4, <2>2, <2>8, <2>11, KeysRest DEF KeyInv
  <2> QED BY <1>1, <2>5, <2>9, <2>10, <2>12 DEF KeyStep
<1>7. CASE ~cuda.treq
  <2>1. cuda' = c /\ adb' = adb /\ drv' = [drv EXCEPT !.phase = "idle", !.cmd = <<>>]
    BY <1>2, <1>7 DEF DrvAttention
  <2>2. drv'.phase = "idle" /\ drv'.keys = drv.keys
    BY <1>5, <2>1
  <2>3. Waiting(cuda', drv') => Waiting(cuda, drv)
    BY <1>1, <1>4, <2>1, <2>2 DEF Waiting
  <2> QED BY <1>1, <1>4, <2>1, <2>2, <2>3, DriverRests
<1> QED BY <1>6, <1>7

\* The end of a transaction in which the driver sent nothing.
LEMMA NothingSentKeys ==
  ASSUME OneKeyboard, CudaInv, cuda.sr_int, drv.phase \in {"reading", "syncing"}, SetEnd(ReadSr)
  PROVE  /\ adb' = adb /\ cuda'.out_buf = cuda.out_buf /\ cuda'.open_ended = cuda.open_ended
         /\ ~cuda'.treq /\ ~cuda'.treq_timer
<1>1. PICK c : c = ReadSr
  OBVIOUS
<1>2. /\ CoreOk(c) /\ c.tip = cuda.tip /\ c.byteack = cuda.byteack /\ c.in_buf = cuda.in_buf
      /\ c.treq_timer = cuda.treq_timer /\ c.out_buf = cuda.out_buf /\ c.open_ended = cuda.open_ended
  BY <1>1, SrAccess DEF CudaInv, CudaFields
<1>3. (c.tip \/ c.byteack) /\ ~c.treq_timer /\ c.in_buf = <<>>
  BY <1>2 DEF CudaInv, SignalsOk, SendingOk
<1>4. SetEnd(c) /\ BusOk(adb)
  BY <1>1 DEF CudaInv
<1>5. GoodPacket(c.in_buf)
  BY <1>3 DEF GoodPacket
<1>6. Ended(c, cuda')
  BY <1>2, <1>3, <1>4, <1>5, WriteBEnds
<1>7. adb' = adb /\ cuda'.out_buf = c.out_buf /\ cuda'.open_ended = c.open_ended
  BY <1>2, <1>3, <1>4, <1>5, EndKeys
<1> QED BY <1>2, <1>3, <1>6, <1>7 DEF Ended

LEMMA DrvReceiveKeys ==
  ASSUME OneKeyboard, CudaInv, KeyInv, DrvReceive
  PROVE  KeyStep
<1> DEFINE got == Append(drv.got, cuda.sr)
           more == cuda.treq /\ ~(cuda.open_ended /\ Len(got) >= 2 + OpenReads)
<1>1. drv.phase = "reading" /\ cuda.sr_int /\ typed' = typed
  BY DEF DrvReceive
<1>2. CoreOk(cuda) /\ cuda.tip /\ DOMAIN drv = {"phase", "cmd", "sent", "got", "keys"}
      /\ Waiting(cuda, drv)
  BY <1>1 DEF CudaInv, SignalsOk, DrvOk, Waiting
<1>3. cuda.open_ended => IsSeq(drv.got) /\ got[1] = "pseudo"
  BY <1>1 DEF KeyInv, FirstOk
<1>4. ~cuda.open_ended => /\ IsSeq(drv.got) /\ cuda.out_pos \in 1 .. Len(cuda.out_buf)
                          /\ got = SubSeq(cuda.out_buf, 1, cuda.out_pos)
                          /\ ~cuda.treq <=> cuda.out_pos = Len(cuda.out_buf)
  BY <1>1 DEF CudaInv, ReadingOk
<1>5. PICK S : cuda.out_buf \in Seq(S)
  BY <1>2 DEF CoreOk, IsSeq
<1>6. CASE more
  <2>1. SetTip(ReadSr, ~cuda.byteack) /\ drv' = [drv EXCEPT !.got = got]
    BY <1>6 DEF DrvReceive, SetTip
  <2>2. drv'.phase = "reading" /\ drv'.got = got /\ drv'.keys = drv.keys
    <3> HIDE DEF got
    <3> QED BY <1>1, <1>2, <2>1
  <2>3. PICK c : c = ReadSr
    OBVIOUS
  <2>4. PICK ack \in BOOLEAN : ack = ~cuda.byteack
    OBVIOUS
  <2>5. SetTip(c, ack)
    BY <2>1, <2>3, <2>4
  <2>6. CoreOk(c) /\ ~c.shift_out /\ \A f \in CudaFields \ {"shift_out", "sr_int"} : c[f] = cuda[f]
    BY <1>2, <2>3, SrAccess
  <2>7. /\ c.byteack = cuda.byteack /\ c.out_pos = cuda.out_pos /\ c.out_buf = cuda.out_buf
        /\ c.open_ended = cuda.open_ended
    BY <2>6 DEF CudaFields
  <2>8. ack # c.byteack
    BY <1>2, <2>4, <2>7 DEF CoreOk
  <2>9. /\ adb' = adb /\ cuda'.open_ended = c.open_ended
        /\ c.out_pos < Len(c.out_buf) => cuda'.out_buf = c.out_buf
        /\ c.open_ended => cuda'.out_buf = c.out_buf
    BY <2>5, <2>6, <2>8, WriteBReads
  <2>10. cuda'.out_buf = cuda.out_buf /\ cuda'.open_ended = cuda.open_ended
    <3>1. ~cuda.open_ended => cuda.out_pos < Len(cuda.out_buf)
      BY <1>4, <1>5, <1>6
    <3> QED BY <2>7, <2>9, <3>1
  <2>11. FirstOk(cuda', drv')
    <3> SUFFICES ASSUME cuda.open_ended PROVE IsSeq(got) /\ Append(got, cuda'.sr)[1] = "pseudo"
      BY <2>2, <2>10 DEF FirstOk
    <3>1. IsSeq(got) /\ Len(got) = Len(drv.got) + 1 /\ Len(drv.got) \in Nat
      BY <1>3, AppendByte
    <3> HIDE DEF got
    <3>2. 1 \in 1 .. Len(got)
      BY <3>1
    <3>3. Append(got, cuda'.sr)[1] = got[1]
      BY <3>1, <3>2, AppendByte
    <3> QED BY <1>3, <3>1, <3>3
  <2>12. KeysOk(cuda', drv', adb, typed)
    BY <1>2, <2>2, <2>10, KeysRest DEF KeyInv
  <2> QED BY <1>1, <2>9, <2>10, <2>11, <2>12 DEF KeyInv, KeyStep, OpenOk
<1>7. CASE ~more
  <2>1. /\ SetEnd(ReadSr)
        /\ drv' = [drv EXCEPT !.phase = "ending", !.got = <<>>, !.cmd = <<>>, !.keys = @ \o KeysOf(got)]
    BY <1>7 DEF DrvReceive, SetEnd
  <2>2. KeysOf(got) = <<>> \/ KeysOf(got) = KeysOf(cuda.out_buf)
    <3>1. CASE cuda.open_ended
      BY <1>3, <3>1 DEF KeysOf
    <3>2. CASE ~cuda.open_ended
      <4>1. ~cuda.treq
        BY <1>7, <3>2
      <4>2. got = SubSeq(cuda.out_buf, 1, Len(cuda.out_buf))
        BY <1>4, <3>2, <4>1
      <4>3. got = cuda.out_buf
        BY <1>5, <4>2, SubSeqFull
      <4> QED BY <4>3
    <3> QED BY <3>1, <3>2
  <2> HIDE DEF got
  <2>3. drv'.phase = "ending" /\ drv'.keys = drv.keys \o KeysOf(got)
    BY <1>2, <2>1
  <2>4. /\ adb' = adb /\ cuda'.out_buf = cuda.out_buf /\ cuda'.open_ended = cuda.open_ended
        /\ ~cuda'.treq /\ ~cuda'.treq_timer
    BY <1>1, <2>1, NothingSentKeys
  <2>5. ~Waiting(cuda', drv')
    BY <2>3, <2>4 DEF Waiting
  <2>6. KeysOk(cuda', drv', adb, typed)
    BY <1>2, <2>2, <2>3, <2>5, KeysDelivered DEF KeyInv
  <2> QED BY <1>1, <2>3, <2>4, <2>6 DEF KeyInv, KeyStep, OpenOk, FirstOk
<1> QED BY <1>6, <1>7

LEMMA DrvSyncKeys ==
  ASSUME OneKeyboard, CudaInv, KeyInv, DrvSync \/ DrvSynced
  PROVE  KeyStep
<1>1. typed' = typed /\ CoreOk(cuda) /\ DOMAIN drv = {"phase", "cmd", "sent", "got", "keys"}
  BY DEF DrvSync, DrvSynced, CudaInv, DrvOk
<1>2. CASE DrvSync
  <2>1. /\ drv.phase # "syncing" /\ SetSync(ReadSr)
        /\ drv' = [drv EXCEPT !.phase = "syncing", !.cmd = <<>>, !.sent = 0, !.got = <<>>]
    BY <1>2 DEF DrvSync, SetSync
  <2>2. drv'.phase = "syncing" /\ drv'.keys = drv.keys
    BY <1>1, <2>1
  <2>3. PICK c : c = ReadSr
    OBVIOUS
  <2>4. CoreOk(c) /\ c.tip = cuda.tip /\ c.byteack = cuda.byteack
    BY <1>1, <2>3, SrAccess DEF CudaFields
  <2>5. c.tip \/ ~c.byteack
    BY <2>1, <2>4 DEF CudaInv, SignalsOk
  <2>6. adb' = adb /\ cuda'.out_buf = <<>>
    BY <2>1, <2>3, <2>4, <2>5, WriteBSyncs
  <2>7. ~Waiting(cuda', drv')
    BY <2>2 DEF Waiting
  <2>8. KeysOk(cuda', drv', adb, typed)
    BY <2>2, <2>7, KeysRest DEF KeyInv
  <2> QED BY <1>1, <2>2, <2>6, <2>8 DEF KeyStep, OpenOk, FirstOk
<1>3. CASE DrvSynced
  <2>1. drv.phase = "syncing" /\ cuda.sr_int /\ SetEnd(ReadSr) /\ drv' = [drv EXCEPT !.phase = "ending"]
    BY <1>3 DEF DrvSynced, SetEnd
  <2>2. drv'.phase = "ending" /\ drv'.keys = drv.keys
    BY <1>1, <2>1
  <2>3. /\ adb' = adb /\ cuda'.out_buf = cuda.out_buf /\ cuda'.open_ended = cuda.open_ended
        /\ ~cuda'.treq /\ ~cuda'.treq_timer
    BY <2>1, NothingSentKeys
  <2>4. ~Waiting(cuda', drv')
    BY <2>2, <2>3 DEF Waiting
  <2> QED BY <1>1, <2>2, <2>3, <2>4, DriverRests
<1> QED BY <1>2, <1>3

LEMMA KeyInvInit == CudaInit => KeyInv
<1> SUFFICES ASSUME CudaInit PROVE KeyInv
  OBVIOUS
<1>1. drv.keys = <<>> /\ drv.phase = "idle" /\ ~cuda.treq /\ ~cuda.treq_timer /\ ~cuda.open_ended
      /\ typed = 0 /\ \A d \in AdbDevs : adb[d].data = <<>>
  BY DEF CudaInit, AdbInit, ResetDevice
<1>2. Ordered(<<>>, 0, 0)
  BY OrderedEmpty
<1>3. KeptOk(adb, 0, typed)
  BY <1>1, <1>2, BusAssumption DEF KeptOk
<1>4. 0 \in Nat /\ 0 <= 0
  OBVIOUS
<1>5. KeysOk(cuda, drv, adb, typed)
  <2>1. ~Waiting(cuda, drv)
    BY <1>1 DEF Waiting
  <2> QED BY <1>1, <1>2, <1>3, <1>4, <2>1 DEF KeysOk
<1> QED BY <1>1, <1>5 DEF KeyInv, OpenOk, FirstOk

LEMMA KeyInvStep == OneKeyboard /\ CudaInv /\ KeyInv /\ [CudaNext]_cudaVars => KeyInv'
<1> SUFFICES ASSUME OneKeyboard, CudaInv, KeyInv, [CudaNext]_cudaVars PROVE KeyInv'
  OBVIOUS
<1>1. KeyStep
  BY TimersKeys, AutopollKeys, HostEventsKeys, DrvPrepareKeys, DrvFirstByteKeys, DrvSendKeys,
     DrvAttentionKeys, DrvReceiveKeys, DrvSyncKeys DEF CudaNext, Driver
<1> QED BY <1>1 DEF KeyStep, KeyInv, KeysOk, OpenOk, FirstOk, Waiting, Ordered, KeptOk, KeysOf, IsSeq

\* On a bus with one keyboard, as the machines have it: however autopoll, Talk
\* commands, commands that overwrite a packet and resynchronisation interleave,
\* the events that the driver gets are in the order they were typed and none
\* comes twice (AdbKeyboard::get_register_0, ViaCuda::process_packet and
\* autopoll_handler).
THEOREM KeysStayInOrder == OneKeyboard => (CudaSpec => []KeysInOrder)
<1> SUFFICES ASSUME OneKeyboard PROVE CudaSpec => []KeysInOrder
  OBVIOUS
<1>1. KeyInv => KeysInOrder
  <2> SUFFICES ASSUME KeyInv PROVE KeysInOrder
    OBVIOUS
  <2>1. PICK k \in Nat : Ordered(drv.keys, 0, k)
    BY DEF KeyInv, KeysOk
  <2> QED BY <2>1 DEF Ordered, KeysInOrder
<1>2. CudaInv /\ KeyInv /\ [CudaNext]_cudaVars => KeyInv'
  BY KeyInvStep
<1> QED BY <1>1, <1>2, KeyInvInit, CudaAlways, PTL DEF CudaSpec
-----------------------------------------------------------------------------
(* The floppy controller.  While the timer of an access runs, as many       *)
(* sectors are outstanding as the count says, the one looked for is the     *)
(* next of them, and in the data state the drive is over it.  While the     *)
(* head steps, its track and the steps to come add up to the one it was     *)
(* sent to.                                                                 *)

FdcFields == {"mode", "int_flags", "int_mask", "irq", "step_count", "xfer_cnt", "first_sec", "target_sect",
              "cur_track", "cur_sector", "valid", "cur_state", "phase", "selected", "step_timer",
              "access_timer", "timer_val", "us_timers", "blocks", "drive"}

DriveFields == {"has_disk", "eject_latch", "motor_stat", "is_ready", "step_dir", "cur_track", "cur_head",
                "cur_sector", "next_sector", "in_gap"}

\* The sectors of a track and those a second access in a gap counts up from.
AnySector == Sectors \cup (-2 * NumberMod .. -1)

PositionFields == {"step_dir", "cur_track", "cur_head", "cur_sector", "next_sector"}

DriveOk(v) ==
  /\ DOMAIN v = DriveFields
  /\ v.step_dir \in {-1, 1} /\ v.cur_track \in 0 .. NumTracks - 1 /\ v.cur_head \in Heads
  /\ v.cur_sector \in AnySector /\ v.next_sector \in AnySector

FdcOk(s) ==
  /\ DOMAIN s = FdcFields /\ DOMAIN s.drive = Connected /\ \A d \in Connected : DriveOk(s.drive[d])
  /\ s.selected \in Connected \cup {NoDrive} /\ s.step_count \in Nat /\ s.step_timer \in BOOLEAN
  /\ s.access_timer \in {"none", "sync", "next", "fired"} /\ IsSeq(s.blocks)

ModeOk(s) ==
  /\ "WR_MODE" \notin s.mode
  /\ ~({"DRIVE_1", "DRIVE_2"} \subseteq s.mode) /\ ~({"GO", "GO_STEP"} \subseteq s.mode)
  /\ s.access_timer # "none" => "GO" \in s.mode
  /\ s.step_timer => "GO_STEP" \in s.mode

PhaseOk(s, f) ==
  /\ DOMAIN f = {"pc", "want", "track"} /\ f.pc \in {"idle", "seek", "read", "stop", "abort"}
  /\ f.pc = "idle" => {"GO", "GO_STEP"} \cap s.mode = {} /\ f.want = <<>>
  /\ f.pc = "seek" => "GO" \notin s.mode
  /\ f.pc = "read" => "GO_STEP" \notin s.mode

\* The blocks so far are the first of those wanted.
BlocksOk(s, f) ==
  /\ IsSeq(f.want) /\ Len(f.want) \in Nat /\ Len(s.blocks) <= Len(f.want)
  /\ \A i \in 1 .. Len(s.blocks) : s.blocks[i] = f.want[i]

\* The k-th block of an access from a sector on, on the track of the drive d.
WantedBlock(d, v, first, k) == <<d, (v.cur_track * 2 + v.cur_head) * SectorsPerTrack + first + k - 2>>

Outstanding(s, f, first) ==
  /\ Len(f.want) + first <= SectorsPerTrack + 1
  /\ \A k \in 1 .. Len(f.want) : f.want[k] = WantedBlock(s.selected, s.drive[s.selected], first, k)
  /\ Len(s.blocks) < Len(f.want) /\ s.xfer_cnt = Len(f.want) - Len(s.blocks)
  /\ s.target_sect \in Nat /\ (s.target_sect = first + Len(s.blocks) \/ s.target_sect >= NumberMod)
  /\ s.access_timer = "next" =>
        /\ s.cur_state \in {"ADDR_MARK_SEARCH", "DATA_XFER"}
        /\ s.cur_state = "DATA_XFER" =>
              s.cur_sector = s.target_sect
              /\ s.target_sect = Number(s.drive[s.selected].cur_sector) % NumberMod

AccessOk(s, f) ==
  s.access_timer \in {"sync", "next"} /\ s.selected # NoDrive =>
     \E first \in 1 .. SectorsPerTrack : Outstanding(s, f, first)

ReadDone(s, f) ==
  f.pc = "read" /\ "SECT_DONE" \in s.int_flags => Len(s.blocks) = Len(f.want) /\ s.access_timer = "none"

Ahead(v, k) == Clamped(IF v.step_dir = 1 THEN v.cur_track + k ELSE v.cur_track - k)

SeekOk(s, f) ==
  f.pc = "seek" => /\ s.selected # NoDrive /\ f.track = Ahead(s.drive[s.selected], s.step_count)
                   /\ "STEP_DONE" \in s.int_flags => s.step_count = 0 /\ ~s.step_timer

FloppyOk(s, f) == /\ FdcOk(s) /\ ModeOk(s) /\ PhaseOk(s, f) /\ BlocksOk(s, f)
                  /\ AccessOk(s, f) /\ ReadDone(s, f) /\ SeekOk(s, f)

\* t is s but for what no access depends on: interrupt, identification, delays,
\* and the drives' motors and disks.
Alike(s, t) ==
  /\ DOMAIN t = FdcFields /\ DOMAIN t.drive = Connected
  /\ t.mode = s.mode /\ t.step_count = s.step_count /\ t.xfer_cnt = s.xfer_cnt
  /\ t.target_sect = s.target_sect /\ t.cur_sector = s.cur_sector /\ t.cur_state = s.cur_state
  /\ t.selected = s.selected /\ t.step_timer = s.step_timer /\ t.access_timer = s.access_timer
  /\ t.blocks = s.blocks
  /\ \A d \in Connected : DOMAIN t.drive[d] = DriveFields
                          /\ \A p \in PositionFields : t.drive[d][p] = s.drive[d][p]

SamePosition(v, w) == /\ DOMAIN w = DriveFields /\ w.step_dir = v.step_dir /\ w.cur_track = v.cur_track
                      /\ w.cur_head = v.cur_head /\ w.cur_sector = v.cur_sector
                      /\ w.next_sector = v.next_sector

LEMMA AlikeOk ==
  ASSUME NEW s, NEW t, NEW f, FloppyOk(s, f), Alike(s, t),
         {"STEP_DONE", "SECT_DONE"} \cap t.int_flags \subseteq s.int_flags
  PROVE  FloppyOk(t, f)
<1>1. \A d \in Connected : SamePosition(s.drive[d], t.drive[d])
  BY DEF Alike, SamePosition, PositionFields
<1>2. \A d \in Connected : DriveOk(t.drive[d])
  BY <1>1 DEF FloppyOk, FdcOk, DriveOk, SamePosition
<1>3. FdcOk(t)
  BY <1>2 DEF FloppyOk, FdcOk, Alike
<1>4. ModeOk(t) /\ PhaseOk(t, f) /\ BlocksOk(t, f)
  BY DEF FloppyOk, Alike, ModeOk, PhaseOk, BlocksOk
<1>5. s.selected # NoDrive => SamePosition(s.drive[s.selected], t.drive[s.selected])
  BY <1>1 DEF FloppyOk, FdcOk
<1>6. AccessOk(t, f)
  <2> SUFFICES ASSUME t.access_timer \in {"sync", "next"}, t.selected # NoDrive
               PROVE  \E first \in 1 .. SectorsPerTrack : Outstanding(t, f, first)
    BY DEF AccessOk
  <2>1. PICK first \in 1 .. SectorsPerTrack : Outstanding(s, f, first)
    BY DEF FloppyOk, AccessOk, Alike
  <2>2. Outstanding(t, f, first)
    BY <1>5, <2>1 DEF Outstanding, Alike, WantedBlock, SamePosition
  <2> QED BY <2>2
<1>7. ReadDone(t, f)
  BY DEF FloppyOk, Alike, ReadDone
<1>8. SeekOk(t, f)
  BY <1>5 DEF FloppyOk, Alike, SeekOk, Ahead, SamePosition
<1> QED BY <1>3, <1>4, <1>6, <1>7, <1>8 DEF FloppyOk

\* A driver that is idle, with nothing under way.
LEMMA IdleIsOk ==
  ASSUME NEW t, NEW f, FdcOk(t), f.pc = "idle", DOMAIN f = {"pc", "want", "track"}, f.want = <<>>,
         t.blocks = <<>>, {"WR_MODE", "GO", "GO_STEP"} \cap t.mode = {},
         ~({"DRIVE_1", "DRIVE_2"} \subseteq t.mode), t.access_timer = "none", ~t.step_timer
  PROVE  FloppyOk(t, f)
<1>1. ModeOk(t) /\ PhaseOk(t, f) /\ AccessOk(t, f) /\ ReadDone(t, f) /\ SeekOk(t, f)
  BY DEF ModeOk, PhaseOk, AccessOk, ReadDone, SeekOk
<1>2. BlocksOk(t, f)
  BY SequencesOfBytes DEF BlocksOk
<1> QED BY <1>1, <1>2 DEF FloppyOk

\* e is s but for the fields F.
But(s, e, F) == DOMAIN e = FdcFields /\ \A x \in FdcFields \ F : e[x] = s[x]

LEMMA FlagFacts ==
  ASSUME NEW s, DOMAIN s = FdcFields
  PROVE  /\ But(s, UpdateFdcIrq(s), {"irq"})
         /\ \A x : /\ But(s, RaiseFlag(s, x), {"irq", "int_flags"})
                   /\ RaiseFlag(s, x).int_flags = s.int_flags \cup {x}
         /\ But(s, ReadFlags(s), {"irq", "int_flags"}) /\ ReadFlags(s).int_flags = {}
<1>1. ASSUME NEW u, DOMAIN u = FdcFields PROVE But(u, UpdateFdcIrq(u), {"irq"})
  <2>1. CASE "INT_ENA" \in u.mode
    BY <1>1, <2>1 DEF UpdateFdcIrq, But, FdcFields
  <2>2. CASE "INT_ENA" \notin u.mode
    BY <1>1, <2>2 DEF UpdateFdcIrq, But
  <2> QED BY <2>1, <2>2
<1>2. ASSUME NEW x
      PROVE  /\ But(s, RaiseFlag(s, x), {"irq", "int_flags"})
             /\ RaiseFlag(s, x).int_flags = s.int_flags \cup {x}
  <2> DEFINE u == [s EXCEPT !.int_flags = @ \cup {x}]
  <2>1. But(s, u, {"int_flags"}) /\ u.int_flags = s.int_flags \cup {x}
    BY DEF But, FdcFields
  <2> HIDE DEF u
  <2>2. But(u, UpdateFdcIrq(u), {"irq"})
    BY <1>1, <2>1 DEF But
  <2>3. RaiseFlag(s, x) = UpdateFdcIrq(u)
    BY DEF RaiseFlag, u
  <2> QED BY <2>1, <2>2, <2>3 DEF But, FdcFields
<1>3. But(s, ReadFlags(s), {"irq", "int_flags"}) /\ ReadFlags(s).int_flags = {}
  <2> DEFINE u == [s EXCEPT !.int_flags = {}]
  <2>1. But(s, u, {"int_flags"}) /\ u.int_flags = {}
    BY DEF But, FdcFields
  <2> HIDE DEF u
  <2>2. But(u, UpdateFdcIrq(u), {"irq"})
    BY <1>1, <2>1 DEF But
  <2>3. ReadFlags(s) = UpdateFdcIrq(u)
    BY DEF ReadFlags, u
  <2> QED BY <2>1, <2>2, <2>3 DEF But, FdcFields
<1> QED BY <1>1, <1>2, <1>3

\* The drives, after a change of one of them.
DrivesOk(ds) == DOMAIN ds = Connected /\ \A d \in Connected : DriveOk(ds[d])

LEMMA SetMotorKeeps ==
  ASSUME NEW v, DriveOk(v), NEW on
  PROVE  SamePosition(v, SetMotor(v, on)) /\ DriveOk(SetMotor(v, on))
<1>1. SamePosition(v, SetMotor(v, on))
  <2>1. CASE v.motor_stat = on
    BY <2>1 DEF SetMotor, SamePosition, DriveOk
  <2>2. CASE v.motor_stat # on
    BY <2>2 DEF SetMotor, SamePosition, DriveOk, DriveFields
  <2> QED BY <2>1, <2>2
<1> QED BY <1>1 DEF SamePosition, DriveOk

LEMMA ClampedFacts ==
  ASSUME NEW t \in Int
  PROVE  Clamped(t) \in 0 .. NumTracks - 1 /\ (t \in 0 .. NumTracks - 1 => Clamped(t) = t)
BY FloppySizes DEF Clamped

\* One step more and one less to come.
LEMMA StepAhead ==
  ASSUME NEW v, DriveOk(v), NEW k \in Nat, k # 0
  PROVE  LET w == DriveCommand(v, "Do_Step", FALSE)
         IN  DriveOk(w) /\ Ahead(w, k - 1) = Ahead(v, k)
<1> DEFINE w == DriveCommand(v, "Do_Step", FALSE)
           to == Clamped(v.cur_track + v.step_dir)
<1>1. w = [v EXCEPT !.cur_track = to]
  BY DEF DriveCommand, DriveOk, DriveFields
<1>2. v.cur_track \in 0 .. NumTracks - 1 /\ v.step_dir \in {-1, 1} /\ NumTracks \in Nat \ {0}
  BY FloppySizes DEF DriveOk
<1>3. to \in 0 .. NumTracks - 1
  BY <1>2, ClampedFacts
<1> HIDE DEF w, to
<1>4. w.cur_track = to /\ w.step_dir = v.step_dir /\ DriveOk(w)
  BY <1>1, <1>3 DEF DriveOk, DriveFields
<1>5. Ahead(w, k - 1) = Ahead(v, k)
  <2>1. CASE v.step_dir = 1
    <3>1. Ahead(w, k - 1) = Clamped(to + (k - 1)) /\ Ahead(v, k) = Clamped(v.cur_track + k)
      BY <1>4, <2>1 DEF Ahead
    <3>2. to = Clamped(v.cur_track + 1)
      BY <2>1 DEF to
    <3> QED BY <1>2, <3>1, <3>2 DEF Clamped
  <2>2. CASE v.step_dir = -1
    <3>1. Ahead(w, k - 1) = Clamped(to - (k - 1)) /\ Ahead(v, k) = Clamped(v.cur_track - k)
      BY <1>4, <2>2 DEF Ahead
    <3>2. to = Clamped(v.cur_track - 1)
      BY <1>2, <2>2 DEF to
    <3> QED BY <1>2, <3>1, <3>2 DEF Clamped
  <2> QED BY <1>2, <2>1, <2>2
<1> QED BY <1>4, <1>5 DEF w

\* What a step of the head changes, from s to e.
StepFields == {"drive", "step_count", "step_timer", "int_flags", "irq"}

Stepped(s, e) ==
  /\ But(s, e, StepFields) /\ DrivesOk(e.drive) /\ e.step_count \in Nat /\ e.step_timer \in BOOLEAN
  /\ e.step_timer => s.step_timer
  /\ s.selected # NoDrive =>
        Ahead(e.drive[s.selected], e.step_count) = Ahead(s.drive[s.selected], s.step_count)
  /\ e.int_flags \subseteq s.int_flags \cup {"STEP_DONE"}
  /\ e = s \/ "STEP_DONE" \in s.int_flags \/ ("STEP_DONE" \in e.int_flags => e.step_count = 0 /\ ~e.step_timer)
  /\ s.step_count = 0 => e = s

LEMMA DoStepFacts ==
  ASSUME NEW s, DOMAIN s = FdcFields, DrivesOk(s.drive), s.selected \in Connected \cup {NoDrive},
         s.step_count \in Nat, s.step_timer \in BOOLEAN
  PROVE  Stepped(s, DoStep(s))
<1>1. CASE "GO_STEP" \notin s.mode \/ s.step_count = 0
  <2>1. DoStep(s) = s
    BY <1>1 DEF DoStep
  <2> QED BY <2>1 DEF Stepped, But
<1>2. CASE ~("GO_STEP" \notin s.mode \/ s.step_count = 0)
  <2> DEFINE moved == IF s.selected = NoDrive THEN s
                      ELSE [s EXCEPT !.drive[s.selected] = DriveCommand(@, "Do_Step", FALSE)]
             n == [moved EXCEPT !.step_count = @ - 1]
             m == IF s.step_timer THEN StopStepping(n) ELSE n
  <2>1. But(s, moved, {"drive"}) /\ DrivesOk(moved.drive)
        /\ (s.selected # NoDrive =>
              Ahead(moved.drive[s.selected], s.step_count - 1) = Ahead(s.drive[s.selected], s.step_count))
    <3>1. CASE s.selected = NoDrive
      BY <3>1 DEF But
    <3>2. CASE s.selected # NoDrive
      <4> DEFINE w == DriveCommand(s.drive[s.selected], "Do_Step", FALSE)
      <4>1. DriveOk(w) /\ Ahead(w, s.step_count - 1) = Ahead(s.drive[s.selected], s.step_count)
        BY <1>2, <3>2, StepAhead DEF DrivesOk
      <4> HIDE DEF w
      <4>2. moved = [s EXCEPT !.drive[s.selected] = w]
        BY <3>2 DEF w
      <4> HIDE DEF moved
      <4>3. moved.drive = [s.drive EXCEPT ![s.selected] = w] /\ But(s, moved, {"drive"})
        BY <4>2 DEF But, FdcFields
      <4> QED BY <3>2, <4>1, <4>3 DEF DrivesOk
    <3> QED BY <3>1, <3>2
  <2> HIDE DEF moved
  <2>2. But(moved, n, {"step_count"}) /\ n.step_count = moved.step_count - 1
    BY <2>1 DEF But, FdcFields
  <2> HIDE DEF n
  <2>3. But(s, n, {"drive", "step_count"}) /\ n.step_count = s.step_count - 1 /\ n.drive = moved.drive
    BY <2>1, <2>2 DEF But, FdcFields
  <2>4. CASE n.step_count = 0
    <3>1. But(n, m, {"step_timer", "step_count"}) /\ m.step_count = 0 /\ m.step_timer = FALSE
      BY <2>3, <2>4 DEF But, FdcFields, StopStepping
    <3> HIDE DEF m
    <3> DEFINE e == RaiseFlag(m, "STEP_DONE")
    <3>2. But(m, e, {"irq", "int_flags"}) /\ e.int_flags = m.int_flags \cup {"STEP_DONE"}
      BY <3>1, FlagFacts, ZenonT(40) DEF But
    <3>3. DoStep(s) = e
      BY <1>2, <2>4 DEF DoStep, moved, n, m
    <3> HIDE DEF e
    <3>4. But(s, e, StepFields) /\ e.drive = moved.drive /\ e.step_count = 0 /\ e.step_timer = FALSE
          /\ e.int_flags = s.int_flags \cup {"STEP_DONE"}
      BY <2>3, <3>1, <3>2 DEF But, FdcFields, StepFields
    <3>5. s.step_count - 1 = 0
      BY <2>3, <2>4
    <3>6. s.selected # NoDrive =>
            Ahead(e.drive[s.selected], e.step_count) = Ahead(s.drive[s.selected], s.step_count)
      BY <2>1, <3>4, <3>5
    <3>7. DrivesOk(e.drive) /\ e.step_count \in Nat
      BY <2>1, <3>4
    <3>8. e.step_timer \in BOOLEAN /\ ~e.step_timer
      BY <3>4, Zenon
    <3> QED BY <1>2, <3>3, <3>4, <3>6, <3>7, <3>8 DEF Stepped
  <2>5. CASE n.step_count # 0
    <3>1. DoStep(s) = n
      BY <1>2, <2>5 DEF DoStep, moved, n
    <3>2. But(s, n, StepFields) /\ n.step_timer = s.step_timer /\ n.int_flags = s.int_flags
      BY <2>3 DEF But, FdcFields, StepFields
    <3> QED BY <1>2, <2>1, <2>3, <3>1, <3>2 DEF Stepped
  <2> QED BY <2>4, <2>5
<1> QED BY <1>1, <1>2

LEMMA StepTimerKeeps ==
  ASSUME FloppyOk(fdc, fd), StepTimer
  PROVE  FloppyOk(fdc', fd')
<1> DEFINE e == DoStep(fdc)
<1>1. fdc' = e /\ fd' = fd /\ fdc.step_timer
  BY DEF StepTimer
<1>2. Stepped(fdc, e) /\ FdcOk(fdc) /\ ModeOk(fdc) /\ SeekOk(fdc, fd) /\ ReadDone(fdc, fd)
  BY DoStepFacts DEF FloppyOk, FdcOk, DrivesOk
<1> HIDE DEF e
<1>3. CASE fdc.step_count = 0
  BY <1>1, <1>2, <1>3 DEF Stepped
<1>4. CASE fdc.step_count # 0
  <2>1. fdc.access_timer = "none"
    BY <1>1, <1>2 DEF FdcOk, ModeOk
  <2>2. /\ e.mode = fdc.mode /\ e.selected = fdc.selected /\ e.access_timer = fdc.access_timer
        /\ e.blocks = fdc.blocks
    BY <1>2 DEF Stepped, But, FdcFields, StepFields
  <2>3. FdcOk(e) /\ ModeOk(e) /\ PhaseOk(e, fd) /\ BlocksOk(e, fd) /\ AccessOk(e, fd)
    BY <1>2, <2>1, <2>2 DEF FloppyOk, FdcOk, DrivesOk, Stepped, But, ModeOk, PhaseOk, BlocksOk, AccessOk
  <2>4. ReadDone(e, fd)
    BY <1>2, <2>2 DEF ReadDone, Stepped
  <2>5. SeekOk(e, fd)
    BY <1>2, <1>4, <2>2 DEF SeekOk, Stepped
  <2> QED BY <1>1, <2>3, <2>4, <2>5 DEF FloppyOk
<1> QED BY <1>3, <1>4

\* What disk_access changes, from s to e, for the driver f.
AccessFields == {"cur_track", "cur_sector", "valid", "int_flags", "irq", "cur_state", "drive",
                 "access_timer", "blocks", "xfer_cnt", "target_sect"}

Running(s, f) == /\ FloppyOk(s, f) /\ s.access_timer \in {"sync", "next"}
                 /\ s.access_timer = "sync" => s.cur_state = "ADDR_MARK_SEARCH"

\* Of a step of an access only the blocks, the flags and the drive are left to
\* be looked at.
LEMMA AccessStep ==
  ASSUME NEW s, NEW f, NEW e, Running(s, f), But(s, e, AccessFields), DrivesOk(e.drive),
         e.access_timer \in {"none", "next", "fired"}, IsSeq(e.blocks), BlocksOk(e, f), AccessOk(e, f),
         "SECT_DONE" \in e.int_flags =>
            "SECT_DONE" \in s.int_flags \/ (Len(e.blocks) = Len(f.want) /\ e.access_timer = "none")
  PROVE  FloppyOk(e, f)
<1>1. /\ e.mode = s.mode /\ e.selected = s.selected /\ e.step_timer = s.step_timer
      /\ e.step_count = s.step_count
  BY DEF But, FdcFields, AccessFields
<1>2. FdcOk(s) /\ ModeOk(s) /\ PhaseOk(s, f) /\ ReadDone(s, f) /\ "GO" \in s.mode
  BY DEF Running, FloppyOk, ModeOk
<1>3. FdcOk(e)
  BY <1>1, <1>2 DEF FdcOk, DrivesOk, But
<1>4. ModeOk(e) /\ PhaseOk(e, f)
  BY <1>1, <1>2 DEF ModeOk, PhaseOk
<1>5. ReadDone(e, f)
  BY <1>2 DEF ReadDone, Running
<1>6. f.pc # "seek"
  BY <1>2 DEF PhaseOk
<1>7. SeekOk(e, f)
  BY <1>6 DEF SeekOk
<1> QED BY <1>3, <1>4, <1>5, <1>7 DEF FloppyOk

LEMMA SmallMod ==
  ASSUME NEW m \in Nat \ {0}, NEW x \in -m .. 2 * m - 1
  PROVE  x % m = IF x < 0 THEN x + m ELSE IF x < m THEN x ELSE x - m
<1>1. x % m \in 0 .. m - 1
  OBVIOUS
<1>2. PICK q \in Int : x = m * q + (x % m)
  <2>1. x = m * (x \div m) + (x % m) /\ x \div m \in Int
    OBVIOUS
  <2> QED BY <2>1, Zenon
<1> QED BY <1>1, <1>2

\* The numbers in the headers of this sector and of the next.
LEMMA Numbers ==
  ASSUME NEW v, v.cur_sector \in AnySector
  PROVE  LET c == v.cur_sector
         IN  /\ NextSector(v) \in AnySector
             /\ Number(c) \in 0 .. 2 * NumberMod - 1
             /\ c >= 0 => Number(c) = c + 1
             /\ Number(NextSector(v)) =
                   IF c >= 0 THEN IF c + 1 >= SectorsPerTrack THEN 1 ELSE c + 2
                   ELSE IF Number(c) + 1 < 2 * NumberMod THEN Number(c) + 1 ELSE 0
<1> DEFINE c == v.cur_sector  m == 2 * NumberMod
<1>1. m \in Nat \ {0} /\ NumberMod \in 3 .. 128 /\ SectorsPerTrack \in 1 .. NumberMod - 2
  BY FloppySizes
<1>2. c \in 0 .. SectorsPerTrack - 1 \/ c \in -m .. -1
  BY DEF AnySector, Sectors
<1>3. \A x \in -m .. 2 * m - 1 : x % m = IF x < 0 THEN x + m ELSE IF x < m THEN x ELSE x - m
  BY <1>1, SmallMod
<1>4. \A k : Number(k) = (k + 1) % m
  BY DEF Number
<1> HIDE DEF m
<1>5. m = 2 * NumberMod
  BY DEF m
<1>6. CASE c \in 0 .. SectorsPerTrack - 1
  <2>1. NextSector(v) = IF c + 1 >= SectorsPerTrack THEN 0 ELSE c + 1
    BY <1>1, <1>6 DEF NextSector
  <2>2. Number(c) = c + 1 /\ Number(NextSector(v)) = NextSector(v) + 1
    BY <1>1, <1>3, <1>4, <1>5, <1>6, <2>1
  <2>3. NextSector(v) \in Sectors
    BY <1>1, <1>6, <2>1 DEF Sectors
  <2> QED BY <1>1, <1>5, <1>6, <2>1, <2>2, <2>3 DEF AnySector
<1>7. CASE c \in -m .. -1
  <2>1. NextSector(v) = Number(c) - m
    BY <1>1, <1>5, <1>7 DEF NextSector
  <2>2. Number(c) \in 0 .. m - 1
    BY <1>1, <1>4, <1>7
  <2>3. NextSector(v) \in -m .. -1
    BY <1>1, <2>1, <2>2
  <2>4. Number(NextSector(v)) = IF Number(c) + 1 < m THEN Number(c) + 1 ELSE 0
    BY <1>1, <1>3, <1>4, <2>1, <2>2
  <2> QED BY <1>1, <1>5, <1>7, <2>2, <2>3, <2>4 DEF AnySector
<1> QED BY <1>2, <1>6, <1>7

LEMMA ReadHeaderKeeps ==
  ASSUME NEW s, NEW f, Running(s, f), s.selected # NoDrive, s.cur_state = "ADDR_MARK_SEARCH"
  PROVE  FloppyOk(ReadHeader(s), f)
<1> DEFINE d == s.selected
           v == [s.drive[d] EXCEPT !.cur_sector = s.drive[d].next_sector, !.in_gap = FALSE]
           num == Number(v.cur_sector) % NumberMod
           found == num = s.target_sect
           id == [s EXCEPT !.cur_track = [side |-> v.cur_head, track |-> v.cur_track],
                           !.cur_sector = num, !.valid = TRUE]
           n == RaiseFlag(id, "ID_READ")
           w == IF found THEN v ELSE [v EXCEPT !.next_sector = NextSector(v)]
           e == ReadHeader(s)
<1>1. d \in Connected /\ DriveOk(s.drive[d]) /\ FdcOk(s)
  BY DEF Running, FloppyOk, FdcOk
<1>2. DriveOk(v) /\ v.cur_track = s.drive[d].cur_track /\ v.cur_head = s.drive[d].cur_head
  BY <1>1 DEF DriveOk, DriveFields
<1> HIDE DEF v
<1>3. NextSector(v) \in AnySector
  BY <1>2, Numbers DEF DriveOk
<1>4. DriveOk(w) /\ w.cur_track = v.cur_track /\ w.cur_head = v.cur_head /\ w.cur_sector = v.cur_sector
  BY <1>2, <1>3 DEF DriveOk, DriveFields
<1> HIDE DEF w, num
<1>5. But(s, id, {"cur_track", "cur_sector", "valid"}) /\ id.cur_sector = num
  BY <1>1 DEF FdcOk, But, FdcFields
<1> HIDE DEF id
<1>6. But(id, n, {"irq", "int_flags"}) /\ n.int_flags = id.int_flags \cup {"ID_READ"}
  BY <1>5, FlagFacts DEF But
<1>7. e = [n EXCEPT !.cur_state = IF found THEN "DATA_XFER" ELSE "ADDR_MARK_SEARCH",
                    !.drive[d] = w, !.access_timer = "next"]
  BY DEF ReadHeader, n, id, w, num, v
<1> HIDE DEF n, e
<1>8. /\ But(n, e, {"cur_state", "drive", "access_timer"}) /\ e.access_timer = "next"
      /\ e.cur_state = (IF found THEN "DATA_XFER" ELSE "ADDR_MARK_SEARCH")
      /\ e.drive = [n.drive EXCEPT ![d] = w]
  BY <1>6, <1>7 DEF But, FdcFields
<1>9. /\ But(s, e, AccessFields) /\ e.blocks = s.blocks /\ e.xfer_cnt = s.xfer_cnt
      /\ e.target_sect = s.target_sect /\ e.cur_sector = num /\ e.selected = s.selected
      /\ e.int_flags = s.int_flags \cup {"ID_READ"} /\ n.drive = s.drive
  BY <1>5, <1>6, <1>8 DEF But, FdcFields, AccessFields
<1>10. DrivesOk(e.drive) /\ e.drive[d] = w
  BY <1>1, <1>4, <1>8, <1>9 DEF DrivesOk, FdcOk
<1>11. IsSeq(e.blocks) /\ BlocksOk(e, f)
  BY <1>1, <1>9 DEF FdcOk, Running, FloppyOk, BlocksOk
<1>12. AccessOk(e, f)
  <2>1. PICK first \in 1 .. SectorsPerTrack : Outstanding(s, f, first)
    BY DEF Running, FloppyOk, AccessOk
  <2>2. e.cur_state = "DATA_XFER" => num = s.target_sect
    BY <1>8
  <2>3. \A k : WantedBlock(e.selected, e.drive[e.selected], first, k) = WantedBlock(s.selected, s.drive[s.selected], first, k)
    BY <1>2, <1>4, <1>9, <1>10 DEF WantedBlock
  <2>4. Outstanding(e, f, first)
    BY <1>4, <1>8, <1>9, <1>10, <2>1, <2>2, <2>3 DEF Outstanding, num
  <2> QED BY <2>4 DEF AccessOk
<1> QED BY <1>8, <1>9, <1>10, <1>11, <1>12, AccessStep DEF e

\* get_sector_data_ptr and the driver count alike.
LEMMA BlockWanted ==
  ASSUME NEW d, NEW v, DriveOk(v), NEW first \in 1 .. SectorsPerTrack, NEW k \in Nat
  PROVE  <<d, BlockAt(v, first + k)>> = WantedBlock(d, v, first, k + 1)
<1> DEFINE t == v.cur_track  h == v.cur_head  size == SectorsPerTrack
<1>1. t \in Nat /\ h \in {0, 1} /\ size \in Nat
  BY FloppySizes DEF DriveOk, Heads
<1>2. BlockAt(v, first + k) = t * size * 2 + h * size + (first + k) - 1
  BY DEF BlockAt
<1>3. WantedBlock(d, v, first, k + 1) = <<d, (t * 2 + h) * size + first + (k + 1) - 2>>
  BY DEF WantedBlock
<1> HIDE DEF t, h, size
<1>4. (t * 2 + h) * size = t * size * 2 + h * size
  BY <1>1
<1>5. t * size \in Nat /\ h * size \in Nat /\ first \in Nat
  BY <1>1
<1> QED BY <1>2, <1>3, <1>4, <1>5

LEMMA TransferSectorKeeps ==
  ASSUME NEW s, NEW f, Running(s, f), s.selected # NoDrive, s.cur_state = "DATA_XFER"
  PROVE  FloppyOk(TransferSector(s), f)
<1> DEFINE d == s.selected
           v == s.drive[d]
           x == <<d, BlockAt(v, s.cur_sector)>>
           n == [s EXCEPT !.blocks = Append(@, x), !.xfer_cnt = (@ - 1) % 256]
           e == TransferSector(s)
<1>1. d \in Connected /\ DriveOk(v) /\ FdcOk(s) /\ IsSeq(s.blocks) /\ IsSeq(f.want) /\ Len(f.want) \in Nat
  BY DEF Running, FloppyOk, FdcOk, BlocksOk
<1>2. PICK first \in 1 .. SectorsPerTrack : Outstanding(s, f, first)
  BY DEF Running, FloppyOk, AccessOk
<1>3. /\ Len(s.blocks) \in Nat /\ IsSeq(n.blocks) /\ Len(n.blocks) = Len(s.blocks) + 1
      /\ \A i \in 1 .. Len(s.blocks) : n.blocks[i] = s.blocks[i]
      /\ n.blocks[Len(s.blocks) + 1] = x
      /\ But(s, n, {"blocks", "xfer_cnt"}) /\ n.xfer_cnt = (s.xfer_cnt - 1) % 256
  <2>1. But(s, n, {"blocks", "xfer_cnt"}) /\ n.xfer_cnt = (s.xfer_cnt - 1) % 256 /\ n.blocks = Append(s.blocks, x)
    BY <1>1 DEF FdcOk, But, FdcFields
  <2> HIDE DEF n, x
  <2> QED BY <1>1, <2>1, AppendByte
<1>4. /\ s.access_timer = "next" /\ s.cur_sector = s.target_sect
      /\ Number(v.cur_sector) % NumberMod = s.target_sect
      /\ s.target_sect = first + Len(s.blocks) /\ s.xfer_cnt = Len(f.want) - Len(s.blocks)
      /\ Len(s.blocks) < Len(f.want) /\ Len(f.want) + first <= SectorsPerTrack + 1
  <2>1. Number(v.cur_sector) % NumberMod < NumberMod
    BY <1>1, Numbers, FloppySizes DEF DriveOk
  <2> QED BY <1>2, <2>1, FloppySizes DEF Running, Outstanding
<1>10. Len(s.blocks) \in Nat /\ Len(n.blocks) = Len(s.blocks) + 1 /\ Len(f.want) \in Nat
      /\ NumberMod \in 3 .. 128 /\ SectorsPerTrack \in 1 .. NumberMod - 2 /\ first \in 1 .. SectorsPerTrack
  BY <1>1, <1>2, <1>3, FloppySizes
<1>5. x = f.want[Len(s.blocks) + 1]
  <2>0. s.cur_sector = first + Len(s.blocks)
    BY <1>4
  <2>1. x = WantedBlock(d, v, first, Len(s.blocks) + 1)
    BY <1>1, <1>10, <2>0, BlockWanted
  <2>2. Len(s.blocks) + 1 \in 1 .. Len(f.want)
    BY <1>1, <1>3, <1>4
  <2> QED BY <1>2, <2>1, <2>2 DEF Outstanding
<1> HIDE DEF n, x
<1>6. n.xfer_cnt = s.xfer_cnt - 1 /\ n.xfer_cnt = Len(f.want) - Len(n.blocks)
  <2>1. PICK a \in Nat, b \in Nat : a = Len(s.blocks) /\ b = Len(f.want)
    BY <1>10
  <2>0. b + first <= SectorsPerTrack + 1
    BY <1>4, <2>1
  <2>5. SectorsPerTrack <= 126 /\ first >= 1 /\ SectorsPerTrack \in Nat /\ first \in Nat
    BY <1>10
  <2>6. b <= 126
    BY <2>0, <2>5
  <2>2. s.xfer_cnt = b - a /\ a < b /\ b <= 126 /\ Len(n.blocks) = a + 1
    BY <1>3, <1>4, <2>1, <2>6
  <2>3. n.xfer_cnt = ((b - a) - 1) % 256
    BY <1>3, <2>2
  <2>4. ((b - a) - 1) % 256 = b - (a + 1) /\ (b - a) - 1 = b - (a + 1)
    BY <2>2
  <2> QED BY <2>1, <2>2, <2>3, <2>4
<1>7. BlocksOk(n, f)
  <2>1. \A i \in 1 .. Len(s.blocks) : n.blocks[i] = f.want[i]
    BY <1>3 DEF Running, FloppyOk, BlocksOk
  <2>2. n.blocks[Len(s.blocks) + 1] = f.want[Len(s.blocks) + 1]
    BY <1>3, <1>5
  <2> QED BY <1>1, <1>3, <1>4, <2>1, <2>2 DEF BlocksOk
<1>8. CASE n.xfer_cnt = 0
  <2> DEFINE m == StopDiskAccess(n)
  <2>1. But(n, m, {"access_timer"}) /\ m.access_timer = "none"
    BY <1>3 DEF But, FdcFields, StopDiskAccess
  <2> HIDE DEF m
  <2>2. e = RaiseFlag(m, "SECT_DONE")
    BY <1>8 DEF TransferSector, n, m, x
  <2>3. But(m, e, {"irq", "int_flags"})
    BY <2>1, <2>2, FlagFacts DEF But
  <2> HIDE DEF e
  <2>4. But(s, e, AccessFields) /\ e.blocks = n.blocks /\ e.access_timer = "none" /\ e.drive = s.drive
    BY <1>3, <2>1, <2>3 DEF But, FdcFields, AccessFields
  <2>5. DrivesOk(e.drive) /\ IsSeq(e.blocks) /\ BlocksOk(e, f) /\ AccessOk(e, f)
    BY <1>1, <1>3, <1>7, <2>4 DEF FdcOk, DrivesOk, BlocksOk, AccessOk
  <2>6. Len(e.blocks) = Len(f.want)
    <3>1. Len(f.want) - Len(n.blocks) = 0
      BY <1>6, <1>8
    <3>2. Len(f.want) \in Nat /\ Len(n.blocks) \in Nat
      BY <1>10
    <3>3. Len(n.blocks) = Len(f.want)
      BY <3>1, <3>2
    <3> QED BY <2>4, <3>3
  <2> QED BY <2>4, <2>5, <2>6, AccessStep DEF e
<1>9. CASE n.xfer_cnt # 0
  <2> DEFINE w == [v EXCEPT !.next_sector = NextSector(v)]
  <2>1. NextSector(v) \in AnySector
    BY <1>1, Numbers DEF DriveOk
  <2>2. DriveOk(w) /\ w.cur_track = v.cur_track /\ w.cur_head = v.cur_head
    BY <1>1, <2>1 DEF DriveOk, DriveFields
  <2>3. LET t == Number(NextSector(v))
        IN  t \in Nat /\ (t = first + Len(n.blocks) \/ t >= NumberMod)
    <3> DEFINE c == v.cur_sector  t == first + Len(s.blocks)  num == Number(c)  next == Number(NextSector(v))
    <3>1. t \in Nat /\ t < SectorsPerTrack /\ first + Len(n.blocks) = t + 1
      BY <1>10, <1>4, <1>6, <1>9
    <3>2. num % NumberMod = t /\ NumberMod \in 3 .. 128 /\ SectorsPerTrack \in 1 .. NumberMod - 2
      BY <1>4, <1>10
    <3>3. /\ num \in 0 .. 2 * NumberMod - 1 /\ c \in Int
          /\ c >= 0 => num = c + 1 /\ c < SectorsPerTrack
          /\ next = IF c >= 0 THEN IF c + 1 >= SectorsPerTrack THEN 1 ELSE c + 2
                    ELSE IF num + 1 < 2 * NumberMod THEN num + 1 ELSE 0
      <4>1. c \in AnySector
        BY <1>1 DEF DriveOk
      <4>2. c \in Int /\ (c >= 0 => c < SectorsPerTrack)
        BY <1>10, <4>1 DEF AnySector, Sectors
      <4> QED BY <4>1, <4>2, Numbers
    <3> HIDE DEF t, num, next, c
    <3>4. num % NumberMod = IF num < NumberMod THEN num ELSE num - NumberMod
      <4>1. NumberMod \in Nat \ {0} /\ num \in -NumberMod .. 2 * NumberMod - 1 /\ ~(num < 0)
        BY <3>2, <3>3
      <4> QED BY <4>1, SmallMod
    <3>5. next \in Nat /\ (next = t + 1 \/ next >= NumberMod)
      <4>1. num = t \/ num = t + NumberMod
        BY <3>1, <3>2, <3>3, <3>4
      <4>2. CASE c >= 0
        <5>1. num = t
          BY <3>1, <3>2, <3>3, <4>1, <4>2
        <5>2. num = c + 1 /\ next = IF c + 1 >= SectorsPerTrack THEN 1 ELSE c + 2
          BY <3>3, <4>2
        <5>3. next = t + 1
          BY <3>1, <3>2, <3>3, <5>1, <5>2
        <5> QED BY <3>1, <5>3
      <4>3. CASE ~(c >= 0)
        <5>1. next = IF num + 1 < 2 * NumberMod THEN num + 1 ELSE 0
          BY <3>3, <4>3
        <5>2. num + 1 < 2 * NumberMod
          BY <3>1, <3>2, <4>1
        <5>3. next = t + 1 \/ next = t + NumberMod + 1
          BY <3>1, <3>2, <4>1, <5>1, <5>2
        <5> QED BY <3>1, <3>2, <5>3
      <4> QED BY <4>2, <4>3
    <3> QED BY <3>1, <3>5 DEF next
  <2>4. n.drive = s.drive /\ n.selected = s.selected
    BY <1>3 DEF But, FdcFields
  <2>5. e = [n EXCEPT !.cur_state = "ADDR_MARK_SEARCH", !.drive[d].next_sector = NextSector(v),
                      !.target_sect = Number(NextSector(v)), !.access_timer = "next"]
    BY <1>9 DEF TransferSector, n, x
  <2> HIDE DEF e
  <2>6. /\ But(n, e, {"cur_state", "drive", "target_sect", "access_timer"})
        /\ e.cur_state = "ADDR_MARK_SEARCH" /\ e.target_sect = Number(NextSector(v)) /\ e.access_timer = "next"
        /\ e.drive = [n.drive EXCEPT ![d].next_sector = NextSector(v)]
    BY <1>3, <2>5 DEF But, FdcFields
  <2>7. DrivesOk(e.drive) /\ e.drive[d] = w
    BY <1>1, <2>2, <2>4, <2>6 DEF DrivesOk, FdcOk
  <2> HIDE DEF w
  <2>8. /\ But(s, e, AccessFields) /\ e.blocks = n.blocks /\ e.int_flags = s.int_flags
        /\ e.xfer_cnt = n.xfer_cnt /\ e.selected = s.selected
    BY <1>3, <2>6 DEF But, FdcFields, AccessFields
  <2>9. Outstanding(e, f, first)
    <3>1. \A k : WantedBlock(e.selected, e.drive[e.selected], first, k) = WantedBlock(d, v, first, k)
      BY <2>2, <2>7, <2>8 DEF WantedBlock
    <3>2. Len(e.blocks) < Len(f.want)
      BY <1>10, <1>4, <1>6, <1>9, <2>8
    <3> QED BY <1>2, <1>6, <2>3, <2>6, <2>8, <3>1, <3>2 DEF Outstanding
  <2>10. AccessOk(e, f) /\ IsSeq(e.blocks) /\ BlocksOk(e, f)
    BY <1>3, <1>7, <2>8, <2>9 DEF AccessOk, BlocksOk
  <2> QED BY <2>6, <2>7, <2>8, <2>10, AccessStep DEF e
<1> QED BY <1>8, <1>9

LEMMA AccessTimerKeeps ==
  ASSUME FloppyOk(fdc, fd), AccessTimer
  PROVE  FloppyOk(fdc', fd')
<1> DEFINE s == IF fdc.access_timer = "sync" THEN [fdc EXCEPT !.cur_state = "ADDR_MARK_SEARCH"] ELSE fdc
<1>1. fdc' = DiskAccess(fdc) /\ fd' = fd /\ fdc.access_timer \in {"sync", "next"}
  BY DEF AccessTimer
<1>2. But(fdc, s, {"cur_state"}) /\ (fdc.access_timer = "sync" => s.cur_state = "ADDR_MARK_SEARCH")
      /\ (fdc.access_timer # "sync" => s = fdc)
  BY DEF FloppyOk, FdcOk, But, FdcFields
<1>3. /\ s.selected = NoDrive => fdc' = [s EXCEPT !.access_timer = "fired"]
      /\ s.selected # NoDrive /\ s.cur_state = "ADDR_MARK_SEARCH" => fdc' = ReadHeader(s)
      /\ s.selected # NoDrive /\ s.cur_state = "DATA_XFER" => fdc' = TransferSector(s)
  <2> DEFINE Case(u) ==
        CASE u.selected = NoDrive -> [u EXCEPT !.access_timer = "fired"]
          [] u.selected # NoDrive /\ u.cur_state = "ADDR_MARK_SEARCH" -> ReadHeader(u)
          [] u.selected # NoDrive /\ u.cur_state = "DATA_XFER" -> TransferSector(u)
  <2>1. fdc' = Case(s)
    BY <1>1 DEF DiskAccess
  <2> HIDE DEF s
  <2> QED BY <2>1
<1> HIDE DEF s
<1>4. /\ s.mode = fdc.mode /\ s.int_flags = fdc.int_flags /\ s.step_count = fdc.step_count
      /\ s.xfer_cnt = fdc.xfer_cnt /\ s.target_sect = fdc.target_sect /\ s.cur_sector = fdc.cur_sector
      /\ s.selected = fdc.selected /\ s.step_timer = fdc.step_timer /\ s.access_timer = fdc.access_timer
      /\ s.blocks = fdc.blocks /\ s.drive = fdc.drive /\ DOMAIN s = FdcFields
  BY <1>2 DEF But, FdcFields
<1>5. FloppyOk(s, fd)
  <2>1. FdcOk(s) /\ ModeOk(s) /\ PhaseOk(s, fd) /\ BlocksOk(s, fd) /\ ReadDone(s, fd) /\ SeekOk(s, fd)
    BY <1>4 DEF FloppyOk, FdcOk, ModeOk, PhaseOk, BlocksOk, ReadDone, SeekOk
  <2>2. ASSUME s.selected # NoDrive
        PROVE  \E first \in 1 .. SectorsPerTrack : Outstanding(s, fd, first)
    <3>1. PICK first \in 1 .. SectorsPerTrack : Outstanding(fdc, fd, first)
      BY <1>1, <1>4, <2>2 DEF FloppyOk, AccessOk
    <3>2. Outstanding(s, fd, first)
      BY <1>2, <1>4, <3>1 DEF Outstanding
    <3> QED BY <3>2
  <2> QED BY <2>1, <2>2 DEF FloppyOk, AccessOk
<1>6. Running(s, fd)
  BY <1>1, <1>2, <1>4, <1>5 DEF Running
<1>7. CASE s.selected = NoDrive
  <2> DEFINE e == [s EXCEPT !.access_timer = "fired"]
  <2>1. fdc' = e
    BY <1>3, <1>7
  <2>2. But(s, e, AccessFields) /\ e.access_timer = "fired" /\ e.drive = s.drive /\ e.blocks = s.blocks
        /\ e.int_flags = s.int_flags
    BY <1>4 DEF But, FdcFields, AccessFields
  <2> HIDE DEF e
  <2>3. DrivesOk(e.drive) /\ IsSeq(e.blocks) /\ BlocksOk(e, fd) /\ AccessOk(e, fd)
    BY <1>5, <2>2 DEF FloppyOk, FdcOk, DrivesOk, BlocksOk, AccessOk
  <2>4. FloppyOk(e, fd)
    BY <1>6, <2>2, <2>3, AccessStep
  <2> QED BY <1>1, <2>1, <2>4
<1>8. CASE s.selected # NoDrive
  <2>1. s.cur_state \in {"ADDR_MARK_SEARCH", "DATA_XFER"}
    <3>1. PICK first \in 1 .. SectorsPerTrack : Outstanding(s, fd, first)
      BY <1>1, <1>4, <1>5, <1>8 DEF FloppyOk, AccessOk
    <3> QED BY <1>1, <1>2, <1>4, <3>1 DEF Outstanding
  <2>2. CASE s.cur_state = "ADDR_MARK_SEARCH"
    <3>1. fdc' = ReadHeader(s)
      BY <1>3, <1>8, <2>2
    <3> QED BY <1>1, <1>6, <1>8, <2>2, <3>1, ReadHeaderKeeps
  <2>3. CASE s.cur_state = "DATA_XFER"
    <3>1. fdc' = TransferSector(s)
      BY <1>3, <1>8, <2>3
    <3> QED BY <1>1, <1>6, <1>8, <2>3, <3>1, TransferSectorKeeps
  <2> QED BY <2>1, <2>2, <2>3
<1> QED BY <1>7, <1>8

\* The delay's timer, and a disk put into a drive.
LEMMA UsTimerKeeps ==
  ASSUME FloppyOk(fdc, fd), UsTimer
  PROVE  FloppyOk(fdc', fd')
<1> DEFINE u == [fdc EXCEPT !.us_timers = @ - 1, !.timer_val = FALSE]
           e == RaiseFlag(u, "TIMER_DONE")
<1>1. But(fdc, u, {"us_timers", "timer_val"})
  BY DEF FloppyOk, FdcOk, But, FdcFields
<1> HIDE DEF u
<1>2. But(u, e, {"irq", "int_flags"}) /\ e.int_flags = u.int_flags \cup {"TIMER_DONE"}
  BY <1>1, FlagFacts DEF But
<1>3. fdc' = e /\ fd' = fd
  BY DEF UsTimer, u
<1> HIDE DEF e
<1>4. /\ e.mode = fdc.mode /\ e.step_count = fdc.step_count /\ e.xfer_cnt = fdc.xfer_cnt
      /\ e.target_sect = fdc.target_sect /\ e.cur_sector = fdc.cur_sector /\ e.cur_state = fdc.cur_state
      /\ e.selected = fdc.selected /\ e.step_timer = fdc.step_timer /\ e.access_timer = fdc.access_timer
      /\ e.blocks = fdc.blocks /\ e.drive = fdc.drive /\ DOMAIN e = FdcFields
      /\ e.int_flags = fdc.int_flags \cup {"TIMER_DONE"}
  BY <1>1, <1>2 DEF But, FdcFields
<1>5. Alike(fdc, e)
  BY <1>4 DEF Alike, FloppyOk, FdcOk, DriveOk
<1>6. {"STEP_DONE", "SECT_DONE"} \cap e.int_flags \subseteq fdc.int_flags
  BY <1>4
<1> QED BY <1>3, <1>5, <1>6, AlikeOk

LEMMA InsertDiskKeeps ==
  ASSUME FloppyOk(fdc, fd), NEW d \in Connected, InsertDisk(d)
  PROVE  FloppyOk(fdc', fd')
<1> DEFINE e == [fdc EXCEPT !.drive[d].has_disk = TRUE]
<1>1. fdc' = e /\ fd' = fd
  BY DEF InsertDisk
<1>2. But(fdc, e, {"drive"}) /\ e.drive = [fdc.drive EXCEPT ![d].has_disk = TRUE]
  BY DEF FloppyOk, FdcOk, But, FdcFields
<1> HIDE DEF e
<1>3. DOMAIN e.drive = Connected
  BY <1>2 DEF FloppyOk, FdcOk
<1>4. \A c \in Connected : DOMAIN e.drive[c] = DriveFields
                           /\ \A p \in PositionFields : e.drive[c][p] = fdc.drive[c][p]
  BY <1>2 DEF FloppyOk, FdcOk, DriveOk, PositionFields, DriveFields
<1>5. Alike(fdc, e) /\ e.int_flags = fdc.int_flags
  BY <1>2, <1>3, <1>4 DEF But, FdcFields, Alike
<1> QED BY <1>1, <1>5, AlikeOk

\* A driver that is idle has left nothing behind.
LEMMA IdleFacts ==
  ASSUME FloppyOk(fdc, fd), fd.pc = "idle"
  PROVE  /\ FdcOk(fdc) /\ {"WR_MODE", "GO", "GO_STEP"} \cap fdc.mode = {}
         /\ ~({"DRIVE_1", "DRIVE_2"} \subseteq fdc.mode)
         /\ fdc.access_timer = "none" /\ ~fdc.step_timer /\ fdc.blocks = <<>>
         /\ DOMAIN fd = {"pc", "want", "track"} /\ fd.want = <<>>
<1>1. FdcOk(fdc) /\ ModeOk(fdc) /\ PhaseOk(fdc, fd) /\ BlocksOk(fdc, fd)
  BY DEF FloppyOk
<1>2. {"WR_MODE", "GO", "GO_STEP"} \cap fdc.mode = {} /\ fd.want = <<>>
  BY <1>1 DEF ModeOk, PhaseOk
<1>3. fdc.access_timer = "none" /\ ~fdc.step_timer
  BY <1>1, <1>2 DEF ModeOk
<1>4. fdc.blocks = <<>>
  <2>1. PICK S : fdc.blocks \in Seq(S)
    BY <1>1 DEF FdcOk, IsSeq
  <2>2. Len(fdc.blocks) <= 0
    BY <1>1, <1>2 DEF BlocksOk
  <2> QED BY <2>1, <2>2
<1> QED BY <1>1, <1>2, <1>3, <1>4 DEF ModeOk, PhaseOk

\* The operations that only move drives and bits: the driver stays idle.
StrayFields == {"mode", "selected", "cur_track", "cur_sector", "valid", "drive", "phase", "timer_val", "us_timers"}

LEMMA IdleOperation ==
  ASSUME FloppyOk(fdc, fd), NEW e, FdOp(e, fd), But(fdc, e, StrayFields), FdcOk(e),
         {"WR_MODE", "GO", "GO_STEP"} \cap e.mode = {}, ~({"DRIVE_1", "DRIVE_2"} \subseteq e.mode)
  PROVE  FloppyOk(fdc', fd')
<1>1. fd.pc = "idle" /\ fdc' = e /\ fd' = fd
  BY DEF FdOp
<1>2. e.access_timer = fdc.access_timer /\ e.step_timer = fdc.step_timer /\ e.blocks = fdc.blocks
  BY DEF But, FdcFields, StrayFields
<1>3. FloppyOk(e, fd)
  BY <1>1, <1>2, IdleFacts, IdleIsOk
<1> QED BY <1>1, <1>3

\* mode_change, when only the drives' bits change.
DriveBits == {"DRIVE_1", "DRIVE_2"}
SelectFields == {"mode", "selected", "cur_track", "cur_sector", "valid", "drive"}

LEMMA SelectFacts ==
  ASSUME NEW s, FdcOk(s), NEW mode, NEW sync,
         \A b \in {"GO", "GO_STEP"} : b \in s.mode <=> b \in mode
  PROVE  LET e == ModeChange(s, mode, sync)
         IN  /\ But(s, e, SelectFields) /\ e.mode = mode /\ FdcOk(e)
             /\ DriveBits \cap mode = DriveBits \cap s.mode => But(s, e, {"mode"})
             /\ DriveBits \cap mode = {} /\ DriveBits \cap s.mode # {} => e.selected = NoDrive
<1> DEFINE changed == Toggled(s.mode, mode)
           t == IF changed \cap {"DRIVE_1", "DRIVE_2"} = {} THEN s ELSE SelectDrive(s, mode)
           e == ModeChange(s, mode, sync)
<1>1. "GO" \notin changed /\ "GO_STEP" \notin changed
  BY DEF Toggled
<1>2. (changed \cap {"DRIVE_1", "DRIVE_2"} = {}) <=> (DriveBits \cap mode = DriveBits \cap s.mode)
  BY DEF Toggled, DriveBits
<1>3. e = [t EXCEPT !.mode = mode]
  BY <1>1 DEF ModeChange
<1> HIDE DEF changed, e
<1>4. CASE DriveBits \cap mode = DriveBits \cap s.mode
  <2>1. But(s, e, {"mode"}) /\ e.mode = mode
    BY <1>2, <1>3, <1>4 DEF FdcOk, But, FdcFields
  <2>2. FdcOk(e)
    BY <2>1 DEF FdcOk, But, FdcFields
  <2> QED BY <1>4, <2>1, <2>2 DEF But, SelectFields, e
<1>5. CASE DriveBits \cap mode # DriveBits \cap s.mode
  <2> DEFINE wanted == IF "DRIVE_1" \in mode THEN 1 ELSE IF "DRIVE_2" \in mode THEN 2 ELSE NoDrive
             ds == [d \in Connected |-> IF d = wanted THEN s.drive[d] ELSE SetMotor(s.drive[d], FALSE)]
  <2>1. t = [s EXCEPT !.selected = IF wanted \in Connected THEN wanted ELSE NoDrive,
                      !.cur_track = [side |-> 1, track |-> NoSector], !.cur_sector = NoSector,
                      !.valid = FALSE, !.drive = ds]
    BY <1>2, <1>5, DOMAIN s = FdcFields DEF SelectDrive, FdcOk, FdcFields
  <2>2. DrivesOk(ds)
    BY SetMotorKeeps DEF DrivesOk, FdcOk
  <2> HIDE DEF ds, t
  <2>3. But(s, e, SelectFields) /\ e.mode = mode /\ e.drive = ds
        /\ e.selected = (IF wanted \in Connected THEN wanted ELSE NoDrive)
    BY <1>3, <2>1 DEF FdcOk, But, FdcFields, SelectFields
  <2>4. e.selected \in Connected \cup {NoDrive} /\ (DriveBits \cap mode = {} => e.selected = NoDrive)
    BY <2>3 DEF DriveBits
  <2> HIDE DEF wanted
  <2>5. FdcOk(e)
    <3>1. /\ e.step_count = s.step_count /\ e.step_timer = s.step_timer
          /\ e.access_timer = s.access_timer /\ e.blocks = s.blocks /\ DOMAIN e = FdcFields
      BY <2>3 DEF But, FdcFields, SelectFields
    <3> QED BY <2>2, <2>3, <2>4, <3>1 DEF FdcOk, DrivesOk
  <2> QED BY <1>5, <2>3, <2>4, <2>5 DEF e
<1> QED BY <1>4, <1>5

LEMMA FdSelectKeeps ==
  ASSUME FloppyOk(fdc, fd), NEW d \in {1, 2}, FdSelect(d)
  PROVE  FloppyOk(fdc', fd')
<1> DEFINE bit == IF d = 1 THEN "DRIVE_1" ELSE "DRIVE_2"
           s == ClearMode(fdc, {"DRIVE_1", "DRIVE_2"})
           e == SetMode(s, {bit}, NoSync)
<1>1. FdOp(e, fd) /\ fd.pc = "idle" /\ bit \in {"DRIVE_1", "DRIVE_2"}
  BY DEF FdSelect, FdOp
<1> HIDE DEF bit
<1>2. FdcOk(fdc) /\ {"WR_MODE", "GO", "GO_STEP"} \cap fdc.mode = {}
  BY <1>1, IdleFacts
<1>3. But(fdc, s, SelectFields) /\ FdcOk(s) /\ s.mode = fdc.mode \ {"DRIVE_1", "DRIVE_2"}
  BY <1>2, SelectFacts DEF ClearMode
<1> HIDE DEF s
<1>4. But(s, e, SelectFields) /\ FdcOk(e) /\ e.mode = s.mode \cup {bit}
  BY <1>1, <1>3, SelectFacts DEF SetMode
<1> HIDE DEF e
<1>5. But(fdc, e, StrayFields)
  BY <1>3, <1>4 DEF But, SelectFields, StrayFields
<1>6. {"WR_MODE", "GO", "GO_STEP"} \cap e.mode = {} /\ ~({"DRIVE_1", "DRIVE_2"} \subseteq e.mode)
  BY <1>1, <1>2, <1>3, <1>4
<1> QED BY <1>1, <1>4, <1>5, <1>6, IdleOperation

\* The Phase register's strobe.
LEMMA StrobeFacts ==
  ASSUME NEW s, FdcOk(s), s.selected # NoDrive, NEW addr, NEW on,
         DriveOk(DriveCommand(s.drive[s.selected], addr, on))
  PROVE  LET e == Strobe(s, addr, on)
         IN  /\ But(s, e, {"phase", "drive"}) /\ FdcOk(e)
             /\ e.drive[s.selected] = DriveCommand(s.drive[s.selected], addr, on)
<1> DEFINE w == DriveCommand(s.drive[s.selected], addr, on)
           e == Strobe(s, addr, on)
<1> HIDE DEF w
<1>1. e = [s EXCEPT !.phase = addr, !.drive[s.selected] = w]
  BY DEF Strobe, FdcOk, FdcFields, w
<1> HIDE DEF e
<1>2. But(s, e, {"phase", "drive"}) /\ e.drive = [s.drive EXCEPT ![s.selected] = w]
  BY <1>1 DEF FdcOk, But, FdcFields
<1>3. DrivesOk(e.drive) /\ e.drive[s.selected] = w
  BY <1>2 DEF FdcOk, DrivesOk, w
<1>4. FdcOk(e)
  BY <1>2, <1>3 DEF FdcOk, DrivesOk, But, FdcFields
<1> QED BY <1>2, <1>3, <1>4 DEF e, w

LEMMA FdMotorOnKeeps ==
  ASSUME FloppyOk(fdc, fd), FdMotorOn
  PROVE  FloppyOk(fdc', fd')
<1> DEFINE e == Strobe(fdc, "Motor_On_Off", FALSE)
<1>1. FdOp(e, fd) /\ fd.pc = "idle" /\ fdc.selected # NoDrive
  BY DEF FdMotorOn, FdOp
<1>2. FdcOk(fdc) /\ DriveOk(Driven)
  BY <1>1 DEF FloppyOk, FdcOk, Driven
<1>3. DriveCommand(Driven, "Motor_On_Off", FALSE) = SetMotor(Driven, ~FALSE)
  BY DEF DriveCommand
<1>4. DriveOk(DriveCommand(Driven, "Motor_On_Off", FALSE))
  BY <1>2, <1>3, SetMotorKeeps
<1>5. But(fdc, e, {"phase", "drive"}) /\ FdcOk(e)
  BY <1>1, <1>2, <1>4, StrobeFacts DEF Driven
<1> HIDE DEF e
<1>6. But(fdc, e, StrayFields) /\ e.mode = fdc.mode
  BY <1>5 DEF But, FdcFields, StrayFields
<1> QED BY <1>1, <1>5, <1>6, IdleFacts, IdleOperation

LEMMA FdEjectKeeps ==
  ASSUME FloppyOk(fdc, fd), FdEject
  PROVE  FloppyOk(fdc', fd')
<1> DEFINE s == Strobe(fdc, "Eject_Disk", TRUE)
           e == Strobe(s, "Reset_Eject_Latch", TRUE)
           v == DriveCommand(Driven, "Eject_Disk", TRUE)
           w == DriveCommand(v, "Reset_Eject_Latch", TRUE)
<1>1. FdOp(e, fd) /\ fd.pc = "idle" /\ fdc.selected # NoDrive
  BY DEF FdEject, FdOp
<1>2. FdcOk(fdc) /\ DriveOk(Driven)
  BY <1>1 DEF FloppyOk, FdcOk, Driven
<1>3. DriveOk(v)
  <2>1. v = [Driven EXCEPT !.eject_latch = TRUE, !.has_disk = FALSE, !.motor_stat = FALSE,
                           !.cur_track = 0, !.is_ready = FALSE]
    BY DEF DriveCommand
  <2> HIDE DEF v
  <2>2. 0 \in 0 .. NumTracks - 1
    BY FloppySizes
  <2> QED BY <1>2, <2>1, <2>2 DEF DriveOk, DriveFields
<1>4. But(fdc, s, {"phase", "drive"}) /\ FdcOk(s) /\ s.drive[fdc.selected] = v
  BY <1>1, <1>2, <1>3, StrobeFacts DEF Driven
<1> HIDE DEF s, v
<1>5. s.selected = fdc.selected
  BY <1>4 DEF But, FdcFields
<1>6. DriveOk(w)
  <2>1. w = [v EXCEPT !.eject_latch = FALSE]
    BY DEF DriveCommand
  <2> HIDE DEF w
  <2> QED BY <1>3, <2>1 DEF DriveOk, DriveFields
<1>7. But(s, e, {"phase", "drive"}) /\ FdcOk(e)
  BY <1>1, <1>4, <1>5, <1>6, StrobeFacts
<1> HIDE DEF e
<1>8. But(fdc, e, StrayFields) /\ e.mode = fdc.mode
  BY <1>4, <1>7 DEF But, FdcFields, StrayFields
<1> QED BY <1>1, <1>7, <1>8, IdleFacts, IdleOperation

LEMMA FdDelayKeeps ==
  ASSUME FloppyOk(fdc, fd), FdDelay
  PROVE  FloppyOk(fdc', fd')
<1> DEFINE e == [fdc EXCEPT !.timer_val = TRUE, !.us_timers = @ + 1]
<1>1. FdOp(e, fd) /\ fd.pc = "idle"
  BY DEF FdDelay, FdOp
<1>2. FdcOk(fdc)
  BY DEF FloppyOk
<1>3. But(fdc, e, {"timer_val", "us_timers"})
  BY <1>2 DEF FdcOk, But, FdcFields
<1> HIDE DEF e
<1>4. But(fdc, e, StrayFields) /\ e.mode = fdc.mode
  BY <1>3 DEF But, FdcFields, StrayFields
<1>5. FdcOk(e)
  BY <1>2, <1>3 DEF FdcOk, But, FdcFields
<1> QED BY <1>1, <1>4, <1>5, IdleFacts, IdleOperation

LEMMA FdSeekKeeps ==
  ASSUME FloppyOk(fdc, fd), NEW n \in Steps, NEW inwards \in BOOLEAN, FdSeek(n, inwards)
  PROVE  FloppyOk(fdc', fd')
<1> DEFINE r == ReadFlags(fdc)
           v == fdc.drive[fdc.selected]
           w == DriveCommand(v, "Step_Direction", ~inwards)
           p == Strobe(r, "Step_Direction", ~inwards)
           s == [p EXCEPT !.phase = "Do_Step", !.step_count = n, !.int_mask = {"STEP_DONE"}]
           q == [s EXCEPT !.mode = @ \cup {"GO_STEP"}, !.step_timer = s.step_count > 1]
           e == SetMode(s, {"GO_STEP"}, NoSync)
           f == [IdleFd EXCEPT !.pc = "seek",
                               !.track = Clamped(Driven.cur_track + IF inwards THEN n ELSE -n)]
<1>1. FdOp(e, f) /\ fd.pc = "idle" /\ fdc.selected # NoDrive
  BY DEF FdSeek, FdOp
<1>2. /\ FdcOk(fdc) /\ {"WR_MODE", "GO", "GO_STEP"} \cap fdc.mode = {}
      /\ ~({"DRIVE_1", "DRIVE_2"} \subseteq fdc.mode)
      /\ fdc.access_timer = "none" /\ ~fdc.step_timer /\ fdc.blocks = <<>>
  BY <1>1, IdleFacts
<1>3. fdc.selected \in Connected /\ DriveOk(v) /\ n \in Nat
  BY <1>1, <1>2, FloppySizes DEF FdcOk
<1>4. But(fdc, r, {"irq", "int_flags"}) /\ r.int_flags = {}
  BY <1>2, FlagFacts DEF FdcOk
<1> HIDE DEF r
<1>5. r.drive = fdc.drive /\ r.selected = fdc.selected /\ FdcOk(r)
  BY <1>2, <1>4 DEF FdcOk, But, FdcFields
<1>6. DriveOk(w) /\ Ahead(w, n) = f.track
  <2>1. w = [v EXCEPT !.step_dir = IF ~inwards THEN -1 ELSE 1]
    BY DEF DriveCommand
  <2> HIDE DEF w
  <2>2. w.step_dir = (IF inwards THEN 1 ELSE -1) /\ w.cur_track = v.cur_track /\ DriveOk(w)
    BY <1>3, <2>1 DEF DriveOk, DriveFields
  <2>3. v.cur_track \in Int
    BY <1>3 DEF DriveOk
  <2>4. f.track = Clamped(v.cur_track + IF inwards THEN n ELSE -n)
    BY DEF IdleFd, Driven
  <2>5. CASE inwards
    BY <1>3, <2>2, <2>3, <2>4, <2>5 DEF Ahead
  <2>6. CASE ~inwards
    <3>1. v.cur_track + (-n) = v.cur_track - n
      BY <1>3, <2>3
    <3> QED BY <1>3, <2>2, <2>3, <2>4, <2>6, <3>1 DEF Ahead
  <2> QED BY <2>2, <2>5, <2>6
<1>7. But(r, p, {"phase", "drive"}) /\ FdcOk(p) /\ p.drive[fdc.selected] = w
  BY <1>1, <1>5, <1>6, StrobeFacts
<1> HIDE DEF p, w
<1>8. But(p, s, {"phase", "step_count", "int_mask"}) /\ s.step_count = n /\ s.phase = "Do_Step"
  BY <1>7 DEF But, FdcFields
<1> HIDE DEF s
<1>9. /\ s.mode = fdc.mode /\ s.selected = fdc.selected /\ s.access_timer = "none"
      /\ s.step_timer = fdc.step_timer /\ s.blocks = <<>> /\ s.int_flags = {} /\ s.drive = p.drive
      /\ DOMAIN s = FdcFields
  BY <1>2, <1>4, <1>7, <1>8 DEF But, FdcFields
<1>10. DrivesOk(s.drive) /\ s.drive[s.selected] = w
  BY <1>7, <1>9 DEF FdcOk, DrivesOk
<1>11. But(s, q, {"mode", "step_timer"}) /\ q.mode = s.mode \cup {"GO_STEP"} /\ q.step_timer = (n > 1)
  BY <1>8, <1>9 DEF But, FdcFields
<1> DEFINE u == StartStepping(s)
<1>12. e = [u EXCEPT !.mode = s.mode \cup {"GO_STEP"}]
  <2>1. Toggled(s.mode, s.mode \cup {"GO_STEP"}) = {"GO_STEP"}
    BY <1>2, <1>9 DEF Toggled
  <2> QED BY <2>1 DEF SetMode, ModeChange
<1>13. u = IF n = 0 THEN s ELSE DoStep(q)
  BY <1>2, <1>8, <1>9 DEF StartStepping
<1> HIDE DEF q, e, u
<1>14. /\ But(s, u, StepFields \cup {"mode"}) /\ DrivesOk(u.drive) /\ u.step_count \in Nat /\ u.step_timer \in BOOLEAN
       /\ Ahead(u.drive[s.selected], u.step_count) = Ahead(w, n) /\ u.int_flags \subseteq {"STEP_DONE"}
       /\ "STEP_DONE" \in u.int_flags => u.step_count = 0 /\ ~u.step_timer
  <2>1. CASE n = 0
    <3>1. u = s
      BY <1>13, <2>1
    <3>2. s.step_timer \in BOOLEAN
      BY <1>2, <1>9 DEF FdcOk
    <3> QED BY <1>3, <1>8, <1>9, <1>10, <3>1, <3>2 DEF But
  <2>2. CASE n # 0
    <3>1. /\ q.drive = s.drive /\ q.selected = s.selected /\ q.step_count = n /\ q.int_flags = {}
          /\ DOMAIN q = FdcFields
      BY <1>8, <1>9, <1>11 DEF But, FdcFields
    <3>2. q.selected \in Connected \cup {NoDrive} /\ q.step_timer \in BOOLEAN /\ DrivesOk(q.drive)
      BY <1>3, <1>9, <1>10, <1>11, <3>1
    <3>3. Stepped(q, u)
      BY <1>3, <1>13, <2>2, <3>1, <3>2, DoStepFacts
    <3>4. But(s, u, StepFields \cup {"mode"})
      BY <1>11, <3>3 DEF Stepped, But, FdcFields, StepFields
    <3> QED BY <1>1, <1>9, <1>10, <3>1, <3>3, <3>4 DEF Stepped
  <2> QED BY <2>1, <2>2
<1>15. But(u, e, {"mode"}) /\ e.mode = s.mode \cup {"GO_STEP"}
  BY <1>12, <1>14 DEF But, FdcFields
<1>16. /\ e.selected = fdc.selected /\ e.access_timer = "none" /\ e.blocks = <<>> /\ DOMAIN e = FdcFields
       /\ e.drive = u.drive /\ e.step_count = u.step_count /\ e.step_timer = u.step_timer
       /\ e.int_flags = u.int_flags /\ e.mode = fdc.mode \cup {"GO_STEP"}
  BY <1>9, <1>14, <1>15 DEF But, FdcFields, StepFields
<1>17. f.pc = "seek" /\ f.want = <<>> /\ DOMAIN f = {"pc", "want", "track"}
  BY DEF IdleFd
<1> HIDE DEF f
<1>18. FdcOk(e)
  BY <1>3, <1>14, <1>16, SequencesOfBytes DEF FdcOk, DrivesOk
<1>19. ModeOk(e) /\ PhaseOk(e, f)
  BY <1>2, <1>16, <1>17 DEF ModeOk, PhaseOk
<1>20. BlocksOk(e, f)
  BY <1>16, <1>17, SequencesOfBytes DEF BlocksOk
<1>21. AccessOk(e, f) /\ ReadDone(e, f)
  BY <1>16, <1>17 DEF AccessOk, ReadDone
<1>22. SeekOk(e, f)
  BY <1>1, <1>6, <1>9, <1>14, <1>16, <1>17 DEF SeekOk
<1>23. fdc' = e /\ fd' = f
  BY <1>1 DEF FdOp
<1> QED BY <1>18, <1>19, <1>20, <1>21, <1>22, <1>23 DEF FloppyOk

\* The blocks a driver asks for are a sequence.
LEMMA WantIsSeq ==
  ASSUME NEW want, NEW n \in Nat, want = [k \in 1 .. n |-> want[k]]
  PROVE  IsSeq(want) /\ Len(want) = n
<1> DEFINE S == {want[k] : k \in 1 .. n}
<1>1. want \in [1 .. n -> S]
  OBVIOUS
<1> HIDE DEF S
<1>2. want \in Seq(S)
  BY <1>1
<1> QED BY <1>1, <1>2 DEF IsSeq

LEMMA FdReadKeeps ==
  ASSUME FloppyOk(fdc, fd), NEW head \in Heads, NEW first \in 1 .. SectorsPerTrack, NEW sync \in SyncToDisk(Driven),
         NEW n \in 1 .. SectorsPerTrack + 1 - first, FdRead(head, first, n, sync)
  PROVE  FloppyOk(fdc', fd')
<1> DEFINE r == ReadFlags(fdc)
           d == fdc.selected
           v == fdc.drive[d]
           h == SelectHead(r, head)
           s == [h EXCEPT !.first_sec = first, !.xfer_cnt = n, !.blocks = <<>>,
                          !.int_mask = {"ID_READ", "SECT_DONE"}]
           e == SetMode(s, {"GO"}, sync)
           want == [k \in 1 .. n |-> <<d, (v.cur_track * 2 + head) * SectorsPerTrack + first + k - 2>>]
           f == [IdleFd EXCEPT !.pc = "read", !.want = want]
<1>1. FdOp(e, f) /\ fd.pc = "idle" /\ d # NoDrive
  BY DEF FdRead, FdOp, Driven
<1>2. /\ FdcOk(fdc) /\ {"WR_MODE", "GO", "GO_STEP"} \cap fdc.mode = {}
      /\ ~({"DRIVE_1", "DRIVE_2"} \subseteq fdc.mode)
      /\ fdc.access_timer = "none" /\ ~fdc.step_timer
  BY <1>1, IdleFacts
<1>3. d \in Connected /\ DriveOk(v) /\ n \in Nat /\ n > 0 /\ n + first <= SectorsPerTrack + 1 /\ first \in Nat
  BY <1>1, <1>2, FloppySizes DEF FdcOk
<1>4. But(fdc, r, {"irq", "int_flags"}) /\ r.int_flags = {}
  BY <1>2, FlagFacts DEF FdcOk
<1> HIDE DEF r
<1>5. r.drive = fdc.drive /\ r.selected = fdc.selected /\ DOMAIN r = FdcFields
  BY <1>4 DEF But, FdcFields
<1>6. But(r, h, {"phase", "drive"}) /\ h.drive = [fdc.drive EXCEPT ![d].cur_head = head]
  BY <1>1, <1>5 DEF SelectHead, But, FdcFields
<1> HIDE DEF h
<1>7. /\ But(h, s, {"first_sec", "xfer_cnt", "blocks", "int_mask"})
      /\ s.first_sec = first /\ s.xfer_cnt = n /\ s.blocks = <<>>
  BY <1>6 DEF But, FdcFields
<1> HIDE DEF s
<1>8. /\ s.mode = fdc.mode /\ s.selected = d /\ s.access_timer = "none" /\ s.step_timer = fdc.step_timer
      /\ s.step_count = fdc.step_count /\ s.int_flags = {} /\ s.drive = h.drive /\ DOMAIN s = FdcFields
  BY <1>2, <1>4, <1>6, <1>7 DEF But, FdcFields
<1> DEFINE u == [s EXCEPT !.mode = @ \cup {"GO"}, !.target_sect = s.first_sec, !.access_timer = "sync",
                          !.drive[d].next_sector = sync.next_sector, !.drive[d].in_gap = sync.in_gap]
<1>9. StartDiskAccess(s, sync) = u
  BY <1>1, <1>2, <1>8 DEF StartDiskAccess, FdcFields
<1>10. e = [u EXCEPT !.mode = s.mode \cup {"GO"}]
  <2>1. Toggled(s.mode, s.mode \cup {"GO"}) = {"GO"}
    BY <1>2, <1>8 DEF Toggled
  <2>2. ModeChange(s, s.mode \cup {"GO"}, sync) = [StartDiskAccess(s, sync) EXCEPT !.mode = s.mode \cup {"GO"}]
    BY <2>1 DEF ModeChange
  <2> QED BY <1>9, <2>2 DEF SetMode
<1>11. /\ But(s, u, {"mode", "target_sect", "access_timer", "drive"}) /\ u.target_sect = first
       /\ u.access_timer = "sync" /\ u.drive = [s.drive EXCEPT ![d].next_sector = sync.next_sector, ![d].in_gap = sync.in_gap]
  BY <1>7, <1>8 DEF But, FdcFields
<1> HIDE DEF u, e
<1>12. But(u, e, {"mode"}) /\ e.mode = fdc.mode \cup {"GO"}
  BY <1>8, <1>10, <1>11 DEF But, FdcFields
<1>13. /\ e.selected = d /\ e.access_timer = "sync" /\ e.step_timer = fdc.step_timer
       /\ e.step_count = fdc.step_count /\ e.int_flags = {} /\ e.blocks = <<>> /\ e.xfer_cnt = n
       /\ e.target_sect = first /\ DOMAIN e = FdcFields
       /\ e.drive = [h.drive EXCEPT ![d].next_sector = sync.next_sector, ![d].in_gap = sync.in_gap]
  BY <1>7, <1>8, <1>11, <1>12 DEF But, FdcFields
<1>14. DrivesOk(e.drive) /\ e.drive[d].cur_track = v.cur_track /\ e.drive[d].cur_head = head
  <2> DEFINE w == [v EXCEPT !.cur_head = head]
             x == [w EXCEPT !.next_sector = sync.next_sector, !.in_gap = sync.in_gap]
  <2>1. DriveOk(w) /\ w.cur_track = v.cur_track /\ w.cur_head = head
    BY <1>3 DEF DriveOk, DriveFields
  <2>2. h.drive[d] = w /\ DrivesOk(h.drive)
    BY <1>2, <1>3, <1>6, <2>1 DEF FdcOk, DrivesOk
  <2> HIDE DEF w
  <2>5. sync.next_sector \in AnySector
    <3>1. sync.next_sector \in Sectors \cup {0, GapSector}
      BY DEF SyncToDisk
    <3>2. 0 \in Sectors /\ GapSector \in -2 * NumberMod .. -1
      BY FloppySizes DEF Sectors
    <3> QED BY <3>1, <3>2 DEF AnySector
  <2>3. DriveOk(x) /\ x.cur_track = w.cur_track /\ x.cur_head = w.cur_head
    BY <2>1, <2>5 DEF DriveOk, DriveFields
  <2>4. e.drive[d] = x /\ DrivesOk(e.drive)
    BY <1>3, <1>13, <2>2, <2>3 DEF DrivesOk
  <2> QED BY <2>1, <2>3, <2>4
<1>15. FdcOk(e)
  BY <1>2, <1>3, <1>13, <1>14, SequencesOfBytes DEF FdcOk, DrivesOk
<1>16. f.pc = "read" /\ f.want = want /\ DOMAIN f = {"pc", "want", "track"}
  BY DEF IdleFd
<1>17. IsSeq(want) /\ Len(want) = n /\ \A k \in 1 .. n : want[k] = WantedBlock(e.selected, e.drive[e.selected], first, k)
  <2>1. want = [k \in 1 .. n |-> want[k]]
    OBVIOUS
  <2>2. \A k \in 1 .. n : want[k] = WantedBlock(e.selected, e.drive[e.selected], first, k)
    BY <1>13, <1>14 DEF WantedBlock
  <2> HIDE DEF want
  <2> QED BY <1>3, <2>1, <2>2, WantIsSeq
<1> HIDE DEF f, want
<1>18. ModeOk(e) /\ PhaseOk(e, f)
  BY <1>2, <1>12, <1>13, <1>16 DEF ModeOk, PhaseOk
<1>19. BlocksOk(e, f) /\ ReadDone(e, f) /\ SeekOk(e, f)
  BY <1>3, <1>13, <1>16, <1>17 DEF BlocksOk, ReadDone, SeekOk
<1>20. Outstanding(e, f, first)
  <2>1. Len(e.blocks) = 0
    BY <1>13
  <2> QED BY <1>3, <1>13, <1>16, <1>17, <2>1 DEF Outstanding
<1>21. AccessOk(e, f)
  BY <1>20 DEF AccessOk
<1>22. fdc' = e /\ fd' = f
  BY <1>1 DEF FdOp
<1> QED BY <1>15, <1>18, <1>19, <1>21, <1>22 DEF FloppyOk

\* The driver turns to stopping what it began.
LEMMA StopsOk ==
  ASSUME NEW s, NEW f, FloppyOk(s, f), NEW pc \in {"stop", "abort"}
  PROVE  FloppyOk(s, [f EXCEPT !.pc = pc])
<1> DEFINE g == [f EXCEPT !.pc = pc]
<1>1. g.pc = pc /\ g.want = f.want /\ DOMAIN g = {"pc", "want", "track"}
  BY DEF FloppyOk, PhaseOk
<1> HIDE DEF g
<1>2. PhaseOk(s, g) /\ BlocksOk(s, g) /\ ReadDone(s, g) /\ SeekOk(s, g)
  BY <1>1 DEF FloppyOk, PhaseOk, BlocksOk, ReadDone, SeekOk
<1>3. \A first : Outstanding(s, f, first) => Outstanding(s, g, first)
  BY <1>1 DEF Outstanding
<1>4. AccessOk(s, g)
  BY <1>3 DEF FloppyOk, AccessOk
<1> QED BY <1>2, <1>4 DEF FloppyOk, g

LEMMA FdInterruptKeeps ==
  ASSUME FloppyOk(fdc, fd), FdInterrupt
  PROVE  FloppyOk(fdc', fd')
<1> DEFINE e == ReadFlags(fdc)
<1>1. fdc' = e /\ (fd' = fd \/ fd' = [fd EXCEPT !.pc = "stop"])
  BY DEF FdInterrupt
<1>2. But(fdc, e, {"irq", "int_flags"}) /\ e.int_flags = {}
  BY FlagFacts DEF FloppyOk, FdcOk
<1> HIDE DEF e
<1>3. e.drive = fdc.drive
  BY <1>2 DEF But, FdcFields
<1>4. Alike(fdc, e)
  BY <1>2, <1>3 DEF But, FdcFields, Alike, FloppyOk, FdcOk, DriveOk
<1>5. FloppyOk(e, fd)
  BY <1>2, <1>4, AlikeOk
<1>6. FloppyOk(e, [fd EXCEPT !.pc = "stop"])
  BY <1>5, StopsOk
<1> QED BY <1>1, <1>5, <1>6

\* The only drive that can be selected is turned off, or nothing is.
LEMMA FdGiveUpKeeps ==
  ASSUME FloppyOk(fdc, fd), FdGiveUp
  PROVE  FloppyOk(fdc', fd')
<1> DEFINE f == [fd EXCEPT !.pc = "abort"]
<1>1. PICK off \in SUBSET {"DRIVE_1", "DRIVE_2"} : fdc' = IF off = {} THEN fdc ELSE ClearMode(fdc, off)
  BY DEF FdGiveUp
<1>2. fd' = f
  BY DEF FdGiveUp
<1>3. CASE off = {}
  BY <1>1, <1>2, <1>3, StopsOk
<1>4. CASE off # {}
  <2> DEFINE mode == fdc.mode \ off
             e == ModeChange(fdc, mode, NoSync)
  <2>1. fdc' = e
    BY <1>1, <1>4 DEF ClearMode
  <2>2. FdcOk(fdc) /\ ModeOk(fdc) /\ BlocksOk(fdc, fd) /\ PhaseOk(fdc, fd)
    BY DEF FloppyOk
  <2>3. \A b \in {"GO", "GO_STEP"} : b \in fdc.mode <=> b \in mode
    BY <1>1
  <2>4. /\ But(fdc, e, SelectFields) /\ e.mode = mode /\ FdcOk(e)
        /\ DriveBits \cap mode = DriveBits \cap fdc.mode => But(fdc, e, {"mode"})
        /\ DriveBits \cap mode = {} /\ DriveBits \cap fdc.mode # {} => e.selected = NoDrive
    BY <2>2, <2>3, SelectFacts
  <2> HIDE DEF e
  <2>5. CASE DriveBits \cap mode = DriveBits \cap fdc.mode
    <3>1. mode = fdc.mode
      BY <1>1, <2>5 DEF DriveBits
    <3>2. Alike(fdc, e) /\ e.int_flags = fdc.int_flags
      <4>1. e.drive = fdc.drive /\ e.mode = fdc.mode
        BY <2>4, <2>5, <3>1 DEF But, FdcFields
      <4> QED BY <2>2, <2>4, <2>5, <4>1 DEF But, FdcFields, Alike, FdcOk, DriveOk
    <3>3. FloppyOk(e, fd)
      BY <3>2, AlikeOk
    <3> QED BY <1>2, <2>1, <3>3, StopsOk
  <2>6. CASE DriveBits \cap mode # DriveBits \cap fdc.mode
    <3>1. DriveBits \cap mode = {} /\ DriveBits \cap fdc.mode # {}
      BY <1>1, <2>2, <2>6 DEF ModeOk, DriveBits
    <3>2. /\ e.selected = NoDrive /\ e.access_timer = fdc.access_timer /\ e.step_timer = fdc.step_timer
          /\ e.blocks = fdc.blocks
      BY <2>4, <3>1 DEF But, FdcFields, SelectFields
    <3>3. f.pc = "abort" /\ f.want = fd.want /\ DOMAIN f = {"pc", "want", "track"}
      BY <2>2 DEF PhaseOk
    <3> HIDE DEF f
    <3>4. ModeOk(e) /\ PhaseOk(e, f) /\ BlocksOk(e, f)
      BY <1>1, <2>2, <2>3, <2>4, <3>2, <3>3 DEF ModeOk, PhaseOk, BlocksOk
    <3>5. AccessOk(e, f) /\ ReadDone(e, f) /\ SeekOk(e, f)
      BY <3>2, <3>3 DEF AccessOk, ReadDone, SeekOk
    <3> QED BY <1>2, <2>1, <2>4, <3>4, <3>5 DEF FloppyOk
  <2> QED BY <2>5, <2>6
<1> QED BY <1>3, <1>4

\* Stopped, the access and the steps leave no timer, and no blocks.
LEMMA FdStopKeeps ==
  ASSUME FloppyOk(fdc, fd), FdStop
  PROVE  FloppyOk(fdc', fd')
<1> DEFINE mode == fdc.mode \ {"GO", "GO_STEP"}
           changed == Toggled(fdc.mode, mode)
           u == CASE "GO_STEP" \in changed -> StopStepping(fdc)
                  [] "GO_STEP" \notin changed /\ "GO" \in changed -> [StopDiskAccess(fdc) EXCEPT !.valid = FALSE]
                  [] OTHER -> fdc
           m == [u EXCEPT !.mode = mode]
           e == [m EXCEPT !.blocks = <<>>]
           StopFields == {"step_timer", "step_count", "access_timer", "valid"}
<1>1. FdcOk(fdc) /\ ModeOk(fdc)
  BY DEF FloppyOk
<1>2. changed = fdc.mode \cap {"GO", "GO_STEP"}
  BY DEF Toggled
<1> HIDE DEF changed
<1>3. ModeChange(fdc, mode, NoSync) = m
  <2>1. changed \cap {"DRIVE_1", "DRIVE_2"} = {} /\ "GO" \notin mode /\ "GO_STEP" \notin mode
    BY <1>2
  <2> HIDE DEF mode
  <2> QED BY <2>1 DEF ModeChange, changed
<1>4. fdc' = e /\ fd' = IdleFd
  BY <1>3 DEF FdStop, ClearMode
<1>5. /\ But(fdc, u, StopFields) /\ u.access_timer = "none" /\ ~u.step_timer /\ u.step_timer \in BOOLEAN
      /\ u.step_count \in Nat
  <2>1. CASE "GO_STEP" \in fdc.mode
    <3>1. u = [fdc EXCEPT !.step_timer = FALSE, !.step_count = 0]
      BY <1>2, <2>1 DEF StopStepping
    <3> HIDE DEF u
    <3>2. fdc.access_timer = "none"
      BY <1>1, <2>1 DEF ModeOk
    <3> QED BY <1>1, <3>1, <3>2 DEF FdcOk, But, FdcFields
  <2>2. CASE "GO_STEP" \notin fdc.mode /\ "GO" \in fdc.mode
    <3>1. u = [StopDiskAccess(fdc) EXCEPT !.valid = FALSE]
      BY <1>2, <2>2
    <3> HIDE DEF u
    <3>2. u = [fdc EXCEPT !.access_timer = "none", !.valid = FALSE]
      BY <1>1, <3>1 DEF StopDiskAccess, FdcOk, FdcFields
    <3>3. ~fdc.step_timer
      BY <1>1, <2>2 DEF ModeOk
    <3> QED BY <1>1, <3>2, <3>3 DEF FdcOk, But, FdcFields
  <2>3. CASE "GO_STEP" \notin fdc.mode /\ "GO" \notin fdc.mode
    <3>1. u = fdc
      BY <1>2, <2>3
    <3> QED BY <1>1, <2>3, <3>1 DEF FdcOk, ModeOk, But
  <2> QED BY <2>1, <2>2, <2>3
<1> HIDE DEF u
<1>6. But(u, m, {"mode"}) /\ m.mode = mode
  BY <1>5 DEF But, FdcFields
<1> HIDE DEF m
<1>7. But(m, e, {"blocks"}) /\ e.blocks = <<>>
  BY <1>6 DEF But, FdcFields
<1> HIDE DEF e
<1>8. /\ e.mode = mode /\ e.access_timer = "none" /\ e.step_timer = u.step_timer /\ e.step_count = u.step_count
      /\ e.drive = fdc.drive /\ e.selected = fdc.selected /\ DOMAIN e = FdcFields
  BY <1>5, <1>6, <1>7 DEF But, FdcFields
<1>9. FdcOk(e)
  BY <1>1, <1>5, <1>7, <1>8, SequencesOfBytes DEF FdcOk
<1>10. /\ IdleFd.pc = "idle" /\ IdleFd.want = <<>> /\ DOMAIN IdleFd = {"pc", "want", "track"}
       /\ {"WR_MODE", "GO", "GO_STEP"} \cap e.mode = {} /\ ~({"DRIVE_1", "DRIVE_2"} \subseteq e.mode)
  BY <1>1, <1>8 DEF IdleFd, ModeOk
<1>11. FloppyOk(e, IdleFd)
  BY <1>5, <1>7, <1>8, <1>9, <1>10, IdleIsOk
<1> QED BY <1>4, <1>11

LEMMA FloppyBegins == FloppyInit => FloppyOk(fdc, fd)
<1> SUFFICES ASSUME FloppyInit PROVE FloppyOk(fdc, fd)
  OBVIOUS
<1>1. /\ DOMAIN fdc = FdcFields /\ fdc.mode = {"INT_ENA"} /\ fdc.selected = NoDrive /\ fdc.step_count = 0
      /\ fdc.step_timer = FALSE /\ fdc.access_timer = "none" /\ fdc.blocks = <<>> /\ DOMAIN fdc.drive = Connected
  BY DEF FloppyInit, FdcFields
<1>2. \A d \in Connected : DriveOk(fdc.drive[d])
  BY FloppySizes DEF FloppyInit, DriveOk, DriveFields, Heads, Sectors, AnySector
<1>3. FdcOk(fdc)
  <2>1. fdc.step_timer \in BOOLEAN
    BY <1>1, Zenon
  <2> QED BY <1>1, <1>2, <2>1, SequencesOfBytes DEF FdcOk
<1>4. fd.pc = "idle" /\ DOMAIN fd = {"pc", "want", "track"} /\ fd.want = <<>>
  BY DEF FloppyInit, IdleFd
<1> QED BY <1>1, <1>3, <1>4, IdleIsOk

LEMMA FloppyStep == FloppyOk(fdc, fd) /\ [FloppyNext]_floppyVars => FloppyOk(fdc, fd)'
<1> SUFFICES ASSUME FloppyOk(fdc, fd), [FloppyNext]_floppyVars
             PROVE  FloppyOk(fdc', fd')
  BY DEF FloppyOk, FdcOk, DriveOk, ModeOk, PhaseOk, BlocksOk, AccessOk, Outstanding, WantedBlock, ReadDone,
         SeekOk, Ahead, IsSeq, Clamped, DriveFields, FdcFields
<1>1. CASE StepTimer
  BY <1>1, StepTimerKeeps
<1>2. CASE AccessTimer
  BY <1>2, AccessTimerKeeps
<1>3. CASE UsTimer
  BY <1>3, UsTimerKeeps
<1>4. CASE \E d \in Connected : InsertDisk(d)
  BY <1>4, InsertDiskKeeps
<1>5. CASE \E d \in {1, 2} : FdSelect(d)
  BY <1>5, FdSelectKeeps
<1>6. CASE FdMotorOn
  BY <1>6, FdMotorOnKeeps
<1>7. CASE FdEject
  BY <1>7, FdEjectKeeps
<1>8. CASE FdDelay
  BY <1>8, FdDelayKeeps
<1>9. CASE \E n \in Steps, inwards \in BOOLEAN : FdSeek(n, inwards)
  BY <1>9, FdSeekKeeps
<1>10. CASE \E head \in Heads, first \in 1 .. SectorsPerTrack, sync \in SyncToDisk(Driven) :
              \E n \in 1 .. SectorsPerTrack + 1 - first : FdRead(head, first, n, sync)
  BY <1>10, FdReadKeeps
<1>11. CASE FdInterrupt
  BY <1>11, FdInterruptKeeps
<1>12. CASE FdGiveUp
  BY <1>12, FdGiveUpKeeps
<1>13. CASE FdStop
  BY <1>13, FdStopKeeps
<1>14. CASE UNCHANGED floppyVars
  BY <1>14 DEF floppyVars
<1> QED BY <1>1, <1>2, <1>3, <1>4, <1>5, <1>6, <1>7, <1>8, <1>9, <1>10, <1>11, <1>12, <1>13, <1>14 DEF FloppyNext

\* A read brings the sectors asked for, in order and each once, also after an
\* access was given up with its drive turned off, and a seek that is reported
\* done has made its steps, for any number of drives, tracks, sectors and steps
\* (disk_access, do_step).
THEOREM SectorsAreAsAsked == FloppySpec => []SectorsAsAsked
<1>1. FloppyOk(fdc, fd) => SectorsAsAsked
  <2> SUFFICES ASSUME FloppyOk(fdc, fd) PROVE SectorsAsAsked
    OBVIOUS
  <2> DEFINE n == Len(fdc.blocks)
  <2>1. /\ IsSeq(fdc.blocks) /\ IsSeq(fd.want) /\ n <= Len(fd.want) /\ Len(fd.want) \in Nat
        /\ \A i \in 1 .. n : fdc.blocks[i] = fd.want[i]
    BY DEF FloppyOk, FdcOk, BlocksOk
  <2>2. PICK S : fdc.blocks \in Seq(S)
    BY <2>1 DEF IsSeq
  <2>3. PICK T : fd.want \in Seq(T)
    BY <2>1 DEF IsSeq
  <2>4. n \in 0 .. Len(fd.want)
    BY <2>1, <2>2
  <2>5. fdc.blocks = SubSeq(fd.want, 1, n)
    <3>1. SubSeq(fd.want, 1, n) = [i \in 1 .. n |-> fd.want[i]]
      BY <2>3, <2>4
    <3>2. fdc.blocks = [i \in 1 .. n |-> fdc.blocks[i]]
      BY <2>2
    <3> QED BY <2>1, <3>1, <3>2
  <2>6. fd.pc = "read" /\ "SECT_DONE" \in fdc.int_flags => fdc.blocks = fd.want
    <3> SUFFICES ASSUME fd.pc = "read", "SECT_DONE" \in fdc.int_flags PROVE fdc.blocks = fd.want
      OBVIOUS
    <3>1. n = Len(fd.want)
      BY DEF FloppyOk, ReadDone
    <3> QED BY <2>1, <2>2, <2>3, <3>1
  <2>7. fd.pc = "seek" /\ "STEP_DONE" \in fdc.int_flags => Driven.cur_track = fd.track /\ ~fdc.step_timer
    <3> SUFFICES ASSUME fd.pc = "seek", "STEP_DONE" \in fdc.int_flags
                 PROVE  Driven.cur_track = fd.track /\ ~fdc.step_timer
      OBVIOUS
    <3>1. fdc.selected # NoDrive /\ fd.track = Ahead(Driven, 0) /\ ~fdc.step_timer
      BY DEF FloppyOk, SeekOk, Driven
    <3>2. DriveOk(Driven)
      BY <3>1 DEF FloppyOk, FdcOk, Driven
    <3>3. Driven.cur_track \in 0 .. NumTracks - 1 /\ NumTracks \in Nat
      BY <3>2, FloppySizes DEF DriveOk
    <3>4. Ahead(Driven, 0) = Clamped(Driven.cur_track)
      BY <3>3 DEF Ahead
    <3> QED BY <3>1, <3>3, <3>4, ClampedFacts
  <2> QED BY <2>4, <2>5, <2>6, <2>7 DEF SectorsAsAsked
<1> QED BY <1>1, FloppyBegins, FloppyStep, PTL DEF FloppySpec

-----------------------------------------------------------------------------
(* The event loop.                                                         *)

\* Earliest really is in the queue and no later than any other expiry.
LEMMA EarliestIsMin ==
  ASSUME NEW q \in SUBSET Nat, q # {}
  PROVE  Earliest(q) \in q /\ \A e \in q : Earliest(q) <= e
<1> DEFINE R == OpToRel(<, Nat)
<1>1. IsWellFoundedOn(R, Nat)
  BY NatLessThanWellFounded
<1>2. \A x, y \in Nat : x < y => <<x, y>> \in R
  BY DEF OpToRel
<1> HIDE DEF R
<1>3. PICK d \in q : \A e \in q : ~(<<e, d>> \in R)
  BY <1>1, WFMin
<1>4. \A e \in q : d <= e
  <2> TAKE e \in q
  <2>1. d \in Nat /\ e \in Nat /\ ~(e < d)
    BY <1>2, <1>3
  <2> QED BY <2>1
<1> QED
  BY <1>4 DEF Earliest

-----------------------------------------------------------------------------
\* The thread is told to stop exactly outside realtime mode; it never ends in
\* realtime mode; and outside it the emulation thread only gets past join()
\* when it has ended.
ThreadInv ==
    /\ rt_stop <=> ~g_realtime
    /\ g_realtime => rt # "off"
    /\ ~g_realtime /\ at # "join" => rt = "off"

LoopTyped ==
    /\ g_realtime \in BOOLEAN /\ rt_stop \in BOOLEAN

LEMMA NextThreadInv ==
    LoopTyped /\ ThreadInv /\ [Next]_vars => LoopTyped' /\ ThreadInv'
<1> SUFFICES ASSUME LoopTyped, ThreadInv, [Next]_vars PROVE LoopTyped' /\ ThreadInv'
  OBVIOUS
<1> USE DEF LoopTyped, ThreadInv
<1>1. CASE HostClock
  BY <1>1 DEF HostClock, modeVars, rtVars
<1>2. CASE Instruction
  BY <1>2 DEF Instruction, modeVars, rtVars
<1>3. CASE EnterProcessEvents \/ NoEvents
  BY <1>3 DEF EnterProcessEvents, NoEvents, modeVars, rtVars
<1>4. CASE ProcessEvents
  BY <1>4 DEF ProcessEvents, modeVars, rtVars
<1>5. CASE ProcessEventsReal
  BY <1>5 DEF ProcessEventsReal, modeVars, rtVars
<1>6. CASE ThrottleWakes
  BY <1>6 DEF ThrottleWakes, modeVars, rtVars
<1>7. CASE ToggleRealtime
  BY <1>7 DEF ToggleRealtime
<1>8. CASE Joined
  BY <1>8 DEF Joined, modeVars, rtVars
<1>9. CASE SwitchLoop
  BY <1>9 DEF SwitchLoop, rtVars
<1>10. CASE RealtimeThread
  BY <1>10 DEF RealtimeThread, RtSleeps, RtRaises, RtStops, modeVars
<1>11. CASE UNCHANGED vars
  BY <1>11 DEF vars
<1> QED
  BY <1>1, <1>2, <1>3, <1>4, <1>5, <1>6, <1>7, <1>8, <1>9, <1>10, <1>11
     DEF Next, InnerLoop

\* Whenever guest code runs, the realtime thread is there exactly if guest time
\* follows the host's clock.
THEOREM ThreadFollowsMode == Spec => []ThreadOnlyInRealtime
<1>1. Init => LoopTyped /\ ThreadInv
  BY DEF Init, LoopTyped, ThreadInv
<1>2. ThreadInv => ThreadOnlyInRealtime
  BY DEF ThreadInv, ThreadOnlyInRealtime
<1> QED
  BY <1>1, <1>2, NextThreadInv, PTL DEF Spec

-----------------------------------------------------------------------------
\* Of the deadline of the virtual-time loop.  The condition holds from the end
\* of one process_events to the next, unless the throttle suppresses the flag;
\* only a realtime loop ever gets into the throttle's sleep, so that waking up
\* from it does not enter the virtual-time loop.
OnSchedule ==
    \A d \in queue : exec_timer \/ event_deadline <= d \/ event_deadline <= now

ScheduleInv ==
    /\ now \in Nat /\ event_deadline \in Nat /\ queue \in SUBSET Nat
    /\ exec_timer \in BOOLEAN
    /\ throttle \in BOOLEAN
    /\ at = "throttled" => loop_type = "real"
    /\ at \in {"guest", "check"} /\ loop_type = "virt" /\ ~throttle => OnSchedule

\* Guest code and callbacks leave a queue of expiries.
LEMMA ChangedTyped ==
  ASSUME now \in Nat, NEW q \in SUBSET Nat,
         NEW r \in AddedTo(q) \union CancelledIn(q)
  PROVE  r \in SUBSET Nat
<1>1. now + 1 .. MaxTime \subseteq Nat
  BY LoopAssumption
<1>2. CASE r \in AddedTo(q)
  <2>1. PICK d \in {0} \union now + 1 .. MaxTime : r = q \union {d}
    BY <1>2 DEF AddedTo
  <2> QED BY <1>1, <2>1
<1>3. CASE r \in CancelledIn(q)
  BY <1>3 DEF CancelledIn
<1> QED BY <1>2, <1>3

\* The callbacks run by process_timers leave a queue of expiries.
LEMMA RemainingTyped ==
  ASSUME now \in Nat, queue \in SUBSET Nat
  PROVE  \A q \in Remaining : q \in SUBSET Nat
  BY LoopAssumption DEF Remaining, AddedTo, CancelledIn

LEMMA SkippedTyped ==
  ASSUME now \in Nat, NEW deadline \in Nat
  PROVE  SkippedTo(deadline) \in Nat
  BY LoopAssumption DEF SkippedTo

LEMMA NextScheduleInv ==
  ASSUME ScheduleInv, [Next]_vars
  PROVE  ScheduleInv'
<1> USE DEF ScheduleInv
<1>1. CASE HostClock
  BY <1>1 DEF HostClock, modeVars, OnSchedule
<1>2. CASE Instruction
  <2>1. /\ now' \in Nat /\ now' >= now /\ at = "guest" /\ at' = "check"
        /\ event_deadline' = event_deadline /\ throttle' = throttle
        /\ loop_type' = loop_type
    BY <1>2 DEF Instruction, modeVars
  <2>2. CASE /\ queue' \in AddedTo(queue) \union CancelledIn(queue)
             /\ ForceCycleCounterReload
    <3>1. queue' \in SUBSET Nat
      BY <2>2, ChangedTyped
    <3>2. exec_timer' \in BOOLEAN /\ (~throttle => exec_timer' = TRUE)
      BY <2>2 DEF ForceCycleCounterReload
    <3> QED BY <2>1, <3>1, <3>2 DEF OnSchedule
  <2>3. CASE UNCHANGED <<queue, exec_timer>>
    BY <2>1, <2>3 DEF OnSchedule
  <2> QED BY <1>2, <2>2, <2>3 DEF Instruction
<1>3. CASE EnterProcessEvents \/ NoEvents
  BY <1>3 DEF EnterProcessEvents, NoEvents, modeVars, OnSchedule
<1>4. CASE ProcessEvents
  <2>1. queue' \in SUBSET Nat
    BY <1>4, RemainingTyped DEF ProcessEvents
  <2>2. CASE queue' = {}
    <3>1. event_deadline' \in Nat
      BY <1>4, <2>2, LoopAssumption DEF ProcessEvents
    <3>2. now' \in Nat
      BY <1>4, <3>1, SkippedTyped DEF ProcessEvents
    <3> QED BY <1>4, <2>1, <2>2, <3>1, <3>2 DEF ProcessEvents, OnSchedule
  <2>3. CASE queue' # {}
    <3>1. event_deadline' = Earliest(queue')
      BY <1>4, <2>3 DEF ProcessEvents
    <3>2. event_deadline' \in Nat /\ \A d \in queue' : event_deadline' <= d
      BY <2>1, <2>3, <3>1, EarliestIsMin
    <3>3. now' \in Nat
      BY <1>4, <3>2, SkippedTyped DEF ProcessEvents
    <3> QED BY <1>4, <2>1, <3>2, <3>3 DEF ProcessEvents, OnSchedule
  <2> QED BY <2>2, <2>3
<1>5. CASE ProcessEventsReal
  <2>1. queue' \in SUBSET Nat
    BY <1>5, RemainingTyped DEF ProcessEventsReal
  <2>2. throttle' \in BOOLEAN /\ loop_type = "real"
    BY <1>5 DEF ProcessEventsReal
  <2>3. loop_type' = "real" /\ UNCHANGED <<now, exec_timer, event_deadline>>
    BY <1>5 DEF ProcessEventsReal, modeVars
  <2> QED BY <2>1, <2>2, <2>3
<1>6. CASE ThrottleWakes
  BY <1>6 DEF ThrottleWakes, modeVars
<1>7. CASE ToggleRealtime
  BY <1>7 DEF ToggleRealtime
<1>8. CASE Joined
  BY <1>8 DEF Joined
<1>9. CASE SwitchLoop
  <2>1. \A d \in queue' : event_deadline' <= d
    BY <1>9 DEF SwitchLoop
  <2> QED BY <1>9, <2>1 DEF SwitchLoop, OnSchedule
<1>10. CASE RealtimeThread
  <2>1. CASE RtSleeps \/ RtStops
    BY <2>1 DEF RtSleeps, RtStops, modeVars, OnSchedule
  <2>2. CASE RtRaises
    BY <2>2 DEF RtRaises, modeVars, OnSchedule
  <2> QED BY <1>10, <2>1, <2>2 DEF RealtimeThread
<1>11. CASE UNCHANGED vars
  BY <1>11 DEF vars, OnSchedule
<1> QED
  BY <1>1, <1>2, <1>3, <1>4, <1>5, <1>6, <1>7, <1>8, <1>9, <1>10, <1>11
     DEF Next, InnerLoop

\* Unless the throttle's flag was left set by the realtime loop, the virtual-time
\* loop looks at the queue no later than the first expiry in it, across every
\* switch between the two loops.
THEOREM VirtualTimeKept ==
  Spec => []VirtualTimeOnSchedule
<1>1. Init => ScheduleInv
  <2> SUFFICES ASSUME Init PROVE ScheduleInv
    OBVIOUS
  <2>1. queue \in SUBSET Nat
    BY LoopAssumption DEF Init
  <2>2. OnSchedule
    BY DEF Init, OnSchedule
  <2> QED BY <2>1, <2>2 DEF Init, ScheduleInv
<1>2. ScheduleInv => VirtualTimeOnSchedule
  BY DEF ScheduleInv, OnSchedule, VirtualTimeOnSchedule
<1>3. ScheduleInv /\ [Next]_vars => ScheduleInv'
  BY NextScheduleInv
<1> QED
  BY <1>1, <1>2, <1>3, PTL DEF Spec
=============================================================================
