------------------------------- MODULE ScsiBus -------------------------------
(***************************************************************************)
(* The SCSI bus object (devices/common/scsi/scsibus.cpp): the wired-OR     *)
(* control lines, the bus phase and the four steps of a selection.  The    *)
(* operators map a state of the whole bus to the next one; that state is   *)
(* one record s, the bus's own fields being                                *)
(*   phase, lines (dev_ctrl_lines), ctrl (ctrl_lines), data (data_lines),  *)
(*   winner (arb_winner_id), initiator, target                             *)
(* and the devices' being s.tgt[t] for a target and s.ctl for the host     *)
(* adapter, which sits on the bus as device HostId.                        *)
(***************************************************************************)
EXTENDS Integers, FiniteSets, SequencesExt

CONSTANTS Ids,      \* the SCSI IDs that take part in arbitration
          HostId,   \* the ID of the host adapter
          Targets   \* the IDs at which a disk is registered

ASSUME BusAssumption == /\ Ids \subseteq Nat /\ HostId \in Ids
                        /\ Targets \subseteq Ids \ {HostId}

NoId == -1

Lines == {"BSY", "SEL", "ATN", "ACK", "REQ", "MSG", "CD", "IO", "RST"}

InfoPhases == {"COMMAND", "DATA_IN", "DATA_OUT", "STATUS", "MESSAGE_IN", "MESSAGE_OUT"}
Phases == InfoPhases \cup {"BUS_FREE", "ARBITRATION", "SELECTION", "RESET"}

\* The lines a target drives in an information phase.
PhaseLines(p) == CASE p = "COMMAND"     -> {"CD"}
                   [] p = "DATA_IN"     -> {"IO"}
                   [] p = "STATUS"      -> {"CD", "IO"}
                   [] p = "MESSAGE_OUT" -> {"CD", "MSG"}
                   [] p = "MESSAGE_IN"  -> {"CD", "MSG", "IO"}
                   [] OTHER             -> {}

\* test_ctrl_lines: what every device drives, OR-ed together.
OnBus(s) == UNION {s.lines[i] : i \in Ids}

\* Every device but the one that caused the change is told of the new phase.
\* A disk whose ID is on the data lines starts its settle timer; the host
\* adapter remembers the phase.
ChangeBusPhase(s, id) ==
    [s EXCEPT !.ctl.cur_bus_phase = IF id = HostId THEN @ ELSE s.phase,
              !.tgt = [t \in Targets |->
                  IF t # id /\ s.phase = "SELECTION" /\ t \in s.data
                  THEN [s.tgt[t] EXCEPT !.settle = @ + 1] ELSE s.tgt[t]]]

AssertLine(s, id, mask) ==
    LET s1 == [s EXCEPT !.lines[id] = @ \cup mask]
    IN  IF mask = s.ctrl \/ "RST" \notin mask THEN s1
        ELSE ChangeBusPhase([s1 EXCEPT !.ctrl = @ \cup {"RST"}, !.phase = "RESET"], id)

ReleaseLine(s, id, mask) ==
    LET s1 == [s EXCEPT !.lines[id] = @ \ mask]
        new == OnBus(s1)
    IN  IF "RST" \notin s.ctrl THEN [s1 EXCEPT !.ctrl = new]
        ELSE IF "RST" \in new THEN s1
        ELSE ChangeBusPhase([s1 EXCEPT !.ctrl = new, !.phase = "BUS_FREE"], id)

\* The lines of the old phase are released before those of the new one are
\* driven; phases without lines touch neither.
SwitchPhase(s, id, p) ==
    LET s1 == IF PhaseLines(s.phase) = {} THEN s ELSE ReleaseLine(s, id, PhaseLines(s.phase))
        s2 == AssertLine(s1, id, PhaseLines(p))
    IN  ChangeBusPhase([s2 EXCEPT !.phase = p], id)

CanArbitrate(s) == s.phase = "BUS_FREE"

BeginArbitration(s, id) ==
    ChangeBusPhase([s EXCEPT !.data = @ \cup {id}, !.phase = "ARBITRATION"], id)

\* The highest ID on the data lines wins; the lines of past selections are
\* still there.
Highest(s) == IF s.data = {} THEN NoId ELSE CHOOSE i \in s.data : \A j \in s.data : j <= i

EndArbitration(s) == IF s.data = {} THEN s ELSE [s EXCEPT !.winner = Highest(s)]

\* Nothing happens, and the caller is not told to look, when the bus was not
\* arbitrated for.
BeginSelection(s, id, t, atn) ==
    IF s.phase # "ARBITRATION" \/ s.winner # id THEN s
    ELSE ChangeBusPhase(
            [AssertLine(s, id, {"SEL"} \cup (IF atn THEN {"ATN"} ELSE {})) EXCEPT
                !.data = {id, t}, !.initiator = id, !.phase = "SELECTION"], id)

\* end_selection: has the target confirmed?  target is the last disk that ever did.
Confirmed(s, t) == s.target = t

Disconnect(s, id) ==
    LET s1 == ReleaseLine(s, id, Lines)
    IN  IF {"BSY", "SEL"} \cap s1.ctrl # {} THEN s1
        ELSE ChangeBusPhase([s1 EXCEPT !.phase = "BUS_FREE"], id)
=============================================================================
