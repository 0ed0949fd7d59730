------------------------------ MODULE MCDBDMA ------------------------------
(* Instances of DBDMA for TLC: programs of two or three commands, with     *)
(* every operation and every kind of condition among them.                 *)
EXTENDS DBDMA

Cmd(op, i, b, w, req, arg) ==
    [op |-> op, i |-> i, b |-> b, w |-> w, req |-> req, arg |-> arg]
Prog(c, d, e) == [a \in 0 .. 2 |-> CASE a = 0 -> c [] a = 1 -> d [] a = 2 -> e]

Stop == Cmd("STOP", "never", "never", "never", 0, 0)

\* Two buffers in a ring, as sound drivers use them.
Ring == [a \in 0 .. 1 |-> IF a = 0
            THEN Cmd("OUTPUT", "always", "never", "never", 2, 0)
            ELSE Cmd("OUTPUT", "if", "always", "never", 1, 0)]

DevicePrograms ==
    {Prog(Cmd("INPUT", "always", "if", "never", 2, 2),
          Cmd("QUAD", "unless", "never", "if", 1, 0), Stop),
     Prog(Cmd("OUTPUT", "if", "unless", "unless", 1, 1), Stop,
          Cmd("NOP", "always", "always", "never", 0, 0)),
     Prog(Cmd("NOP", "never", "never", "always", 0, 0),
          Cmd("BAD", "never", "never", "never", 0, 0), Stop)}

Set(s) == [set |-> s, clear |-> {}]
Clear(s) == [set |-> {}, clear |-> s]

DeviceRequests ==
    {Set({"RUN"}), Clear({"RUN"}), Set({"PAUSE"}), Clear({"PAUSE"}),
     Set({"WAKE"}), Set({"FLUSH"}), Set({"S"}), Clear({"S"}),
     [set |-> {"RUN"}, clear |-> {"PAUSE"}],
     [set |-> {"FLUSH"}, clear |-> {"RUN"}],
     Clear({"RUN", "PAUSE"}), Set({"RUN", "WAKE"})}

MCPrograms == [t \in BOOLEAN |-> IF t THEN {Ring} ELSE DevicePrograms]
MCRequests == [t \in BOOLEAN |-> IF t THEN {Set({"RUN"}), Clear({"RUN"})}
                                 ELSE DeviceRequests]
MCSelects  == [t \in BOOLEAN |-> IF t THEN {BOOLEAN} ELSE {BOOLEAN, {TRUE}}]
MCPolling  == [t \in BOOLEAN |-> IF t THEN {FALSE} ELSE BOOLEAN]
=============================================================================
