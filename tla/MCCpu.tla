------------------------------- MODULE MCCpu -------------------------------
(* Instances for TLC of the interpreter loop with its exceptions, of       *)
(* programs of integer instructions, and of load and store instructions    *)
(* that are interrupted by page faults.  They are independent of each      *)
(* other: part says which of the three moves.                              *)
EXTENDS PpcExec, IntOps, LoadStore
VARIABLE part

(* The interpreter loop: every order of exceptions on four addresses. *)
MCTimerIds == {1, 2, 3}
MCTargets  == 0 .. 3
MCGuestMsr == {"EE", "FP", "POW", "PR"}

(* Words of four bits; 7 and 8 are the largest and the smallest integer. *)
MCEdges == {0, 1, 7, 8, 15}

\* Registers 0 and 1 hold addresses near the end of a page.
MCGpr == [r \in 0 .. NumRegs - 1 |-> IF r = 0 THEN <<0, 0, 0, 2>> ELSE IF r = 1 THEN <<0, 0, 0, 5>>
                                      ELSE <<10 * r, 10 * r + 1, 10 * r + 2, 10 * r + 3>>]
MCMem == [a \in 0 .. NumPages * PageSize - 1 |-> (29 * a + 7) % 256]

\* An instruction with the base 0 or register 1; lmw, lswi and the others of
\* other processors do not load the registers of their address.
Form(op, rd, ra, rb, nb, is601) ==
    [op |-> op, rd |-> rd, ra |-> ra, rb |-> rb, nb |-> nb, is_601 |-> is601]

MCInstructions ==
    {Form(op, rd, ra, NoIndex, nb, FALSE) : op \in {"lz", "st", "lzu", "stu", "lbrx", "stbrx"},
        rd \in {1, 3}, ra \in {0, 1}, nb \in {2, 4}}
    \cup {Form(op, 3, 1, 0, 4, FALSE) : op \in {"lwarx", "stwcx"}}
    \cup {Form("lha", 3, ra, 0, 2, FALSE) : ra \in {0, 1}}
    \cup {Form(op, 2, ra, NoIndex, 0, FALSE) : op \in {"lmw", "stmw"}, ra \in {0, 1}}
    \cup {Form(op, rd, 1, NoIndex, nb, FALSE) : op \in {"lswi", "stswi"}, rd \in {2, 3}, nb \in {0, 3, 5, 7}}
    \cup {Form("stswx", rd, 1, 0, 0, FALSE) : rd \in {2, 3}}
    \cup {Form("lswx", 2, 1, 0, 0, FALSE)}
    \cup {Form(op, rd, 1, 0, 0, TRUE) : op \in {"lswx", "lscbx"}, rd \in {1, 2, 3}}
    \cup {Form("lswx", 3, 0, 1, 0, TRUE)}

-----------------------------------------------------------------------------
\* A part that does not move has one initial state.
StillOps ==
    /\ prog = [name |-> "swap", n |-> 0, m |-> ""]
    /\ at_instr = 1
    /\ on_601 = TRUE
    /\ cpu = [gpr |-> <<0, 0, 0, 0, 0>>, ca |-> FALSE, ov |-> FALSE, mq |-> 0,
              cr |-> [k \in 1 .. 6 |-> FALSE], trap |-> FALSE]
    /\ start = cpu

StillLoads ==
    /\ core = [gpr |-> InitGpr, mem |-> InitMem, xer |-> 0, match |-> 1, cr0 |-> {"SO"},
               reserve |-> FALSE, fault |-> NoPage]
    /\ ins = Form("lz", 3, 1, NoIndex, 4, FALSE)
    /\ begun = core
    /\ present = {} /\ stage = "ready" /\ wanted = NoPage /\ faults = 0

CpuInit ==
    /\ ExecInit
    /\ \/ part = "exec" /\ StillOps /\ StillLoads
       \/ part = "ops" /\ OpsInit /\ StillLoads
       \/ part = "loads" /\ LoadStoreInit /\ StillOps

CpuNext ==
    \/ part = "exec"  /\ ExecNext      /\ UNCHANGED <<part, intVars, loadVars>>
    \/ part = "ops"   /\ OpsNext       /\ UNCHANGED <<part, execVars, loadVars>>
    \/ part = "loads" /\ LoadStoreNext /\ UNCHANGED <<part, execVars, intVars>>

CpuSpec == CpuInit /\ [][CpuNext]_<<part, execVars, intVars, loadVars>>
=============================================================================
