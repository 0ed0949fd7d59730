----------------------------- MODULE MCStorage -----------------------------
(* Instances for TLC of the storage controllers: MESH and the 53C94 with a  *)
(* disk and an ID nobody answers at, and an IDE channel with a disk and a   *)
(* CD-ROM.  Transfers are shorter than, equal to and longer than FIFOs and  *)
(* caches.  The three are independent of each other: part says which moves. *)
EXTENDS Mesh, Sc53C94, IdeChannel
VARIABLE part

MCCommands == {[op |-> "unknown", n |-> 0], [op |-> "sense", n |-> 1], [op |-> "read", n |-> 2],
               [op |-> "read", n |-> 5], [op |-> "write", n |-> 3], [op |-> "mode_select", n |-> 3]}
MCMessages == {<<>>, <<Identify(0)>>, <<Identify(1)>>, Sdtr}

MCCurioCommands == {[op |-> "test", n |-> 0], [op |-> "read", n |-> 2], [op |-> "read", n |-> 5],
                    [op |-> "write", n |-> 3], [op |-> "unknown", n |-> 0]}

Cmds(names, lbas, counts) == [cmd : names, lba : lbas, count : counts]
MCHdCommands ==
    Cmds({"READ_SECTOR", "READ_MULTIPLE", "READ_DMA", "WRITE_SECTOR", "WRITE_MULTIPLE",
          "WRITE_DMA"}, {1}, {1, 3})
    \cup Cmds({"PLAIN", "FLUSH_CACHE", "IDENTIFY", "DIAGNOSTICS", "SILENT"}, {0}, {0})
    \cup Cmds({"SET_MULTIPLE_MODE"}, {0}, {2})
MCPackets == Cmds({"READ", "READ_CD"}, {1}, {0, 1, 5}) \cup
             Cmds({"INQUIRY", "TEST_UNIT_READY", "IDENTIFY", "PLAIN"}, {0}, {0})

allVars == <<part, meshVars, curioVars, ideVars>>

StorageInit ==
    /\ part \in {"mesh", "curio", "ide"}
    /\ MeshInit /\ CurioInit /\ IdeInit
    /\ part # "curio" => ~curio.ctl.enf

OnlyMesh  == part = "mesh"  /\ UNCHANGED <<part, curioVars, ideVars>>
OnlyCurio == part = "curio" /\ UNCHANGED <<part, meshVars, ideVars>>
OnlyIde   == part = "ide"   /\ UNCHANGED <<part, meshVars, curioVars>>

StorageNext ==
    \/ OnlyMesh /\ MeshNext
    \/ OnlyCurio /\ CurioNext
    \/ OnlyIde /\ IdeNext

\* The fairness of the part that moves (MeshFairness, CurioFairness and
\* IdeFairness), the n-th conjuncts of the three together.
Ready1 == CASE part = "mesh" -> TimerPending
            [] part = "curio" -> CurioTimerPending
            [] part = "ide" -> FastDue
Ready2 == CASE part = "mesh" -> DriverReady
            [] part = "curio" -> CurioDriverReady
            [] part = "ide" -> WorkReady
Fair1 == (OnlyMesh /\ Timers) \/ (OnlyCurio /\ CurioTimers) \/ (OnlyIde /\ FastTimer)
Fair2 == (OnlyMesh /\ Driver) \/ (OnlyCurio /\ CurioDriver) \/ (OnlyIde /\ IdeWork)
Fair3 == OnlyIde /\ SlowTimer
Fair4 == OnlyIde /\ \E split \in Splits : HostDma(split)

StorageFairness ==
    /\ []<>(~Ready1) \/ []<><<Fair1>>_allVars
    /\ []<>(~Ready2) \/ []<><<Fair2>>_allVars
    /\ []<>(part # "ide" \/ ~SlowDue) \/ []<><<Fair3>>_allVars
    /\ []<>(part # "ide" \/ ~DmaReady) \/ []<><<Fair4>>_allVars

StorageSpec == StorageInit /\ [][StorageNext]_allVars /\ StorageFairness

\* Every transaction and every command a driver begins ends, on each of the
\* three (TransactionEnds, CurioEnds, CommandEnds).
Busy == drv.pc # "idle" \/ cdrv.pc # "idle" \/ host.st # "idle"
StorageCommandsEnd == Busy ~> ~Busy
=============================================================================
