----------------------------- MODULE PataDrive -----------------------------
(***************************************************************************)
(* The hard disk driver of src/dev/pata.c: pata_read and pata_write, one   *)
(* step per wait or access to the drive's registers.  Any wait may time    *)
(* out; the drive then goes on by itself and finishes later, during        *)
(* whatever the driver does next.  How the waits themselves poll is in     *)
(* DriveWait.                                                              *)
(***************************************************************************)
EXTENDS DriveCall

CONSTANT Disk   \* the medium of this drive

VARIABLES
  bsy, drq, err,  \* external: the drive's status bits (DRDY is set when BSY is not)
  doing,          \* external: its command: [op, lba]; op "none" when it has none
  sectorBuffer    \* external: the sector it holds for the driver or the disk

driveVars == <<bsy, drq, err, doing, sectorBuffer>>
pataVars  == <<callVars, driveVars>>

Nothing == [op |-> "none", lba |-> 0]

DriveInit ==
  /\ bsy = FALSE /\ drq = FALSE /\ err = FALSE
  /\ doing = Nothing
  /\ sectorBuffer = cell

-----------------------------------------------------------------------------
PataRead(lba) ==
  /\ Begin("read", lba, "select")
  /\ UNCHANGED <<content, cell, allowed, driveVars>>

PataWrite(lba, d) ==
  /\ Begin("write", lba, "select")
  /\ cell' = d
  /\ MayHold(Disk, lba, d)
  /\ UNCHANGED <<content, driveVars>>

Waits == {"select", "selected", "accepted", "data", "written"}

(* pata_wait_ready_not_busy or pata_wait_data_request gives up.            *)
PataTimeout ==
  /\ pc \in Waits
  /\ Return("failed")
  /\ UNCHANGED <<content, cell, allowed, driveVars>>

(* The wait before PATA_HEAD is written, and the one after.                *)
PataSelect ==
  /\ pc \in {"select", "selected"} /\ ~bsy
  /\ Go(IF pc = "select" THEN "selected" ELSE "issue")
  /\ UNCHANGED <<content, cell, allowed, driveVars>>

(* The registers and the command.  The drive drops what it was doing and   *)
(* shows that it is busy before the driver looks: pata_read's wait of      *)
(* about 500ns, which it leaves to do.                                     *)
PataIssue ==
  /\ pc = "issue"
  /\ doing' = call
  /\ bsy' = TRUE /\ drq' = FALSE /\ err' = FALSE
  /\ Go("accepted")
  /\ UNCHANGED <<content, cell, allowed, sectorBuffer>>

\* Mutant: the data is fetched when the drive is ready, without asking for DRQ.
PataAccepted_NoDrq ==
  /\ pc = "accepted" /\ ~bsy
  /\ Go("copy")
  /\ UNCHANGED <<content, cell, allowed, driveVars>>

(* Ready again after the command.  A write goes on to send its data        *)
(* without waiting for DRQ.                                                *)
PataAccepted ==
  /\ pc = "accepted" /\ ~bsy
  /\ Go(IF call.op = "read" THEN "data" ELSE "copy")
  /\ UNCHANGED <<content, cell, allowed, driveVars>>

PataDataRequest ==
  /\ pc = "data" /\ drq
  /\ Go("copy")
  /\ UNCHANGED <<content, cell, allowed, driveVars>>

(* 256 reads of the data port.                                             *)
PataCopyIn ==
  /\ pc = "copy" /\ call.op = "read"
  /\ cell' = sectorBuffer
  /\ drq' = FALSE
  /\ Return("ok")
  /\ UNCHANGED <<content, allowed, bsy, err, doing, sectorBuffer>>

(* 256 writes of the data port: a drive that does not ask ignores them.    *)
PataCopyOut ==
  /\ pc = "copy" /\ call.op = "write"
  /\ IF drq
       THEN sectorBuffer' = cell /\ bsy' = TRUE /\ drq' = FALSE
       ELSE UNCHANGED <<sectorBuffer, bsy, drq>>
  /\ Go("written")
  /\ UNCHANGED <<content, cell, allowed, err, doing>>

\* Mutant: the final status is not looked at.
PataWritten_Unchecked ==
  /\ pc = "written" /\ ~bsy
  /\ Return("ok")
  /\ MustHold(Disk, call.lba, cell)
  /\ UNCHANGED <<content, cell, driveVars>>

(* The last wait of a write and the test of DF and ERR.                    *)
PataWritten ==
  /\ pc = "written" /\ ~bsy
  /\ IF err
       THEN Return("failed") /\ UNCHANGED allowed
       ELSE Return("ok") /\ MustHold(Disk, call.lba, cell)
  /\ UNCHANGED <<content, cell, driveVars>>

-----------------------------------------------------------------------------
(* External: the drive fetches the sector, or gives the command up.        *)
DriveFetches ==
  /\ bsy /\ doing.op = "read"
  /\ bsy' = FALSE
  /\ doing' = Nothing
  /\ \/ sectorBuffer' = content[Disk][doing.lba] /\ drq' = TRUE /\ UNCHANGED err
     \/ err' = TRUE /\ UNCHANGED <<sectorBuffer, drq>>
  /\ UNCHANGED callVars

(* External: it asks for the data of a write, or rejects it.               *)
DriveAsks ==
  /\ bsy /\ doing.op = "write"
  /\ bsy' = FALSE
  /\ \/ drq' = TRUE /\ doing' = [op |-> "store", lba |-> doing.lba] /\ UNCHANGED err
     \/ err' = TRUE /\ doing' = Nothing /\ UNCHANGED drq
  /\ UNCHANGED <<callVars, sectorBuffer>>

(* External: it has the data and writes the sector, or fails to.           *)
DriveStores ==
  /\ bsy /\ doing.op = "store"
  /\ bsy' = FALSE
  /\ doing' = Nothing
  /\ \/ content' = [content EXCEPT ![Disk][doing.lba] = sectorBuffer] /\ UNCHANGED err
     \/ err' = TRUE /\ UNCHANGED content
  /\ UNCHANGED <<cell, call, pc, ret, allowed, drq, sectorBuffer>>

PataSteps ==
  \/ PataTimeout \/ PataSelect \/ PataIssue \/ PataAccepted \/ PataDataRequest
  \/ PataCopyIn \/ PataCopyOut \/ PataWritten
  \/ DriveFetches \/ DriveAsks \/ DriveStores

=============================================================================
