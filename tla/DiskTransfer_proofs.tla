------------------------ MODULE DiskTransfer_proofs ------------------------
(***************************************************************************)
(* Proofs about DiskTransfer, for any media, sectors and contents and any  *)
(* drive that finishes late: writes stand, a sector reported as read is    *)
(* the one asked for, single sectors are moved as asked, and a card that   *)
(* g_sdc_status lets through was initialised.                              *)
(*                                                                         *)
(* And about the polling loops of the drivers, for every time-out.  A loop *)
(* decides by one of two things it read, the status or the time, when both *)
(* may have changed since.  What makes the decision right is what holds    *)
(* when a loop is left: the status was seen, or the time read last was     *)
(* late.                                                                   *)
(***************************************************************************)
EXTENDS DiskTransfer, DriveWait, TLAPS

PataPlaces == {"idle", "select", "selected", "issue", "accepted", "data", "copy", "written"}
CardPlaces == {"idle", "detect", "start", "busy", "refused", "accepted", "fetched"}

(* The values the variables range over.                                    *)
CallType ==
  /\ content \in [Media -> [Lba -> Data]]
  /\ allowed \in [Media -> [Lba -> SUBSET Data]]
  /\ cell \in Data
  /\ call \in [op : {"none", "init", "read", "write"}, lba : Nat]
  /\ call.op \in {"read", "write"} => call.lba \in Lba
  /\ ret \in {"none", "ok", "failed"}

PataType ==
  /\ bsy \in BOOLEAN /\ drq \in BOOLEAN /\ err \in BOOLEAN
  /\ doing \in [op : {"none", "read", "write", "store"}, lba : Nat]
  /\ doing.op # "none" => doing.lba \in Lba
  /\ sectorBuffer \in Data

CardType ==
  /\ noinit \in BOOLEAN /\ failed \in BOOLEAN
  /\ short \in BOOLEAN /\ crossed \in BOOLEAN
  /\ slot \in Cards \cup {NoCard} /\ ready \in Cards \cup {NoCard}
  /\ trans \in [op : {"none", "init", "read", "write"}, lba : Nat,
                data : Data, on : Cards \cup {NoCard}]
  /\ trans.op \in {"read", "write"} => trans.lba \in Lba
  /\ fifo \in Seq(Data)

XferType ==
  /\ op \in {"none", "init", "read", "write"}
  /\ start \in Nat /\ count \in Nat \ {0} /\ sector \in Nat /\ i \in Nat
  /\ res \in {"none", "OK", "PARERR"}
  /\ \/ unit = "hdc" /\ pc \in PataPlaces /\ op # "init" /\ call.op # "init" /\ noinit
     \/ unit = "sdc" /\ pc \in CardPlaces

TransferType == CallType /\ PataType /\ CardType /\ XferType

(* A driver is at work, or has an answer, only within a call of FatFs.     *)
InACall ==
  /\ pc # "idle" => call.op \in {"init", "read", "write"}
  /\ op = "none" => pc = "idle" /\ ret = "none"
  /\ op # "none" => res = "none"
  /\ op = "init" => call.op = "init"
  /\ op \in {"read", "write"} /\ i = 0 => sector = start
  /\ op \in {"read", "write"} /\ (pc # "idle" \/ ret # "none") => i < count

(* A single sector is asked of the driver where FatFs wants it.            *)
SectorAsked ==
  res = "OK" \/ (op \in {"read", "write"} /\ (pc # "idle" \/ ret = "ok" \/ i > 0))

Addressed == count = 1 /\ call.op # "init" /\ SectorAsked => call.lba = start

-----------------------------------------------------------------------------
(* The hard disk: what its status says of its command.                     *)
StatusTrue ==
  /\ doing.op \in {"read", "write"} => bsy
  /\ doing.op = "store" => bsy \/ drq
  /\ doing.op = "none" => ~bsy
  /\ drq => ~bsy

(* What the disk will still store was asked for.                           *)
StoreAsked ==
  bsy /\ doing.op = "store" => sectorBuffer \in allowed[Disk][doing.lba]

(* How far the drive is with the write under way.                          *)
WriteFollowed ==
  call.op = "write" =>
    /\ pc # "idle" => cell \in allowed[Disk][call.lba]
    /\ pc \in {"accepted", "copy", "written"} /\ doing.op # "none" => doing.lba = call.lba
    /\ pc \in {"accepted", "copy"} /\ drq => doing.op = "store"
    /\ pc \in {"accepted", "copy"} /\ doing.op = "none" => err
    /\ pc \in {"accepted", "copy"} => doing.op # "read"
    /\ pc # "data"
    /\ pc = "copy" => ~bsy
    /\ pc = "accepted" /\ doing.op = "store" => ~bsy
    /\ pc = "written" /\ doing.op # "none" => doing.op = "store" /\ bsy /\ sectorBuffer = cell
    /\ pc = "written" /\ doing.op = "none" => err \/ content[Disk][call.lba] = cell

(* How far it is with the read under way.                                  *)
ReadFollowed ==
  call.op = "read" =>
    /\ pc \in {"accepted", "data", "copy"} /\ doing.op # "none"
         => doing.op = "read" /\ doing.lba = call.lba
    /\ pc \in {"accepted", "data", "copy"} /\ drq
         => sectorBuffer = content[Disk][call.lba]
    /\ pc = "copy" => drq
    /\ pc # "written"

PataInv == unit = "hdc" => StatusTrue /\ StoreAsked /\ WriteFollowed /\ ReadFollowed

-----------------------------------------------------------------------------
(* The card: a card is initialised only while it is in the slot.           *)
ReadyInSlot == ready # NoCard => ready = slot

(* A transaction for a sector reaches the card it was started on, and what *)
(* it writes was asked for.                                                *)
TransferStays ==
  trans.op \in {"read", "write"} /\ ready # NoCard =>
    /\ ready = trans.on
    /\ trans.op = "write" => trans.data \in allowed[trans.on][trans.lba]

(* How far the controller is with the transaction of the call.             *)
TransactionFollowed ==
  /\ pc \in {"accepted", "refused", "fetched"} => trans.op = "none"
  /\ pc \in {"accepted", "fetched"} => ~failed
  /\ pc = "busy" /\ trans.op # "none" =>
       trans.op = call.op /\ trans.lba = call.lba /\ trans.data = cell
  /\ pc = "fetched" => call.op = "read"

(* Once it has ended well.                                                 *)
EndedWell == trans.op = "none" /\ ~failed

WriteEnded ==
  call.op = "write" /\ pc \in {"busy", "accepted"} /\ EndedWell =>
    trans.on # NoCard /\ content[trans.on][call.lba] = cell

ReadEnded ==
  call.op = "read" /\ EndedWell /\ ~short =>
    /\ pc \in {"busy", "accepted"} =>
         Len(fifo) > 0 /\ fifo[Len(fifo)] = content[trans.on][call.lba]
    /\ pc = "fetched" => cell = content[trans.on][call.lba]

InitEnded ==
  call.op = "init" /\ pc \in {"busy", "accepted"} /\ EndedWell
    /\ slot # NoCard /\ ~crossed => ready = slot

(* The flag of the card, which a transaction of sdc_init given up on       *)
(* cannot make wrong.                                                      *)
FlagTrue ==
  /\ ~noinit /\ slot # NoCard /\ ~crossed /\ (pc # "idle" => call.op # "init") => ready = slot
  /\ trans.op = "init" => noinit \/ (pc = "busy" /\ call.op = "init")

CardInv ==
  unit = "sdc" =>
    /\ ReadyInSlot /\ TransferStays /\ TransactionFollowed
    /\ WriteEnded /\ ReadEnded /\ InitEnded /\ FlagTrue

-----------------------------------------------------------------------------
(* Nothing the drive or the controller was told is left to do.             *)
Quiet == IF unit = "hdc" THEN doing.op = "none" ELSE trans.op = "none"

(* The sector and the buffer agree.                                        *)
Agree ==
  /\ call.op = "read" /\ ~short => cell = content[Medium][call.lba]
  /\ call.op = "write" => content[Medium][call.lba] = cell

(* Once a sector was moved, nothing disturbs it until the next is begun.   *)
MovedStays ==
  pc = "idle" /\ (ret = "ok" \/ res = "OK" \/ (op \in {"read", "write"} /\ ret = "none" /\ i > 0))
    => Quiet /\ Agree

IInv ==
  /\ TransferType /\ InACall /\ Addressed
  /\ PataInv /\ CardInv /\ MovedStays /\ WritesStand

-----------------------------------------------------------------------------
(* The steps of the hard disk and its driver keep the values in their      *)
(* ranges.                                                                 *)
LEMMA PataTypes ==
  ASSUME TransferType, InACall, PataInv, unit = "hdc",
         PataSteps, UNCHANGED <<cardVars, xferVars>>
  PROVE  TransferType'
<1> USE TransferAssumption DEF cardVars, xferVars, TransferType
<1>1. CardType'
  BY DEF CardType
<1>2. PataType' /\ CallType'
  <2> USE DEF CallType, PataType, callVars, driveVars
  <2>1. CASE PataTimeout
    BY <2>1 DEF PataTimeout, Go, Return
  <2>2. CASE PataSelect
    BY <2>2 DEF PataSelect, Go, Return
  <2>3. CASE PataIssue
    BY <2>3 DEF PataIssue, InACall, XferType, Go, Return
  <2>4. CASE PataAccepted
    BY <2>4 DEF PataAccepted, Go, Return
  <2>5. CASE PataDataRequest
    BY <2>5 DEF PataDataRequest, Go, Return
  <2>6. CASE PataCopyIn
    BY <2>6 DEF PataCopyIn, Go, Return
  <2>7. CASE PataCopyOut
    BY <2>7 DEF PataCopyOut, Go, Return
  <2>8. CASE PataWritten
    BY <2>8 DEF PataWritten, MustHold, Go, Return
  <2>9. CASE DriveFetches
    <3>1. sectorBuffer' \in {sectorBuffer, content[Disk][doing.lba]}
      BY <2>9 DEF DriveFetches
    <3>2. doing.lba \in Lba /\ Disk \in Media
      BY <2>9 DEF DriveFetches
    <3>3. sectorBuffer' \in Data
      BY <3>1, <3>2
    <3>4. drq' \in BOOLEAN /\ err' \in BOOLEAN /\ bsy' \in BOOLEAN
      BY <2>9 DEF DriveFetches
    <3> QED
      BY <2>9, <3>3, <3>4 DEF DriveFetches, Nothing
  <2>10. CASE DriveAsks
    <3>1. doing.lba \in Lba /\ doing.lba \in Nat
      BY <2>10 DEF DriveAsks
    <3>2. doing' = [op |-> "store", lba |-> doing.lba] \/ doing' = Nothing
      BY <2>10 DEF DriveAsks
    <3>3. doing' \in [op : {"none", "read", "write", "store"}, lba : Nat]
          /\ (doing'.op # "none" => doing'.lba \in Lba)
      BY <3>1, <3>2 DEF Nothing
    <3>4. drq' \in BOOLEAN /\ err' \in BOOLEAN /\ bsy' \in BOOLEAN
      BY <2>10 DEF DriveAsks
    <3> QED
      BY <2>10, <3>3, <3>4 DEF DriveAsks
  <2>11. CASE DriveStores
    <3>1. doing.lba \in Lba /\ Disk \in Media
      BY <2>11 DEF DriveStores
    <3>2. content' \in [Media -> [Lba -> Data]]
      BY <2>11, <3>1 DEF DriveStores
    <3>3. err' \in BOOLEAN /\ bsy' \in BOOLEAN
      BY <2>11 DEF DriveStores
    <3> QED
      BY <2>11, <3>2, <3>3 DEF DriveStores, Nothing
  <2> QED
    BY <2>1, <2>2, <2>3, <2>4, <2>5, <2>6, <2>7, <2>8, <2>9, <2>10, <2>11 DEF PataSteps
<1>3. XferType'
  <2>1. UNCHANGED <<call, pc>> \/ (call' = call /\ pc' \in PataPlaces)
    BY DEF PataSteps, PataTimeout, PataSelect, PataIssue, PataAccepted, PataDataRequest,
       PataCopyIn, PataCopyOut, PataWritten, DriveFetches, DriveAsks, DriveStores,
       Go, Return, PataPlaces, callVars
  <2> QED
    BY <2>1 DEF XferType
<1> QED
  BY <1>1, <1>2, <1>3

(* They keep what the drive's status says of its command.                  *)
LEMMA PataStatus ==
  ASSUME TransferType, InACall, PataInv, unit = "hdc",
         PataSteps, UNCHANGED <<cardVars, xferVars>>
  PROVE  StatusTrue'
<1> USE DEF TransferType, PataType, InACall, PataInv, StatusTrue, driveVars
<1>1. CASE PataTimeout
  BY <1>1 DEF PataTimeout, Go, Return
<1>2. CASE PataSelect
  BY <1>2 DEF PataSelect, Go, Return
<1>3. CASE PataIssue
  BY <1>3 DEF PataIssue, XferType, CallType, Go, Return
<1>4. CASE PataAccepted
  BY <1>4 DEF PataAccepted, Go, Return
<1>5. CASE PataDataRequest
  BY <1>5 DEF PataDataRequest, Go, Return
<1>6. CASE PataCopyIn
  BY <1>6 DEF PataCopyIn, ReadFollowed, Go, Return
<1>7. CASE PataCopyOut
  BY <1>7 DEF PataCopyOut, WriteFollowed, Go, Return
<1>8. CASE PataWritten
  BY <1>8 DEF PataWritten, Go, Return
<1>9. CASE DriveFetches
  BY <1>9 DEF DriveFetches, Nothing, Go, Return
<1>10. CASE DriveAsks
  BY <1>10 DEF DriveAsks, Nothing, Go, Return
<1>11. CASE DriveStores
  BY <1>11 DEF DriveStores, Nothing, Go, Return
<1> QED
  BY <1>1, <1>2, <1>3, <1>4, <1>5, <1>6, <1>7, <1>8, <1>9, <1>10, <1>11 DEF PataSteps

(* They store only what was asked for.                                     *)
LEMMA PataStores ==
  ASSUME TransferType, InACall, PataInv, unit = "hdc",
         PataSteps, UNCHANGED <<cardVars, xferVars>>
  PROVE  StoreAsked'
<1> USE DEF TransferType, PataType, InACall, PataInv, StatusTrue, StoreAsked, driveVars
<1>1. CASE PataTimeout
  BY <1>1 DEF PataTimeout, Go, Return
<1>2. CASE PataSelect
  BY <1>2 DEF PataSelect, Go, Return
<1>3. CASE PataIssue
  BY <1>3 DEF PataIssue, XferType, CallType, Go, Return
<1>4. CASE PataAccepted
  BY <1>4 DEF PataAccepted, Go, Return
<1>5. CASE PataDataRequest
  BY <1>5 DEF PataDataRequest, Go, Return
<1>6. CASE PataCopyIn
  BY <1>6 DEF PataCopyIn, ReadFollowed, Go, Return
<1>7. CASE PataCopyOut
  BY <1>7 DEF PataCopyOut, WriteFollowed, Go, Return
<1>8. CASE PataWritten
  BY <1>8 DEF PataWritten, MustHold, Go, Return
<1>9. CASE DriveFetches
  BY <1>9 DEF DriveFetches, Nothing, Go, Return
<1>10. CASE DriveAsks
  BY <1>10 DEF DriveAsks, Nothing, Go, Return
<1>11. CASE DriveStores
  BY <1>11 DEF DriveStores, Nothing, Go, Return
<1> QED
  BY <1>1, <1>2, <1>3, <1>4, <1>5, <1>6, <1>7, <1>8, <1>9, <1>10, <1>11 DEF PataSteps

(* They keep what the driver knows of the write under way.                 *)
LEMMA PataWrites ==
  ASSUME TransferType, InACall, PataInv, unit = "hdc",
         PataSteps, UNCHANGED <<cardVars, xferVars>>
  PROVE  WriteFollowed'
<1> USE TransferAssumption
    DEF TransferType, CallType, PataType, InACall, PataInv, StatusTrue, WriteFollowed,
        callVars, driveVars
<1>1. CASE PataTimeout
  BY <1>1 DEF PataTimeout, Go, Return
<1>2. CASE PataSelect
  BY <1>2 DEF PataSelect, Go, Return
<1>3. CASE PataIssue
  BY <1>3 DEF PataIssue, XferType, CallType, Go, Return
<1>4. CASE PataAccepted
  BY <1>4 DEF PataAccepted, Go, Return
<1>5. CASE PataDataRequest
  BY <1>5 DEF PataDataRequest, Go, Return
<1>6. CASE PataCopyIn
  BY <1>6 DEF PataCopyIn, Go, Return
<1>7. CASE PataCopyOut
  BY <1>7 DEF PataCopyOut, Go, Return
<1>8. CASE PataWritten
  BY <1>8 DEF PataWritten, MustHold, Go, Return
<1>9. CASE DriveFetches
  BY <1>9 DEF DriveFetches, Nothing, Go, Return
<1>10. CASE DriveAsks
  BY <1>10 DEF DriveAsks, Nothing, Go, Return
<1>11. CASE DriveStores
  BY <1>11 DEF DriveStores, Nothing, StoreAsked, Go, Return
<1> QED
  BY <1>1, <1>2, <1>3, <1>4, <1>5, <1>6, <1>7, <1>8, <1>9, <1>10, <1>11 DEF PataSteps

(* They keep what it knows of the read under way.                          *)
LEMMA PataReads ==
  ASSUME TransferType, InACall, PataInv, unit = "hdc",
         PataSteps, UNCHANGED <<cardVars, xferVars>>
  PROVE  ReadFollowed'
<1> USE TransferAssumption
    DEF TransferType, CallType, PataType, InACall, PataInv, StatusTrue, ReadFollowed,
        callVars, driveVars
<1>1. CASE PataTimeout
  BY <1>1 DEF PataTimeout, Go, Return
<1>2. CASE PataSelect
  BY <1>2 DEF PataSelect, Go, Return
<1>3. CASE PataIssue
  BY <1>3 DEF PataIssue, XferType, CallType, Go, Return
<1>4. CASE PataAccepted
  BY <1>4 DEF PataAccepted, Go, Return
<1>5. CASE PataDataRequest
  BY <1>5 DEF PataDataRequest, Go, Return
<1>6. CASE PataCopyIn
  BY <1>6 DEF PataCopyIn, Go, Return
<1>7. CASE PataCopyOut
  BY <1>7 DEF PataCopyOut, Go, Return
<1>8. CASE PataWritten
  BY <1>8 DEF PataWritten, MustHold, Go, Return
<1>9. CASE DriveFetches
  BY <1>9 DEF DriveFetches, Nothing, Go, Return
<1>10. CASE DriveAsks
  BY <1>10 DEF DriveAsks, Nothing, Go, Return
<1>11. CASE DriveStores
  BY <1>11 DEF DriveStores, Nothing, StoreAsked, Go, Return
<1> QED
  BY <1>1, <1>2, <1>3, <1>4, <1>5, <1>6, <1>7, <1>8, <1>9, <1>10, <1>11 DEF PataSteps

(* They keep writes standing.                                              *)
LEMMA PataStands ==
  ASSUME TransferType, InACall, PataInv, unit = "hdc",
         PataSteps, UNCHANGED <<cardVars, xferVars>>, WritesStand
  PROVE  WritesStand'
<1> USE TransferAssumption
    DEF TransferType, CallType, PataType, InACall, PataInv, StatusTrue, WritesStand,
        callVars, driveVars
<1>1. CASE PataTimeout
  BY <1>1 DEF PataTimeout, Go, Return
<1>2. CASE PataSelect
  BY <1>2 DEF PataSelect, Go, Return
<1>3. CASE PataIssue
  BY <1>3 DEF PataIssue, XferType, CallType, Go, Return
<1>4. CASE PataAccepted
  BY <1>4 DEF PataAccepted, Go, Return
<1>5. CASE PataDataRequest
  BY <1>5 DEF PataDataRequest, Go, Return
<1>6. CASE PataCopyIn
  BY <1>6 DEF PataCopyIn, Go, Return
<1>7. CASE PataCopyOut
  BY <1>7 DEF PataCopyOut, Go, Return
<1>8. CASE PataWritten
  <2>1. CASE err
    BY <1>8, <2>1 DEF PataWritten
  <2>2. CASE ~err
    <3>1. allowed' = [allowed EXCEPT ![Disk][call.lba] = {cell}] /\ content' = content
      BY <1>8, <2>2 DEF PataWritten, MustHold
    <3>2. call.op = "write"
      BY <1>8 DEF PataWritten, XferType, InACall, ReadFollowed
    <3>3. content[Disk][call.lba] = cell
      BY <1>8, <2>2, <3>2 DEF PataWritten, WriteFollowed
    <3> QED
      BY <3>1, <3>3
  <2> QED
    BY <2>1, <2>2
<1>9. CASE DriveFetches
  BY <1>9 DEF DriveFetches, Nothing, Go, Return
<1>10. CASE DriveAsks
  BY <1>10 DEF DriveAsks, Nothing, Go, Return
<1>11. CASE DriveStores
  BY <1>11 DEF DriveStores, Nothing, StoreAsked, Go, Return
<1> QED
  BY <1>1, <1>2, <1>3, <1>4, <1>5, <1>6, <1>7, <1>8, <1>9, <1>10, <1>11 DEF PataSteps

(* They leave what was moved alone.                                        *)
LEMMA PataMoved ==
  ASSUME TransferType, InACall, PataInv, unit = "hdc",
         PataSteps, UNCHANGED <<cardVars, xferVars>>, MovedStays
  PROVE  MovedStays'
<1> USE TransferAssumption
    DEF TransferType, CallType, PataType, XferType, InACall, PataInv, StatusTrue, MovedStays, Quiet,
        Agree, Medium, callVars, driveVars, cardVars, xferVars
<1>1. CASE PataTimeout
  BY <1>1 DEF PataTimeout, Go, Return
<1>2. CASE PataSelect
  BY <1>2 DEF PataSelect, Go, Return
<1>3. CASE PataIssue
  BY <1>3 DEF PataIssue, XferType, CallType, Go, Return
<1>4. CASE PataAccepted
  BY <1>4 DEF PataAccepted, Go, Return
<1>5. CASE PataDataRequest
  BY <1>5 DEF PataDataRequest, Go, Return
<1>6. CASE PataCopyIn
  BY <1>6 DEF PataCopyIn, ReadFollowed, Go, Return
<1>7. CASE PataCopyOut
  BY <1>7 DEF PataCopyOut, Go, Return
<1>8. CASE PataWritten
  <2>1. CASE err
    BY <1>8, <2>1 DEF PataWritten, Return
  <2>2. CASE ~err
    <3>1. call.op = "write"
      BY <1>8 DEF PataWritten, XferType, InACall, ReadFollowed
    <3>2. content[Disk][call.lba] = cell /\ doing.op = "none"
      BY <1>8, <2>2, <3>1 DEF PataWritten, WriteFollowed
    <3> QED
      BY <1>8, <2>2, <3>1, <3>2 DEF PataWritten, Return
  <2> QED
    BY <2>1, <2>2
<1>9. CASE DriveFetches
  BY <1>9 DEF DriveFetches, Nothing, Go, Return
<1>10. CASE DriveAsks
  BY <1>10 DEF DriveAsks, Nothing, Go, Return
<1>11. CASE DriveStores
  BY <1>11 DEF DriveStores, Nothing, StoreAsked, Go, Return
<1> QED
  BY <1>1, <1>2, <1>3, <1>4, <1>5, <1>6, <1>7, <1>8, <1>9, <1>10, <1>11 DEF PataSteps

(* They stay within the call of FatFs.                                     *)
LEMMA PataCalls ==
  ASSUME TransferType, InACall, Addressed, unit = "hdc",
         PataSteps, UNCHANGED <<cardVars, xferVars>>
  PROVE  InACall' /\ Addressed'
<1>1. call' = call /\ (UNCHANGED <<pc, ret>> \/ pc # "idle")
  BY DEF PataSteps, Waits, PataTimeout, PataSelect, PataIssue, PataAccepted, PataDataRequest,
     PataCopyIn, PataCopyOut, PataWritten, DriveFetches, DriveAsks, DriveStores,
     Go, Return, callVars
<1> QED
  BY <1>1 DEF InACall, Addressed, SectorAsked, xferVars

-----------------------------------------------------------------------------
(* The steps of the card slot: its driver, the controller and the user.    *)
(* They keep the values in their ranges.                                   *)
LEMMA CardTypes ==
  ASSUME TransferType, InACall, CardInv, unit = "sdc",
         SdSteps, UNCHANGED <<driveVars, xferVars>>
  PROVE  TransferType'
<1> USE TransferAssumption DEF driveVars, xferVars, TransferType
<1>1. PataType'
  BY DEF PataType
<1>2. CardType' /\ CallType'
  <2> USE DEF CallType, CardType, callVars, cardVars
  <2>1. CASE SdcNoCard
    BY <2>1 DEF SdcNoCard, Go, Return
  <2>2. CASE SdcCard
    BY <2>2 DEF SdcCard, Go, Return
  <2>3. CASE SdcStart
    <3>1. call.op \in {"init", "read", "write"}
      BY <2>3 DEF SdcStart, InACall
    <3>2. trans' = [op |-> call.op, lba |-> call.lba, data |-> cell, on |-> slot]
      BY <2>3 DEF SdcStart
    <3>3. trans' \in [op : {"none", "init", "read", "write"}, lba : Nat,
                      data : Data, on : Cards \cup {NoCard}]
          /\ (trans'.op \in {"read", "write"} => trans'.lba \in Lba)
      BY <3>1, <3>2
    <3>4. allowed' \in [Media -> [Lba -> SUBSET Data]]
      <4>1. CASE call.op = "write" /\ slot # NoCard
        <5>1. slot \in Media /\ call.lba \in Lba
          BY <4>1
        <5> QED
          BY <2>3, <4>1, <5>1 DEF SdcStart, MayHold
      <4>2. CASE ~(call.op = "write" /\ slot # NoCard)
        BY <2>3, <4>2 DEF SdcStart
      <4> QED
        BY <4>1, <4>2
    <3> QED
      BY <2>3, <3>3, <3>4 DEF SdcStart, Go
  <2>4. CASE SdcTimeout
    BY <2>4 DEF SdcTimeout, Go, Return
  <2>5. CASE SdcEnded
    BY <2>5 DEF SdcEnded, Go, Return
  <2>6. CASE SdcRefused
    BY <2>6 DEF SdcRefused, Go, Return
  <2>7. CASE SdcInitialised
    BY <2>7 DEF SdcInitialised, Go, Return
  <2>8. CASE SdcFetch
    <3>1. CASE Len(fifo) > 1
      BY <2>8, <3>1 DEF SdcFetch, Return
    <3>2. CASE ~(Len(fifo) > 1)
      <4>1. fifo # <<>> => Head(fifo) \in Data
        OBVIOUS
      <4>2. cell' \in Data /\ fifo' \in Seq(Data)
        BY <2>8, <3>2, <4>1 DEF SdcFetch
      <4> QED
        BY <2>8, <3>2, <4>2 DEF SdcFetch, Go
    <3> QED
      BY <3>1, <3>2
  <2>9. CASE SdcFetched
    BY <2>9 DEF SdcFetched, Go, Return
  <2>10. CASE SdcWritten
    BY <2>10 DEF SdcWritten, MustHold, Go, Return
  <2>11. CASE CardFails
    BY <2>11 DEF CardFails, Ended, Go, Return
  <2>12. CASE CardInitialises
    BY <2>12 DEF CardInitialises, Ended, Go, Return
  <2>13. CASE CardReads
    <3>1. content[slot][trans.lba] \in Data
      <4>1. slot \in Media /\ trans.lba \in Lba
        BY <2>13 DEF CardReads, OnCard
      <4> QED
        BY <4>1
    <3>2. fifo' = Append(fifo, content[slot][trans.lba]) \/ fifo' = fifo
      BY <2>13 DEF CardReads
    <3>3. fifo' \in Seq(Data)
      BY <3>1, <3>2
    <3>4. short' \in BOOLEAN
      BY <2>13 DEF CardReads
    <3> QED
      BY <2>13, <3>3, <3>4 DEF CardReads, Ended
  <2>14. CASE CardWrites
    BY <2>14 DEF CardWrites, Ended, OnCard, Go, Return
  <2>15. CASE Remove
    BY <2>15 DEF Remove, Go, Return
  <2>16. CASE Insert
    BY <2>16 DEF Insert, Go, Return
  <2> QED
    BY <2>1, <2>2, <2>3, <2>4, <2>5, <2>6, <2>7, <2>8, <2>9, <2>10, <2>11, <2>12, <2>13, <2>14, <2>15, <2>16 DEF SdSteps
<1>3. XferType'
  <2>1. call' = call /\ (UNCHANGED pc \/ pc' \in CardPlaces)
    BY DEF SdSteps, SdcNoCard, SdcCard, SdcStart, SdcTimeout, SdcEnded, SdcRefused,
       SdcInitialised, SdcFetch, SdcFetched, SdcWritten, CardFails, CardInitialises,
       CardReads, CardWrites, Remove, Insert, Go, Return, CardPlaces, callVars
  <2> QED
    BY <2>1 DEF XferType
<1> QED
  BY <1>1, <1>2, <1>3

(* They stay within the call of FatFs.                                     *)
LEMMA CardCalls ==
  ASSUME TransferType, InACall, Addressed, unit = "sdc",
         SdSteps, UNCHANGED <<driveVars, xferVars>>
  PROVE  InACall' /\ Addressed'
<1>1. call' = call /\ (UNCHANGED <<pc, ret>> \/ pc # "idle")
  BY DEF SdSteps, SdcNoCard, SdcCard, SdcStart, SdcTimeout, SdcEnded, SdcRefused,
     SdcInitialised, SdcFetch, SdcFetched, SdcWritten, CardFails, CardInitialises,
     CardReads, CardWrites, Remove, Insert, Go, Return, callVars
<1> QED
  BY <1>1 DEF InACall, Addressed, SectorAsked, xferVars

(* They keep what the controller's status says of its card.                *)
LEMMA CardReady ==
  ASSUME TransferType, InACall, CardInv, unit = "sdc",
         SdSteps, UNCHANGED <<driveVars, xferVars>>
  PROVE  ReadyInSlot'
<1> USE TransferAssumption DEF TransferType, CardType, CardInv, ReadyInSlot, cardVars, callVars
<1>1. CASE SdcNoCard
  BY <1>1 DEF SdcNoCard
<1>2. CASE SdcCard
  BY <1>2 DEF SdcCard
<1>3. CASE SdcStart
  BY <1>3 DEF SdcStart
<1>4. CASE SdcTimeout
  BY <1>4 DEF SdcTimeout
<1>5. CASE SdcEnded
  BY <1>5 DEF SdcEnded
<1>6. CASE SdcRefused
  BY <1>6 DEF SdcRefused
<1>7. CASE SdcInitialised
  BY <1>7 DEF SdcInitialised
<1>8. CASE SdcFetch
  BY <1>8 DEF SdcFetch
<1>9. CASE SdcFetched
  BY <1>9 DEF SdcFetched
<1>10. CASE SdcWritten
  BY <1>10 DEF SdcWritten
<1>11. CASE CardFails
  BY <1>11 DEF CardFails, Ended
<1>12. CASE CardInitialises
  BY <1>12 DEF CardInitialises, Ended
<1>13. CASE CardReads
  BY <1>13 DEF CardReads, Ended, OnCard
<1>14. CASE CardWrites
  BY <1>14 DEF CardWrites, Ended, OnCard
<1>15. CASE Remove
  BY <1>15 DEF Remove
<1>16. CASE Insert
  BY <1>16 DEF Insert
<1> QED
  BY <1>1, <1>2, <1>3, <1>4, <1>5, <1>6, <1>7, <1>8, <1>9, <1>10, <1>11, <1>12, <1>13, <1>14, <1>15, <1>16 DEF SdSteps

(* They keep a transaction on its card.                                    *)
LEMMA CardStays ==
  ASSUME TransferType, InACall, CardInv, unit = "sdc",
         SdSteps, UNCHANGED <<driveVars, xferVars>>
  PROVE  TransferStays'
<1> USE TransferAssumption
    DEF TransferType, CallType, CardType, CardInv, ReadyInSlot, TransferStays, cardVars, callVars
<1>1. CASE SdcNoCard
  BY <1>1 DEF SdcNoCard
<1>2. CASE SdcCard
  BY <1>2 DEF SdcCard
<1>3. CASE SdcStart
  BY <1>3 DEF SdcStart, MayHold
<1>4. CASE SdcTimeout
  BY <1>4 DEF SdcTimeout
<1>5. CASE SdcEnded
  BY <1>5 DEF SdcEnded
<1>6. CASE SdcRefused
  BY <1>6 DEF SdcRefused
<1>7. CASE SdcInitialised
  BY <1>7 DEF SdcInitialised
<1>8. CASE SdcFetch
  BY <1>8 DEF SdcFetch
<1>9. CASE SdcFetched
  BY <1>9 DEF SdcFetched
<1>10. CASE SdcWritten
  BY <1>10 DEF SdcWritten, MustHold, TransactionFollowed
<1>11. CASE CardFails
  BY <1>11 DEF CardFails, Ended
<1>12. CASE CardInitialises
  BY <1>12 DEF CardInitialises, Ended
<1>13. CASE CardReads
  BY <1>13 DEF CardReads, Ended, OnCard
<1>14. CASE CardWrites
  BY <1>14 DEF CardWrites, Ended, OnCard
<1>15. CASE Remove
  BY <1>15 DEF Remove
<1>16. CASE Insert
  BY <1>16 DEF Insert
<1> QED
  BY <1>1, <1>2, <1>3, <1>4, <1>5, <1>6, <1>7, <1>8, <1>9, <1>10, <1>11, <1>12, <1>13, <1>14, <1>15, <1>16 DEF SdSteps

(* They keep what the driver knows of its transaction.                     *)
LEMMA CardFollows ==
  ASSUME TransferType, InACall, CardInv, unit = "sdc",
         SdSteps, UNCHANGED <<driveVars, xferVars>>
  PROVE  TransactionFollowed'
<1> USE DEF TransferType, CallType, CardType, CardInv, TransactionFollowed, cardVars, callVars
<1>1. CASE SdcNoCard
  BY <1>1 DEF SdcNoCard, Go, Return
<1>2. CASE SdcCard
  BY <1>2 DEF SdcCard, Go, Return
<1>3. CASE SdcStart
  BY <1>3 DEF SdcStart, Go, Return
<1>4. CASE SdcTimeout
  BY <1>4 DEF SdcTimeout, Go, Return
<1>5. CASE SdcEnded
  BY <1>5 DEF SdcEnded, Go, Return
<1>6. CASE SdcRefused
  BY <1>6 DEF SdcRefused, Go, Return
<1>7. CASE SdcInitialised
  BY <1>7 DEF SdcInitialised, Go, Return
<1>8. CASE SdcFetch
  BY <1>8 DEF SdcFetch, Go, Return
<1>9. CASE SdcFetched
  BY <1>9 DEF SdcFetched, Go, Return
<1>10. CASE SdcWritten
  BY <1>10 DEF SdcWritten, Go, Return
<1>11. CASE CardFails
  BY <1>11 DEF CardFails, Ended, Go, Return
<1>12. CASE CardInitialises
  BY <1>12 DEF CardInitialises, Ended, Go, Return
<1>13. CASE CardReads
  BY <1>13 DEF CardReads, Ended, OnCard, Go, Return
<1>14. CASE CardWrites
  BY <1>14 DEF CardWrites, Ended, OnCard, Go, Return
<1>15. CASE Remove
  BY <1>15 DEF Remove, Go, Return
<1>16. CASE Insert
  BY <1>16 DEF Insert, Go, Return
<1> QED
  BY <1>1, <1>2, <1>3, <1>4, <1>5, <1>6, <1>7, <1>8, <1>9, <1>10, <1>11, <1>12, <1>13, <1>14, <1>15, <1>16 DEF SdSteps

(* They keep a write that has ended well.                                  *)
LEMMA CardWriteEnds ==
  ASSUME TransferType, InACall, CardInv, unit = "sdc",
         SdSteps, UNCHANGED <<driveVars, xferVars>>
  PROVE  WriteEnded'
<1> USE TransferAssumption
    DEF TransferType, CallType, CardType, CardInv, ReadyInSlot, TransferStays,
        TransactionFollowed, WriteEnded, EndedWell, cardVars, callVars
<1>1. CASE SdcNoCard
  BY <1>1 DEF SdcNoCard, Go, Return
<1>2. CASE SdcCard
  BY <1>2 DEF SdcCard, Go, Return
<1>3. CASE SdcStart
  BY <1>3 DEF SdcStart, Go, Return
<1>4. CASE SdcTimeout
  BY <1>4 DEF SdcTimeout, Go, Return
<1>5. CASE SdcEnded
  BY <1>5 DEF SdcEnded, Go, Return
<1>6. CASE SdcRefused
  BY <1>6 DEF SdcRefused, Go, Return
<1>7. CASE SdcInitialised
  BY <1>7 DEF SdcInitialised, Go, Return
<1>8. CASE SdcFetch
  BY <1>8 DEF SdcFetch, Go, Return
<1>9. CASE SdcFetched
  BY <1>9 DEF SdcFetched, Go, Return
<1>10. CASE SdcWritten
  BY <1>10 DEF SdcWritten, Go, Return
<1>11. CASE CardFails
  BY <1>11 DEF CardFails, Ended, Go, Return
<1>12. CASE CardInitialises
  BY <1>12 DEF CardInitialises, Ended, Go, Return
<1>13. CASE CardReads
  BY <1>13 DEF CardReads, Ended, OnCard, Go, Return
<1>14. CASE CardWrites
  BY <1>14 DEF CardWrites, Ended, OnCard, Go, Return
<1>15. CASE Remove
  BY <1>15 DEF Remove, Go, Return
<1>16. CASE Insert
  BY <1>16 DEF Insert, Go, Return
<1> QED
  BY <1>1, <1>2, <1>3, <1>4, <1>5, <1>6, <1>7, <1>8, <1>9, <1>10, <1>11, <1>12, <1>13, <1>14, <1>15, <1>16 DEF SdSteps

(* They keep a sdc_init that has ended well.                               *)
LEMMA CardInitEnds ==
  ASSUME TransferType, InACall, CardInv, unit = "sdc",
         SdSteps, UNCHANGED <<driveVars, xferVars>>
  PROVE  InitEnded'
<1> USE DEF TransferType, CallType, CardType, CardInv, ReadyInSlot,
        TransactionFollowed, InitEnded, EndedWell, cardVars, callVars
<1>1. CASE SdcNoCard
  BY <1>1 DEF SdcNoCard, Go, Return
<1>2. CASE SdcCard
  BY <1>2 DEF SdcCard, Go, Return
<1>3. CASE SdcStart
  BY <1>3 DEF SdcStart, Go, Return
<1>4. CASE SdcTimeout
  BY <1>4 DEF SdcTimeout, Go, Return
<1>5. CASE SdcEnded
  BY <1>5 DEF SdcEnded, Go, Return
<1>6. CASE SdcRefused
  BY <1>6 DEF SdcRefused, Go, Return
<1>7. CASE SdcInitialised
  BY <1>7 DEF SdcInitialised, Go, Return
<1>8. CASE SdcFetch
  BY <1>8 DEF SdcFetch, Go, Return
<1>9. CASE SdcFetched
  BY <1>9 DEF SdcFetched, Go, Return
<1>10. CASE SdcWritten
  BY <1>10 DEF SdcWritten, Go, Return
<1>11. CASE CardFails
  BY <1>11 DEF CardFails, Ended, Go, Return
<1>12. CASE CardInitialises
  BY <1>12 DEF CardInitialises, Ended, Go, Return
<1>13. CASE CardReads
  BY <1>13 DEF CardReads, Ended, OnCard, Go, Return
<1>14. CASE CardWrites
  BY <1>14 DEF CardWrites, Ended, OnCard, Go, Return
<1>15. CASE Remove
  BY <1>15 DEF Remove, Go, Return
<1>16. CASE Insert
  BY <1>16 DEF Insert, Go, Return
<1> QED
  BY <1>1, <1>2, <1>3, <1>4, <1>5, <1>6, <1>7, <1>8, <1>9, <1>10, <1>11, <1>12, <1>13, <1>14, <1>15, <1>16 DEF SdSteps

(* They keep the flag of the card true.                                    *)
LEMMA CardFlag ==
  ASSUME TransferType, InACall, CardInv, unit = "sdc",
         SdSteps, UNCHANGED <<driveVars, xferVars>>
  PROVE  FlagTrue'
<1> USE DEF TransferType, CallType, CardType, CardInv, ReadyInSlot,
        TransactionFollowed, InitEnded, EndedWell, FlagTrue, cardVars, callVars
<1>1. CASE SdcNoCard
  BY <1>1 DEF SdcNoCard, Go, Return
<1>2. CASE SdcCard
  BY <1>2 DEF SdcCard, Go, Return
<1>3. CASE SdcStart
  BY <1>3 DEF SdcStart, Go, Return
<1>4. CASE SdcTimeout
  BY <1>4 DEF SdcTimeout, Go, Return
<1>5. CASE SdcEnded
  BY <1>5 DEF SdcEnded, Go, Return
<1>6. CASE SdcRefused
  BY <1>6 DEF SdcRefused, Go, Return
<1>7. CASE SdcInitialised
  BY <1>7 DEF SdcInitialised, Go, Return
<1>8. CASE SdcFetch
  BY <1>8 DEF SdcFetch, Go, Return
<1>9. CASE SdcFetched
  BY <1>9 DEF SdcFetched, Go, Return
<1>10. CASE SdcWritten
  BY <1>10 DEF SdcWritten, Go, Return
<1>11. CASE CardFails
  BY <1>11 DEF CardFails, Ended, Go, Return
<1>12. CASE CardInitialises
  BY <1>12 DEF CardInitialises, Ended, Go, Return
<1>13. CASE CardReads
  BY <1>13 DEF CardReads, Ended, OnCard, Go, Return
<1>14. CASE CardWrites
  BY <1>14 DEF CardWrites, Ended, OnCard, Go, Return
<1>15. CASE Remove
  BY <1>15 DEF Remove, Go, Return
<1>16. CASE Insert
  BY <1>16 DEF Insert, Go, Return
<1> QED
  BY <1>1, <1>2, <1>3, <1>4, <1>5, <1>6, <1>7, <1>8, <1>9, <1>10, <1>11, <1>12, <1>13, <1>14, <1>15, <1>16 DEF SdSteps

(* They keep a read that has ended well.                                   *)
LEMMA CardReadEnds ==
  ASSUME TransferType, InACall, CardInv, unit = "sdc",
         SdSteps, UNCHANGED <<driveVars, xferVars>>
  PROVE  ReadEnded'
<1> USE TransferAssumption
    DEF TransferType, CallType, CardType, CardInv, ReadyInSlot, TransferStays,
        TransactionFollowed, ReadEnded, EndedWell, cardVars, callVars
<1>1. CASE SdcNoCard
  BY <1>1 DEF SdcNoCard, Go, Return
<1>2. CASE SdcCard
  BY <1>2 DEF SdcCard, Go, Return
<1>3. CASE SdcStart
  BY <1>3 DEF SdcStart, Go, Return
<1>4. CASE SdcTimeout
  BY <1>4 DEF SdcTimeout, Go, Return
<1>5. CASE SdcEnded
  BY <1>5 DEF SdcEnded, Go, Return
<1>6. CASE SdcRefused
  BY <1>6 DEF SdcRefused, Go, Return
<1>7. CASE SdcInitialised
  BY <1>7 DEF SdcInitialised, Go, Return
<1>8. CASE SdcFetch
  BY <1>8 DEF SdcFetch, Go, Return
<1>9. CASE SdcFetched
  BY <1>9 DEF SdcFetched, Go, Return
<1>10. CASE SdcWritten
  BY <1>10 DEF SdcWritten, Go, Return
<1>11. CASE CardFails
  BY <1>11 DEF CardFails, Ended, Go, Return
<1>12. CASE CardInitialises
  BY <1>12 DEF CardInitialises, Ended, Go, Return
<1>13. CASE CardReads
  BY <1>13 DEF CardReads, Ended, OnCard, Go, Return
<1>14. CASE CardWrites
  BY <1>14 DEF CardWrites, Ended, OnCard, Go, Return
<1>15. CASE Remove
  BY <1>15 DEF Remove, Go, Return
<1>16. CASE Insert
  BY <1>16 DEF Insert, Go, Return
<1> QED
  BY <1>1, <1>2, <1>3, <1>4, <1>5, <1>6, <1>7, <1>8, <1>9, <1>10, <1>11, <1>12, <1>13, <1>14, <1>15, <1>16 DEF SdSteps

(* They keep writes standing.                                              *)
LEMMA CardStands ==
  ASSUME TransferType, InACall, CardInv, unit = "sdc",
         SdSteps, UNCHANGED <<driveVars, xferVars>>, WritesStand
  PROVE  WritesStand'
<1> USE TransferAssumption
    DEF TransferType, CallType, CardType, CardInv, ReadyInSlot, TransferStays,
        TransactionFollowed, WritesStand, cardVars, callVars
<1>1. CASE SdcNoCard
  BY <1>1 DEF SdcNoCard
<1>2. CASE SdcCard
  BY <1>2 DEF SdcCard
<1>3. CASE SdcStart
  BY <1>3 DEF SdcStart, MayHold
<1>4. CASE SdcTimeout
  BY <1>4 DEF SdcTimeout
<1>5. CASE SdcEnded
  BY <1>5 DEF SdcEnded
<1>6. CASE SdcRefused
  BY <1>6 DEF SdcRefused
<1>7. CASE SdcInitialised
  BY <1>7 DEF SdcInitialised
<1>8. CASE SdcFetch
  BY <1>8 DEF SdcFetch
<1>9. CASE SdcFetched
  BY <1>9 DEF SdcFetched
<1>10. CASE SdcWritten
  BY <1>10 DEF SdcWritten, MustHold, WriteEnded, EndedWell
<1>11. CASE CardFails
  BY <1>11 DEF CardFails, Ended
<1>12. CASE CardInitialises
  BY <1>12 DEF CardInitialises, Ended
<1>13. CASE CardReads
  BY <1>13 DEF CardReads, Ended, OnCard
<1>14. CASE CardWrites
  BY <1>14 DEF CardWrites, Ended, OnCard
<1>15. CASE Remove
  BY <1>15 DEF Remove
<1>16. CASE Insert
  BY <1>16 DEF Insert
<1> QED
  BY <1>1, <1>2, <1>3, <1>4, <1>5, <1>6, <1>7, <1>8, <1>9, <1>10, <1>11, <1>12, <1>13, <1>14, <1>15, <1>16 DEF SdSteps

(* They leave what was moved alone.                                        *)
LEMMA CardMoved ==
  ASSUME TransferType, InACall, CardInv, unit = "sdc",
         SdSteps, UNCHANGED <<driveVars, xferVars>>, MovedStays
  PROVE  MovedStays'
<1> USE TransferAssumption
    DEF TransferType, CallType, CardType, XferType, InACall, CardInv, TransactionFollowed, MovedStays, Quiet,
        Agree, Medium, callVars, cardVars, xferVars
<1>1. CASE SdcNoCard
  BY <1>1 DEF SdcNoCard, Go, Return
<1>2. CASE SdcCard
  BY <1>2 DEF SdcCard, Go, Return
<1>3. CASE SdcStart
  BY <1>3 DEF SdcStart, Go, Return
<1>4. CASE SdcTimeout
  BY <1>4 DEF SdcTimeout, Go, Return
<1>5. CASE SdcEnded
  BY <1>5 DEF SdcEnded, Go, Return
<1>6. CASE SdcRefused
  BY <1>6 DEF SdcRefused, Go, Return
<1>7. CASE SdcInitialised
  BY <1>7 DEF SdcInitialised, Go, Return
<1>8. CASE SdcFetch
  BY <1>8 DEF SdcFetch, Go, Return
<1>9. CASE SdcFetched
  BY <1>9 DEF SdcFetched, ReadEnded, EndedWell, Go, Return
<1>10. CASE SdcWritten
  BY <1>10 DEF SdcWritten, WriteEnded, EndedWell, Go, Return
<1>11. CASE CardFails
  BY <1>11 DEF CardFails, Ended, Go, Return
<1>12. CASE CardInitialises
  BY <1>12 DEF CardInitialises, Ended, Go, Return
<1>13. CASE CardReads
  BY <1>13 DEF CardReads, Ended, OnCard, Go, Return
<1>14. CASE CardWrites
  BY <1>14 DEF CardWrites, Ended, OnCard, Go, Return
<1>15. CASE Remove
  BY <1>15 DEF Remove, Go, Return
<1>16. CASE Insert
  BY <1>16 DEF Insert, Go, Return
<1> QED
  BY <1>1, <1>2, <1>3, <1>4, <1>5, <1>6, <1>7, <1>8, <1>9, <1>10, <1>11, <1>12, <1>13, <1>14, <1>15, <1>16 DEF SdSteps

-----------------------------------------------------------------------------
(* The steps of the glue between FatFs and the drivers, and FatFs's calls. *)
GlueSteps ==
  \/ \E first \in Volume, n \in 1 .. MaxCount : DiskRead(first, n) \/ DiskWrite(first, n)
  \/ DiskInitialize \/ CallDriver \/ NoSuchSector \/ Moved \/ Fails \/ Done

(* What the glue leaves of a drive's state when it does not call a driver, *)
(* and what the call of a driver changes of it.                            *)
LEMMA GlueDrives ==
  ASSUME TransferType, InACall, GlueSteps
  PROVE  /\ content' = content /\ UNCHANGED driveVars /\ unit' = unit
         /\ UNCHANGED <<noinit, slot, ready, trans, failed, fifo, short>>
         /\ pc = "idle"
         /\ pc' = "idle" => UNCHANGED <<call, allowed, crossed>>
         /\ pc' # "idle" => pc' = IF unit = "hdc" THEN "select" ELSE "detect"
<1> USE DEF TransferType, XferType, driveVars, cardVars, xferVars
<1>1. CASE \E first \in Volume, n \in 1 .. MaxCount : DiskRead(first, n) \/ DiskWrite(first, n)
  BY <1>1 DEF DiskRead, DiskWrite, Ask
<1>2. CASE DiskInitialize
  BY <1>2 DEF DiskInitialize, SdcInit, Begin
<1>3. CASE CallDriver
  <2>1. CASE unit = "hdc"
    BY <1>3, <2>1 DEF CallDriver, PataRead, PataWrite, Begin
  <2>2. CASE unit = "sdc"
    BY <1>3, <2>2 DEF CallDriver, SdcRead, SdcWrite, Begin
  <2> QED
    BY <2>1, <2>2
<1>4. CASE NoSuchSector
  BY <1>4 DEF NoSuchSector
<1>5. CASE Moved
  BY <1>5 DEF Moved
<1>6. CASE Fails \/ Done
  BY <1>6 DEF Fails, Done, Finish
<1> QED
  BY <1>1, <1>2, <1>3, <1>4, <1>5, <1>6 DEF GlueSteps

(* The glue keeps the values in their ranges.                              *)
LEMMA GlueTypes ==
  ASSUME TransferType, InACall, GlueSteps
  PROVE  TransferType'
<1> USE TransferAssumption
    DEF TransferType, CallType, PataType, CardType, XferType, InACall, PataPlaces, CardPlaces,
        driveVars, cardVars, xferVars
<1>1. CASE \E first \in Volume, n \in 1 .. MaxCount : DiskRead(first, n) \/ DiskWrite(first, n)
  <2>1. PICK first \in Volume, n \in 1 .. MaxCount : DiskRead(first, n) \/ DiskWrite(first, n)
    BY <1>1
  <2>2. first \in Nat /\ n \in Nat \ {0}
    BY <2>1
  <2> QED
    BY <2>1, <2>2 DEF DiskRead, DiskWrite, Ask
<1>2. CASE DiskInitialize
  <2>1. call' = [op |-> "init", lba |-> 0] /\ crossed' = FALSE /\ ret' = "none"
    BY <1>2 DEF DiskInitialize, SdcInit, Begin
  <2>2. CallType'
    BY <1>2, <2>1 DEF DiskInitialize, SdcInit
  <2>3. CardType' /\ PataType'
    <3>1. UNCHANGED <<driveVars, noinit, slot, ready, trans, failed, fifo, short>>
      BY <1>2 DEF DiskInitialize, SdcInit
    <3>2. crossed' \in BOOLEAN
      BY <2>1
    <3> QED
      BY <3>1, <3>2
  <2>4. XferType'
    BY <1>2, <2>1 DEF DiskInitialize, SdcInit, Begin
  <2> QED
    BY <2>2, <2>3, <2>4
<1>3. CASE CallDriver
  <2>1. CASE unit = "hdc"
    BY <1>3, <2>1 DEF CallDriver, PataRead, PataWrite, Begin, MayHold
  <2>2. CASE unit = "sdc"
    BY <1>3, <2>2 DEF CallDriver, SdcRead, SdcWrite, Begin
  <2> QED
    BY <2>1, <2>2
<1>4. CASE NoSuchSector
  BY <1>4 DEF NoSuchSector
<1>5. CASE Moved
  BY <1>5 DEF Moved
<1>6. CASE Fails
  BY <1>6 DEF Fails, Finish
<1>7. CASE Done
  BY <1>7 DEF Done, Finish
<1> QED
  BY <1>1, <1>2, <1>3, <1>4, <1>5, <1>6, <1>7 DEF GlueSteps

(* It stays within the calls of FatFs.                                     *)
LEMMA GlueCalls ==
  ASSUME TransferType, InACall, Addressed, GlueSteps
  PROVE  InACall' /\ Addressed'
<1> USE TransferAssumption
    DEF TransferType, XferType, InACall, Addressed, SectorAsked, driveVars, cardVars, xferVars
<1>1. CASE \E first \in Volume, n \in 1 .. MaxCount : DiskRead(first, n) \/ DiskWrite(first, n)
  <2>1. PICK first \in Volume, n \in 1 .. MaxCount : DiskRead(first, n) \/ DiskWrite(first, n)
    BY <1>1
  <2>2. first \in Nat /\ n \in Nat \ {0}
    BY <2>1
  <2> QED
    BY <2>1, <2>2 DEF DiskRead, DiskWrite, Ask
<1>2. CASE DiskInitialize
  BY <1>2 DEF DiskInitialize, SdcInit, Begin
<1>3. CASE CallDriver
  <2>1. CASE unit = "hdc"
    BY <1>3, <2>1 DEF CallDriver, PataRead, PataWrite, Begin, MayHold
  <2>2. CASE unit = "sdc"
    BY <1>3, <2>2 DEF CallDriver, SdcRead, SdcWrite, Begin
  <2> QED
    BY <2>1, <2>2
<1>4. CASE NoSuchSector
  BY <1>4 DEF NoSuchSector
<1>5. CASE Moved
  BY <1>5 DEF Moved
<1>6. CASE Fails
  BY <1>6 DEF Fails, Finish
<1>7. CASE Done
  BY <1>7 DEF Done, Finish
<1> QED
  BY <1>1, <1>2, <1>3, <1>4, <1>5, <1>6, <1>7 DEF GlueSteps

(* What was moved stays until the next call of a driver or of FatFs.       *)
LEMMA GlueMoved ==
  ASSUME TransferType, InACall, MovedStays, GlueSteps
  PROVE  MovedStays'
<1> USE TransferAssumption
    DEF TransferType, XferType, InACall, MovedStays, Quiet, Agree, Medium,
        driveVars, cardVars, xferVars
<1>1. CASE \E first \in Volume, n \in 1 .. MaxCount : DiskRead(first, n) \/ DiskWrite(first, n)
  <2>1. PICK first \in Volume, n \in 1 .. MaxCount : DiskRead(first, n) \/ DiskWrite(first, n)
    BY <1>1
  <2>2. first \in Nat /\ n \in Nat \ {0}
    BY <2>1
  <2> QED
    BY <2>1, <2>2 DEF DiskRead, DiskWrite, Ask
<1>2. CASE DiskInitialize
  BY <1>2 DEF DiskInitialize, SdcInit, Begin
<1>3. CASE CallDriver
  <2>1. CASE unit = "hdc"
    BY <1>3, <2>1 DEF CallDriver, PataRead, PataWrite, Begin, MayHold
  <2>2. CASE unit = "sdc"
    BY <1>3, <2>2 DEF CallDriver, SdcRead, SdcWrite, Begin
  <2> QED
    BY <2>1, <2>2
<1>4. CASE NoSuchSector
  BY <1>4 DEF NoSuchSector
<1>5. CASE Moved
  BY <1>5 DEF Moved
<1>6. CASE Fails
  BY <1>6 DEF Fails, Finish
<1>7. CASE Done
  BY <1>7 DEF Done, Finish
<1> QED
  BY <1>1, <1>2, <1>3, <1>4, <1>5, <1>6, <1>7 DEF GlueSteps

(* It starts no transfer but those the invariants speak of.                *)
LEMMA GluePata ==
  ASSUME TransferType, InACall, PataInv, GlueSteps
  PROVE  PataInv'
<1> SUFFICES ASSUME unit = "hdc"
             PROVE  StatusTrue' /\ StoreAsked' /\ WriteFollowed' /\ ReadFollowed'
  BY GlueDrives DEF PataInv
<1> USE TransferAssumption
    DEF TransferType, CallType, PataType, XferType, PataInv, StatusTrue, StoreAsked,
        WriteFollowed, ReadFollowed, driveVars
<1>1. /\ content' = content /\ UNCHANGED driveVars
      /\ pc' = "idle" => UNCHANGED <<call, allowed>>
      /\ pc' # "idle" => pc' = "select"
  BY GlueDrives
<1>2. CASE pc' = "idle"
  BY <1>1, <1>2
<1>3. CASE pc' # "idle"
  <2>1. CallDriver
    BY GlueDrives, <1>3 DEF GlueSteps, DiskRead, DiskWrite, Ask, DiskInitialize, NoSuchSector,
       Moved, Fails, Done, Finish
  <2>2. CASE PataRead(sector)
    BY <1>1, <1>3, <2>2 DEF PataRead, Begin
  <2>3. CASE PataWrite(sector, cell)
    BY <1>1, <1>3, <2>1, <2>3 DEF CallDriver, PataWrite, Begin, MayHold
  <2> QED
    BY <2>1, <2>2, <2>3 DEF CallDriver
<1> QED
  BY <1>2, <1>3

(* The same for the card.                                                  *)
LEMMA GlueCard ==
  ASSUME TransferType, InACall, CardInv, GlueSteps
  PROVE  CardInv'
<1> SUFFICES ASSUME unit = "sdc"
             PROVE  /\ ReadyInSlot' /\ TransferStays' /\ TransactionFollowed'
                    /\ WriteEnded' /\ ReadEnded' /\ InitEnded' /\ FlagTrue'
  BY GlueDrives DEF CardInv
<1> USE DEF CardInv, ReadyInSlot, TransferStays, TransactionFollowed,
        WriteEnded, ReadEnded, InitEnded, FlagTrue, EndedWell, cardVars
<1>1. /\ content' = content /\ UNCHANGED <<noinit, slot, ready, trans, failed, fifo, short>>
      /\ pc = "idle"
      /\ pc' = "idle" => UNCHANGED <<call, allowed, crossed>>
      /\ pc' # "idle" => pc' = "detect"
  BY GlueDrives
<1>2. CASE pc' = "idle"
  BY <1>1, <1>2
<1>3. CASE pc' # "idle"
  <2>1. allowed' = allowed /\ (crossed' = crossed \/ call'.op = "init")
    BY <1>3, <1>1 DEF GlueSteps, DiskRead, DiskWrite, Ask, CallDriver, NoSuchSector, Moved,
       Fails, Done, Finish, DiskInitialize, SdcInit, SdcRead, SdcWrite, Begin
  <2> QED
    BY <1>1, <1>3, <2>1
<1> QED
  BY <1>2, <1>3

(* Writes stand: a new one may land from the moment it is asked for.       *)
LEMMA GlueStands ==
  ASSUME TransferType, InACall, WritesStand, GlueSteps
  PROVE  WritesStand'
<1> USE TransferAssumption, GlueDrives
    DEF TransferType, CallType, XferType, WritesStand, driveVars, cardVars, xferVars
<1>1. CASE \E first \in Volume, n \in 1 .. MaxCount : DiskRead(first, n) \/ DiskWrite(first, n)
  <2>1. PICK first \in Volume, n \in 1 .. MaxCount : DiskRead(first, n) \/ DiskWrite(first, n)
    BY <1>1
  <2>2. first \in Nat /\ n \in Nat \ {0}
    BY <2>1
  <2> QED
    BY <2>1, <2>2 DEF DiskRead, DiskWrite, Ask
<1>2. CASE DiskInitialize
  BY <1>2 DEF DiskInitialize, SdcInit, Begin
<1>3. CASE CallDriver
  <2>1. CASE unit = "hdc"
    BY <1>3, <2>1 DEF CallDriver, PataRead, PataWrite, Begin, MayHold
  <2>2. CASE unit = "sdc"
    BY <1>3, <2>2 DEF CallDriver, SdcRead, SdcWrite, Begin
  <2> QED
    BY <2>1, <2>2
<1>4. CASE NoSuchSector
  BY <1>4 DEF NoSuchSector
<1>5. CASE Moved
  BY <1>5 DEF Moved
<1>6. CASE Fails
  BY <1>6 DEF Fails, Finish
<1>7. CASE Done
  BY <1>7 DEF Done, Finish
<1> QED
  BY <1>1, <1>2, <1>3, <1>4, <1>5, <1>6, <1>7 DEF GlueSteps

-----------------------------------------------------------------------------
LEMMA InitialInv == Init => IInv
<1> SUFFICES ASSUME Init PROVE IInv
  OBVIOUS
<1> USE TransferAssumption DEF Init, CallInit, DriveInit, CardInit, Nothing, NoTransaction
<1>1. TransferType
  <2>1. CallType /\ PataType
    BY DEF CallType, PataType
  <2>2. CardType
    <3>1. trans \in [op : {"none", "init", "read", "write"}, lba : Nat,
                     data : Data, on : Cards \cup {NoCard}]
          /\ trans.op = "none"
      OBVIOUS
    <3>2. noinit = TRUE /\ failed = FALSE /\ short = FALSE /\ crossed = FALSE
      OBVIOUS
    <3>3. fifo \in Seq(Data) /\ slot \in Cards \cup {NoCard} /\ ready \in Cards \cup {NoCard}
      OBVIOUS
    <3> QED
      BY <3>1, <3>2, <3>3 DEF CardType
  <2>3. XferType
    BY DEF XferType, PataPlaces, CardPlaces
  <2> QED
    BY <2>1, <2>2, <2>3 DEF TransferType
<1>2. InACall /\ Addressed
  BY DEF InACall, Addressed, SectorAsked
<1>3. PataInv
  BY DEF PataInv, StatusTrue, StoreAsked, WriteFollowed, ReadFollowed
<1>4. CardInv
  BY DEF CardInv, ReadyInSlot, TransferStays, TransactionFollowed, WriteEnded, ReadEnded,
     InitEnded, FlagTrue, EndedWell
<1>5. MovedStays
  BY DEF MovedStays
<1>6. WritesStand
  BY DEF WritesStand
<1> QED
  BY <1>1, <1>2, <1>3, <1>4, <1>5, <1>6 DEF IInv

LEMMA StepInv == IInv /\ [Next]_vars => IInv'
<1> SUFFICES ASSUME IInv, [Next]_vars PROVE IInv'
  OBVIOUS
<1> USE DEF IInv
<1>1. CASE GlueSteps
  BY <1>1, GlueTypes, GlueCalls, GlueMoved, GluePata, GlueCard, GlueStands
<1>2. CASE unit = "hdc" /\ PataSteps /\ UNCHANGED <<cardVars, xferVars>>
  <2>1. PataInv' /\ CardInv'
    BY <1>2, PataStatus, PataStores, PataWrites, PataReads DEF PataInv, CardInv, xferVars
  <2> QED
    BY <1>2, <2>1, PataTypes, PataCalls, PataMoved, PataStands
<1>3. CASE unit = "sdc" /\ SdSteps /\ UNCHANGED <<driveVars, xferVars>>
  <2>1. PataInv' /\ CardInv'
    BY <1>3, CardReady, CardStays, CardFollows, CardWriteEnds, CardReadEnds, CardInitEnds,
       CardFlag DEF PataInv, CardInv, xferVars
  <2> QED
    BY <1>3, <2>1, CardTypes, CardCalls, CardMoved, CardStands
<1>4. CASE UNCHANGED vars
  <2> USE <1>4 DEF vars, callVars, driveVars, cardVars, xferVars
  <2>1. TransferType'
    BY DEF TransferType, CallType, PataType, CardType, XferType
  <2>2. InACall' /\ Addressed' /\ MovedStays' /\ WritesStand'
    BY DEF InACall, Addressed, SectorAsked, MovedStays, Quiet, Agree, Medium, WritesStand
  <2>3. PataInv'
    BY DEF PataInv, StatusTrue, StoreAsked, WriteFollowed, ReadFollowed
  <2>4. CardInv'
    BY DEF CardInv, ReadyInSlot, TransferStays, TransactionFollowed, WriteEnded, ReadEnded,
       InitEnded, FlagTrue, EndedWell
  <2> QED
    BY <2>1, <2>2, <2>3, <2>4
<1>5. CASE Drive
  BY <1>2, <1>3, <1>5 DEF Drive, TransferType, XferType
<1> QED
  BY <1>1, <1>4, <1>5 DEF Next, GlueSteps

LEMMA Invariance == Spec => []IInv
  BY InitialInv, StepInv, PTL DEF Spec

-----------------------------------------------------------------------------
(* A sector of the hard disk or of a card holds what was last written to   *)
(* it with success, or what a failed or unfinished write since then wanted *)
(* there, whenever pata_write and sdc_write give up and whatever the drive *)
(* does afterwards.                                                        *)
THEOREM WritesLandInTurn == Spec => []WritesStand
<1>1. IInv => WritesStand
  BY DEF IInv
<1> QED
  BY <1>1, Invariance, PTL

(* A sector pata_read or sdc_read reports as read is the one asked for.    *)
THEOREM ReadsAreAsked == Spec => []ReadIsAsked
<1>1. IInv => ReadIsAsked
  BY DEF IInv, MovedStays, Agree, ReadIsAsked
<1> QED
  BY <1>1, Invariance, PTL

(* disk_read and disk_write of one sector move the sector asked for, to    *)
(* and from the first of the caller's buffer.                              *)
THEOREM SingleSectorsMoved == Spec => []SingleSectors
<1>1. IInv => SingleSectors
  <2> SUFFICES ASSUME IInv, count = 1, res = "OK" PROVE ReadFillsBuffer /\ WriteLands
    BY DEF SingleSectors, ReadFillsBuffer, WriteLands
  <2>1. start \in Nat /\ pc = "idle"
    BY DEF IInv, InACall, TransferType, XferType
  <2>2. 0 .. count - 1 = {0} /\ start + 0 = start /\ Buff(0) = cell
    BY <2>1 DEF Buff
  <2>3. call.op \in {"read", "write"} => call.lba = start
    BY DEF IInv, Addressed, SectorAsked
  <2>4. Agree
    BY <2>1 DEF IInv, MovedStays
  <2> QED
    BY <2>2, <2>3, <2>4 DEF ReadFillsBuffer, WriteLands, Agree
<1> QED
  BY <1>1, Invariance, PTL

(* A card g_sdc_status lets through was initialised since it was put in,   *)
(* unless it was put in while sdc_init ran.                                *)
THEOREM FlagsAreTrue == Spec => []FlaggedIsInitialised
<1>1. IInv => FlaggedIsInitialised
  <2>1. CASE unit = "hdc"
    BY <2>1 DEF IInv, TransferType, XferType, FlaggedIsInitialised
  <2>2. CASE unit = "sdc"
    BY <2>2 DEF IInv, CardInv, FlagTrue, FlaggedIsInitialised
  <2> QED
    BY <2>1, <2>2 DEF IInv, TransferType, XferType
<1> QED
  BY <1>1, Invariance, PTL

-----------------------------------------------------------------------------
(* The polling loops.  A loop is left because of what was seen, or because *)
(* time was up.                                                            *)
LeftForReason == at \in {"outer", "return"} => seen \/ ~Early(ticks)

(* The outer of the nested loops is left for the same reasons.             *)
OuterForReason == at = "return" /\ wait \in Nested => idled \/ ~Early(ticks)

(* The nested loops have steps of their own.                               *)
OwnSteps == at \in {"status", "clock"} => wait \notin Nested

(* There is a result only between two waits.                               *)
ResultWhenIdle == at # "idle" => result = "none"

WaitInv ==
  /\ TypeOK
  /\ LeftForReason /\ OuterForReason /\ OwnSteps
  /\ ResultWhenIdle /\ ResultJustified

-----------------------------------------------------------------------------
(* Before the first wait there is nothing to justify.                      *)
LEMMA InitWaitInv == WaitInit => WaitInv
<1> SUFFICES ASSUME WaitInit PROVE WaitInv
  OBVIOUS
<1>1. elapsed \in 0 .. Timeout + 1 /\ ticks \in 0 .. elapsed
  BY WaitAssumption DEF WaitInit
<1>2. TypeOK
  BY <1>1 DEF WaitInit, TypeOK
<1>3. LeftForReason /\ OuterForReason /\ OwnSteps /\ ResultWhenIdle
  BY DEF WaitInit, LeftForReason, OuterForReason, OwnSteps, ResultWhenIdle
<1>4. ResultJustified
  BY DEF WaitInit, ResultJustified, SuccessSeen, TimeoutIsDue
<1> QED BY <1>2, <1>3, <1>4 DEF WaitInv

(* Every step keeps the ranges; the time read last is in the past.         *)
LEMMA TypeStep == ASSUME TypeOK, WaitNext PROVE TypeOK'
<1> USE WaitAssumption DEF TypeOK
<1>1. CASE Device
  BY <1>1 DEF Device
<1>2. CASE Tick
  BY <1>2 DEF Tick, deviceVars
<1>3. ASSUME NEW f \in Loops, Start(f) PROVE TypeOK'
  <2>1. elapsed' \in 0 .. Timeout + 1 /\ ticks' \in 0 .. elapsed'
    BY <1>3 DEF Start
  <2>2. at' \in {"status", "clock", "inner"} /\ wait' \in Loops \cup {"none"}
    BY <1>3 DEF Start
  <2> QED BY <1>3, <2>1, <2>2 DEF Start, deviceVars
<1>4. CASE ReadStatus
  BY <1>4 DEF ReadStatus, deviceVars
<1>5. CASE ReadClock
  <2>1. ticks' \in 0 .. elapsed' /\ UNCHANGED elapsed
    BY <1>5 DEF ReadClock
  <2>2. at' \in {"status", "return"}
    BY <1>5 DEF ReadClock
  <2> QED BY <1>5, <2>1, <2>2 DEF ReadClock, deviceVars
<1>6. CASE Inner \/ InnerTicks \/ Outer
  <2>1. CASE Inner
    BY <2>1 DEF Inner, deviceVars
  <2>2. CASE InnerTicks
    BY <2>2 DEF InnerTicks, deviceVars
  <2>3. CASE Outer
    <3>1. idled' \in BOOLEAN /\ at' \in {"inner", "return"}
      BY <2>3 DEF Outer
    <3> QED BY <2>3, <3>1 DEF Outer, deviceVars
  <2> QED BY <1>6, <2>1, <2>2, <2>3
<1>7. CASE Leave
  BY <1>7 DEF Leave, Returned, deviceVars
<1> QED BY <1>1, <1>2, <1>3, <1>4, <1>5, <1>6, <1>7 DEF WaitNext, Poll

(* A step of a loop keeps the reasons for leaving it.                      *)
LEMMA ReasonStep ==
  ASSUME WaitInv, WaitNext
  PROVE  (LeftForReason /\ OuterForReason /\ OwnSteps /\ ResultWhenIdle)'
<1> USE DEF WaitInv, LeftForReason, OuterForReason, OwnSteps, ResultWhenIdle
<1>1. CASE Device \/ Tick
  BY <1>1 DEF Device, Tick, Early
<1>2. ASSUME NEW f \in Loops, Start(f)
      PROVE  (LeftForReason /\ OuterForReason /\ OwnSteps /\ ResultWhenIdle)'
  BY <1>2 DEF Start, TimeFirst, Nested
<1>3. CASE ReadStatus
  BY <1>3 DEF ReadStatus
<1>4. CASE ReadClock
  BY <1>4, WaitAssumption DEF ReadClock, Early, TypeOK
<1>5. CASE Inner
  BY <1>5 DEF Inner, Early
<1>6. CASE InnerTicks
  BY <1>6 DEF InnerTicks
<1>7. CASE Outer
  BY <1>7 DEF Outer, Early
<1>8. CASE Leave
  BY <1>8 DEF Leave, Returned
<1> QED BY <1>1, <1>2, <1>3, <1>4, <1>5, <1>6, <1>7, <1>8 DEF WaitNext, Poll

(* The result of a wait is justified when it is given and stays so.        *)
LEMMA ResultStep == ASSUME WaitInv, WaitNext PROVE ResultJustified'
<1> USE WaitAssumption DEF WaitInv, ResultJustified, SuccessSeen, TimeoutIsDue, ResultWhenIdle
<1>1. CASE Device
  BY <1>1 DEF Device
<1>2. CASE Tick
  BY <1>2 DEF Tick, TypeOK
<1>3. ASSUME NEW f \in Loops, Start(f) PROVE ResultJustified'
  BY <1>3 DEF Start
<1>4. CASE ReadStatus \/ ReadClock \/ Inner \/ InnerTicks \/ Outer
  BY <1>4 DEF ReadStatus, ReadClock, Inner, InnerTicks, Outer
<1>5. CASE Leave
  <2>1. /\ UNCHANGED <<seen, wait, idled, elapsed>>
        /\ wait \in Nested => wait \in ByTime \cup Nested
    BY <1>5 DEF Leave
  <2>2. result' = "ok" => seen /\ (wait \in Nested => idled)
    BY <1>5, <2>1 DEF Leave, Returned, LeftForReason, OuterForReason
  <2>3. result' = "timeout" => ~Early(ticks)
    BY <1>5 DEF Leave, Returned, LeftForReason
  <2>4. ~Early(ticks) => elapsed >= Timeout
    BY DEF Early, TypeOK
  <2> QED BY <2>1, <2>2, <2>3, <2>4
<1> QED BY <1>1, <1>2, <1>3, <1>4, <1>5 DEF WaitNext, Poll

-----------------------------------------------------------------------------
(* The invariant holds, whatever the device and the clock do.              *)
THEOREM WaitInvariance == WaitSpec => []WaitInv
<1>1. WaitInv /\ [WaitNext]_waitVars => WaitInv'
  <2> SUFFICES ASSUME WaitInv, [WaitNext]_waitVars PROVE WaitInv'
    OBVIOUS
  <2>1. CASE WaitNext
    BY <2>1, TypeStep, ReasonStep, ResultStep DEF WaitInv
  <2>2. CASE UNCHANGED waitVars
    BY <2>2 DEF waitVars, WaitInv, TypeOK, LeftForReason, OuterForReason, OwnSteps,
       ResultWhenIdle, ResultJustified, SuccessSeen, TimeoutIsDue, Early
  <2> QED BY <2>1, <2>2
<1> QED BY <1>1, InitWaitInv, PTL DEF WaitSpec

(* A wait loop of pata.c, sdc.c or fdc.c succeeds only on a status it has  *)
(* seen, and reports a time-out only when its time is up.                  *)
THEOREM WaitsDecideRight == WaitSpec => []ResultJustified
<1>1. WaitInv => ResultJustified
  BY DEF WaitInv
<1> QED BY <1>1, WaitInvariance, PTL

=============================================================================
