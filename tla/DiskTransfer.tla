---------------------------- MODULE DiskTransfer ----------------------------
(***************************************************************************)
(* FatFs's disk_initialize, disk_read and disk_write                       *)
(* (src/fatfs/c256_diskio.c) over the block device table (src/dev/block.c) *)
(* and the drivers: a run of sectors is moved one at a time between the    *)
(* medium and the caller's buffer.  One drive is in use: the hard disk or  *)
(* the card slot.                                                          *)
(***************************************************************************)
EXTENDS PataDrive, SdCard

CONSTANTS
  Volume,      \* sectors FatFs takes its volume to have; the medium may be shorter
  MaxCount,    \* the longest run FatFs asks for
  SectorSize   \* what a driver returns for a whole sector (512)

ASSUME TransferAssumption ==
  /\ SectorSize \in Nat \ {0} /\ MaxCount \in Nat \ {0}
  /\ Lba \subseteq Nat /\ Volume \subseteq Nat
  /\ Media = {Disk} \cup Cards /\ Disk \notin Cards /\ NoCard \notin Media

VARIABLES
  unit,     \* the drive in use: "hdc" or "sdc"
  op,       \* "none", "init", "read" or "write": the call under way
  start,    \* its arguments
  count,
  rest,     \* the sectors of the caller's buffer after cell, its first
  sector,   \* the next sector to transfer (a local variable)
  i,        \* how many were transferred
  res       \* what the last call returned: "none", "OK" or "PARERR"

xferVars == <<unit, op, start, count, rest, sector, i, res>>
vars     == <<callVars, driveVars, cardVars, xferVars>>

Init ==
  /\ CallInit /\ DriveInit /\ CardInit
  /\ unit \in {"hdc", "sdc"}
  /\ op = "none" /\ start = 0 /\ count = 1 /\ sector = 0 /\ i = 0
  /\ rest = [k \in 1 .. MaxCount - 1 |-> cell]
  /\ res = "none"

-----------------------------------------------------------------------------
Ask(what, first, n) ==
  /\ op = "none" /\ pc = "idle"
  /\ op' = what /\ start' = first /\ count' = n
  /\ sector' = first /\ i' = 0 /\ res' = "none"
  /\ UNCHANGED <<unit, driveVars, cardVars, content, call, pc, ret, allowed>>

(* FatFs asks for sectors of its volume.                                   *)
DiskRead(first, n) ==
  /\ first .. first + n - 1 \subseteq Volume
  /\ Ask("read", first, n)
  /\ UNCHANGED <<cell, rest>>

DiskWrite(first, n) ==
  /\ first .. first + n - 1 \subseteq Volume
  /\ Ask("write", first, n)
  /\ cell' \in Data /\ rest' \in [1 .. MaxCount - 1 -> Data]

DiskInitialize ==
  /\ unit = "sdc" /\ op = "none"
  /\ SdcInit
  /\ op' = "init" /\ count' = 1 /\ i' = 0 /\ res' = "none"
  /\ UNCHANGED <<unit, driveVars, start, rest, sector>>

(* bdev_read and bdev_write: the loop's next sector.  buff is not moved on,*)
(* each transfer uses its first sector.                                    *)
CallDriver ==
  /\ op \in {"read", "write"} /\ pc = "idle" /\ ret = "none" /\ i < count
  /\ sector \in Lba
  /\ IF unit = "hdc"
       THEN /\ IF op = "read" THEN PataRead(sector) ELSE PataWrite(sector, cell)
            /\ UNCHANGED cardVars
       ELSE /\ IF op = "read" THEN SdcRead(sector) ELSE SdcWrite(sector, cell)
            /\ UNCHANGED driveVars
  /\ UNCHANGED xferVars

(* Beyond the end of the medium the device refuses.                        *)
NoSuchSector ==
  /\ op \in {"read", "write"} /\ pc = "idle" /\ ret = "none" /\ i < count
  /\ sector \notin Lba
  /\ ret' = "failed"
  /\ UNCHANGED <<content, cell, call, pc, allowed, driveVars, cardVars, xferVars>>

(* The driver, the medium and the user go on by themselves.                *)
Drive ==
  /\ IF unit = "hdc" THEN PataSteps /\ UNCHANGED cardVars
                     ELSE SdSteps /\ UNCHANGED driveVars
  /\ UNCHANGED xferVars

(* The driver has moved the sector.  disk_read goes on to the next one,    *)
(* disk_write as many further as bytes were written.                       *)
Moved ==
  /\ op \in {"read", "write"} /\ pc = "idle" /\ ret = "ok"
  /\ i' = i + 1
  /\ sector' = sector + (IF op = "read" THEN 1 ELSE SectorSize)
  /\ ret' = "none"
  /\ UNCHANGED <<content, cell, call, pc, allowed, driveVars, cardVars,
                 unit, op, start, count, rest, res>>

Finish(r) ==
  /\ op' = "none" /\ res' = r
  /\ ret' = "none"
  /\ UNCHANGED <<content, cell, call, pc, allowed, driveVars, cardVars,
                 unit, start, count, rest, sector, i>>

(* The driver returned an error.  Of disk_initialize FatFs tests one bit.  *)
Fails == op # "none" /\ pc = "idle" /\ ret = "failed" /\ Finish("PARERR")

Done ==
  \/ op \in {"read", "write"} /\ pc = "idle" /\ i = count /\ Finish("OK")
  \/ op = "init" /\ pc = "idle" /\ ret = "ok" /\ Finish("OK")

Next ==
  \/ \E first \in Volume, n \in 1 .. MaxCount : DiskRead(first, n) \/ DiskWrite(first, n)
  \/ DiskInitialize \/ CallDriver \/ NoSuchSector \/ Drive \/ Moved \/ Fails \/ Done

Spec == Init /\ [][Next]_vars

-----------------------------------------------------------------------------
Medium == IF unit = "hdc" THEN Disk ELSE trans.on
Buff(k) == IF k = 0 THEN cell ELSE rest[k]

(* A sector reported as read is the one asked for, whatever was given up   *)
(* on before: it is not what an earlier command left in the drive or in    *)
(* the controller.  A card whose controller delivers nothing, and says     *)
(* all is well, is the exception.                                          *)
ReadIsAsked ==
  pc = "idle" /\ call.op = "read" /\ ret = "ok" /\ ~short =>
    cell = content[Medium][call.lba]

(* disk_read "Read Sector(s)": after RES_OK the buffer holds the sectors   *)
(* asked for, in order.                                                    *)
ReadFillsBuffer ==
  res = "OK" /\ call.op = "read" /\ ~short =>
    \A k \in 0 .. count - 1 : Buff(k) = content[Medium][start + k]

(* disk_write "Write Sector(s)": after RES_OK the sectors asked for hold   *)
(* the buffer.                                                             *)
WriteLands ==
  res = "OK" /\ call.op = "write" =>
    \A k \in 0 .. count - 1 : content[Medium][start + k] = Buff(k)

(* A single sector, which is what FatFs asks for when it moves a window of *)
(* the FAT or of a directory, is read and written as asked.                *)
SingleSectors == count = 1 => ReadFillsBuffer /\ WriteLands

(* The receive FIFO is empty between two calls: what a read that timed out *)
(* delivers late would make every later read fail with DEV_BOUNDS_ERR.     *)
FifoDrained == op = "none" => fifo = <<>>

=============================================================================
