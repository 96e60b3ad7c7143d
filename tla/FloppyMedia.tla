---------------------------- MODULE FloppyMedia ----------------------------
(***************************************************************************)
(* Changing floppies.  The drive tells of a change by a line (bit 7 of     *)
(* DIR) that goes off when the head steps with a disk in the drive.  The   *)
(* driver (src/dev/fdc.c) turns it into a status flag, FDC_STAT_NOINIT;    *)
(* FatFs (external, src/fatfs/ff.c) looks at the flag when a call of it    *)
(* begins, and mounts the disk again when it is set; fsys_update_stat      *)
(* (src/dev/fsys.c) has the driver look at the line before every call that *)
(* names a path.  Calls on an open file do not.                            *)
(*                                                                         *)
(* Disks are changed between two calls of the driver, not inside one: the  *)
(* driver's calls take milliseconds.  One transfer stands for the          *)
(* several that mounting a volume or opening a file take.                  *)
(***************************************************************************)
EXTENDS Integers, FiniteSets

CONSTANTS
  Disk,      \* floppies
  File,      \* FatFs file objects
  MayFail,   \* whether commands of the controller can fail
  MaxSwaps   \* bound of the model: changes of the disk

None == "none"

ASSUME MediaAssumption ==
  /\ None \notin Disk
  /\ MayFail \in BOOLEAN /\ MaxSwaps \in Nat

VARIABLES
  drive,      \* the disk in the drive, or None
  line,       \* the disk change line
  noinit,     \* FDC_STAT_NOINIT in g_fdc_stat
  mounted,    \* the disk FatFs holds the metadata of, or None (fs_type = 0)
  live,       \* the file objects FatFs accepts: those of the current mount
  origin,     \* the disk a file object was opened on
  call,       \* the FatFs call under way: "none", "mount", "probe" or "io"
  steady,     \* history: no change of disk since the driver looked at the line
  hidden,     \* history: fdc_init took a sign of a change back since the mount
  misplaced,  \* history: something meant for one disk was written to another
  swaps

mediaVars == <<drive, line, noinit, mounted, live, origin, call, steady, hidden,
          misplaced, swaps>>
driverVars == <<drive, line, noinit>>
fatVars == <<mounted, live, origin, call>>
history == <<steady, hidden, misplaced>>

-----------------------------------------------------------------------------

MediaInit ==
  /\ drive = None /\ line = TRUE
  /\ noinit = FALSE  \* fdc_install: FDC_STAT_PRESENT & FDC_STAT_NOINIT is 0
  /\ mounted = None /\ live = {} /\ origin = [f \in File |-> None]
  /\ call = "none"
  /\ steady = FALSE /\ hidden = FALSE /\ misplaced = FALSE /\ swaps = 0

(* The user takes the disk out, or puts one in.                            *)
Swap ==
  /\ swaps < MaxSwaps /\ swaps' = swaps + 1
  /\ drive' \in IF drive = None THEN Disk ELSE {None}
  /\ line' = TRUE
  /\ steady' = FALSE
  /\ UNCHANGED <<noinit, fatVars, hidden, misplaced>>

(* The line after the head was stepped, if the commands did not fail.      *)
Stepped == {drive = None} \cup (IF MayFail THEN {line} ELSE {})

\* Mutant: the flag is raised before the drive is recalibrated, and a retry
\* of fdc_recalibrate (fdc_init, fdc_reset) takes it back.
CheckChange_FlagFirst(line2, noinit2) ==
  IF line THEN line2 \in Stepped /\ noinit2 \in (IF MayFail THEN BOOLEAN ELSE {TRUE})
          ELSE line2 = line /\ noinit2 = noinit

(* fdc_media_check_change: the line and the flag after it.                 *)
CheckChange(line2, noinit2) ==
  IF line THEN line2 \in Stepped /\ noinit2 = TRUE
          ELSE line2 = line /\ noinit2 = noinit

(* fdc_init: the reset fails, and changes nothing the model has; or it     *)
(* clears the flag, and the head is recalibrated, or fails to be.          *)
InitDevice(ok) ==
  \/ /\ MayFail /\ ~ok
     /\ UNCHANGED <<line, noinit>>
  \/ /\ ok \/ MayFail
     /\ noinit' = FALSE
     /\ IF ok THEN line' = (drive = None) ELSE line' \in Stepped

(* fdc_read and fdc_write: look at the line, then transfer whatever it     *)
(* said.  A failed command is followed by fdc_init.                        *)
TransferDone ==
  /\ drive # None
  /\ CheckChange(line', noinit')
  /\ UNCHANGED hidden

TransferFails ==
  /\ drive = None \/ MayFail
  /\ \E line2, flag2 \in BOOLEAN :
       /\ CheckChange(line2, flag2)
       /\ \/ MayFail /\ line' = line2 /\ noinit' = flag2 /\ UNCHANGED hidden
          \/ /\ line' \in {drive = None, line2}
             /\ noinit' = FALSE
             /\ hidden' = (hidden \/ (flag2 /\ mounted # None))

-----------------------------------------------------------------------------

\* Mutant: the status is not brought up to date.
PathCall_NoUpdate ==
  /\ call = "none"
  /\ call' = "mount" /\ steady' = TRUE
  /\ UNCHANGED <<driverVars, mounted, live, origin, hidden, misplaced, swaps>>

(* A call that names a path on the floppy: fsys_update_stat, then FatFs.   *)
PathCall ==
  /\ call = "none"
  /\ CheckChange(line', noinit')
  /\ call' = "mount" /\ steady' = TRUE
  /\ UNCHANGED <<drive, mounted, live, origin, hidden, misplaced, swaps>>

(* mount_volume finds the volume mounted and the drive initialised.        *)
MountKept ==
  /\ call = "mount"
  /\ mounted # None /\ ~noinit
  /\ call' = "io"
  /\ UNCHANGED <<driverVars, mounted, live, origin, history, swaps>>

\* Mutant: the open files survive.
MountAgain_KeepsFiles ==
  /\ call = "mount"
  /\ mounted = None \/ noinit
  /\ mounted' = None
  /\ \E ok \in BOOLEAN :
       /\ InitDevice(ok)
       /\ call' = IF ok THEN "probe" ELSE "none"
  /\ hidden' = FALSE
  /\ UNCHANGED <<drive, live, origin, steady, misplaced, swaps>>

(* Otherwise it forgets the volume, which ends every open file, and calls  *)
(* disk_initialize; an error has bit 0 set and stands for STA_NOINIT.      *)
MountAgain ==
  /\ call = "mount"
  /\ mounted = None \/ noinit
  /\ mounted' = None /\ live' = {}
  /\ \E ok \in BOOLEAN :
       /\ InitDevice(ok)
       /\ call' = IF ok THEN "probe" ELSE "none"
  /\ hidden' = FALSE
  /\ UNCHANGED <<drive, origin, steady, misplaced, swaps>>

(* find_volume reads the new disk.                                         *)
ProbeDone ==
  /\ call = "probe"
  /\ TransferDone
  /\ mounted' = drive /\ call' = "io"
  /\ UNCHANGED <<drive, live, origin, steady, misplaced, swaps>>

ProbeFails ==
  /\ call = "probe"
  /\ TransferFails
  /\ call' = "none"
  /\ UNCHANGED <<drive, mounted, live, origin, steady, misplaced, swaps>>

(* A call on an open file (f_read, f_write, f_sync, f_lseek, f_close):     *)
(* validate looks at the flag, nobody at the line.                         *)
FileCall ==
  /\ call = "none"
  /\ live # {} /\ ~noinit
  /\ call' = "io" /\ steady' = FALSE
  /\ UNCHANGED <<driverVars, mounted, live, origin, hidden, misplaced, swaps>>

(* The transfers of a call go by the mounted volume's metadata.            *)
Transfer(write) ==
  /\ call = "io"
  /\ TransferDone
  /\ misplaced' = (misplaced \/ (write /\ drive # mounted))
  /\ UNCHANGED <<drive, fatVars, steady, swaps>>

TransferError ==
  /\ call = "io"
  /\ TransferFails
  /\ call' = "none"
  /\ UNCHANGED <<drive, mounted, live, origin, steady, misplaced, swaps>>

EndCall ==
  /\ call = "io"
  /\ call' = "none"
  /\ UNCHANGED <<driverVars, mounted, live, origin, history, swaps>>

EndOpen(f) ==
  /\ call = "io" /\ f \notin live
  /\ live' = live \cup {f} /\ origin' = [origin EXCEPT ![f] = mounted]
  /\ call' = "none"
  /\ UNCHANGED <<driverVars, mounted, history, swaps>>

(* bdev_read of a program, of the boot code or of the DISKREAD command.    *)
RawRead ==
  /\ call = "none"
  /\ TransferDone \/ TransferFails
  /\ UNCHANGED <<drive, fatVars, steady, misplaced, swaps>>

(* bdev_init, which the boot code calls before it rewrites a boot record.  *)
RawInit ==
  /\ call = "none"
  /\ \E ok \in BOOLEAN : InitDevice(ok)
  /\ hidden' = (hidden \/ ((noinit \/ line) /\ mounted # None))
  /\ UNCHANGED <<drive, fatVars, steady, misplaced, swaps>>

MediaNext ==
  \/ Swap
  \/ PathCall \/ MountKept \/ MountAgain \/ ProbeDone \/ ProbeFails
  \/ FileCall
  \/ \E write \in BOOLEAN : Transfer(write)
  \/ TransferError \/ EndCall
  \/ \E f \in File : EndOpen(f)
  \/ RawRead \/ RawInit

MediaSpec == MediaInit /\ [][MediaNext]_mediaVars

-----------------------------------------------------------------------------

MediaTypeOK ==
  /\ drive \in Disk \cup {None} /\ mounted \in Disk \cup {None}
  /\ line \in BOOLEAN /\ noinit \in BOOLEAN
  /\ live \subseteq File /\ origin \in [File -> Disk \cup {None}]
  /\ call \in {"none", "mount", "probe", "io"}
  /\ call = "io" => mounted # None
  /\ steady \in BOOLEAN /\ hidden \in BOOLEAN /\ misplaced \in BOOLEAN
  /\ swaps \in 0 .. MaxSwaps

(* While FatFs holds the metadata of another disk than the one in the      *)
(* drive, the line or the driver's flag says so; only a reset by fdc_init  *)
(* can have wiped that out.                                                *)
ChangeNoticed == mounted # None /\ mounted # drive => line \/ noinit \/ hidden

(* A file object that FatFs accepts belongs to the volume it has mounted.  *)
FilesOfMounted == \A f \in live : origin[f] = mounted

(* A call that names a path works on the disk in the drive, unless the     *)
(* disk is changed under it or a change was wiped out before.              *)
PathCallsRight == call = "io" /\ steady => mounted = drive \/ hidden

(* c256_diskio.c is prepared for a driver that answers a transfer with     *)
(* ERR_MEDIA_CHANGE ("disk changed."): the first transfer after a change   *)
(* is then refused.  The driver only notes the change and transfers.       *)
NothingMisplaced == ~misplaced

(* fdc_media_check_change says "If so, recalibrate the drive and flag the  *)
(* change": the flag stays until the disk is mounted again.                *)
FlagKept == ~hidden
=============================================================================
