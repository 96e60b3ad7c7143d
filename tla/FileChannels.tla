---------------------------- MODULE FileChannels ----------------------------
(***************************************************************************)
(* Open files: the file descriptors of src/dev/fsys.c (g_fil_state,        *)
(* g_file) composed with the channel table.  fsys_open claims a descriptor *)
(* and then a channel; the descriptor's number travels in the channel's    *)
(* data block; fsys_close finds it there again.                            *)
(*                                                                         *)
(* A caller keeps the documented contract: a channel from sys_fsys_open is *)
(* closed with sys_fsys_close and any other with sys_chan_close, a file is *)
(* not opened twice at a time (FatFs is built with FF_FS_LOCK = 0), only   *)
(* channels the caller holds are swapped.                                  *)
(***************************************************************************)
EXTENDS Channels

CONSTANTS
  File,     \* the files a program may open
  NoFile,   \* a FatFs file object that is not open
  DiskMayFail  \* whether device errors can occur

ASSUME FileAssumption ==
  /\ NoFile \notin File
  /\ File \cap Int = {}
  /\ NoFile \notin Int
  /\ DiskMayFail \in BOOLEAN

VARIABLES
  filState, \* g_fil_state[fd]: 1 while the descriptor is claimed
  obj,      \* g_file[fd]: the file the FatFs object is open on
  unsaved,  \* files with writes FatFs has not put on the disk
  diskOk    \* environment: the disk accepts commands

vars == <<number, dev, data, held, result, filState, obj, unsaved, diskOk>>

-----------------------------------------------------------------------------

IsFile(c)   == InUse(c) /\ dev[c] = FileDev
FileChans   == {c \in Channel : IsFile(c)}

\* Mutant of the descriptor scan: the test of g_fil_state is missing.
FreeFds_Untested == Fd

FreeFds     == {fd \in Fd : filState[fd] = 0}
OpenObjects == {obj[fd] : fd \in {x \in Fd : filState[x] = 1}} \ {NoFile}

(* Claimed descriptors that no open channel leads to.                      *)
Orphans == {fd \in Fd : filState[fd] = 1 /\ \A c \in FileChans : data[c] # fd}

Init ==
  /\ ChanInit
  /\ filState = [fd \in Fd |-> 0]
  /\ obj      = [fd \in Fd |-> NoFile]
  /\ unsaved  = {}
  /\ diskOk   = TRUE

(* fsys_open when the descriptors, or after claiming one the channels,     *)
(* have run out: the descriptor is given back.                             *)
FsysOpenFull(f) ==
  /\ FreeFds = {} \/ FreeChannels = {}
  /\ result' = "OUT_OF_HANDLES"
  /\ UNCHANGED <<number, dev, data, held, filState, obj, unsaved, diskOk>>

\* Mutant of the error path: it keeps the channel.
FsysOpenFails_KeepsChannel(f) ==
  /\ f \notin OpenObjects
  /\ \E fd \in First(FreeFds), c \in First(FreeChannels) :
       /\ obj' = [obj EXCEPT ![fd] = NoFile]
       /\ result' = "FS_ERROR"
       /\ dev' = [dev EXCEPT ![c] = FileDev]
       /\ number' = [number EXCEPT ![c] = c]
       /\ UNCHANGED <<data, held, filState, unsaved, diskOk>>

(* f_open fails: descriptor and channel are given back.                    *)
FsysOpenFails(f) ==
  /\ f \notin OpenObjects
  /\ \E fd \in First(FreeFds), c \in First(FreeChannels) :
    /\ obj'    = [obj EXCEPT ![fd] = NoFile]
    /\ result' = "FS_ERROR"
    /\ dev'    = [dev EXCEPT ![c] = None]
    /\ number' = [number EXCEPT ![c] = None]
    /\ UNCHANGED <<data, held, filState, unsaved, diskOk>>

FsysOpenOk(f) ==
  /\ f \notin OpenObjects
  /\ \E fd \in First(FreeFds), c \in First(FreeChannels) :
    /\ diskOk
    /\ filState' = [filState EXCEPT ![fd] = 1]
    /\ number'   = [number EXCEPT ![c] = c]
    /\ dev'      = [dev EXCEPT ![c] = FileDev]
    /\ data'     = [data EXCEPT ![c] = fd]
    /\ obj'      = [obj EXCEPT ![fd] = f]
    /\ unsaved'  = unsaved \ {f}
    /\ held'     = held \cup {c}
    /\ result'   = "OK"
    /\ UNCHANGED diskOk

FsysOpen(f) == FsysOpenFull(f) \/ FsysOpenFails(f) \/ FsysOpenOk(f)

\* Mutants: the descriptor is not returned to the pool; f_close is not called.
FsysClose_KeepsFd(c) ==
  /\ unsaved' = unsaved \ {obj[data[c]]}
  /\ ChanFree(c)
  /\ held' = held \ {c}
  /\ result' = "OK"
  /\ UNCHANGED <<data, filState, obj, diskOk>>

FsysClose_NoCommit(c) ==
  /\ ChanFree(c)
  /\ filState' = [filState EXCEPT ![data[c]] = 0]
  /\ held' = held \ {c}
  /\ result' = "OK"
  /\ UNCHANGED <<data, obj, unsaved, diskOk>>

(* f_sync has nothing to write, or can write it.                           *)
Syncs(fd) == diskOk \/ obj[fd] \notin unsaved

(* fsys_close ignores what f_close returns.  f_close commits the writes;   *)
(* when it cannot, the object is left as it is.                            *)
FsysClose(c) ==
  LET fd == data[c] IN
    /\ unsaved'  = IF Syncs(fd) THEN unsaved \ {obj[fd]} ELSE unsaved
    /\ obj'      = IF Syncs(fd) THEN [obj EXCEPT ![fd] = NoFile] ELSE obj
    /\ ChanFree(c)
    /\ filState' = [filState EXCEPT ![fd] = 0]
    /\ held'     = held \ {c}
    /\ result'   = "OK"
    /\ UNCHANGED <<data, diskOk>>

(* sys_chan_write and sys_chan_write_b on a file channel: FatFs may keep   *)
(* the bytes in its sector buffer, whatever the disk does, or report an    *)
(* error and write none.                                                   *)
FchanWrite(c) ==
  /\ \/ unsaved' = unsaved \cup {obj[data[c]]} /\ result' = "OK"
     \/ unsaved' = unsaved /\ result' = "FS_ERROR"
  /\ UNCHANGED <<number, dev, data, held, filState, obj, diskOk>>

(* sys_chan_flush on a file channel.                                       *)
FchanFlush(c) ==
  /\ unsaved' = IF Syncs(data[c]) THEN unsaved \ {obj[data[c]]} ELSE unsaved
  /\ result'  = IF Syncs(data[c]) THEN "OK" ELSE "FS_ERROR"
  /\ UNCHANGED <<number, dev, data, held, filState, obj, diskOk>>

(* A device error that comes and goes: a time-out, a bad sector.           *)
DiskChange ==
  /\ DiskMayFail
  /\ diskOk' = ~diskOk
  /\ UNCHANGED <<number, dev, data, held, result, filState, obj, unsaved>>

fileVars == <<filState, obj, unsaved, diskOk>>

Open(d)       == ChanOpen(d) /\ UNCHANGED fileVars
Close(c)      == ~IsFile(c) /\ ChanClose(c) /\ UNCHANGED fileVars
Swap(c1, c2)  == /\ {c1, c2} \cap Channel \subseteq held
                 /\ ChanSwap(c1, c2)
                 /\ UNCHANGED fileVars

Next ==
  \/ \E d \in PlainDev : Open(d)
  \/ \E c \in Channel : Close(c)
  \/ \E c1, c2 \in 0 .. NumChannels : Swap(c1, c2)
  \/ \E f \in File : FsysOpen(f)
  \/ \E c \in held \cap FileChans : FsysClose(c) \/ FchanWrite(c) \/ FchanFlush(c)
  \/ DiskChange

Spec == Init /\ [][Next]_vars

-----------------------------------------------------------------------------
(* Type invariant: the ranges of the tables of channel.c and fsys.c.       *)
TypeOK ==
  /\ number   \in [Channel -> Channel \cup {None}]
  /\ dev      \in [Channel -> Device \cup {None}]
  /\ data     \in [Channel -> Fd \cup {DriverData}]
  /\ held     \in SUBSET Channel
  /\ result   \in Results
  /\ filState \in [Fd -> {0, 1}]
  /\ obj      \in [Fd -> File \cup {NoFile}]
  /\ unsaved  \in SUBSET File
  /\ diskOk   \in BOOLEAN

(* Two open file channels never lead to the same descriptor, and the       *)
(* descriptor of an open file channel is claimed and its object open: no   *)
(* sequence of opens, closes, swaps and failed opens makes a read or a     *)
(* write reach another file than the one it was opened on.                 *)
DescriptorsOwned ==
  /\ \A c1, c2 \in FileChans : data[c1] = data[c2] => c1 = c2
  /\ \A c \in FileChans :
       /\ data[c] \in Fd
       /\ filState[data[c]] = 1
       /\ obj[data[c]] \in File

(* Every claimed descriptor has a file open in its FatFs object: no failed *)
(* open, however it failed, leaves a descriptor claimed for nothing.       *)
ClaimedOpen == \A fd \in Fd : filState[fd] = 1 => obj[fd] \in File

(* The pool part of the table is exactly what callers hold there, after    *)
(* any history of swaps, so a pool channel is never lost.                  *)
PoolAccounted ==
  /\ \A c \in held : InUse(c)
  /\ \A c \in Pool : InUse(c) => c \in held
  /\ \A c \in Channel : dev[c] = None <=> ~InUse(c)
  /\ \A c \in Channel : number[c] \in {c, None}

(* A descriptor is orphaned only by sys_chan_open of a device whose own    *)
(* channel number was, by an earlier swap, standing for that file.         *)
OrphanedByReopen ==
  \A fd \in Orphans' \ Orphans :
    \E d \in PlainDev : IsFile(d) /\ data[d] = fd /\ dev'[d] = d

OrphansOnlyByReopen == [][OrphanedByReopen]_vars

(* When a file object is closed while the disk works, none of the file's   *)
(* writes is left behind.                                                  *)
ClosedCommitted == \A f \in OpenObjects \ OpenObjects' : f \in unsaved' => ~diskOk

CommitOnClose == [][ClosedCommitted]_vars

-----------------------------------------------------------------------------
(* What the code's comments say and the code does not do.                  *)

(* chan_alloc's comment: it gets a free channel; so an open file is never  *)
(* cut off from its channel.                                               *)
NoOrphans == Orphans = {}

(* chan_open's comment: a channel number on success, an error otherwise;   *)
(* so sys_chan_device knows no channel nobody was given.                   *)
OnlyHeldChannelsOpen ==
  \A c \in Channel : ChanDevice(c) # ERR_BADCHANNEL => c \in held

(* fsys_close's comment: a negative number on failure; so once a file is   *)
(* closed none of its writes is missing from the disk.                     *)
NoSilentLoss == unsaved \subseteq OpenObjects

-----------------------------------------------------------------------------
(* The kernel's tables, read the way a program sees them.                  *)
SeenAs(c) ==
  IF ~InUse(c) THEN NoFile
  ELSE IF dev[c] = FileDev THEN obj[data[c]]
  ELSE dev[c]

Promise == INSTANCE DescriptorTable WITH
             Free  <- NoFile,
             table <- [c \in Channel |-> SeenAs(c)]

(* The channel and file tables implement the descriptor table.             *)
ImplementsDescriptorTable == Promise!Spec

=============================================================================
