------------------------------ MODULE Channels ------------------------------
(***************************************************************************)
(* The kernel's channel table (src/dev/channel.c): g_channels, the         *)
(* operations that allocate, release and exchange its records, and the    *)
(* device side of sys_chan_open and sys_chan_close.                        *)
(*                                                                         *)
(* A record holds its own number while it is in use and -1 while it is     *)
(* free; the device it belongs to; and a data block, of which only the     *)
(* first byte matters here: a file channel keeps its file descriptor       *)
(* there, every other driver keeps bytes of its own (DriverData).          *)
(*                                                                         *)
(* "held" is a history variable: the channels a caller was told are open   *)
(* and has not closed.  The code has no such table.                        *)
(***************************************************************************)
EXTENDS Integers

CONSTANTS
  FileDev,      \* CDEV_FILE: the file device, the largest device number used
  NumChannels,  \* CHAN_MAX
  NumFiles,     \* MAX_FILES: file descriptors are 0 .. NumFiles - 1
  Registered,   \* devices below FileDev with a driver in g_channel_devs
  Consoles,     \* those whose open routine fills in the data block
  Fallible,     \* those whose open routine can return an error
  DriverData    \* stands for whatever a driver keeps in data[0]

ASSUME ChannelsAssumption ==
  /\ FileDev \in Nat \ {0}
  /\ NumChannels \in Nat
  /\ NumChannels > FileDev
  /\ NumFiles \in Nat \ {0}
  /\ Registered \subseteq 0 .. (FileDev - 1)
  /\ Consoles \subseteq Registered
  /\ Fallible \subseteq Registered \ Consoles
  /\ DriverData \notin 0 .. (NumFiles - 1)

Device    == 0 .. FileDev
PlainDev  == 0 .. (FileDev - 1)
Channel   == 0 .. (NumChannels - 1)
Pool      == FileDev .. (NumChannels - 1)
Fd        == 0 .. (NumFiles - 1)
None      == -1
ERR_BADCHANNEL == -10
Results   == {"OK", "BADDEV", "BADCHANNEL", "OUT_OF_HANDLES", "FS_ERROR"}

VARIABLES
  number,  \* g_channels[c].number
  dev,     \* g_channels[c].dev
  data,    \* g_channels[c].data[0]
  held,    \* history: channels the callers hold
  result   \* what the last system call returned

chanVars == <<number, dev, data, held, result>>

-----------------------------------------------------------------------------

(* chan_get_records accepts exactly these channel numbers.                 *)
InUse(c) == number[c] = c

(* The least elements of a set: the slot a "first free" scan stops at.     *)
First(S) == {i \in S : \A j \in S : i <= j}

\* Mutant of the channel scan: it does not test whether the record is in use.
FreeChannels_Untested == Pool

FreeChannels == {c \in Pool : ~InUse(c)}

(* chan_device: the device of an open channel.                             *)
ChanDevice(c) == IF InUse(c) THEN dev[c] ELSE ERR_BADCHANNEL

\* Mutant: the -1 of a free record is stored in an unsigned byte.
ChanFree_Unsigned(c) ==
  /\ number' = [number EXCEPT ![c] = 255]
  /\ dev'    = [dev EXCEPT ![c] = 255]

ChanFree(c) ==
  /\ number' = [number EXCEPT ![c] = None]
  /\ dev'    = [dev EXCEPT ![c] = None]

(* chan_alloc for anything but a file: the record of the same number,      *)
(* whatever it holds at the time.                                          *)
ChanAllocPlain(d) ==
  /\ number' = [number EXCEPT ![d] = d]
  /\ dev'    = [dev EXCEPT ![d] = d]

-----------------------------------------------------------------------------

(* con_install opens the consoles at boot; everything else is closed.      *)
ChanInit ==
  /\ number = [c \in Channel |-> IF c \in Consoles THEN c ELSE None]
  /\ dev    = [c \in Channel |-> IF c \in Consoles THEN c ELSE None]
  /\ data   = [c \in Channel |-> IF c \in Consoles THEN DriverData ELSE 0]
  /\ held   = Consoles
  /\ result = "OK"

ChanOpenUnknown(d) ==
  /\ d \notin Registered
  /\ result' = "BADDEV"
  /\ UNCHANGED <<number, dev, data, held>>

(* sys_chan_open on a device other than the file device.                   *)
ChanOpenOk(d) ==
  /\ d \in Registered
  /\ ChanAllocPlain(d)
  /\ data'   = IF d \in Consoles THEN [data EXCEPT ![d] = DriverData] ELSE data
  /\ held'   = held \cup {d}
  /\ result' = "OK"

(* The driver's open routine fails: the record stays allocated.            *)
ChanOpenFails(d) ==
  /\ d \in Fallible
  /\ ChanAllocPlain(d)
  /\ result' = "FS_ERROR"
  /\ UNCHANGED <<data, held>>

ChanOpen(d) == ChanOpenUnknown(d) \/ ChanOpenOk(d) \/ ChanOpenFails(d)

(* sys_chan_close: no error is ever reported.                              *)
ChanClose(c) ==
  /\ IF InUse(c) THEN ChanFree(c) ELSE UNCHANGED <<number, dev>>
  /\ held'   = held \ {c}
  /\ result' = "OK"
  /\ UNCHANGED data

(* sys_chan_swap exchanges device and data block, never the numbers.       *)
ChanSwapBad(c1, c2) ==
  /\ c1 \notin Channel \/ c2 \notin Channel
  /\ result' = "BADCHANNEL"
  /\ UNCHANGED <<number, dev, data, held>>

ChanSwapOk(c1, c2) ==
  /\ c1 \in Channel /\ c2 \in Channel
  /\ dev'    = [dev EXCEPT ![c1] = dev[c2], ![c2] = dev[c1]]
  /\ data'   = [data EXCEPT ![c1] = data[c2], ![c2] = data[c1]]
  /\ result' = "OK"
  /\ UNCHANGED <<number, held>>

ChanSwap(c1, c2) == ChanSwapBad(c1, c2) \/ ChanSwapOk(c1, c2)

=============================================================================
