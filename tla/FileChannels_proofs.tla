------------------------ MODULE FileChannels_proofs -------------------------
(***************************************************************************)
(* Proofs about FileChannels for every number of devices, channels, file   *)
(* descriptors and files.                                                  *)
(***************************************************************************)
EXTENDS FileChannels, DirHandles, TLAPS

(* The inductive invariant.                                                *)
IInv ==
  /\ TypeOK
  /\ DescriptorsOwned
  /\ PoolAccounted
  /\ ClaimedOpen

USE ChannelsAssumption, FileAssumption

(* Arithmetic facts about the ranges of device and channel numbers.        *)
LEMMA Ranges ==
  /\ PlainDev \subseteq Channel
  /\ Pool \subseteq Channel
  /\ PlainDev \cap Pool = {}
  /\ PlainDev \subseteq Device
  /\ FileDev \in Device
  /\ FileDev \notin PlainDev
  /\ None \notin Channel
  /\ None \notin Device
  /\ Consoles \subseteq PlainDev
  /\ Registered \subseteq PlainDev
  /\ Fallible \subseteq PlainDev
  /\ DriverData \notin Fd
  /\ Channel \subseteq Int
  /\ NoFile \notin File
  /\ FileDev # None
BY DEF PlainDev, Channel, Pool, Device, None, Fd

(* The initial state satisfies the invariant.                              *)
LEMMA InitIInv == Init => IInv
<1> SUFFICES ASSUME Init PROVE IInv
  OBVIOUS
<1> USE Ranges DEF Init, ChanInit
<1>1. 0 \in Fd
  BY DEF Fd
<1>2. TypeOK
  BY <1>1 DEF TypeOK, Results
<1>3. FileChans = {}
  BY DEF FileChans, IsFile, InUse
<1>4. DescriptorsOwned
  BY <1>3 DEF DescriptorsOwned
<1>5. ClaimedOpen
  BY DEF ClaimedOpen
<1>6. PoolAccounted
  BY DEF PoolAccounted, InUse
<1>7. QED
  BY <1>2, <1>4, <1>5, <1>6 DEF IInv

-----------------------------------------------------------------------------
(* Each action preserves the invariant.                                    *)

LEMMA ChanOpenStep ==
  ASSUME IInv, NEW d \in PlainDev, Open(d)
  PROVE  IInv'
<1> USE Ranges DEF Open, fileVars
<1>1. CASE ChanOpenUnknown(d)
  BY <1>1 DEF ChanOpenUnknown, IInv, TypeOK, Results, DescriptorsOwned,
     PoolAccounted, ClaimedOpen, FileChans, IsFile, InUse
<1>2. CASE ChanOpenOk(d) \/ ChanOpenFails(d)
  <2>1. ChanAllocPlain(d) /\ UNCHANGED fileVars
    BY <1>2 DEF ChanOpenOk, ChanOpenFails
  <2>2. TypeOK'
    <3>1. d \in Channel /\ d \in Device /\ TypeOK
      BY DEF IInv
    <3>2. number' \in [Channel -> Channel \cup {None}] /\ dev' \in [Channel -> Device \cup {None}]
      BY <2>1, <3>1 DEF ChanAllocPlain, TypeOK
    <3>3. data' \in [Channel -> Fd \cup {DriverData}]
      BY <1>2, <3>1 DEF ChanOpenOk, ChanOpenFails, TypeOK
    <3>4. held' \in SUBSET Channel /\ result' \in Results
      BY <1>2, <3>1 DEF ChanOpenOk, ChanOpenFails, TypeOK, Results
    <3>5. QED
      BY <2>1, <3>1, <3>2, <3>3, <3>4 DEF TypeOK
  <2>3. /\ FileChans' \subseteq FileChans
        /\ \A c \in FileChans' : data'[c] = data[c]
    BY <1>2, <2>1 DEF ChanOpenOk, ChanOpenFails, ChanAllocPlain, IInv, TypeOK, FileChans, IsFile, InUse
  <2>4. DescriptorsOwned'
    BY <2>1, <2>3 DEF IInv, DescriptorsOwned
  <2>5. ClaimedOpen'
    BY <2>1 DEF IInv, ClaimedOpen
  <2>6. PoolAccounted'
    <3>1. /\ d \in Channel /\ d \notin Pool /\ d # None
          /\ number' = [number EXCEPT ![d] = d]
          /\ dev' = [dev EXCEPT ![d] = d]
          /\ held' \in {held, held \cup {d}}
          /\ number \in [Channel -> Channel \cup {None}]
          /\ dev \in [Channel -> Device \cup {None}]
          /\ PoolAccounted
      BY <1>2, <2>1 DEF ChanOpenOk, ChanOpenFails, ChanAllocPlain, IInv, TypeOK
    <3>2. QED
      BY <3>1 DEF PoolAccounted, InUse
  <2>7. QED
    BY <2>2, <2>4, <2>5, <2>6 DEF IInv
<1>3. QED
  BY <1>1, <1>2 DEF ChanOpen

LEMMA ChanCloseStep ==
  ASSUME IInv, NEW c \in Channel, Close(c)
  PROVE  IInv'
<1> USE Ranges DEF Close, ChanClose, ChanFree, fileVars
<1>1. TypeOK'
  BY DEF IInv, TypeOK, Results
<1>2. FileChans' = FileChans
  BY DEF IInv, TypeOK, FileChans, IsFile, InUse
<1>3. DescriptorsOwned'
  BY <1>2 DEF IInv, DescriptorsOwned
<1>4. ClaimedOpen'
  BY DEF IInv, ClaimedOpen
<1>5. PoolAccounted'
  BY DEF IInv, TypeOK, PoolAccounted, InUse
<1>6. QED
  BY <1>1, <1>3, <1>4, <1>5 DEF IInv

LEMMA SwapStep ==
  ASSUME IInv, NEW c1 \in 0 .. NumChannels, NEW c2 \in 0 .. NumChannels, Swap(c1, c2)
  PROVE  IInv'
<1> USE Ranges DEF Swap, fileVars
<1>1. CASE ChanSwapBad(c1, c2)
  BY <1>1 DEF ChanSwapBad, IInv, TypeOK, Results, DescriptorsOwned,
     PoolAccounted, ClaimedOpen, FileChans, IsFile, InUse
<1>2. CASE ChanSwapOk(c1, c2)
  <2> USE <1>2 DEF ChanSwapOk
  <2>0. c1 \in held /\ c2 \in held /\ c1 \in Channel /\ c2 \in Channel
    OBVIOUS
  <2>1. TypeOK'
    BY <2>0 DEF IInv, TypeOK, Results
  <2>2. InUse(c1) /\ InUse(c2)
    BY <2>0 DEF IInv, PoolAccounted
  <2> DEFINE other(c) == IF c = c1 THEN c2 ELSE IF c = c2 THEN c1 ELSE c
  <2>3. ASSUME NEW c \in Channel
        PROVE  /\ other(c) \in Channel
               /\ dev'[c] = dev[other(c)]
               /\ data'[c] = data[other(c)]
               /\ InUse(c)' <=> InUse(other(c))
               /\ IsFile(c)' <=> IsFile(other(c))
    BY <2>0, <2>2, <2>3 DEF IInv, TypeOK, InUse, IsFile
  <2>4. \A x, y \in Channel : other(x) = other(y) => x = y
    OBVIOUS
  <2>5. DescriptorsOwned'
    <3>1. ASSUME NEW x \in FileChans' PROVE x \in Channel /\ other(x) \in FileChans
      BY <3>1, <2>3 DEF FileChans
    <3>2. ASSUME NEW x \in FileChans', NEW y \in FileChans', data'[x] = data'[y]
          PROVE  x = y
      <4>1. data[other(x)] = data[other(y)]
        BY <3>1, <3>2, <2>3
      <4>2. other(x) = other(y)
        BY <3>1, <3>2, <4>1 DEF IInv, DescriptorsOwned
      <4>3. QED
        BY <3>1, <3>2, <4>2, <2>4
    <3>3. ASSUME NEW x \in FileChans'
          PROVE  data'[x] \in Fd /\ filState[data'[x]] = 1 /\ obj[data'[x]] \in File
      <4>1. data'[x] = data[other(x)] /\ other(x) \in FileChans
        BY <3>1, <3>3, <2>3
      <4> HIDE DEF other
      <4>2. QED
        BY <4>1 DEF IInv, DescriptorsOwned
    <3>4. QED
      BY <3>2, <3>3 DEF DescriptorsOwned
  <2>6. ClaimedOpen'
    BY DEF IInv, ClaimedOpen
  <2>7. PoolAccounted'
    BY <2>0, <2>2 DEF IInv, TypeOK, PoolAccounted, InUse
  <2>8. QED
    BY <2>1, <2>5, <2>6, <2>7 DEF IInv
<1>3. QED
  BY <1>1, <1>2 DEF ChanSwap

LEMMA FsysOpenStep ==
  ASSUME IInv, NEW f \in File, FsysOpen(f)
  PROVE  IInv'
<1> USE Ranges
<1>1. CASE FsysOpenFull(f)
  BY <1>1 DEF FsysOpenFull, IInv, TypeOK, Results, DescriptorsOwned,
     PoolAccounted, ClaimedOpen, FileChans, IsFile, InUse
<1>2. CASE FsysOpenFails(f)
  <2>1. PICK fd \in First(FreeFds), c \in First(FreeChannels) :
          /\ obj'    = [obj EXCEPT ![fd] = NoFile]
          /\ result' = "FS_ERROR"
          /\ dev'    = [dev EXCEPT ![c] = None]
          /\ number' = [number EXCEPT ![c] = None]
          /\ UNCHANGED <<data, held, filState, unsaved, diskOk>>
    BY <1>2 DEF FsysOpenFails
  <2>2. /\ fd \in Fd /\ filState[fd] = 0
        /\ c \in Pool /\ c \in Channel /\ ~InUse(c)
    BY DEF First, FreeFds, FreeChannels
  <2>3. TypeOK'
    BY <2>1, <2>2 DEF IInv, TypeOK, Results
  <2>4. FileChans' = FileChans
    BY <2>1, <2>2 DEF IInv, TypeOK, FileChans, IsFile, InUse
  <2>5. DescriptorsOwned'
    BY <2>1, <2>2, <2>4 DEF IInv, TypeOK, DescriptorsOwned
  <2>6. ClaimedOpen'
    BY <2>1, <2>2 DEF IInv, TypeOK, ClaimedOpen
  <2>7. PoolAccounted'
    BY <2>1, <2>2 DEF IInv, TypeOK, PoolAccounted, InUse
  <2>8. QED
    BY <2>3, <2>5, <2>6, <2>7 DEF IInv
<1>3. CASE FsysOpenOk(f)
  <2>1. PICK fd \in First(FreeFds), c \in First(FreeChannels) :
          /\ filState' = [filState EXCEPT ![fd] = 1]
          /\ number'   = [number EXCEPT ![c] = c]
          /\ dev'      = [dev EXCEPT ![c] = FileDev]
          /\ data'     = [data EXCEPT ![c] = fd]
          /\ obj'      = [obj EXCEPT ![fd] = f]
          /\ unsaved'  = unsaved \ {f}
          /\ held'     = held \cup {c}
          /\ result'   = "OK"
          /\ UNCHANGED diskOk
    BY <1>3 DEF FsysOpenOk
  <2>2. /\ fd \in Fd /\ filState[fd] = 0
        /\ c \in Pool /\ c \in Channel /\ ~InUse(c)
    BY DEF First, FreeFds, FreeChannels
  <2>3. TypeOK'
    BY <2>1, <2>2 DEF IInv, TypeOK, Results
  <2>4. FileChans' = FileChans \cup {c} /\ c \notin FileChans
    BY <2>1, <2>2 DEF IInv, TypeOK, FileChans, IsFile, InUse
  <2>5. \A x \in FileChans : x # c /\ x \in Channel /\ data[x] # fd /\ data[x] \in Fd
    BY <2>2, <2>4 DEF IInv, DescriptorsOwned, FileChans
  <2>6. DescriptorsOwned'
    <3>1. /\ data'[c] = fd /\ filState'[fd] = 1 /\ obj'[fd] = f
          /\ \A x \in FileChans : data'[x] = data[x]
          /\ \A x \in Fd : x # fd => filState'[x] = filState[x] /\ obj'[x] = obj[x]
      BY <2>1, <2>2, <2>5 DEF IInv, TypeOK
    <3>2. \A x, y \in FileChans' : data'[x] = data'[y] => x = y
      BY <2>4, <2>5, <3>1 DEF IInv, DescriptorsOwned
    <3>3. ASSUME NEW x \in FileChans'
          PROVE  data'[x] \in Fd /\ filState'[data'[x]] = 1 /\ obj'[data'[x]] \in File
      <4>1. CASE x = c
        BY <2>2, <3>1, <4>1
      <4>2. CASE x \in FileChans
        BY <2>5, <3>1, <4>2 DEF IInv, DescriptorsOwned
      <4>3. QED
        BY <2>4, <4>1, <4>2
    <3>4. QED
      BY <3>2, <3>3 DEF DescriptorsOwned
  <2>7. f \notin OpenObjects
    BY <1>3 DEF FsysOpenOk
  <2>8. \A x \in Fd : filState[x] = 1 => obj[x] # f
    BY <2>7 DEF OpenObjects
  <2>9. ClaimedOpen'
    BY <2>1, <2>2, <2>8 DEF IInv, TypeOK, ClaimedOpen
  <2>10. PoolAccounted'
    BY <2>1, <2>2 DEF IInv, TypeOK, PoolAccounted, InUse
  <2>11. QED
    BY <2>3, <2>6, <2>9, <2>10 DEF IInv
<1>4. QED
  BY <1>1, <1>2, <1>3 DEF FsysOpen

LEMMA FsysCloseStep ==
  ASSUME IInv, NEW c \in held \cap FileChans, FsysClose(c)
  PROVE  IInv'
<1> USE Ranges
<1> DEFINE fd == data[c]
<1>1. /\ fd \in Fd /\ c \in Channel /\ filState[fd] = 1
      /\ obj' \in {obj, [obj EXCEPT ![fd] = NoFile]}
      /\ filState' = [filState EXCEPT ![fd] = 0]
      /\ number' = [number EXCEPT ![c] = None]
      /\ dev' = [dev EXCEPT ![c] = None]
      /\ held' = held \ {c} /\ result' = "OK"
      /\ unsaved' \in {unsaved, unsaved \ {obj[fd]}}
      /\ UNCHANGED <<data, diskOk>>
  BY DEF IInv, DescriptorsOwned, FsysClose, ChanFree, FileChans
<1> HIDE DEF fd
<1>2. TypeOK'
  BY <1>1 DEF IInv, TypeOK, Results
<1>3. FileChans' = FileChans \ {c}
  BY <1>1 DEF IInv, TypeOK, FileChans, IsFile, InUse
<1>4. \A x \in FileChans' : data'[x] # fd
  BY <1>1, <1>3 DEF IInv, DescriptorsOwned, fd
<1>5. DescriptorsOwned'
  BY <1>1, <1>3, <1>4 DEF IInv, TypeOK, DescriptorsOwned
<1>6. ClaimedOpen'
  BY <1>1 DEF IInv, TypeOK, ClaimedOpen
<1>7. PoolAccounted'
  BY <1>1 DEF IInv, TypeOK, PoolAccounted, InUse
<1>8. QED
  BY <1>2, <1>5, <1>6, <1>7 DEF IInv

(* Writing, flushing and the disk's changes touch none of the tables.      *)
LEMMA TransferStep ==
  ASSUME IInv, NEW c \in held \cap FileChans,
         FchanWrite(c) \/ FchanFlush(c)
  PROVE  IInv'
<1>1. /\ UNCHANGED <<number, dev, data, held, filState, obj, diskOk>>
      /\ result' \in Results
      /\ unsaved' \in SUBSET File
  BY DEF FchanWrite, FchanFlush, IInv, TypeOK, Results, DescriptorsOwned
<1>2. QED
  BY <1>1 DEF IInv, TypeOK, DescriptorsOwned, PoolAccounted,
     ClaimedOpen, FileChans, IsFile, InUse

LEMMA DiskChangeStep ==
  ASSUME IInv, DiskChange \/ UNCHANGED vars
  PROVE  IInv'
<1>1. diskOk \in BOOLEAN /\ diskOk' \in {diskOk, ~diskOk}
  BY DEF DiskChange, vars, IInv, TypeOK
<1>2. diskOk' \in BOOLEAN
  BY <1>1, Zenon
<1>3. UNCHANGED <<number, dev, data, held, result, filState, obj, unsaved>>
  BY DEF DiskChange, vars
<1>4. QED
  BY <1>2, <1>3 DEF IInv, TypeOK, DescriptorsOwned, PoolAccounted,
     ClaimedOpen, FileChans, IsFile, InUse

LEMMA NextIInv == IInv /\ [Next]_vars => IInv'
<1> SUFFICES ASSUME IInv, [Next]_vars PROVE IInv'
  OBVIOUS
<1>1. ASSUME NEW d \in PlainDev, Open(d) PROVE IInv'
  BY <1>1, ChanOpenStep
<1>2. ASSUME NEW c \in Channel, Close(c) PROVE IInv'
  BY <1>2, ChanCloseStep
<1>3. ASSUME NEW c1 \in 0 .. NumChannels, NEW c2 \in 0 .. NumChannels, Swap(c1, c2)
      PROVE  IInv'
  BY <1>3, SwapStep
<1>4. ASSUME NEW f \in File, FsysOpen(f) PROVE IInv'
  BY <1>4, FsysOpenStep
<1>5. ASSUME NEW c \in held \cap FileChans, FsysClose(c) \/ FchanWrite(c) \/ FchanFlush(c)
      PROVE  IInv'
  BY <1>5, FsysCloseStep, TransferStep
<1>6. CASE DiskChange \/ UNCHANGED vars
  BY <1>6, DiskChangeStep
<1>7. QED
  BY <1>1, <1>2, <1>3, <1>4, <1>5, <1>6 DEF Next

-----------------------------------------------------------------------------
(* In every reachable state the tables are well typed, each open file      *)
(* channel owns its descriptor, no descriptor is claimed for nothing and no *)
(* pool channel is lost, whatever opens, closes, swaps and disk errors came before.     *)
THEOREM Invariance == Spec => []IInv
BY InitIInv, NextIInv, PTL DEF Spec

(* The tables of channel.c and fsys.c stay within their ranges.            *)
THEOREM TypeCorrect == Spec => []TypeOK
<1>1. IInv => TypeOK
  BY DEF IInv
<1>2. QED
  BY <1>1, Invariance, PTL

(* I/O on an open file channel reaches that file's own descriptor.         *)
THEOREM DescriptorOwnership == Spec => []DescriptorsOwned
<1>1. IInv => DescriptorsOwned
  BY DEF IInv
<1>2. QED
  BY <1>1, Invariance, PTL

(* No failed open leaves a descriptor claimed.                             *)
THEOREM NoFailedClaim == Spec => []ClaimedOpen
<1>1. IInv => ClaimedOpen
  BY DEF IInv
<1>2. QED
  BY <1>1, Invariance, PTL

(* The pool of file channels is accounted for by what callers hold.        *)
THEOREM PoolAccounting == Spec => []PoolAccounted
<1>1. IInv => PoolAccounted
  BY DEF IInv
<1>2. QED
  BY <1>1, Invariance, PTL

-----------------------------------------------------------------------------
(* What a program sees of a channel, read off the tables: nothing of a free *)
(* record, the file of its descriptor's object on a file channel, the device *)
(* on any other.                                                           *)
LEMMA Seen ==
  ASSUME IInv, NEW c \in Channel
  PROVE  /\ ~InUse(c) => SeenAs(c) = NoFile
         /\ IsFile(c) => SeenAs(c) = obj[data[c]] /\ SeenAs(c) \in File
         /\ InUse(c) /\ ~IsFile(c) => SeenAs(c) = dev[c] /\ SeenAs(c) \in PlainDev
<1> USE Ranges
<1>1. ~InUse(c) => SeenAs(c) = NoFile
  BY DEF SeenAs
<1>2. IsFile(c) => SeenAs(c) = obj[data[c]] /\ SeenAs(c) \in File
  BY DEF SeenAs, IsFile, FileChans, IInv, DescriptorsOwned
<1>3. ASSUME InUse(c), ~IsFile(c) PROVE SeenAs(c) = dev[c] /\ SeenAs(c) \in PlainDev
  <2>1. dev[c] \in Device \cup {None} /\ dev[c] # None /\ dev[c] # FileDev
    BY <1>3 DEF IInv, TypeOK, PoolAccounted, IsFile
  <2>2. QED
    BY <1>3, <2>1 DEF SeenAs, Device, PlainDev
<1>4. QED
  BY <1>1, <1>2, <1>3

(* Devices, files and the free entry are told apart.                       *)
LEMMA Apart ==
  /\ \A d \in PlainDev : d \notin File /\ d # NoFile
  /\ \A f \in File : f # NoFile
BY FileAssumption DEF PlainDev

(* A file some channel stands for is one that is open.                     *)
LEMMA SeenFilesAreOpen ==
  ASSUME IInv
  PROVE  Promise!OpenFiles \subseteq OpenObjects
<1> SUFFICES ASSUME NEW c \in Channel, SeenAs(c) \in File
             PROVE  SeenAs(c) \in OpenObjects
  BY DEF Promise!OpenFiles
<1>1. IsFile(c)
  BY Seen, Apart, FileAssumption
<1>2. SeenAs(c) = obj[data[c]] /\ data[c] \in Fd /\ filState[data[c]] = 1
  BY <1>1, Seen DEF IInv, DescriptorsOwned, FileChans
<1>3. QED
  BY <1>2, FileAssumption DEF OpenObjects

LEMMA PromiseInit == Init => Promise!Init
<1> SUFFICES ASSUME Init PROVE Promise!Init
  OBVIOUS
<1>1. \A c \in Channel : SeenAs(c) \in PlainDev \cup {NoFile}
  BY Ranges DEF Init, ChanInit, SeenAs, InUse
<1>2. QED
  BY <1>1 DEF Promise!Init, Init

LEMMA PromiseOpen ==
  ASSUME IInv, NEW d \in PlainDev, Open(d)
  PROVE  Promise!Next \/ UNCHANGED Promise!vars
<1> USE Ranges DEF Open, fileVars
<1>1. CASE ChanOpenUnknown(d)
  BY <1>1 DEF ChanOpenUnknown, Promise!vars, SeenAs, InUse
<1>2. CASE ChanOpenOk(d) \/ ChanOpenFails(d)
  <2>1. /\ d \in Channel /\ d # FileDev
        /\ number' = [number EXCEPT ![d] = d]
        /\ dev' = [dev EXCEPT ![d] = d]
        /\ data' \in {data, [data EXCEPT ![d] = DriverData]}
        /\ UNCHANGED <<filState, obj, unsaved>>
    BY <1>2 DEF ChanOpenOk, ChanOpenFails, ChanAllocPlain
  <2>2. SeenAs(d)' = d
    BY <2>1 DEF SeenAs, InUse, IInv, TypeOK
  <2>3. \A c \in Channel : c # d => SeenAs(c)' = SeenAs(c)
    BY <2>1 DEF SeenAs, InUse, IInv, TypeOK
  <2>4. Promise!OpenDevice(d)
    BY <2>1, <2>2, <2>3 DEF Promise!OpenDevice
  <2>5. QED
    BY <2>4 DEF Promise!Next
<1>3. QED
  BY <1>1, <1>2 DEF ChanOpen

LEMMA PromiseClose ==
  ASSUME IInv, NEW c \in Channel, Close(c)
  PROVE  Promise!Next \/ UNCHANGED Promise!vars
<1> USE Ranges DEF Close, ChanClose, ChanFree, fileVars
<1>1. CASE InUse(c)
  <2>1. SeenAs(c) \in PlainDev
    BY <1>1, Seen
  <2>2. SeenAs(c)' = NoFile
    BY <1>1 DEF SeenAs, InUse, IInv, TypeOK
  <2>3. \A x \in Channel : x # c => SeenAs(x)' = SeenAs(x)
    BY <1>1 DEF SeenAs, InUse, IInv, TypeOK
  <2>4. Promise!CloseDevice(c)
    BY <2>1, <2>2, <2>3 DEF Promise!CloseDevice
  <2>5. QED
    BY <2>4 DEF Promise!Next
<1>2. CASE ~InUse(c)
  BY <1>2 DEF Promise!vars, SeenAs, InUse
<1>3. QED
  BY <1>1, <1>2

LEMMA PromiseSwap ==
  ASSUME IInv, NEW c1 \in 0 .. NumChannels, NEW c2 \in 0 .. NumChannels, Swap(c1, c2)
  PROVE  Promise!Next \/ UNCHANGED Promise!vars
<1> USE Ranges DEF Swap, fileVars
<1>1. CASE ChanSwapBad(c1, c2)
  BY <1>1 DEF ChanSwapBad, Promise!vars, SeenAs, InUse
<1>2. CASE ChanSwapOk(c1, c2)
  <2> USE <1>2 DEF ChanSwapOk
  <2>1. c1 \in Channel /\ c2 \in Channel /\ InUse(c1) /\ InUse(c2)
    BY DEF IInv, PoolAccounted
  <2>2. SeenAs(c1) # NoFile /\ SeenAs(c2) # NoFile
    BY <2>1, Seen, Apart
  <2>3. SeenAs(c1)' = SeenAs(c2) /\ SeenAs(c2)' = SeenAs(c1)
    BY <2>1 DEF SeenAs, InUse, IInv, TypeOK
  <2>4. \A x \in Channel : x # c1 /\ x # c2 => SeenAs(x)' = SeenAs(x)
    BY <2>1 DEF SeenAs, InUse, IInv, TypeOK
  <2>5. Promise!Swap(c1, c2)
    BY <2>1, <2>2, <2>3, <2>4 DEF Promise!Swap
  <2>6. QED
    BY <2>1, <2>5 DEF Promise!Next
<1>3. QED
  BY <1>1, <1>2 DEF ChanSwap

LEMMA PromiseFsysOpen ==
  ASSUME IInv, NEW f \in File, FsysOpen(f)
  PROVE  Promise!Next \/ UNCHANGED Promise!vars
<1> USE Ranges
<1>1. CASE FsysOpenFull(f)
  BY <1>1 DEF FsysOpenFull, Promise!vars, SeenAs, InUse
<1>2. CASE FsysOpenFails(f)
  <2>1. PICK fd \in First(FreeFds), c \in First(FreeChannels) :
          /\ obj'    = [obj EXCEPT ![fd] = NoFile]
          /\ dev'    = [dev EXCEPT ![c] = None]
          /\ number' = [number EXCEPT ![c] = None]
          /\ UNCHANGED <<data, unsaved>>
    BY <1>2 DEF FsysOpenFails
  <2>2. fd \in Fd /\ filState[fd] = 0 /\ c \in Channel /\ ~InUse(c)
    BY DEF First, FreeFds, FreeChannels
  <2>3. \A x \in Channel : InUse(x)' = InUse(x)
    BY <2>1, <2>2 DEF InUse, IInv, TypeOK
  <2>4. ASSUME NEW x \in Channel PROVE SeenAs(x)' = SeenAs(x)
    <3>1. CASE ~InUse(x)
      BY <2>3, <3>1 DEF SeenAs
    <3>2. CASE IsFile(x)
      <4>1. data[x] # fd /\ data[x] \in Fd
        BY <2>2, <3>2 DEF IInv, DescriptorsOwned, FileChans
      <4>2. QED
        BY <2>1, <2>2, <2>3, <3>2, <4>1 DEF SeenAs, IsFile, IInv, TypeOK
    <3>3. CASE InUse(x) /\ ~IsFile(x)
      BY <2>1, <2>2, <2>3, <3>3 DEF SeenAs, IsFile, IInv, TypeOK
    <3>4. QED
      BY <3>1, <3>2, <3>3
  <2>5. QED
    BY <2>1, <2>4 DEF Promise!vars
<1>3. CASE FsysOpenOk(f)
  <2>1. PICK fd \in First(FreeFds), c \in First(FreeChannels) :
          /\ number'   = [number EXCEPT ![c] = c]
          /\ dev'      = [dev EXCEPT ![c] = FileDev]
          /\ data'     = [data EXCEPT ![c] = fd]
          /\ obj'      = [obj EXCEPT ![fd] = f]
          /\ unsaved'  = unsaved \ {f}
    BY <1>3 DEF FsysOpenOk
  <2>2. /\ fd \in Fd /\ filState[fd] = 0
        /\ c \in Pool /\ c \in Channel /\ ~InUse(c)
    BY DEF First, FreeFds, FreeChannels
  <2>3. SeenAs(c) = NoFile
    BY <2>2, Seen
  <2>4. f \notin Promise!OpenFiles
    BY <1>3, SeenFilesAreOpen DEF FsysOpenOk
  <2>5. SeenAs(c)' = f
    BY <2>1, <2>2 DEF SeenAs, InUse, IInv, TypeOK
  <2>6. ASSUME NEW x \in Channel, x # c PROVE SeenAs(x)' = SeenAs(x)
    <3>1. dev'[x] = dev[x] /\ data'[x] = data[x] /\ (InUse(x)' <=> InUse(x))
      BY <2>1, <2>2, <2>6 DEF IInv, TypeOK, InUse
    <3>2. CASE IsFile(x)
      <4>1. data[x] # fd /\ data[x] \in Fd
        BY <2>2, <3>2 DEF IInv, DescriptorsOwned, FileChans
      <4>2. obj'[data[x]] = obj[data[x]]
        BY <2>1, <4>1 DEF IInv, TypeOK
      <4>3. QED
        BY <3>1, <3>2, <4>2 DEF SeenAs, IsFile
    <3>3. CASE ~IsFile(x)
      BY <3>1, <3>3 DEF SeenAs, IsFile
    <3>4. QED
      BY <3>2, <3>3
  <2>7. Promise!OpenFile(c, f)
    BY <2>1, <2>2, <2>3, <2>4, <2>5, <2>6 DEF Promise!OpenFile
  <2>8. QED
    BY <2>2, <2>7 DEF Promise!Next
<1>4. QED
  BY <1>1, <1>2, <1>3 DEF FsysOpen

LEMMA PromiseFsysClose ==
  ASSUME IInv, NEW c \in held \cap FileChans, FsysClose(c)
  PROVE  Promise!Next \/ UNCHANGED Promise!vars
<1> USE Ranges
<1> DEFINE fd == data[c]
<1>1. /\ fd \in Fd /\ c \in Channel /\ IsFile(c)
      /\ obj' \in {obj, [obj EXCEPT ![fd] = NoFile]}
      /\ number' = [number EXCEPT ![c] = None]
      /\ dev' = [dev EXCEPT ![c] = None]
      /\ unsaved' \in {unsaved, unsaved \ {obj[fd]}}
      /\ UNCHANGED data
  BY DEF IInv, DescriptorsOwned, FsysClose, ChanFree, FileChans
<1>2. SeenAs(c) = obj[fd] /\ SeenAs(c) \in File
  BY <1>1, Seen
<1> HIDE DEF fd
<1>3. SeenAs(c)' = NoFile
  BY <1>1 DEF SeenAs, InUse, IInv, TypeOK
<1>4. ASSUME NEW x \in Channel, x # c PROVE SeenAs(x)' = SeenAs(x)
  <2>1. dev'[x] = dev[x] /\ data'[x] = data[x] /\ (InUse(x)' <=> InUse(x))
    BY <1>1, <1>4 DEF IInv, TypeOK, InUse
  <2>2. CASE IsFile(x)
    <3>1. data[x] # fd /\ data[x] \in Fd
      BY <1>1, <1>4, <2>2 DEF IInv, DescriptorsOwned, FileChans, fd
    <3>2. obj'[data[x]] = obj[data[x]]
      BY <1>1, <3>1 DEF IInv, TypeOK
    <3>3. QED
      BY <2>1, <2>2, <3>2 DEF SeenAs, IsFile
  <2>3. CASE ~IsFile(x)
    BY <2>1, <2>3 DEF SeenAs, IsFile
  <2>4. QED
    BY <2>2, <2>3
<1>5. Promise!CloseFile(c)
  BY <1>1, <1>2, <1>3, <1>4 DEF Promise!CloseFile
<1>6. QED
  BY <1>1, <1>5 DEF Promise!Next

LEMMA PromiseTransfer ==
  ASSUME IInv, NEW c \in held \cap FileChans, FchanWrite(c) \/ FchanFlush(c)
  PROVE  Promise!Next \/ UNCHANGED Promise!vars
<1>1. c \in Channel /\ SeenAs(c) = obj[data[c]] /\ SeenAs(c) \in File
  BY Seen DEF FileChans
<1>2. /\ UNCHANGED <<number, dev, data, obj>>
      /\ unsaved' \in {unsaved, unsaved \cup {obj[data[c]]}, unsaved \ {obj[data[c]]}}
  BY DEF FchanWrite, FchanFlush
<1>3. \A x \in Channel : SeenAs(x)' = SeenAs(x)
  BY <1>2 DEF SeenAs, InUse
<1>4. CASE unsaved' = unsaved
  BY <1>3, <1>4 DEF Promise!vars
<1>5. CASE unsaved' = unsaved \cup {obj[data[c]]}
  <2>1. Promise!WriteFile(c)
    BY <1>1, <1>3, <1>5 DEF Promise!WriteFile
  <2>2. QED
    BY <1>1, <2>1 DEF Promise!Next
<1>6. CASE unsaved' = unsaved \ {obj[data[c]]}
  <2>1. Promise!CommitFile(c)
    BY <1>1, <1>3, <1>6 DEF Promise!CommitFile
  <2>2. QED
    BY <1>1, <2>1 DEF Promise!Next
<1>7. QED
  BY <1>2, <1>4, <1>5, <1>6

LEMMA PromiseNext == IInv /\ [Next]_vars => [Promise!Next]_(Promise!vars)
<1> SUFFICES ASSUME IInv, [Next]_vars PROVE Promise!Next \/ UNCHANGED Promise!vars
  OBVIOUS
<1>1. ASSUME NEW d \in PlainDev, Open(d) PROVE Promise!Next \/ UNCHANGED Promise!vars
  BY <1>1, PromiseOpen
<1>2. ASSUME NEW c \in Channel, Close(c) PROVE Promise!Next \/ UNCHANGED Promise!vars
  BY <1>2, PromiseClose
<1>3. ASSUME NEW c1 \in 0 .. NumChannels, NEW c2 \in 0 .. NumChannels, Swap(c1, c2)
      PROVE  Promise!Next \/ UNCHANGED Promise!vars
  BY <1>3, PromiseSwap
<1>4. ASSUME NEW f \in File, FsysOpen(f) PROVE Promise!Next \/ UNCHANGED Promise!vars
  BY <1>4, PromiseFsysOpen
<1>5. ASSUME NEW c \in held \cap FileChans, FsysClose(c) \/ FchanWrite(c) \/ FchanFlush(c)
      PROVE  Promise!Next \/ UNCHANGED Promise!vars
  BY <1>5, PromiseFsysClose, PromiseTransfer
<1>6. CASE DiskChange \/ UNCHANGED vars
  BY <1>6 DEF DiskChange, vars, Promise!vars, SeenAs, InUse
<1>7. QED
  BY <1>1, <1>2, <1>3, <1>4, <1>5, <1>6 DEF Next

(* The channel and file tables implement the descriptor table: every call  *)
(* changes the entries it names, as the calls are documented, and no other. *)
THEOREM Refinement == Spec => ImplementsDescriptorTable
<1>1. Spec => Promise!Init /\ [][Promise!Next]_(Promise!vars)
  BY Invariance, PromiseInit, PromiseNext, PTL DEF Spec
<1>2. QED
  BY <1>1 DEF ImplementsDescriptorTable, Promise!Spec

-----------------------------------------------------------------------------
(* How a descriptor comes to be orphaned.                                  *)

(* A step that keeps every open file channel with its descriptor, and      *)
(* claims no descriptor, orphans none.                                     *)
LEMMA NoneOrphaned ==
  ASSUME \A fd \in Fd : filState'[fd] = 1 => filState[fd] = 1,
         \A c \in FileChans : filState'[data[c]] = 1 =>
           \E x \in FileChans' : data'[x] = data[c]
  PROVE  OrphanedByReopen
<1> SUFFICES ASSUME NEW fd \in Orphans' PROVE fd \in Orphans
  BY DEF OrphanedByReopen
<1>1. fd \in Fd /\ filState'[fd] = 1 /\ \A x \in FileChans' : data'[x] # fd
  BY DEF Orphans
<1>2. \A c \in FileChans : data[c] # fd
  BY <1>1
<1>3. QED
  BY <1>1, <1>2 DEF Orphans

(* Opening a device: the only descriptor that can lose its channel is that *)
(* of a file swapped to the device's own channel number.                   *)
LEMMA OpenOrphans ==
  ASSUME IInv, NEW d \in PlainDev, Open(d)
  PROVE  OrphanedByReopen
<1> USE Ranges DEF Open, fileVars
<1>1. CASE ChanOpenUnknown(d)
  BY <1>1, NoneOrphaned DEF ChanOpenUnknown, FileChans, IsFile, InUse
<1>2. CASE ChanOpenOk(d) \/ ChanOpenFails(d)
  <2>1. /\ d \in Channel /\ dev' = [dev EXCEPT ![d] = d] /\ dev'[d] = d
        /\ number' = [number EXCEPT ![d] = d]
        /\ data' \in {data, [data EXCEPT ![d] = DriverData]}
        /\ UNCHANGED filState
    BY <1>2 DEF ChanOpenOk, ChanOpenFails, ChanAllocPlain, IInv, TypeOK
  <2>2. \A c \in FileChans : c # d => c \in FileChans' /\ data'[c] = data[c]
    BY <2>1 DEF FileChans, IsFile, InUse, IInv, TypeOK
  <2> SUFFICES ASSUME NEW fd \in Orphans' \ Orphans
               PROVE  IsFile(d) /\ data[d] = fd
    BY <2>1 DEF OrphanedByReopen
  <2>3. PICK c \in FileChans : data[c] = fd
    BY <2>1 DEF Orphans
  <2>4. c = d
    BY <2>2, <2>3 DEF Orphans
  <2>5. QED
    BY <2>3, <2>4 DEF FileChans
<1>3. QED
  BY <1>1, <1>2 DEF ChanOpen

LEMMA CloseOrphans ==
  ASSUME IInv, NEW c \in Channel, Close(c)
  PROVE  OrphanedByReopen
<1>1. FileChans' = FileChans
  BY Ranges DEF Close, ChanClose, ChanFree, IInv, TypeOK, FileChans, IsFile, InUse
<1>2. UNCHANGED <<data, filState>>
  BY DEF Close, ChanClose, fileVars
<1>3. QED
  BY <1>1, <1>2, NoneOrphaned

(* A swap moves a file to another channel, and its descriptor with it.     *)
LEMMA SwapOrphans ==
  ASSUME IInv, NEW c1 \in 0 .. NumChannels, NEW c2 \in 0 .. NumChannels, Swap(c1, c2)
  PROVE  OrphanedByReopen
<1> USE Ranges DEF Swap, fileVars
<1>1. CASE ChanSwapBad(c1, c2)
  BY <1>1, NoneOrphaned DEF ChanSwapBad, FileChans, IsFile, InUse
<1>2. CASE ChanSwapOk(c1, c2)
  <2> USE <1>2 DEF ChanSwapOk
  <2>1. c1 \in Channel /\ c2 \in Channel /\ InUse(c1) /\ InUse(c2)
    BY DEF IInv, PoolAccounted
  <2>2. ASSUME NEW c \in FileChans PROVE \E x \in FileChans' : data'[x] = data[c]
    <3>1. CASE c = c1
      <4>1. c2 \in FileChans' /\ data'[c2] = data[c]
        BY <2>1, <3>1 DEF FileChans, IsFile, InUse, IInv, TypeOK
      <4>2. QED
        BY <4>1
    <3>2. CASE c = c2
      <4>1. c1 \in FileChans' /\ data'[c1] = data[c]
        BY <2>1, <3>2 DEF FileChans, IsFile, InUse, IInv, TypeOK
      <4>2. QED
        BY <4>1
    <3>3. CASE c # c1 /\ c # c2
      <4>1. c \in FileChans' /\ data'[c] = data[c]
        BY <2>1, <3>3 DEF FileChans, IsFile, InUse, IInv, TypeOK
      <4>2. QED
        BY <4>1
    <3>4. QED
      BY <3>1, <3>2, <3>3
  <2>3. UNCHANGED filState
    OBVIOUS
  <2>4. QED
    BY <2>2, <2>3, NoneOrphaned
<1>3. QED
  BY <1>1, <1>2 DEF ChanSwap

LEMMA FsysOpenOrphans ==
  ASSUME IInv, NEW f \in File, FsysOpen(f)
  PROVE  OrphanedByReopen
<1> USE Ranges
<1>1. CASE FsysOpenFull(f)
  BY <1>1, NoneOrphaned DEF FsysOpenFull, FileChans, IsFile, InUse
<1>2. CASE FsysOpenFails(f)
  <2>1. PICK c \in First(FreeChannels) :
          /\ dev'    = [dev EXCEPT ![c] = None]
          /\ number' = [number EXCEPT ![c] = None]
          /\ UNCHANGED <<data, filState>>
    BY <1>2 DEF FsysOpenFails
  <2>2. c \in Channel /\ ~InUse(c)
    BY DEF First, FreeChannels
  <2>3. FileChans' = FileChans
    BY <2>1, <2>2 DEF IInv, TypeOK, FileChans, IsFile, InUse
  <2>4. QED
    BY <2>1, <2>3, NoneOrphaned
<1>3. CASE FsysOpenOk(f)
  <2>1. PICK fd \in First(FreeFds), c \in First(FreeChannels) :
          /\ filState' = [filState EXCEPT ![fd] = 1]
          /\ number'   = [number EXCEPT ![c] = c]
          /\ dev'      = [dev EXCEPT ![c] = FileDev]
          /\ data'     = [data EXCEPT ![c] = fd]
    BY <1>3 DEF FsysOpenOk
  <2>2. fd \in Fd /\ filState[fd] = 0 /\ c \in Channel /\ ~InUse(c)
    BY DEF First, FreeFds, FreeChannels
  <2>3. c \in FileChans' /\ data'[c] = fd
    BY <2>1, <2>2 DEF IInv, TypeOK, FileChans, IsFile, InUse
  <2>4. \A x \in FileChans : x \in FileChans' /\ data'[x] = data[x]
    BY <2>1, <2>2 DEF IInv, TypeOK, FileChans, IsFile, InUse
  <2> SUFFICES ASSUME NEW g \in Orphans' PROVE g \in Orphans
    BY DEF OrphanedByReopen
  <2>5. g \in Fd /\ filState'[g] = 1 /\ \A x \in FileChans' : data'[x] # g
    BY DEF Orphans
  <2>6. g # fd
    BY <2>3, <2>5
  <2>7. filState[g] = 1
    BY <2>1, <2>2, <2>5, <2>6 DEF IInv, TypeOK
  <2>8. QED
    BY <2>4, <2>5, <2>7 DEF Orphans
<1>4. QED
  BY <1>1, <1>2, <1>3 DEF FsysOpen

LEMMA FsysCloseOrphans ==
  ASSUME IInv, NEW c \in held \cap FileChans, FsysClose(c)
  PROVE  OrphanedByReopen
<1>1. /\ data[c] \in Fd /\ c \in Channel
      /\ filState' = [filState EXCEPT ![data[c]] = 0]
      /\ number' = [number EXCEPT ![c] = None]
      /\ dev' = [dev EXCEPT ![c] = None]
      /\ UNCHANGED data
  BY DEF IInv, DescriptorsOwned, FsysClose, ChanFree, FileChans
<1>2. FileChans' = FileChans \ {c}
  BY <1>1, Ranges DEF IInv, TypeOK, FileChans, IsFile, InUse
<1>3. filState'[data[c]] = 0 /\ \A fd \in Fd : filState'[fd] = 1 => filState[fd] = 1
  BY <1>1 DEF IInv, TypeOK
<1>4. QED
  BY <1>1, <1>2, <1>3, NoneOrphaned

(* Whatever the program does, an open file loses its channel in one way    *)
(* only: chan_alloc reuses the channel of a device that was swapped away.  *)
THEOREM Orphaning == Spec => OrphansOnlyByReopen
<1>1. ASSUME IInv, [Next]_vars PROVE OrphanedByReopen
  <2>1. ASSUME NEW d \in PlainDev, Open(d) PROVE OrphanedByReopen
    BY <1>1, <2>1, OpenOrphans
  <2>2. ASSUME NEW c \in Channel, Close(c) PROVE OrphanedByReopen
    BY <1>1, <2>2, CloseOrphans
  <2>3. ASSUME NEW c1 \in 0 .. NumChannels, NEW c2 \in 0 .. NumChannels, Swap(c1, c2)
        PROVE  OrphanedByReopen
    BY <1>1, <2>3, SwapOrphans
  <2>4. ASSUME NEW f \in File, FsysOpen(f) PROVE OrphanedByReopen
    BY <1>1, <2>4, FsysOpenOrphans
  <2>5. ASSUME NEW c \in held \cap FileChans, FsysClose(c) PROVE OrphanedByReopen
    BY <1>1, <2>5, FsysCloseOrphans
  <2>6. ASSUME NEW c \in held \cap FileChans, FchanWrite(c) \/ FchanFlush(c)
        PROVE  OrphanedByReopen
    BY <2>6, NoneOrphaned DEF FchanWrite, FchanFlush, FileChans, IsFile, InUse
  <2>7. CASE DiskChange \/ UNCHANGED vars
    BY <2>7, NoneOrphaned DEF DiskChange, vars, FileChans, IsFile, InUse
  <2>8. QED
    BY <1>1, <2>1, <2>2, <2>3, <2>4, <2>5, <2>6, <2>7 DEF Next
<1>2. IInv /\ [Next]_vars => [OrphanedByReopen]_vars
  BY <1>1
<1>3. QED
  BY <1>2, Invariance, PTL DEF Spec, OrphansOnlyByReopen

-----------------------------------------------------------------------------
(* What a close puts on the disk.                                          *)

(* A step that leaves the claimed descriptors their objects closes no file. *)
LEMMA NoneClosed ==
  ASSUME \A fd \in Fd : filState[fd] = 1 => filState'[fd] = 1 /\ obj'[fd] = obj[fd]
  PROVE  ClosedCommitted
BY DEF ClosedCommitted, OpenObjects

LEMMA FsysCloseCommits ==
  ASSUME IInv, NEW c \in held \cap FileChans, FsysClose(c)
  PROVE  ClosedCommitted
<1> DEFINE fd == data[c]
<1>1. /\ fd \in Fd
      /\ filState' = [filState EXCEPT ![fd] = 0]
      /\ obj' \in {obj, [obj EXCEPT ![fd] = NoFile]}
      /\ Syncs(fd) => unsaved' = unsaved \ {obj[fd]}
  BY DEF IInv, DescriptorsOwned, FsysClose, FileChans
<1> HIDE DEF fd
<1> SUFFICES ASSUME NEW f \in OpenObjects \ OpenObjects', f \in unsaved', diskOk
             PROVE  FALSE
  BY DEF ClosedCommitted
<1>2. \A x \in Fd : x # fd => filState'[x] = filState[x] /\ obj'[x] = obj[x]
  BY <1>1 DEF IInv, TypeOK
<1>3. f = obj[fd]
  BY <1>2 DEF OpenObjects
<1>4. QED
  BY <1>1, <1>3 DEF Syncs

(* fsys_close drops the error of f_close, and still: while the disk works  *)
(* no close leaves a write behind.                                         *)
THEOREM Committing == Spec => CommitOnClose
<1>1. ASSUME IInv, [Next]_vars PROVE ClosedCommitted
  <2>1. ASSUME NEW d \in PlainDev, Open(d) PROVE ClosedCommitted
    BY <2>1, NoneClosed DEF Open, fileVars
  <2>2. ASSUME NEW c \in Channel, Close(c) PROVE ClosedCommitted
    BY <2>2, NoneClosed DEF Close, fileVars
  <2>3. ASSUME NEW c1 \in 0 .. NumChannels, NEW c2 \in 0 .. NumChannels, Swap(c1, c2)
        PROVE  ClosedCommitted
    BY <2>3, NoneClosed DEF Swap, fileVars
  <2>4. ASSUME NEW f \in File, FsysOpen(f) PROVE ClosedCommitted
    <3>1. CASE FsysOpenFull(f)
      BY <3>1, NoneClosed DEF FsysOpenFull
    <3>2. CASE FsysOpenFails(f) \/ FsysOpenOk(f)
      <4>1. PICK fd \in FreeFds :
              /\ filState' \in {filState, [filState EXCEPT ![fd] = 1]}
              /\ obj' \in {[obj EXCEPT ![fd] = NoFile], [obj EXCEPT ![fd] = f]}
        BY <3>2 DEF FsysOpenFails, FsysOpenOk, First
      <4>2. fd \in Fd /\ filState[fd] = 0
        BY DEF FreeFds
      <4>3. \A x \in Fd : filState[x] = 1 => filState'[x] = 1 /\ obj'[x] = obj[x]
        BY <1>1, <4>1, <4>2 DEF IInv, TypeOK
      <4>4. QED
        BY <4>3, NoneClosed
    <3>3. QED
      BY <2>4, <3>1, <3>2 DEF FsysOpen
  <2>5. ASSUME NEW c \in held \cap FileChans, FsysClose(c) PROVE ClosedCommitted
    BY <1>1, <2>5, FsysCloseCommits
  <2>6. ASSUME NEW c \in held \cap FileChans, FchanWrite(c) \/ FchanFlush(c)
        PROVE  ClosedCommitted
    BY <2>6, NoneClosed DEF FchanWrite, FchanFlush
  <2>7. CASE DiskChange \/ UNCHANGED vars
    BY <2>7, NoneClosed DEF DiskChange, vars
  <2>8. QED
    BY <1>1, <2>1, <2>2, <2>3, <2>4, <2>5, <2>6, <2>7 DEF Next
<1>2. IInv /\ [Next]_vars => [ClosedCommitted]_vars
  BY <1>1
<1>3. QED
  BY <1>2, Invariance, PTL DEF Spec, CommitOnClose

-----------------------------------------------------------------------------
(* Directory handles.                                                      *)

(* A free handle is a handle, and not claimed.                             *)
LEMMA FirstFree ==
  ASSUME NEW h \in FirstHandle(FreeHandles)
  PROVE  h \in Handle /\ dirState[h] = 0
BY DEF FirstHandle, FreeHandles

(* Handles are not negative, so the mark for none is not one.              *)
LEMMA NoHandleIsNone == NoHandle \notin Handle
BY DirAssumption DEF Handle, NoHandle

(* Handle 0, with which findfirst goes on, is a handle.                    *)
LEMMA ZeroIsHandle == 0 \in Handle
BY DirAssumption DEF Handle

-----------------------------------------------------------------------------
(* Opening a scan or failing to keeps the types.                           *)
LEMMA ScanTypes ==
  ASSUME DirTypeOK, NEW h \in Handle, NEW p \in Dirs, ScanOpened(h, p) \/ ScanFailed(h)
  PROVE  /\ dirObj' \in [Handle -> Dirs \cup {NoDir}]
         /\ view'   \in [Dirs -> Handle \cup {NoHandle}]
         /\ dirResult' \in DirResults
<1>1. CASE ScanOpened(h, p)
  BY <1>1 DEF ScanOpened, DirTypeOK, DirResults
<1>2. CASE ScanFailed(h)
  BY <1>2 DEF ScanFailed, DirTypeOK, DirResults
<1> QED BY <1>1, <1>2

(* The tables keep their types in every step.                              *)
LEMMA DirTypeStep == ASSUME DirTypeOK, [DirNext]_dirVars PROVE DirTypeOK'
<1> USE DEF DirTypeOK
<1>1. ASSUME NEW p \in Dirs, OpendirFull(p) PROVE DirTypeOK'
  BY <1>1 DEF OpendirFull, DirResults
<1>2. ASSUME NEW p \in Dirs, ClaimHandle(p) PROVE DirTypeOK'
  <2>1. PICK h \in FirstHandle(FreeHandles) :
          /\ dirState' = [dirState EXCEPT ![h] = 1]
          /\ ScanOpened(h, p) \/ ScanFailed(h)
    BY <1>2 DEF ClaimHandle
  <2>2. dirState' \in [Handle -> {0, 1}]
    BY <2>1
  <2> QED BY <2>1, <2>2, FirstFree, ScanTypes
<1>3. ASSUME NEW p \in Dirs, FindfirstFull(p) PROVE DirTypeOK'
  BY <1>3, ZeroIsHandle, ScanTypes DEF FindfirstFull
<1>4. ASSUME NEW p \in Scanned, FsysReaddir(view[p]) PROVE DirTypeOK'
  BY <1>4 DEF FsysReaddir, DirResults
<1>5. ASSUME NEW p \in Scanned, FsysClosedir(p) PROVE DirTypeOK'
  BY <1>5 DEF FsysClosedir, CloseHandle, Scanned, DirResults
<1>6. CASE UNCHANGED dirVars
  BY <1>6 DEF dirVars
<1> QED BY <1>1, <1>2, <1>3, <1>4, <1>5, <1>6
        DEF DirNext, FsysOpendir, FsysFindfirst

(* The tables keep their types.                                            *)
THEOREM DirTypesKept == DirSpec => []DirTypeOK
<1>1. DirInit => DirTypeOK
  BY DEF DirInit, DirTypeOK, DirResults
<1> QED BY <1>1, DirTypeStep, PTL DEF DirSpec

-----------------------------------------------------------------------------
\* What ScansUndisturbed says of one step.
Undisturbed ==
  \A p \in Scanned :
    HandleRight(p) /\ view'[p] = view[p] /\ ~HandleRight(p)' =>
      FreeHandles = {} \/ \E q \in Scanned \ {p} : view[q] = view[p]

(* Claiming a handle touches no scan that is right: its handle is claimed. *)
LEMMA ClaimLeavesScans ==
  ASSUME DirTypeOK, NEW d \in Dirs \ Scanned, ClaimHandle(d)
  PROVE  Undisturbed
<1> SUFFICES ASSUME NEW p \in Scanned, HandleRight(p), view'[p] = view[p]
             PROVE  HandleRight(p)'
  BY DEF Undisturbed
<1>1. PICK h \in FirstHandle(FreeHandles) :
        /\ dirState' = [dirState EXCEPT ![h] = 1]
        /\ ScanOpened(h, d) \/ ScanFailed(h)
  BY DEF ClaimHandle
<1>2. view[p] \in Handle /\ h \in Handle /\ view[p] # h
  BY FirstFree DEF Scanned, HandleRight, DirTypeOK
<1>3. dirState'[view[p]] = dirState[view[p]] /\ dirObj'[view[p]] = dirObj[view[p]]
  BY <1>1, <1>2 DEF ScanOpened, ScanFailed, DirTypeOK
<1> QED BY <1>3 DEF HandleRight

(* Closing touches the handle closed, and the scans that share it.         *)
LEMMA CloseLeavesScans ==
  ASSUME DirTypeOK, NEW d \in Scanned, FsysClosedir(d)
  PROVE  Undisturbed
<1> SUFFICES ASSUME NEW p \in Scanned, HandleRight(p), view'[p] = view[p],
                    \A q \in Scanned \ {p} : view[q] # view[p]
             PROVE  HandleRight(p)'
  BY DEF Undisturbed
<1>1. view[p] \in Handle /\ view[d] \in Handle
  BY DEF Scanned, DirTypeOK
<1>2. p # d
  BY <1>1, NoHandleIsNone DEF FsysClosedir, DirTypeOK, Scanned
<1>3. view[p] # view[d]
  BY <1>2
<1>4. dirState'[view[p]] = dirState[view[p]] /\ dirObj'[view[p]] = dirObj[view[p]]
  BY <1>1, <1>3 DEF FsysClosedir, CloseHandle, DirTypeOK
<1> QED BY <1>4 DEF HandleRight

(* fsys_opendir, fsys_findfirst and fsys_closedir leave the scans of other *)
(* callers right, except that findfirst with every handle claimed, and a   *)
(* handle two callers share already, may disturb one.                      *)
THEOREM ScansStayRight == DirSpec => ScansUndisturbed
<1>1. ASSUME DirTypeOK, [DirNext]_dirVars PROVE Undisturbed \/ UNCHANGED dirVars
  <2>1. ASSUME NEW d \in Dirs \ Scanned, OpendirFull(d) \/ FindfirstFull(d)
        PROVE  Undisturbed
    BY <2>1 DEF OpendirFull, FindfirstFull, Undisturbed
  <2>2. ASSUME NEW d \in Scanned, FsysReaddir(view[d]) PROVE Undisturbed
    BY <2>2 DEF FsysReaddir, Undisturbed, HandleRight
  <2> QED BY <1>1, <2>1, <2>2, ClaimLeavesScans, CloseLeavesScans
          DEF DirNext, FsysOpendir, FsysFindfirst
<1>2. DirTypeOK /\ [DirNext]_dirVars => [Undisturbed]_dirVars
  BY <1>1
<1> QED BY <1>2, DirTypesKept, PTL DEF DirSpec, ScansUndisturbed, Undisturbed

-----------------------------------------------------------------------------
\* What LeakOnlyByFailedOpen says of one step.
LeakFailed == \A h \in Leaked' \ Leaked : dirResult' = "FS_ERROR" /\ h \in FreeHandles

(* The handle that opendir or findfirst claims is leaked when FatFs        *)
(* refuses, and no other is.                                               *)
LEMMA ClaimLeaks ==
  ASSUME DirTypeOK, NEW d \in Dirs \ Scanned, ClaimHandle(d)
  PROVE  LeakFailed
<1> SUFFICES ASSUME NEW g \in Leaked' \ Leaked
             PROVE  dirResult' = "FS_ERROR" /\ g \in FreeHandles
  BY DEF LeakFailed
<1>1. PICK h \in FirstHandle(FreeHandles) :
        /\ dirState' = [dirState EXCEPT ![h] = 1]
        /\ ScanOpened(h, d) \/ ScanFailed(h)
  BY DEF ClaimHandle
<1>2. g \in Handle /\ dirState'[g] = 1 /\ \A p \in Dirs : view'[p] # g
  BY DEF Leaked
<1>3. h \in FreeHandles /\ h \in Handle
  BY DEF FirstHandle, FreeHandles
<1>4. CASE g = h
  <2>1. ~ScanOpened(h, d)
    BY <1>2, <1>4 DEF ScanOpened, DirTypeOK
  <2> QED BY <1>1, <1>3, <1>4, <2>1 DEF ScanFailed
<1>5. CASE g # h
  <2>1. dirState[g] = 1
    BY <1>1, <1>2, <1>3, <1>5 DEF DirTypeOK
  <2>2. \A p \in Dirs : view[p] # g
    BY <1>1, <1>2, NoHandleIsNone DEF ScanOpened, ScanFailed, Scanned, DirTypeOK
  <2> QED BY <1>2, <2>1, <2>2 DEF Leaked
<1> QED BY <1>4, <1>5

(* findfirst with every handle claimed claims nothing more.                *)
LEMMA FullLeaks ==
  ASSUME DirTypeOK, NEW d \in Dirs \ Scanned, FindfirstFull(d)
  PROVE  LeakFailed
<1> SUFFICES ASSUME NEW g \in Leaked' PROVE g \in Leaked
  BY DEF LeakFailed
<1>1. g \in Handle /\ dirState[g] = 1 /\ \A p \in Dirs : view'[p] # g
  BY DEF Leaked, FindfirstFull
<1>2. \A p \in Dirs : view[p] # g
  BY <1>1, NoHandleIsNone DEF FindfirstFull, ScanOpened, ScanFailed, Scanned, DirTypeOK
<1> QED BY <1>1, <1>2 DEF Leaked

(* Closing a scan gives its handle back.                                   *)
LEMMA CloseLeaks ==
  ASSUME DirTypeOK, NEW d \in Scanned, FsysClosedir(d)
  PROVE  LeakFailed
<1> SUFFICES ASSUME NEW g \in Leaked' PROVE g \in Leaked
  BY DEF LeakFailed
<1>1. view[d] \in Handle
  BY DEF Scanned, DirTypeOK
<1>2. g \in Handle /\ dirState'[g] = 1 /\ \A p \in Dirs : view'[p] # g
  BY DEF Leaked
<1>3. g # view[d] /\ dirState[g] = 1
  BY <1>1, <1>2 DEF FsysClosedir, CloseHandle, DirTypeOK
<1>4. \A p \in Dirs : view[p] # g
  BY <1>2, <1>3 DEF FsysClosedir, DirTypeOK
<1> QED BY <1>2, <1>3, <1>4 DEF Leaked

(* A handle is lost only by an opendir or a findfirst that claims it and   *)
(* returns an error.                                                       *)
THEOREM LeaksAreFailedOpens == DirSpec => LeakOnlyByFailedOpen
<1>1. ASSUME DirTypeOK, [DirNext]_dirVars PROVE LeakFailed \/ UNCHANGED dirVars
  <2>1. ASSUME NEW d \in Dirs \ Scanned, OpendirFull(d) PROVE LeakFailed
    BY <2>1 DEF OpendirFull, LeakFailed, Leaked
  <2>2. ASSUME NEW d \in Scanned, FsysReaddir(view[d]) PROVE LeakFailed
    BY <2>2 DEF FsysReaddir, LeakFailed, Leaked
  <2> QED BY <1>1, <2>1, <2>2, ClaimLeaks, FullLeaks, CloseLeaks
          DEF DirNext, FsysOpendir, FsysFindfirst
<1>2. DirTypeOK /\ [DirNext]_dirVars => [LeakFailed]_dirVars
  BY <1>1
<1> QED BY <1>2, DirTypesKept, PTL DEF DirSpec, LeakOnlyByFailedOpen, LeakFailed

=============================================================================
