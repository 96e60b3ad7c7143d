-------------------------- MODULE DescriptorTable ---------------------------
(***************************************************************************)
(* What the channel and file system calls promise a program: a table from  *)
(* channel numbers to what they stand for (a device or an open file), in   *)
(* which a call changes the entries it names and no other, and a set of    *)
(* files with writes not yet on the disk.  No record, no file descriptor   *)
(* and no pool appears here.                                               *)
(***************************************************************************)
EXTENDS Integers

CONSTANTS
  Channel,   \* channel numbers
  Pool,      \* those given out for files
  PlainDev,  \* devices other than the file device; each has its own channel
  File,      \* the files of the disk
  Free       \* entry of a channel that is not open

VARIABLES
  table,     \* what each channel stands for
  unsaved    \* files with writes that are not on the disk

vars == <<table, unsaved>>

OpenFiles == {table[c] : c \in Channel} \cap File

Init ==
  /\ table \in [Channel -> PlainDev \cup {Free}]
  /\ unsaved = {}

OpenFile(c, f) ==
  /\ table[c] = Free
  /\ f \notin OpenFiles
  /\ table' = [table EXCEPT ![c] = f]
  /\ unsaved' = unsaved \ {f}

WriteFile(c) ==
  /\ table[c] \in File
  /\ unsaved' = unsaved \cup {table[c]}
  /\ UNCHANGED table

CommitFile(c) ==
  /\ table[c] \in File
  /\ unsaved' = unsaved \ {table[c]}
  /\ UNCHANGED table

CloseFile(c) ==
  /\ table[c] \in File
  /\ table' = [table EXCEPT ![c] = Free]
  /\ unsaved' \in {unsaved, unsaved \ {table[c]}}

(* Opening a device makes its own channel stand for it.                    *)
OpenDevice(d) ==
  /\ table' = [table EXCEPT ![d] = d]
  /\ UNCHANGED unsaved

CloseDevice(c) ==
  /\ table[c] \in PlainDev
  /\ table' = [table EXCEPT ![c] = Free]
  /\ UNCHANGED unsaved

Swap(c1, c2) ==
  /\ table[c1] # Free /\ table[c2] # Free
  /\ table' = [table EXCEPT ![c1] = table[c2], ![c2] = table[c1]]
  /\ UNCHANGED unsaved

Next ==
  \/ \E c \in Pool, f \in File : OpenFile(c, f)
  \/ \E c \in Channel : WriteFile(c) \/ CommitFile(c) \/ CloseFile(c) \/ CloseDevice(c)
  \/ \E d \in PlainDev : OpenDevice(d)
  \/ \E c1, c2 \in Channel : Swap(c1, c2)

Spec == Init /\ [][Next]_vars

=============================================================================
