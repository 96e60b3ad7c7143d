----------------------------- MODULE DriveCall -----------------------------
(***************************************************************************)
(* A call of a disk driver's read or write through src/dev/block.c: one    *)
(* sector moves between the medium and the caller's buffer.  The drivers   *)
(* (PataDrive, SdCard) fill in what happens between the call and its       *)
(* return.                                                                 *)
(***************************************************************************)
EXTENDS Integers, Sequences, FiniteSets

CONSTANTS
  Media,    \* what the sectors lie on: the hard disk, or the cards
  Lba,      \* sectors of a medium
  Data      \* contents of a sector

VARIABLES
  content,  \* external: Media -> Lba -> Data
  cell,     \* the sector of the caller's buffer the call moves
  call,     \* the arguments of the call under way: [op, lba]
  pc,       \* where the driver is; "idle" outside a call
  ret,      \* what the last call returned: "none", "ok" or "failed"
  allowed   \* history: what each sector may hold, given the calls so far

callVars == <<content, cell, call, pc, ret, allowed>>

CallInit ==
  /\ cell \in Data
  /\ content = [m \in Media |-> [l \in Lba |-> cell]]   \* blank media
  /\ call = [op |-> "none", lba |-> 0]
  /\ pc = "idle" /\ ret = "none"
  /\ allowed = [m \in Media |-> [l \in Lba |-> {content[m][l]}]]

(* bdev_read and bdev_write hand the call to the driver, at its first      *)
(* step.                                                                   *)
Begin(op, lba, entry) ==
  /\ pc = "idle"
  /\ call' = [op |-> op, lba |-> lba]
  /\ pc' = entry
  /\ ret' = "none"

Go(to) == pc' = to /\ UNCHANGED <<call, ret>>

Return(r) == pc' = "idle" /\ ret' = r /\ UNCHANGED call

(* A write may land from the moment it is asked for; one reported as done  *)
(* is all the sector may hold.                                             *)
MayHold(m, l, d) == allowed' = [allowed EXCEPT ![m][l] = @ \cup {d}]
MustHold(m, l, d) == allowed' = [allowed EXCEPT ![m][l] = {d}]

-----------------------------------------------------------------------------
(* A sector holds what was last written to it with success, or something a *)
(* failed or unfinished write since then wanted there: a transfer given up *)
(* on never lands after a later one to the same sector was reported done,  *)
(* and none lands anywhere else.                                           *)
WritesStand ==
  \A m \in Media, l \in Lba : content[m][l] \in allowed[m][l]

=============================================================================
