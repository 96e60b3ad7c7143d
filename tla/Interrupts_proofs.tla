------------------------- MODULE Interrupts_proofs -------------------------
(***************************************************************************)
(* Proofs about Interrupts for every set of lines: no interrupt is lost    *)
(* but by the two acknowledgements the model names, and the mask says what *)
(* the last calls asked for.                                               *)
(***************************************************************************)
EXTENDS Interrupts, TLAPS

(* Which lines a handler can be at work on, step by step.                  *)
HandlerShape ==
  /\ hpc = "none" => hline = {}
  /\ hpc \in {"ack", "calls"} => hline \subseteq Vicky
  /\ hpc \in {"body", "clear"} => hline \subseteq Direct
  /\ hpc # "ack" => late = {}

(* Between the dispatcher's read of the flags and its acknowledgement, a   *)
(* flag it did not read was raised since.                                  *)
SnapshotKept == hpc = "ack" => pending \cap Vicky \subseteq hline \cup late

(* A call that changes the mask has one line, and read the group's mask:   *)
(* what it read of the other lines still stands, but for those a handler   *)
(* changed meanwhile.                                                      *)
ReadStands ==
  main \in {"int_enable", "int_disable"} =>
    \E n \in Line :
      /\ mline = {n}
      /\ mread \subseteq Group(n)
      /\ \A x \in Group(n) \ ({n} \cup crossed) : x \in mread <=> x \in masked

(* The inductive invariant.                                                *)
IInv ==
  /\ TypeOK
  /\ HandlerShape
  /\ SnapshotKept
  /\ OwedAccounted
  /\ ReadStands
  /\ MaskFollowsCalls

USE LinesAssumption

(* A line belongs to its group, and the groups have no line in common.     *)
LEMMA Groups ==
  /\ Vicky \subseteq Line /\ Direct \subseteq Line
  /\ Clearers \subseteq Direct /\ Maskers \subseteq Direct /\ Cleared \subseteq Line
  /\ \A n \in Line : n \in Group(n) /\ Group(n) \subseteq Line
  /\ \A n \in Line : Group(n) \cap Direct = {} \/ Group(n) = Direct
  /\ \A n \in Direct : Group(n) = Direct
  /\ \A n \in Vicky : Group(n) = Vicky
BY DEF Line, Group

LEMMA InitIInv == Init => IInv
<1> SUFFICES ASSUME Init PROVE IInv
  OBVIOUS
<1>1. TypeOK
  BY DEF Init, TypeOK
<1>2. HandlerShape /\ SnapshotKept /\ OwedAccounted /\ ReadStands /\ MaskFollowsCalls
  BY DEF Init, HandlerShape, SnapshotKept, OwedAccounted, ReadStands, MaskFollowsCalls, Taken
<1>3. QED
  BY <1>1, <1>2 DEF IInv

-----------------------------------------------------------------------------
(* The steps of the devices and of the main program.                       *)

LEMMA RaiseStep ==
  ASSUME IInv, NEW n \in Line, Raise(n)
  PROVE  IInv'
<1> USE DEF Raise, mainVars, handlerVars
<1>1. TypeOK'
  BY DEF IInv, TypeOK
<1>2. HandlerShape' /\ SnapshotKept'
  BY DEF IInv, HandlerShape, SnapshotKept
<1>3. OwedAccounted'
  BY DEF IInv, OwedAccounted, Taken
<1>4. ReadStands' /\ MaskFollowsCalls'
  BY DEF IInv, ReadStands, MaskFollowsCalls
<1>5. QED
  BY <1>1, <1>2, <1>3, <1>4 DEF IInv

LEMMA MaskReadStep ==
  ASSUME IInv, NEW n \in Line, NEW call \in {"int_enable", "int_disable"}, MaskRead(call, n)
  PROVE  IInv'
<1> USE DEF MaskRead, handlerVars
<1>1. TypeOK'
  BY Groups DEF IInv, TypeOK
<1>2. HandlerShape' /\ SnapshotKept' /\ OwedAccounted' /\ MaskFollowsCalls'
  BY DEF IInv, HandlerShape, SnapshotKept, OwedAccounted, Taken, MaskFollowsCalls
<1>3. ReadStands'
  BY Groups DEF ReadStands
<1>4. QED
  BY <1>1, <1>2, <1>3 DEF IInv

LEMMA MaskWriteStep ==
  ASSUME IInv, MaskWrite
  PROVE  IInv'
<1> USE DEF MaskWrite, handlerVars
<1>1. PICK n \in Line :
        /\ mline = {n}
        /\ mread \subseteq Group(n)
        /\ \A x \in Group(n) \ ({n} \cup crossed) : x \in mread <=> x \in masked
  BY DEF IInv, ReadStands
<1>2. /\ masked' = (masked \ Group(n)) \cup NewMask(main, n, mread)
      /\ wanted' = IF main = "int_disable" THEN wanted \cup {n} ELSE wanted \ {n}
      /\ crossed' = crossed \ {n}
  BY <1>1
<1>3. NewMask(main, n, mread) \subseteq Group(n)
  BY <1>1, Groups DEF NewMask
<1>4. TypeOK'
  BY <1>2, <1>3, Groups DEF IInv, TypeOK
<1>5. HandlerShape' /\ SnapshotKept' /\ OwedAccounted' /\ ReadStands'
  BY DEF IInv, HandlerShape, SnapshotKept, OwedAccounted, Taken, ReadStands
<1>6. MaskFollowsCalls'
  <2> SUFFICES ASSUME NEW x \in Line \ crossed' PROVE x \in masked' <=> x \in wanted'
    BY DEF MaskFollowsCalls
  <2>1. CASE x = n
    BY <1>2, <2>1, Groups DEF NewMask
  <2>2. CASE x # n
    <3>1. x \in wanted' <=> x \in wanted
      BY <1>2, <2>2
    <3>2. x \in masked <=> x \in wanted
      BY <1>2, <2>2 DEF IInv, MaskFollowsCalls
    <3>3. x \in masked' <=> x \in masked
      BY <1>1, <1>2, <1>3, <2>2 DEF NewMask
    <3>4. QED
      BY <3>1, <3>2, <3>3
  <2>3. QED
    BY <2>1, <2>2
<1>7. QED
  BY <1>4, <1>5, <1>6 DEF IInv

LEMMA ClearReadStep ==
  ASSUME IInv, NEW n \in Cleared, ClearRead(n)
  PROVE  IInv'
<1> USE DEF ClearRead, handlerVars
<1>1. TypeOK'
  BY Groups DEF IInv, TypeOK
<1>2. HandlerShape' /\ SnapshotKept' /\ OwedAccounted' /\ MaskFollowsCalls' /\ ReadStands'
  BY DEF IInv, HandlerShape, SnapshotKept, OwedAccounted, Taken, MaskFollowsCalls, ReadStands
<1>3. QED
  BY <1>1, <1>2 DEF IInv

LEMMA ClearWriteStep ==
  ASSUME IInv, ClearWrite
  PROVE  IInv'
<1> USE DEF ClearWrite, handlerVars
<1>1. TypeOK'
  BY DEF IInv, TypeOK
<1>2. HandlerShape' /\ SnapshotKept' /\ MaskFollowsCalls' /\ ReadStands'
  BY DEF IInv, HandlerShape, SnapshotKept, MaskFollowsCalls, ReadStands
<1>3. OwedAccounted'
  BY DEF IInv, OwedAccounted, Taken
<1>4. QED
  BY <1>1, <1>2, <1>3 DEF IInv

-----------------------------------------------------------------------------
(* The steps of the handlers of group 1.                                   *)

LEMMA DispatchStep ==
  ASSUME IInv, NEW n \in Direct, Dispatch(n)
  PROVE  IInv'
<1> USE DEF Dispatch, mainVars
<1>1. TypeOK'
  BY Groups DEF IInv, TypeOK
<1>2. HandlerShape' /\ SnapshotKept' /\ MaskFollowsCalls' /\ ReadStands'
  BY DEF IInv, HandlerShape, SnapshotKept, MaskFollowsCalls, ReadStands
<1>3. OwedAccounted'
  BY DEF IInv, OwedAccounted, Taken
<1>4. QED
  BY <1>1, <1>2, <1>3 DEF IInv

LEMMA ReturnStep ==
  ASSUME IInv, HandlerReturns \/ HandlerClearRead
  PROVE  IInv'
<1> USE DEF HandlerReturns, HandlerClearRead, mainVars
<1>1. TypeOK'
  BY DEF IInv, TypeOK
<1>2. HandlerShape' /\ SnapshotKept'
  BY DEF IInv, HandlerShape, SnapshotKept
<1>3. MaskFollowsCalls' /\ ReadStands'
  BY DEF IInv, MaskFollowsCalls, ReadStands
<1>4. OwedAccounted'
  <2>1. Taken = {} /\ Taken' = {}
    BY DEF Taken
  <2>2. QED
    BY <2>1 DEF IInv, OwedAccounted
<1>5. QED
  BY <1>1, <1>2, <1>3, <1>4 DEF IInv

(* A handler masks its line: inside a change of its group's mask the line  *)
(* is noted as crossed, inside one of the other group's it is not in what  *)
(* that call read.                                                         *)
LEMMA HandlerMasksStep ==
  ASSUME IInv, HandlerMasks
  PROVE  IInv'
<1> USE DEF HandlerMasks
<1>1. hline \subseteq Direct
  BY Groups
<1>2. TypeOK'
  BY <1>1, Groups DEF IInv, TypeOK, mainVars
<1>3. HandlerShape' /\ SnapshotKept'
  BY DEF IInv, HandlerShape, SnapshotKept
<1>4. OwedAccounted'
  BY DEF IInv, OwedAccounted, Taken
<1>5. MaskFollowsCalls'
  BY DEF IInv, MaskFollowsCalls
<1>6. ReadStands'
  <2> SUFFICES ASSUME main \in {"int_enable", "int_disable"} PROVE ReadStands'
    BY DEF mainVars, ReadStands
  <2>1. PICK n \in Line :
          /\ mline = {n}
          /\ mread \subseteq Group(n)
          /\ \A x \in Group(n) \ ({n} \cup crossed) : x \in mread <=> x \in masked
    BY DEF IInv, ReadStands
  <2>2. mline' = {n} /\ mread' \subseteq Group(n)
    BY <2>1 DEF mainVars
  <2>3. ASSUME NEW x \in Group(n) \ ({n} \cup crossed') PROVE x \in mread' <=> x \in masked'
    <3>1. x \notin hline
      <4>1. CASE n \in Direct
        BY <2>1, <2>3, <4>1
      <4>2. CASE n \in Vicky
        BY <1>1, <2>3, <4>2 DEF Group
      <4>3. QED
        BY <4>1, <4>2 DEF Line
    <3>2. x \notin crossed
      BY <2>3
    <3>3. QED
      BY <2>1, <2>3, <3>1, <3>2 DEF mainVars
  <2>4. QED
    BY <2>2, <2>3 DEF ReadStands
<1>7. QED
  BY <1>2, <1>3, <1>4, <1>5, <1>6 DEF IInv

LEMMA HandlerClearWriteStep ==
  ASSUME IInv, HandlerClearWrite
  PROVE  IInv'
<1> USE DEF HandlerClearWrite, mainVars
<1>1. TypeOK'
  BY DEF IInv, TypeOK
<1>2. HandlerShape' /\ SnapshotKept' /\ MaskFollowsCalls' /\ ReadStands'
  BY DEF IInv, HandlerShape, SnapshotKept, MaskFollowsCalls, ReadStands
<1>3. OwedAccounted'
  BY DEF IInv, OwedAccounted, Taken
<1>4. QED
  BY <1>1, <1>2, <1>3 DEF IInv

-----------------------------------------------------------------------------
(* The steps of group 0's dispatcher.                                      *)

LEMMA ChannelAStep ==
  ASSUME IInv, ChannelASnapshot \/ ChannelAAck \/ ChannelACalls
  PROVE  IInv'
<1> USE DEF ChannelASnapshot, ChannelAAck, ChannelACalls, mainVars
<1>1. TypeOK'
  BY Groups DEF IInv, TypeOK
<1>2. HandlerShape' /\ SnapshotKept'
  BY DEF IInv, HandlerShape, SnapshotKept
<1>3. MaskFollowsCalls' /\ ReadStands'
  BY DEF IInv, MaskFollowsCalls, ReadStands
<1>4. CASE ChannelASnapshot
  <2>1. OwedAccounted'
    BY <1>4 DEF IInv, OwedAccounted, Taken
  <2>2. QED
    BY <1>1, <1>2, <1>3, <2>1 DEF IInv
<1>5. CASE ChannelAAck
  <2>1. OwedAccounted'
    BY <1>5 DEF IInv, TypeOK, SnapshotKept, OwedAccounted, Taken
  <2>2. QED
    BY <1>1, <1>2, <1>3, <2>1 DEF IInv
<1>6. CASE ChannelACalls
  <2>1. OwedAccounted'
    BY <1>6 DEF IInv, OwedAccounted, Taken
  <2>2. QED
    BY <1>1, <1>2, <1>3, <2>1 DEF IInv
<1>7. QED
  BY <1>4, <1>5, <1>6

LEMMA NextIInv == IInv /\ [Next]_vars => IInv'
<1> SUFFICES ASSUME IInv, [Next]_vars PROVE IInv'
  OBVIOUS
<1>1. CASE UNCHANGED vars
  BY <1>1 DEF vars, mainVars, handlerVars, IInv, TypeOK, HandlerShape, SnapshotKept,
     OwedAccounted, Taken, ReadStands, MaskFollowsCalls
<1>2. CASE Next
  BY <1>2, RaiseStep, MaskReadStep, MaskWriteStep, ClearReadStep, ClearWriteStep,
     DispatchStep, ReturnStep, HandlerMasksStep, HandlerClearWriteStep, ChannelAStep
     DEF Next
<1>3. QED
  BY <1>1, <1>2

-----------------------------------------------------------------------------
LEMMA Invariance == Spec => []IInv
BY InitIInv, NextIInv, PTL DEF Spec

(* An interrupt is lost only where the code acknowledges what it has not   *)
(* read, or has read and does not handle: by an int_clear of another line  *)
(* of the group, or between channel A's read and its acknowledgement.      *)
THEOREM InterruptsAccounted == Spec => []OwedAccounted
<1>1. IInv => OwedAccounted
  BY DEF IInv
<1>2. QED
  BY <1>1, Invariance, PTL

(* Whatever interleaving of int_enable, int_disable and the handlers, a    *)
(* line is masked as its last call said, unless that was a handler's call  *)
(* inside another change of the group's mask.                              *)
THEOREM MaskIsAsCalled == Spec => []MaskFollowsCalls
<1>1. IInv => MaskFollowsCalls
  BY DEF IInv
<1>2. QED
  BY <1>1, Invariance, PTL

=============================================================================
