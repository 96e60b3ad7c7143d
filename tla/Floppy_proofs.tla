--------------------------- MODULE Floppy_proofs ---------------------------
(***************************************************************************)
(* Proofs about the floppy: its motor (FdcMotor), for every Timeout,       *)
(* CommandTime and MaxCalls, and the change of disks (FloppyMedia), for    *)
(* any disks and files.                                                    *)
(*                                                                         *)
(* The watchdog and fdc_motor_on communicate through the stop time alone.  *)
(* The invariant says what the main program's local variable needs may     *)
(* claim at each point: while a stop time is about to be set, needs is     *)
(* right about whether a watchdog is installed, or "missed" records that   *)
(* the watchdog has run since; and a stop time that was just set cannot    *)
(* have expired before Timeout jiffies.                                    *)
(***************************************************************************)
EXTENDS FdcMotor, FloppyMedia, TLAPS

(* The stop time is as far ahead as the last setting of it allows.         *)
TimeAhead == offTime # NotSet => offTime >= Timeout - since

(* An installed watchdog has a stop time to wait for, except at the end of *)
(* fdc_motor_off; one that needs to be installed is not installed yet.     *)
ArmedHasTime ==
  /\ armed /\ pc # "remove" => offTime # NotSet
  /\ pc \in {"set", "register"} /\ needs => ~armed
  /\ pc = "register" /\ needs => offTime # NotSet
  /\ pc = "remove" => offTime = NotSet

(* What the driver knows about the watchdog at each of its steps.          *)
WatchdogKnown ==
  \/ missed
  \/ /\ pc \notin {"set", "register", "clear", "remove"} =>
          /\ armed <=> offTime # NotSet
     /\ pc = "set" => /\ needs <=> ~armed
                      /\ armed <=> offTime # NotSet
     /\ pc = "register" => IF needs THEN ~armed /\ offTime # NotSet
                                    ELSE (armed <=> offTime # NotSet)
     /\ pc = "clear" => (armed <=> offTime # NotSet)

(* A running motor is watched, or about to be.                             *)
MotorCovered ==
  /\ motor /\ pc \in {"idle", "command", "reset"} => armed \/ missed
  /\ motor /\ pc = "register" => armed \/ needs \/ missed
  /\ pc \in {"clear", "remove", "configure"} => ~motor

(* After a stop time is set the motor is on, unless the watchdog was in    *)
(* between.                                                                *)
MotorUp ==
  /\ pc \in {"ready", "check", "set", "register"} => motor \/ stopped
  /\ pc = "command" /\ since < Timeout => motor \/ stopped

IInv == TypeOK /\ TimeAhead /\ ArmedHasTime /\ WatchdogKnown /\ MotorCovered /\ MotorUp

-----------------------------------------------------------------------------
(* The driver starts with the motor off and no watchdog.                   *)
LEMMA InitIInv == Init => IInv
<1> USE MotorAssumption DEF Init, NotSet
<1>1. Init => Flags
  BY DEF Flags
<1>2. Init => Times
  BY DEF Times
<1>3. Init => Steps
  BY DEF Steps
<1>4. Init => TimeAhead /\ ArmedHasTime /\ MotorCovered /\ MotorUp
  BY DEF TimeAhead, ArmedHasTime, MotorCovered, MotorUp
<1>5. Init => WatchdogKnown
  BY DEF WatchdogKnown
<1> QED BY <1>1, <1>2, <1>3, <1>4, <1>5 DEF IInv, TypeOK

(* Every step keeps the ranges.                                            *)
LEMMA TypeStep ==
  ASSUME TypeOK, Next
  PROVE  TypeOK'
<1> USE DEF Next, Main, Call, SwitchOn, MotorReady, CheckHandler, SetOffTime,
         RegisterWatchdog, CommandDone, Reset, Configure, ClearOffTime,
         RemoveWatchdog, CallReset, CallOff, Watchdog, WatchdogCut, Tick
<1>1. Flags'
  BY DEF TypeOK, Flags
<1>2. Times'
  BY MotorAssumption DEF TypeOK, Times, NotSet
<1>3. Steps'
  BY DEF TypeOK, Steps
<1> QED BY <1>1, <1>2, <1>3 DEF TypeOK

(* A stop time moves away only by being set anew.                          *)
LEMMA TimeAheadStep ==
  ASSUME TypeOK, TimeAhead, Next
  PROVE  TimeAhead'
BY MotorAssumption DEF TypeOK, Times, TimeAhead, NotSet,
   Next, Main, Call, SwitchOn, MotorReady, CheckHandler, SetOffTime,
         RegisterWatchdog, CommandDone, Reset, Configure, ClearOffTime,
         RemoveWatchdog, CallReset, CallOff, Watchdog, WatchdogCut, Tick

(* The watchdog is never left with nothing to wait for.                    *)
LEMMA ArmedHasTimeStep ==
  ASSUME TypeOK, TypeOK', ArmedHasTime, Next
  PROVE  ArmedHasTime'
BY MotorAssumption DEF TypeOK, Flags, Times, Steps, ArmedHasTime, NotSet,
   Next, Main, Call, SwitchOn, MotorReady, CheckHandler, SetOffTime,
         RegisterWatchdog, CommandDone, Reset, Configure, ClearOffTime,
         RemoveWatchdog, CallReset, CallOff, Watchdog, WatchdogCut, Tick

(* What the main program knows of the watchdog survives the interrupt.     *)
LEMMA WatchdogKnownStep ==
  ASSUME TypeOK, TypeOK', ArmedHasTime, WatchdogKnown, Next
  PROVE  WatchdogKnown'
<1> USE MotorAssumption DEF TypeOK, Flags, Times, Steps, ArmedHasTime, WatchdogKnown, NotSet
<1>1. ASSUME NEW follow \in {"idle", "command"}, Call(follow) PROVE WatchdogKnown'
  BY <1>1 DEF Call
<1>2. CASE SwitchOn
  BY <1>2 DEF SwitchOn
<1>3. CASE MotorReady
  BY <1>3 DEF MotorReady
<1>4. CASE CheckHandler
  BY <1>4 DEF CheckHandler
<1>5. CASE SetOffTime
  BY <1>5 DEF SetOffTime
<1>6. CASE RegisterWatchdog
  BY <1>6 DEF RegisterWatchdog
<1>7. CASE CommandDone
  BY <1>7 DEF CommandDone
<1>8. CASE Reset
  BY <1>8 DEF Reset
<1>9. CASE Configure
  BY <1>9 DEF Configure
<1>10. CASE ClearOffTime
  BY <1>10 DEF ClearOffTime
<1>11. CASE RemoveWatchdog
  BY <1>11 DEF RemoveWatchdog
<1>12. CASE CallReset
  BY <1>12 DEF CallReset
<1>13. CASE CallOff
  BY <1>13 DEF CallOff
<1>14. CASE Watchdog
  BY <1>14 DEF Watchdog, Expired
<1>15. CASE WatchdogCut
  BY <1>15 DEF WatchdogCut, Expired
<1>16. CASE Tick
  BY <1>16 DEF Tick
<1> QED BY <1>1, <1>2, <1>3, <1>4, <1>5, <1>6, <1>7, <1>8, <1>9, <1>10, <1>11, <1>12, <1>13, <1>14, <1>15, <1>16 DEF Next, Main

(* No step leaves a running motor without a watchdog.                      *)
LEMMA MotorCoveredStep ==
  ASSUME TypeOK, TypeOK', WatchdogKnown, MotorCovered, Next
  PROVE  MotorCovered'
<1> USE DEF TypeOK, Flags, Steps, WatchdogKnown, MotorCovered
<1>1. ASSUME NEW follow \in {"idle", "command"}, Call(follow) PROVE MotorCovered'
  BY <1>1 DEF Call
<1>2. CASE SwitchOn
  BY <1>2 DEF SwitchOn
<1>3. CASE MotorReady
  BY <1>3 DEF MotorReady
<1>4. CASE CheckHandler
  BY <1>4 DEF CheckHandler
<1>5. CASE SetOffTime
  BY <1>5 DEF SetOffTime
<1>6. CASE RegisterWatchdog
  BY <1>6 DEF RegisterWatchdog
<1>7. CASE CommandDone
  BY <1>7 DEF CommandDone
<1>8. CASE Reset
  BY <1>8 DEF Reset
<1>9. CASE Configure
  BY <1>9 DEF Configure
<1>10. CASE ClearOffTime
  BY <1>10 DEF ClearOffTime
<1>11. CASE RemoveWatchdog
  BY <1>11 DEF RemoveWatchdog
<1>12. CASE CallReset
  BY <1>12 DEF CallReset
<1>13. CASE CallOff
  BY <1>13 DEF CallOff
<1>14. CASE Watchdog
  BY <1>14 DEF Watchdog, Expired
<1>15. CASE WatchdogCut
  BY <1>15 DEF WatchdogCut, Expired
<1>16. CASE Tick
  BY <1>16 DEF Tick
<1> QED BY <1>1, <1>2, <1>3, <1>4, <1>5, <1>6, <1>7, <1>8, <1>9, <1>10, <1>11, <1>12, <1>13, <1>14, <1>15, <1>16 DEF Next, Main

(* The motor a command asked for is stopped early only inside fdc_motor_on. *)
LEMMA MotorUpStep ==
  ASSUME TypeOK, TypeOK', TimeAhead, ArmedHasTime, MotorUp, Next
  PROVE  MotorUp'
<1> USE MotorAssumption DEF TypeOK, Flags, Times, Steps, TimeAhead, ArmedHasTime, MotorUp, NotSet
<1>1. ASSUME NEW follow \in {"idle", "command"}, Call(follow) PROVE MotorUp'
  BY <1>1 DEF Call
<1>2. CASE SwitchOn
  BY <1>2 DEF SwitchOn
<1>3. CASE MotorReady
  BY <1>3 DEF MotorReady
<1>4. CASE CheckHandler
  BY <1>4 DEF CheckHandler
<1>5. CASE SetOffTime
  BY <1>5 DEF SetOffTime
<1>6. CASE RegisterWatchdog
  BY <1>6 DEF RegisterWatchdog
<1>7. CASE CommandDone
  BY <1>7 DEF CommandDone
<1>8. CASE Reset
  BY <1>8 DEF Reset
<1>9. CASE Configure
  BY <1>9 DEF Configure
<1>10. CASE ClearOffTime
  BY <1>10 DEF ClearOffTime
<1>11. CASE RemoveWatchdog
  BY <1>11 DEF RemoveWatchdog
<1>12. CASE CallReset
  BY <1>12 DEF CallReset
<1>13. CASE CallOff
  BY <1>13 DEF CallOff
<1>14. CASE Watchdog
  BY <1>14 DEF Watchdog, Expired
<1>15. CASE WatchdogCut
  <2>1. CASE pc = "command"
    BY <1>15, <2>1 DEF WatchdogCut, Expired
  <2>2. CASE pc # "command"
    BY <1>15, <2>2, Zenon DEF WatchdogCut
  <2> QED BY <2>1, <2>2
<1>16. CASE Tick
  BY <1>16 DEF Tick
<1> QED BY <1>1, <1>2, <1>3, <1>4, <1>5, <1>6, <1>7, <1>8, <1>9, <1>10, <1>11, <1>12, <1>13, <1>14, <1>15, <1>16 DEF Next, Main

LEMMA NextIInv ==
  ASSUME IInv, [Next]_vars
  PROVE  IInv'
<1>1. CASE Next
  BY <1>1, TypeStep, TimeAheadStep, ArmedHasTimeStep, WatchdogKnownStep, MotorCoveredStep, MotorUpStep DEF IInv
<1>2. CASE UNCHANGED vars
  <2> USE <1>2 DEF vars, IInv
  <2>1. TypeOK'
    BY DEF TypeOK, Flags, Times, Steps
  <2>2. TimeAhead' /\ MotorCovered' /\ MotorUp'
    BY DEF TimeAhead, MotorCovered, MotorUp
  <2>3. ArmedHasTime'
    BY DEF ArmedHasTime
  <2>4. WatchdogKnown'
    BY DEF WatchdogKnown
  <2> QED BY <2>1, <2>2, <2>3, <2>4
<1> QED BY <1>1, <1>2

-----------------------------------------------------------------------------
(* The strengthened invariant holds in every reachable state.              *)
THEOREM Invariance == Spec => []IInv
  BY InitIInv, NextIInv, PTL DEF Spec

(* Every variable stays in its range.                                      *)
THEOREM TypeCorrect == Spec => []TypeOK
  BY Invariance, PTL DEF IInv

(* fdc_motor_on leaves the motor on for the command that follows, unless   *)
(* the watchdog ran inside it.                                             *)
THEOREM CommandHasMotor == Spec => []MotorOnForCommand
<1>1. IInv => MotorOnForCommand
  BY DEF IInv, MotorUp, MotorOnForCommand
<1> QED BY <1>1, Invariance, PTL

(* No motor is left running unwatched, but for the two recorded causes.    *)
THEOREM RestingMotorWatched == Spec => []MotorWatched
<1>1. IInv => MotorWatched
  BY DEF IInv, MotorCovered, MotorWatched
<1> QED BY <1>1, Invariance, PTL

(* The test "fdc_motor_off_time == 0" decides rightly whether the watchdog *)
(* is to be installed, but for the same causes.                            *)
THEOREM OffTimeMeansArmed == Spec => []ArmedWithOffTime
<1>1. IInv => ArmedWithOffTime
  BY DEF IInv, WatchdogKnown, ArmedWithOffTime
<1> QED BY <1>1, Invariance, PTL

(* The watchdog never stops the motor within Timeout of a request.         *)
THEOREM WatchdogNotEarly == Spec => NoEarlyStop
<1>1. ASSUME IInv, [Next]_vars
      PROVE  motor /\ ~motor' /\ UNCHANGED <<pc, calls>> => since >= Timeout
  <2> SUFFICES ASSUME motor, ~motor', UNCHANGED <<pc, calls>>
               PROVE  since >= Timeout
    OBVIOUS
  <2>1. Expired /\ armed
    <3>1. Next
      BY <1>1 DEF vars
    <3>2. ~(\E follow \in {"idle", "command"} : Call(follow)) /\ ~CallReset /\ ~CallOff
      <4>1. calls' # calls + 1
        BY <1>1 DEF IInv, TypeOK, Times
      <4> QED BY <4>1 DEF Call, CallReset, CallOff
    <3>3. ~Tick /\ ~Main
      BY DEF Tick, Main, SwitchOn, MotorReady, CheckHandler, SetOffTime, RegisterWatchdog,
             CommandDone, Reset, Configure, ClearOffTime, RemoveWatchdog
    <3> QED BY <3>1, <3>2, <3>3 DEF Next, Watchdog, WatchdogCut
  <2>2. offTime # NotSet
    BY <1>1, <2>1 DEF IInv, ArmedHasTime, MotorCovered
  <2> QED BY <1>1, <2>1, <2>2, MotorAssumption DEF IInv, TypeOK, Times, TimeAhead, Expired, NotSet
<1> QED BY <1>1, Invariance, PTL DEF NoEarlyStop, Spec

-----------------------------------------------------------------------------
(* The change of disks.  While a call of a path waits for FatFs to look at *)
(* the flag, a mount that is not of the disk in the drive is flagged; a    *)
(* volume being mounted has no open files, and no open file is without a   *)
(* volume.                                                                 *)
MountPending ==
  call = "mount" /\ steady /\ mounted # None /\ ~noinit => mounted = drive \/ hidden

ProbeEmpty == call = "probe" => mounted = None /\ live = {}

LiveMounted == live # {} => mounted # None

MediaInv ==
  /\ MediaTypeOK
  /\ ChangeNoticed
  /\ FilesOfMounted
  /\ PathCallsRight
  /\ MountPending
  /\ ProbeEmpty
  /\ LiveMounted

LEMMA MediaInitInv == MediaInit => MediaInv
<1> SUFFICES ASSUME MediaInit PROVE MediaInv
  OBVIOUS
<1>1. 0 \in 0 .. MaxSwaps
  BY MediaAssumption
<1>2. MediaTypeOK
  BY <1>1 DEF MediaInit, MediaTypeOK
<1>3. QED
  BY <1>2 DEF MediaInit, MediaInv, ChangeNoticed, FilesOfMounted, PathCallsRight,
     MountPending, ProbeEmpty, LiveMounted

(* What the driver makes of the line: a change it has a sign of stays      *)
(* signed for, and is flagged.                                             *)
LEMMA CheckChangeKeeps ==
  ASSUME line \in BOOLEAN, noinit \in BOOLEAN,
         NEW l \in BOOLEAN, NEW n \in BOOLEAN, CheckChange(l, n)
  PROVE  line \/ noinit => n
<1>1. CASE line
  BY <1>1 DEF CheckChange
<1>2. CASE ~line
  BY <1>2 DEF CheckChange
<1>3. QED
  BY <1>1, <1>2

LEMMA CheckChangeType ==
  ASSUME line \in BOOLEAN, noinit \in BOOLEAN, NEW l, NEW n, CheckChange(l, n)
  PROVE  l \in BOOLEAN /\ n \in BOOLEAN
<1>1. Stepped \subseteq BOOLEAN
  BY DEF Stepped
<1>2. CASE line
  BY <1>1, <1>2 DEF CheckChange
<1>3. CASE ~line
  BY <1>3 DEF CheckChange
<1>4. QED
  BY <1>2, <1>3

(* fdc_init types the line and the flag.                                   *)
LEMMA InitDeviceType ==
  ASSUME line \in BOOLEAN, noinit \in BOOLEAN, NEW ok \in BOOLEAN, InitDevice(ok)
  PROVE  line' \in BOOLEAN /\ noinit' \in BOOLEAN
<1>1. Stepped \subseteq BOOLEAN
  BY DEF Stepped
<1>2. QED
  BY <1>1 DEF InitDevice

(* A transfer that succeeds loses no sign of a change.                     *)
LEMMA DoneKeepsSign ==
  ASSUME MediaTypeOK, TransferDone
  PROVE  /\ drive # None /\ line' \in BOOLEAN /\ noinit' \in BOOLEAN
         /\ line \/ noinit => noinit'
         /\ hidden' = hidden
<1>1. line' \in BOOLEAN /\ noinit' \in BOOLEAN
  BY CheckChangeType DEF MediaTypeOK, TransferDone
<1>2. line \/ noinit => noinit'
  BY <1>1, CheckChangeKeeps DEF MediaTypeOK, TransferDone
<1>3. QED
  BY <1>1, <1>2 DEF TransferDone

(* A transfer that fails loses one only in hidden's sense.                 *)
LEMMA FailKeepsSign ==
  ASSUME MediaTypeOK, TransferFails
  PROVE  /\ line' \in BOOLEAN /\ noinit' \in BOOLEAN /\ hidden' \in BOOLEAN
         /\ hidden => hidden'
         /\ mounted # None /\ (line \/ noinit) => noinit' \/ hidden'
<1>1. PICK l \in BOOLEAN, n \in BOOLEAN :
        /\ CheckChange(l, n)
        /\ \/ MayFail /\ line' = l /\ noinit' = n /\ UNCHANGED hidden
           \/ /\ line' \in {drive = None, l}
              /\ noinit' = FALSE
              /\ hidden' = (hidden \/ (n /\ mounted # None))
  BY DEF TransferFails
<1>2. line \/ noinit => n
  BY <1>1, CheckChangeKeeps DEF MediaTypeOK
<1>3. CASE line' = l /\ noinit' = n /\ hidden' = hidden
  BY <1>2, <1>3 DEF MediaTypeOK
<1>4. CASE /\ line' \in {drive = None, l}
           /\ noinit' = FALSE
           /\ hidden' = (hidden \/ (n /\ mounted # None))
  BY <1>2, <1>4 DEF MediaTypeOK
<1>5. QED
  BY <1>1, <1>3, <1>4

-----------------------------------------------------------------------------
(* Each action keeps the invariant.                                        *)

LEMMA MediaSwapStep == ASSUME MediaInv, Swap PROVE MediaInv'
<1> USE DEF Swap, fatVars
<1>1. swaps' \in 0 .. MaxSwaps
  BY MediaAssumption DEF MediaInv, MediaTypeOK
<1>2. drive' \in Disk \cup {None}
  BY DEF MediaInv, MediaTypeOK
<1>3. MediaTypeOK'
  BY <1>1, <1>2 DEF MediaInv, MediaTypeOK
<1>4. QED
  BY <1>3 DEF MediaInv, ChangeNoticed, FilesOfMounted, PathCallsRight,
     MountPending, ProbeEmpty, LiveMounted

LEMMA PathCallStep == ASSUME MediaInv, PathCall PROVE MediaInv'
<1>1. /\ line' \in BOOLEAN /\ noinit' \in BOOLEAN
      /\ CheckChange(line', noinit')
      /\ call' = "mount" /\ steady' = TRUE
      /\ UNCHANGED <<drive, mounted, live, origin, hidden, misplaced, swaps>>
  BY CheckChangeType DEF MediaInv, MediaTypeOK, PathCall
<1>2. line \/ noinit => noinit'
  BY <1>1, CheckChangeKeeps DEF MediaInv, MediaTypeOK
<1>3. MediaTypeOK'
  BY <1>1 DEF MediaInv, MediaTypeOK
<1>4. QED
  BY <1>1, <1>2, <1>3 DEF MediaInv, ChangeNoticed, FilesOfMounted, PathCallsRight,
     MountPending, ProbeEmpty, LiveMounted

LEMMA MountStep == ASSUME MediaInv, MountKept \/ MountAgain PROVE MediaInv'
<1>1. CASE MountKept
  <2> USE <1>1 DEF MountKept, driverVars, history
  <2>1. MediaTypeOK'
    BY DEF MediaInv, MediaTypeOK
  <2>2. QED
    BY <2>1 DEF MediaInv, ChangeNoticed, FilesOfMounted, PathCallsRight,
       MountPending, ProbeEmpty, LiveMounted
<1>2. CASE MountAgain
  <2>1. PICK ok \in BOOLEAN : InitDevice(ok) /\ call' = IF ok THEN "probe" ELSE "none"
    BY <1>2 DEF MountAgain
  <2>2. line' \in BOOLEAN /\ noinit' \in BOOLEAN
    BY <2>1, InitDeviceType DEF MediaInv, MediaTypeOK
  <2>3. /\ call' \in {"probe", "none"} /\ mounted' = None /\ live' = {} /\ hidden' = FALSE
        /\ UNCHANGED <<drive, origin, steady, misplaced, swaps>>
    BY <1>2, <2>1 DEF MountAgain
  <2>4. MediaTypeOK'
    BY <2>2, <2>3 DEF MediaInv, MediaTypeOK
  <2>5. QED
    BY <2>3, <2>4 DEF MediaInv, ChangeNoticed, FilesOfMounted, PathCallsRight,
       MountPending, ProbeEmpty, LiveMounted
<1>3. QED
  BY <1>1, <1>2

LEMMA ProbeStep == ASSUME MediaInv, ProbeDone \/ ProbeFails PROVE MediaInv'
<1>1. CASE ProbeDone
  <2>1. /\ drive # None /\ line' \in BOOLEAN /\ noinit' \in BOOLEAN /\ hidden' = hidden
        /\ call = "probe" /\ mounted' = drive /\ call' = "io"
        /\ UNCHANGED <<drive, live, origin, steady, misplaced, swaps>>
    BY <1>1, DoneKeepsSign DEF ProbeDone, MediaInv
  <2>2. MediaTypeOK'
    BY <2>1 DEF MediaInv, MediaTypeOK
  <2>3. QED
    BY <2>1, <2>2 DEF MediaInv, ChangeNoticed, FilesOfMounted, PathCallsRight,
       MountPending, ProbeEmpty, LiveMounted
<1>2. CASE ProbeFails
  <2>1. /\ line' \in BOOLEAN /\ noinit' \in BOOLEAN /\ hidden' \in BOOLEAN
        /\ call = "probe" /\ call' = "none"
        /\ UNCHANGED <<drive, mounted, live, origin, steady, misplaced, swaps>>
    BY <1>2, FailKeepsSign DEF ProbeFails, MediaInv
  <2>2. MediaTypeOK'
    BY <2>1 DEF MediaInv, MediaTypeOK
  <2>3. QED
    BY <2>1, <2>2 DEF MediaInv, ChangeNoticed, FilesOfMounted, PathCallsRight,
       MountPending, ProbeEmpty, LiveMounted
<1>3. QED
  BY <1>1, <1>2

(* A transfer, of a program's or of FatFs's, that succeeds.                *)
LEMMA DoneStep ==
  ASSUME MediaInv, (RawRead /\ TransferDone) \/ (\E write \in BOOLEAN : Transfer(write))
  PROVE  MediaInv'
<1>1. /\ TransferDone
      /\ UNCHANGED <<drive, fatVars, steady, swaps>>
      /\ misplaced' \in BOOLEAN
  BY DEF RawRead, Transfer, MediaInv, MediaTypeOK
<1>2. /\ line' \in BOOLEAN /\ noinit' \in BOOLEAN /\ hidden' = hidden
      /\ line \/ noinit => noinit'
  BY <1>1, DoneKeepsSign DEF MediaInv
<1>3. MediaTypeOK'
  BY <1>1, <1>2 DEF MediaInv, MediaTypeOK, fatVars
<1>4. QED
  BY <1>1, <1>2, <1>3 DEF MediaInv, ChangeNoticed, FilesOfMounted, PathCallsRight,
     MountPending, ProbeEmpty, LiveMounted, fatVars

LEMMA FailStep ==
  ASSUME MediaInv, (RawRead /\ TransferFails) \/ TransferError
  PROVE  MediaInv'
<1>1. /\ TransferFails
      /\ call' = "none"
      /\ UNCHANGED <<drive, mounted, live, origin, steady, misplaced, swaps>>
  BY DEF RawRead, TransferError, fatVars
<1>2. /\ line' \in BOOLEAN /\ noinit' \in BOOLEAN /\ hidden' \in BOOLEAN
      /\ hidden => hidden'
      /\ mounted # None /\ (line \/ noinit) => noinit' \/ hidden'
  BY <1>1, FailKeepsSign DEF MediaInv
<1>3. MediaTypeOK'
  BY <1>1, <1>2 DEF MediaInv, MediaTypeOK
<1>4. QED
  BY <1>1, <1>2, <1>3 DEF MediaInv, ChangeNoticed, FilesOfMounted, PathCallsRight,
     MountPending, ProbeEmpty, LiveMounted

LEMMA RawInitStep == ASSUME MediaInv, RawInit PROVE MediaInv'
<1>1. PICK ok \in BOOLEAN : InitDevice(ok)
  BY DEF RawInit
<1>2. line' \in BOOLEAN /\ noinit' \in BOOLEAN
  BY <1>1, InitDeviceType DEF MediaInv, MediaTypeOK
<1>3. /\ hidden' = (hidden \/ ((noinit \/ line) /\ mounted # None))
      /\ call = "none"
      /\ UNCHANGED <<drive, mounted, live, origin, call, steady, misplaced, swaps>>
  BY DEF RawInit, fatVars
<1>4. hidden' \in BOOLEAN /\ (mounted # None /\ (line \/ noinit) => hidden') /\ (hidden => hidden')
  BY <1>3 DEF MediaInv, MediaTypeOK
<1>5. /\ call' = "none"
      /\ UNCHANGED <<drive, mounted, live, origin, steady, misplaced, swaps>>
  BY <1>3
<1>6. MediaTypeOK'
  BY <1>2, <1>4, <1>5 DEF MediaInv, MediaTypeOK
<1>7. QED
  BY <1>4, <1>5, <1>6 DEF MediaInv, ChangeNoticed, FilesOfMounted, PathCallsRight,
     MountPending, ProbeEmpty, LiveMounted

LEMMA FileStep ==
  ASSUME MediaInv, FileCall \/ EndCall \/ (\E f \in File : EndOpen(f))
  PROVE  MediaInv'
<1> USE DEF driverVars, history
<1>1. CASE FileCall \/ EndCall
  <2>1. MediaTypeOK'
    BY <1>1 DEF FileCall, EndCall, MediaInv, MediaTypeOK, LiveMounted
  <2>2. QED
    BY <1>1, <2>1 DEF FileCall, EndCall, MediaInv, ChangeNoticed, FilesOfMounted,
       PathCallsRight, MountPending, ProbeEmpty, LiveMounted
<1>2. ASSUME NEW f \in File, EndOpen(f) PROVE MediaInv'
  <2>1. MediaTypeOK'
    BY <1>2 DEF EndOpen, MediaInv, MediaTypeOK
  <2>2. FilesOfMounted'
    BY <1>2 DEF EndOpen, MediaInv, MediaTypeOK, FilesOfMounted
  <2>3. LiveMounted'
    BY <1>2 DEF EndOpen, MediaInv, MediaTypeOK, LiveMounted
  <2>4. QED
    BY <1>2, <2>1, <2>2, <2>3 DEF EndOpen, MediaInv, ChangeNoticed, PathCallsRight,
       MountPending, ProbeEmpty
<1>3. QED
  BY <1>1, <1>2

LEMMA MediaNextInv == MediaInv /\ [MediaNext]_mediaVars => MediaInv'
<1> SUFFICES ASSUME MediaInv, [MediaNext]_mediaVars PROVE MediaInv'
  OBVIOUS
<1>1. CASE UNCHANGED mediaVars
  BY <1>1 DEF mediaVars, MediaInv, MediaTypeOK, ChangeNoticed, FilesOfMounted,
     PathCallsRight, MountPending, ProbeEmpty, LiveMounted
<1>2. CASE RawRead
  <2>1. TransferDone \/ TransferFails
    BY <1>2 DEF RawRead
  <2>2. QED
    BY <1>2, <2>1, DoneStep, FailStep
<1>3. QED
  BY <1>1, <1>2, MediaSwapStep, PathCallStep, MountStep, ProbeStep, DoneStep, FailStep,
     RawInitStep, FileStep DEF MediaNext

LEMMA MediaInvariance == MediaSpec => []MediaInv
BY MediaInitInv, MediaNextInv, PTL DEF MediaSpec

(* A changed floppy is not taken for the mounted one without a sign of it  *)
(* in the line or the driver's flag, unless fdc_init has wiped that out.   *)
THEOREM ChangesNoticed == MediaSpec => []ChangeNoticed
<1>1. MediaInv => ChangeNoticed
  BY DEF MediaInv
<1>2. QED
  BY <1>1, MediaInvariance, PTL

(* FatFs accepts no file object of a volume that is no longer mounted.     *)
THEOREM FilesBelong == MediaSpec => []FilesOfMounted
<1>1. MediaInv => FilesOfMounted
  BY DEF MediaInv
<1>2. QED
  BY <1>1, MediaInvariance, PTL

(* A call by path works on the disk in the drive, unless it was changed    *)
(* during the call or a change was wiped out before it.                    *)
THEOREM PathCallsReachDisk == MediaSpec => []PathCallsRight
<1>1. MediaInv => PathCallsRight
  BY DEF MediaInv
<1>2. QED
  BY <1>1, MediaInvariance, PTL

=============================================================================
