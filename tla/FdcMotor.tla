------------------------------ MODULE FdcMotor ------------------------------
(***************************************************************************)
(* The floppy's spindle motor (src/dev/fdc.c).  Every call of the driver   *)
(* asks for the motor with fdc_motor_on, which sets the time at which it   *)
(* is to stop; the RTC's periodic interrupt runs fdc_motor_watchdog, which *)
(* stops it at that time and switches the periodic interrupt off.  The     *)
(* handler runs between any two steps of the main program, and to          *)
(* completion itself.                                                      *)
(*                                                                         *)
(* Time is kept relative: offTime is the number of jiffies left until      *)
(* fdc_motor_off_time, or NotSet for the 0 that means "no time set".       *)
(***************************************************************************)
EXTENDS Integers

CONSTANTS
  Timeout,      \* fdc_motor_timeout: jiffies without activity
  CommandTime,  \* bound of the model: the longest command, in jiffies
  MayStall,     \* whether the controller can fail to become ready
  MaxCalls      \* bound of the model: calls of the driver

ASSUME MotorAssumption ==
  /\ Timeout \in Nat \ {0} /\ CommandTime \in Nat
  /\ MaxCalls \in Nat
  /\ MayStall \in BOOLEAN

NotSet == -1

VARIABLES
  motor,    \* the MOT0 bit of the controller's DOR register
  offTime,  \* fdc_motor_off_time
  armed,    \* the RTC interrupts periodically and the watchdog handles it
  pc,       \* where the main program is
  needs,    \* needs_handler, a local variable of fdc_motor_on
  next,     \* what the caller does when fdc_motor_on returns
  busy,     \* jiffies the current command has taken
  calls,    \* calls of the driver so far
  since,    \* history: jiffies since a stop time was last set
  stopped,  \* history: the watchdog stopped the motor inside fdc_motor_on
  missed    \* history: a stop time is set, or the motor on, with no watchdog

vars == <<motor, offTime, armed, pc, needs, next, busy, calls, since, stopped, missed>>

Expired == offTime <= 0

-----------------------------------------------------------------------------

Init ==
  /\ motor = FALSE /\ offTime = NotSet /\ armed = FALSE
  /\ pc = "idle" /\ needs = FALSE /\ next = "idle" /\ busy = 0 /\ calls = 0
  /\ since = Timeout /\ stopped = FALSE /\ missed = FALSE

(* A call that wants the motor: the ioctl, which then returns, or a        *)
(* command (read, write, seek, recalibrate, change check).                 *)
Call(follow) ==
  /\ pc = "idle" /\ calls < MaxCalls
  /\ pc' = "on" /\ next' = follow
  /\ calls' = calls + 1 /\ stopped' = FALSE
  /\ UNCHANGED <<motor, offTime, armed, needs, busy, since, missed>>

(* fdc_motor_on: test the bit, set it.                                     *)
SwitchOn ==
  /\ pc = "on"
  /\ motor' = TRUE
  /\ pc' = IF motor THEN "check" ELSE "ready"
  /\ UNCHANGED <<offTime, armed, needs, next, busy, calls, since, stopped, missed>>

(* fdc_wait_rqm succeeds, and the motor spins up; or it times out: the     *)
(* motor is left on and an error returned, which only the ioctl looks at.  *)
MotorReady ==
  /\ pc = "ready"
  /\ \/ /\ pc' = "check"
        /\ UNCHANGED missed
     \/ /\ MayStall
        /\ pc' = next
        /\ missed' = (missed \/ (motor /\ ~armed))
  /\ UNCHANGED <<motor, offTime, armed, needs, next, busy, calls, since, stopped>>

CheckHandler ==
  /\ pc = "check"
  /\ needs' = (offTime = NotSet)
  /\ pc' = "set"
  /\ UNCHANGED <<motor, offTime, armed, next, busy, calls, since, stopped, missed>>

\* Mutant: the stop time is set only when there is none.
SetOffTime_Once ==
  /\ pc = "set"
  /\ offTime' = IF needs THEN Timeout ELSE offTime
  /\ since' = 0
  /\ pc' = "register"
  /\ UNCHANGED <<motor, armed, needs, next, busy, calls, stopped, missed>>

SetOffTime ==
  /\ pc = "set"
  /\ offTime' = Timeout
  /\ since' = 0
  /\ pc' = "register"
  /\ UNCHANGED <<motor, armed, needs, next, busy, calls, stopped, missed>>

(* rtc_register_periodic enables the interrupt in its last statement, so   *)
(* the handler does not see it half done.                                  *)
RegisterWatchdog ==
  /\ pc = "register"
  /\ armed' = (armed \/ needs)
  /\ pc' = next
  /\ UNCHANGED <<motor, offTime, needs, next, busy, calls, since, stopped, missed>>

(* A command succeeds, or fails and the controller is reset.               *)
CommandDone ==
  /\ pc = "command"
  /\ pc' \in {"idle", "reset"}
  /\ busy' = 0
  /\ UNCHANGED <<motor, offTime, armed, needs, next, calls, since, stopped, missed>>

(* fdc_reset clears DOR.                                                   *)
Reset ==
  /\ pc = "reset"
  /\ motor' = FALSE
  /\ pc' = "configure"
  /\ UNCHANGED <<offTime, armed, needs, next, busy, calls, since, stopped, missed>>

(* Sense, configure and specify time out, or the motor is asked for again; *)
(* fdc_init then recalibrates, or the reset was all.                       *)
Configure ==
  /\ pc = "configure"
  /\ \/ MayStall /\ pc' = "idle" /\ UNCHANGED <<next, stopped>>
     \/ pc' = "on" /\ next' \in {"idle", "command"} /\ stopped' = FALSE
  /\ UNCHANGED <<motor, offTime, armed, needs, busy, calls, since, missed>>

CallReset ==
  /\ pc = "idle" /\ calls < MaxCalls
  /\ pc' = "reset"
  /\ calls' = calls + 1
  /\ UNCHANGED <<motor, offTime, armed, needs, next, busy, since, stopped, missed>>

(* fdc_motor_off from the main program (the ioctl), in three steps.        *)
CallOff ==
  /\ pc = "idle" /\ calls < MaxCalls
  /\ motor' = FALSE
  /\ pc' = "clear" \/ (motor /\ MayStall /\ pc' = "idle")
  /\ calls' = calls + 1
  /\ UNCHANGED <<offTime, armed, needs, next, busy, since, stopped, missed>>

ClearOffTime ==
  /\ pc = "clear"
  /\ offTime' = NotSet
  /\ pc' = "remove"
  /\ UNCHANGED <<motor, armed, needs, next, busy, calls, since, stopped, missed>>

RemoveWatchdog ==
  /\ pc = "remove"
  /\ armed' = FALSE /\ missed' = FALSE
  /\ pc' = "idle"
  /\ UNCHANGED <<motor, offTime, needs, next, busy, calls, since, stopped>>

-----------------------------------------------------------------------------

\* Mutants of the watchdog: it stops the motor before the time; it forgets
\* to clear the stop time; it sets a new one.
Watchdog_Restarts ==
  /\ armed /\ Expired
  /\ offTime' = Timeout
  /\ UNCHANGED <<motor, armed, pc, needs, next, busy, calls, since, stopped, missed>>

Watchdog_Early ==
  /\ armed
  /\ offTime <= 1
  /\ motor' = FALSE /\ offTime' = NotSet /\ armed' = FALSE
  /\ stopped' = (stopped \/ (motor /\ pc # "command"))
  /\ missed' = (pc = "set" /\ ~needs)
  /\ UNCHANGED <<pc, needs, next, busy, calls, since>>

Watchdog_KeepsTime ==
  /\ armed /\ Expired
  /\ motor' = FALSE /\ armed' = FALSE
  /\ stopped' = (stopped \/ (motor /\ pc # "command"))
  /\ missed' = (pc = "set" /\ ~needs)
  /\ UNCHANGED <<offTime, pc, needs, next, busy, calls, since>>

(* fdc_motor_watchdog when the time has come: fdc_motor_off in the         *)
(* handler.  When fdc_wait_rqm times out it returns right after clearing   *)
(* the bit, and the next interrupt does the rest.                          *)
WatchdogCut ==
  /\ MayStall
  /\ armed /\ Expired /\ motor
  /\ motor' = FALSE
  /\ stopped' = (stopped \/ pc # "command")
  /\ UNCHANGED <<offTime, armed, pc, needs, next, busy, calls, since, missed>>

Watchdog ==
  /\ armed /\ Expired
  /\ motor' = FALSE /\ offTime' = NotSet /\ armed' = FALSE
  /\ stopped' = (stopped \/ (motor /\ pc # "command"))
  /\ missed' = (pc = "set" /\ ~needs)
  /\ UNCHANGED <<pc, needs, next, busy, calls, since>>

(* A jiffy passes.                                                         *)
Tick ==
  /\ pc = "command" => busy < CommandTime
  /\ busy'    = IF pc = "command" THEN busy + 1 ELSE busy
  /\ offTime' = IF offTime > 0 THEN offTime - 1 ELSE offTime
  /\ since'   = IF since < Timeout THEN since + 1 ELSE since
  /\ UNCHANGED <<motor, armed, pc, needs, next, calls, stopped, missed>>

Main ==
  \/ SwitchOn \/ MotorReady \/ CheckHandler \/ SetOffTime \/ RegisterWatchdog
  \/ CommandDone \/ Reset \/ Configure
  \/ ClearOffTime \/ RemoveWatchdog

Next ==
  \/ \E follow \in {"idle", "command"} : Call(follow)
  \/ CallReset \/ CallOff
  \/ Main
  \/ Watchdog \/ WatchdogCut
  \/ Tick

(* The program runs on, the timer counts, an enabled interrupt comes.      *)
Fairness == WF_vars(Main) /\ WF_vars(Watchdog) /\ WF_vars(Tick)

Spec == Init /\ [][Next]_vars /\ Fairness

-----------------------------------------------------------------------------
Flags == /\ motor \in BOOLEAN /\ armed \in BOOLEAN /\ needs \in BOOLEAN
         /\ stopped \in BOOLEAN /\ missed \in BOOLEAN
Times == /\ offTime \in NotSet .. Timeout /\ since \in 0 .. Timeout
         /\ busy \in 0 .. CommandTime /\ calls \in 0 .. MaxCalls
Steps == /\ next \in {"idle", "command"}
         /\ pc \in {"idle", "on", "ready", "check", "set", "register", "command",
                    "reset", "configure", "clear", "remove"}

(* Type invariant.                                                         *)
TypeOK == Flags /\ Times /\ Steps

(* A command finds the motor on and keeps it for Timeout jiffies, unless   *)
(* the watchdog stopped it while fdc_motor_on was under way.               *)
MotorOnForCommand == pc = "command" /\ since < Timeout => motor \/ stopped

(* A running motor is watched whenever the driver is at rest; the only     *)
(* exceptions are a controller not ready in fdc_motor_on and a watchdog    *)
(* that ran between its test for a stop time and the setting of one.       *)
MotorWatched == motor /\ pc = "idle" => armed \/ missed

(* The watchdog is installed exactly when a stop time is set, so the test  *)
(* for a stop time tells whether it needs to be installed.                 *)
ArmedWithOffTime ==
  pc \in {"idle", "on", "ready", "check"} => (armed <=> offTime # NotSet) \/ missed

(* The watchdog never stops the motor within Timeout of a request.         *)
NoEarlyStop ==
  [][motor /\ ~motor' /\ UNCHANGED <<pc, calls>> => since >= Timeout]_vars

(* A watched motor does not spin for ever once calls stop.                 *)
WatchedMotorStops == []<>~(motor /\ armed)

-----------------------------------------------------------------------------
(* fdc_motor_on: "Spin up the drive's spindle motor": whoever asked for it *)
(* has a spinning motor.                                                   *)
MotorOnIsOn == pc = "command" /\ since < Timeout => motor

(* fdc_motor_timeout: the jiffies to let the motor spin without activity.  *)
MotorStops == []<>~motor

=============================================================================
