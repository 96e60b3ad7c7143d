----------------------------- MODULE DriveWait -----------------------------
(***************************************************************************)
(* How the disk drivers wait for their controllers: they poll a status     *)
(* register against the jiffy timer (src/dev/pata.c, sdc.c, fdc.c).  The   *)
(* device changes its status, and time passes, between any two steps of    *)
(* the program: interrupt handlers run there for as long as they need.     *)
(*                                                                         *)
(* The timer is kept relative to the start of the wait and stops counting  *)
(* one jiffy after the time-out, where every test on it has settled.       *)
(***************************************************************************)
EXTENDS Integers

CONSTANTS
  Loops,     \* the functions modelled in a run
  Timeout    \* PATA_TIMEOUT_JF, SDC_TIMEOUT_JF, fdc_timeout

\* Loops that read the status, then the timer, and decide by the time last
\* read; a loop that decides by the status last read; one that looks at the
\* timer first; the nested loops.
ByTime   == {"pata_wait_not_busy", "pata_wait_ready", "pata_wait_data_request"}
ByStatus == {"fdc_wait_rqm", "fdc_wait_while_busy", "fdc_wait_write", "fdc_wait_read"}
TimeFirst == {"sdc_wait_busy"}
Nested   == {"pata_wait_ready_not_busy"}

ASSUME WaitAssumption ==
  /\ Loops \subseteq ByTime \cup ByStatus \cup TimeFirst \cup Nested
  /\ Timeout \in Nat \ {0}

VARIABLES
  awaited,  \* what is waited for holds now; for the nested loops: DRDY
  busy,     \* BSY, for the nested loops only
  elapsed,  \* jiffies since the wait began
  wait,     \* the function running, or "none"
  at,       \* where it is
  seen,     \* the status it read last is the one waited for
  ticks,    \* the time it read last (0: none)
  result,   \* of the last wait: "ok", "timeout" or "none"
  idled     \* history: BSY was off when the nested loops read it last

waitVars == <<awaited, busy, elapsed, wait, at, seen, ticks, result, idled>>
deviceVars == <<awaited, busy>>

(* target_ticks > ticks                                                    *)
Early(t) == t < Timeout

WaitInit ==
  /\ awaited \in BOOLEAN /\ busy \in BOOLEAN
  /\ elapsed = 0 /\ ticks = 0
  /\ wait = "none" /\ at = "idle" /\ seen = FALSE /\ result = "none" /\ idled = FALSE

Device ==
  /\ awaited' \in BOOLEAN /\ busy' \in BOOLEAN
  /\ UNCHANGED <<elapsed, wait, at, seen, ticks, result, idled>>

Tick ==
  /\ elapsed <= Timeout
  /\ elapsed' = elapsed + 1
  /\ UNCHANGED <<deviceVars, wait, at, seen, ticks, result, idled>>

Start(f) ==
  /\ at = "idle"
  /\ wait' = f /\ elapsed' = 0 /\ ticks' = 0
  /\ at' = IF f \in TimeFirst THEN "clock" ELSE IF f \in Nested THEN "inner" ELSE "status"
  /\ seen' = FALSE /\ idled' = FALSE /\ result' = "none"
  /\ UNCHANGED deviceVars

Returned(r) == result' = r /\ at' = "idle"

(* The status register is read.                                            *)
ReadStatus ==
  /\ at = "status"
  /\ seen' = awaited
  /\ at' = IF wait \in TimeFirst
           THEN IF awaited THEN "return" ELSE "clock"
           ELSE IF wait \in ByStatus /\ awaited THEN "return" ELSE "clock"
  /\ UNCHANGED <<deviceVars, elapsed, wait, ticks, result, idled>>

\* Mutant: the time is read before the loop only.
ReadClock_Once ==
  /\ at = "clock"
  /\ at' = "status"
  /\ ticks' = IF ticks = 0 THEN elapsed ELSE ticks
  /\ UNCHANGED <<deviceVars, elapsed, wait, seen, result, idled>>

(* The timer is read, and with what is known now the loop ends or not.     *)
ReadClock ==
  /\ at = "clock"
  /\ ticks' = elapsed
  /\ at' = IF wait \in TimeFirst
           THEN IF elapsed > Timeout THEN "return" ELSE "status"
           ELSE IF ~seen /\ Early(elapsed) THEN "status" ELSE "return"
  /\ UNCHANGED <<deviceVars, elapsed, wait, seen, result, idled>>

(* The nested loops: the inner one waits for DRDY, and alone reads the     *)
(* timer; the outer one waits for BSY to go.                               *)
Inner ==
  /\ at = "inner"
  /\ seen' = awaited
  /\ at' = IF ~awaited /\ Early(ticks) THEN "tick" ELSE "outer"
  /\ UNCHANGED <<deviceVars, elapsed, wait, ticks, result, idled>>

InnerTicks ==
  /\ at = "tick"
  /\ ticks' = elapsed
  /\ at' = "inner"
  /\ UNCHANGED <<deviceVars, elapsed, wait, seen, result, idled>>

Outer ==
  /\ at = "outer"
  /\ idled' = ~busy
  /\ at' = IF busy /\ Early(ticks) THEN "inner" ELSE "return"
  /\ UNCHANGED <<deviceVars, elapsed, wait, seen, ticks, result>>

\* Mutant: a wait whose time was not up is taken as successful.
Leave_Swapped ==
  /\ at = "return"
  /\ Returned(IF seen THEN "timeout" ELSE "ok")
  /\ UNCHANGED <<deviceVars, elapsed, wait, seen, ticks, idled>>

(* pata.c decides by the time it read last, fdc.c and sdc.c by the status. *)
Leave ==
  /\ at = "return"
  /\ Returned(IF wait \in ByTime \cup Nested
            THEN IF Early(ticks) THEN "ok" ELSE "timeout"
            ELSE IF seen THEN "ok" ELSE "timeout")
  /\ UNCHANGED <<deviceVars, elapsed, wait, seen, ticks, idled>>

Poll == ReadStatus \/ ReadClock \/ Inner \/ InnerTicks \/ Outer \/ Leave

WaitNext ==
  \/ Device \/ Tick
  \/ \E f \in Loops : Start(f)
  \/ Poll

(* The program runs on, the timer counts.  Nothing is assumed of the       *)
(* device.                                                                 *)
WaitSpec == WaitInit /\ [][WaitNext]_waitVars /\ WF_waitVars(Poll) /\ WF_waitVars(Tick)

-----------------------------------------------------------------------------

TypeOK ==
  /\ awaited \in BOOLEAN /\ busy \in BOOLEAN /\ seen \in BOOLEAN /\ idled \in BOOLEAN
  /\ elapsed \in 0 .. Timeout + 1 /\ ticks \in 0 .. elapsed
  /\ wait \in Loops \cup {"none"}
  /\ at \in {"idle", "status", "clock", "inner", "tick", "outer", "return"}
  /\ result \in {"none", "ok", "timeout"}

\* A wait succeeds only on a status read during it; for the nested loops,
\* DRDY on and then BSY off.
SuccessSeen ==
  result = "ok" => seen /\ (wait \in Nested => idled)

\* No wait reports a time-out before its time.
TimeoutIsDue == result = "timeout" => elapsed >= Timeout

(* Whatever the drive and the clock do between two reads, a wait succeeds  *)
(* only on a status it has seen, and times out only when its time is up.   *)
ResultJustified == SuccessSeen /\ TimeoutIsDue

(* A wait of one loop ends, whatever the device does.                      *)
TimedWaitsEnd ==
  \A f \in Loops \ Nested : (wait = f /\ at # "idle") ~> at = "idle"

(* "DEV_TIMEOUT on timeout": so every wait ends.                           *)
WaitEnds == at # "idle" ~> at = "idle"

(* "0 on success (PATA drive is no longer busy), DEV_TIMEOUT on timeout":  *)
(* a wait whose last look at the device was good does not time out.        *)
ReadyIsNoTimeout == result = "timeout" => ~seen
=============================================================================
