----------------------------- MODULE Interrupts -----------------------------
(***************************************************************************)
(* Interrupt control (src/interrupt.c, src/m68k/startup_m68k.s): pending   *)
(* and mask registers shared by the devices, the handlers and the main     *)
(* program.  int_enable, int_disable and int_clear read a register, and    *)
(* write it back; a handler can run in between, and a device can raise an  *)
(* interrupt at any time.  Handlers do not interrupt each other here: one  *)
(* that did could only be of another group, whose registers are its own.   *)
(*                                                                         *)
(* Writing a 1 to the pending register clears that bit.  The lines of      *)
(* group 0 are dispatched together (int_vicky_channel_a), every other line *)
(* has a vector of its own (inthandler and int_dispatch).                  *)
(***************************************************************************)
EXTENDS Integers, FiniteSets

CONSTANTS
  Vicky,     \* lines dispatched by int_vicky_channel_a
  Direct,    \* lines of group 1, each with its vector
  Clearers,  \* direct lines whose handler calls int_clear: keyboard, mouse
  Maskers,   \* direct lines whose handler may call int_disable: the RTC
  Cleared    \* lines the main program calls int_clear for

ASSUME LinesAssumption ==
  /\ Vicky \cap Direct = {}
  /\ Clearers \subseteq Direct /\ Maskers \subseteq Direct
  /\ Cleared \subseteq Vicky \cup Direct

Line == Vicky \cup Direct

VARIABLES
  pending,   \* the bits set in the pending registers
  masked,    \* the bits set in the mask registers
  main,      \* the main program: "idle", or the call whose register it has read
  mline,     \* that call's argument
  mread,     \* the value it read
  hpc,       \* the running handler: "none", "ack", "calls", "body", "clear"
  hline,     \* the line being handled: {} or one line, or a set in group 0
  hread,     \* what int_clear read in the handler
  wanted,    \* history: the lines last disabled, by anyone
  owed,      \* history: lines raised whose handler has not been called since
  lost,      \* history: owed lines that a clear of another line dropped
  late,      \* history: lines raised after channel A's dispatcher read the flags
  crossed    \* history: mask changes made inside another change of the mask

vars == <<pending, masked, main, mline, mread, hpc, hline, hread, wanted, owed, lost, late, crossed>>
mainVars == <<main, mline, mread>>
handlerVars == <<hpc, hline, hread>>

Group(n) == IF n \in Vicky THEN Vicky ELSE Direct

-----------------------------------------------------------------------------

(* int_init masks everything.                                              *)
Init ==
  /\ pending = {} /\ masked = Line
  /\ main = "idle" /\ mline = {} /\ mread = {}
  /\ hpc = "none" /\ hline = {} /\ hread = {}
  /\ wanted = Line /\ owed = {} /\ lost = {} /\ late = {} /\ crossed = {}

(* A device raises an interrupt.  A mask keeps it from the CPU, not out of *)
(* the pending register.                                                   *)
Raise(n) ==
  /\ pending' = pending \cup {n}
  /\ owed' = owed \cup {n} /\ lost' = lost \ {n}
  /\ late' = IF hpc = "ack" /\ n \in Vicky THEN late \cup {n} ELSE late
  /\ UNCHANGED <<masked, mainVars, handlerVars, wanted, crossed>>

\* Mutant: the new mask is computed for the whole group.
NewMask_Group(call, n, old) ==
  IF call = "int_disable" THEN old \cup Group(n) ELSE old \ Group(n)

(* What int_disable and int_enable make of the mask they read.             *)
NewMask(call, n, old) ==
  IF call = "int_disable" THEN old \cup {n} ELSE old \ {n}

(* The main program reads the mask register of n's group.                  *)
MaskRead(call, n) ==
  /\ main = "idle" /\ hpc = "none"
  /\ main' = call /\ mline' = {n}
  /\ mread' = masked \cap Group(n)
  /\ UNCHANGED <<pending, masked, handlerVars, wanted, owed, lost, late, crossed>>

(* It writes it back: what a handler did to the group since is undone.     *)
MaskWrite ==
  /\ main \in {"int_enable", "int_disable"} /\ hpc = "none"
  /\ \E n \in mline :
       /\ masked' = (masked \ Group(n)) \cup NewMask(main, n, mread)
       /\ wanted' = IF main = "int_disable" THEN wanted \cup {n} ELSE wanted \ {n}
       /\ crossed' = crossed \ {n}
  /\ main' = "idle" /\ mline' = {} /\ mread' = {}
  /\ UNCHANGED <<pending, handlerVars, owed, lost, late>>

(* int_clear in the main program.                                          *)
ClearRead(n) ==
  /\ main = "idle" /\ hpc = "none"
  /\ main' = "int_clear" /\ mline' = {n}
  /\ mread' = pending \cap Group(n)
  /\ UNCHANGED <<pending, masked, handlerVars, wanted, owed, lost, late, crossed>>

ClearWrite ==
  /\ main = "int_clear" /\ hpc = "none"
  /\ pending' = pending \ (mread \cup mline)
  /\ lost' = (lost \cup (owed \cap mread)) \ mline
  /\ owed' = owed \ mline  \* what the caller asked for
  /\ main' = "idle" /\ mline' = {} /\ mread' = {}
  /\ UNCHANGED <<masked, handlerVars, wanted, late, crossed>>

-----------------------------------------------------------------------------

(* A direct line's vector: its flag is cleared, its handler called.        *)
Dispatch(n) ==
  /\ hpc = "none"
  /\ n \in pending \ masked
  /\ pending' = pending \ {n}
  /\ owed' = owed \ {n}
  /\ hpc' = "body" /\ hline' = {n}
  /\ UNCHANGED <<masked, mainVars, hread, wanted, lost, late, crossed>>

(* A handler that calls neither int_clear nor int_disable returns.         *)
HandlerReturns ==
  /\ hpc = "body"
  /\ hline \cap Clearers = {}
  /\ hpc' = "none" /\ hline' = {}
  /\ UNCHANGED <<pending, masked, mainVars, hread, wanted, owed, lost, late, crossed>>

(* The RTC's handler masks its own line (rtc_register_periodic(0, 0)).     *)
HandlerMasks ==
  /\ hpc = "body"
  /\ hline \subseteq Maskers \ Clearers
  /\ masked' = masked \cup hline
  /\ wanted' = wanted \cup hline
  /\ crossed' = IF main \in {"int_enable", "int_disable"} /\ mline \subseteq Direct
                THEN crossed \cup hline ELSE crossed
  /\ hpc' = "none" /\ hline' = {}
  /\ UNCHANGED <<pending, mainVars, hread, owed, lost, late>>

(* The keyboard's handler acknowledges once more, with int_clear.          *)
HandlerClearRead ==
  /\ hpc = "body"
  /\ hline \cap Clearers # {}
  /\ hread' = pending \cap Direct
  /\ hpc' = "clear"
  /\ UNCHANGED <<pending, masked, mainVars, hline, wanted, owed, lost, late, crossed>>

HandlerClearWrite ==
  /\ hpc = "clear"
  /\ pending' = pending \ (hread \cup hline)
  /\ lost' = (lost \cup (owed \cap hread)) \ hline
  /\ owed' = owed \ hline  \* the handler has yet to read its device
  /\ hpc' = "none" /\ hline' = {} /\ hread' = {}
  /\ UNCHANGED <<masked, mainVars, wanted, late, crossed>>

\* Mutant: the dispatcher reads the pending register after acknowledging.
ChannelASnapshot_Late ==
  /\ hpc = "none"
  /\ (pending \ masked) \cap Vicky # {}
  /\ hline' = {}
  /\ hpc' = "ack"
  /\ UNCHANGED <<pending, masked, mainVars, hread, wanted, owed, lost, late, crossed>>

(* int_vicky_channel_a: read the register, acknowledge everything, call    *)
(* the handlers.                                                           *)
ChannelASnapshot ==
  /\ hpc = "none"
  /\ (pending \ masked) \cap Vicky # {}
  /\ hline' = pending \cap Vicky
  /\ hpc' = "ack"
  /\ UNCHANGED <<pending, masked, mainVars, hread, wanted, owed, lost, late, crossed>>

ChannelAAck ==
  /\ hpc = "ack"
  /\ pending' = pending \ Vicky
  /\ lost' = lost \cup ((late \cap owed) \ hline)
  /\ late' = {}
  /\ hpc' = "calls"
  /\ UNCHANGED <<masked, mainVars, hline, hread, wanted, owed, crossed>>

ChannelACalls ==
  /\ hpc = "calls"
  /\ owed' = owed \ hline
  /\ hpc' = "none" /\ hline' = {}
  /\ UNCHANGED <<pending, masked, mainVars, hread, wanted, lost, late, crossed>>

Next ==
  \/ \E n \in Line :
       \/ Raise(n)
       \/ \E call \in {"int_enable", "int_disable"} : MaskRead(call, n)
  \/ \E n \in Cleared : ClearRead(n)
  \/ MaskWrite \/ ClearWrite
  \/ \E n \in Direct : Dispatch(n)
  \/ HandlerReturns \/ HandlerMasks \/ HandlerClearRead \/ HandlerClearWrite
  \/ ChannelASnapshot \/ ChannelAAck \/ ChannelACalls

Spec == Init /\ [][Next]_vars

-----------------------------------------------------------------------------

TypeOK ==
  /\ pending \subseteq Line /\ masked \subseteq Line
  /\ main \in {"idle", "int_enable", "int_disable", "int_clear"}
  /\ hpc \in {"none", "ack", "calls", "body", "clear"}
  /\ mline \subseteq Line
  /\ mread \subseteq UNION {Group(n) : n \in mline}
  /\ hline \subseteq Line /\ hread \subseteq Line
  /\ wanted \subseteq Line /\ owed \subseteq Line
  /\ lost \subseteq Line /\ late \subseteq Vicky /\ crossed \subseteq Line

\* What int_vicky_channel_a has read and not yet called handlers for.
Taken == IF hpc \in {"ack", "calls"} THEN hline ELSE {}

(* An interrupt whose handler is still to be called is pending, or taken   *)
(* by the dispatcher, or among those known to be dropped: pending when an  *)
(* int_clear of another line read the register, or raised between the      *)
(* dispatcher's read and its acknowledgement.  Nothing else is lost        *)
(* between the handlers, the dispatchers and the main program.             *)
OwedAccounted ==
  /\ owed \subseteq pending \cup Taken \cup lost
  /\ lost \subseteq owed \ (pending \cup Taken)

(* A line is masked exactly when the last call of int_disable or           *)
(* int_enable for it says so, whatever other line of the group is changed  *)
(* meanwhile, unless that call was made by a handler that interrupted      *)
(* another one for the group.                                              *)
MaskFollowsCalls ==
  \A n \in Line \ crossed : n \in masked <=> n \in wanted

(* interrupt.c says "Disable an interrupt by masking it": after            *)
(* int_disable the line is masked.  A handler's int_disable is undone by   *)
(* the call it interrupted.                                                *)
MaskAsAsked == main = "idle" => masked = wanted

(* interrupt.c says of int_clear "Acknowledge an interrupt (clear out its  *)
(* pending flag)": one.  It writes back every bit it read, and so drops    *)
(* the group's other pending interrupts.                                   *)
ClearKeepsOthers == lost \cap Direct = {}

(* int_vicky_channel_a "Acknowledge[s] all the pending interrupts" after   *)
(* it has read which they are: one raised in between is not handled.       *)
AckKeepsAll == lost \cap Vicky = {}

=============================================================================
