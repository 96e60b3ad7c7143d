---------------------------- MODULE MCKeyboards ----------------------------
(* Where keys come from, and the console channels that read them: the      *)
(* A2560K has the Mo keyboard, the others a PS/2 keyboard and a mouse; a   *)
(* behaviour is of one of the three.                                       *)
EXTENDS Ps2Keyboard, KeyboardMo, ConsoleAnsi

CONSTANTS shiftL, shiftR, ctrl, letter, func

VARIABLE part

MoKeys == {ctrl, letter, func}
MoModifiers == {"SHIFT", "CTRL"}
MoModOf == [k \in MoKeys \cap {shiftL, shiftR, ctrl} |-> IF k = ctrl THEN "CTRL" ELSE "SHIFT"]
MoBreakKeys == {<<letter, "CTRL">>}
MoLength == [k \in MoKeys |-> IF k = letter THEN 1 ELSE IF k = func THEN 3 ELSE 0]

ASSUME MoAssumption == SoleModifiers /\ SoleBreakKeys

Ps2Key(make, break, code) == [make |-> make, break |-> break, code |-> code]

\* A key of every kind the PS/2 driver tells apart.
MCKeys ==
  { Ps2Key(<<29>>, <<157>>, 29),                               \* left CTRL
    Ps2Key(<<224, 29>>, <<224, 157>>, 94),                     \* right CTRL
    Ps2Key(<<69>>, <<197>>, 69),                               \* NUM LOCK
    Ps2Key(<<224, 42, 224, 55>>, <<224, 183, 224, 170>>, 96),  \* PRINT SCREEN
    Ps2Key(<<225, 29, 69, 225, 157, 197>>, <<>>, 97) }         \* PAUSE

\* Movements with and without the bit of a first byte.
MCPackets == {<<8, 1, 2>>, <<25, 8, 240>>, <<9, 3, 255>>}

KbInit == /\ part \in {"kbd_mo", "ps2", "console"} /\ PsInit /\ MoInit /\ ConInit
          /\ part = "kbd_mo" => port = "keyboard"
          /\ part = "console" => port = "keyboard"

KbNext ==
  /\ UNCHANGED part
  /\ \/ part = "ps2" /\ PsNext /\ UNCHANGED <<moVars, conVars>>
     \/ part = "kbd_mo" /\ MoNext /\ UNCHANGED <<psVars, conVars>>
     \/ part = "console" /\ ConNext /\ UNCHANGED <<psVars, moVars>>

KbSpec == KbInit /\ [][KbNext]_<<part, psVars, moVars, conVars>>
============================================================================
