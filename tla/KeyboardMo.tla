----------------------------- MODULE KeyboardMo -----------------------------
(***************************************************************************)
(* The A2560K's keyboard (src/dev/kbd_mo.c).  The keyboard queues make and *)
(* break codes; the interrupt handler takes them one by one, keeps the     *)
(* modifiers and the BREAK flag, and puts each code in a ring with the     *)
(* modifiers of the moment.  The main program takes codes from the ring    *)
(* and turns them into characters, some into several.                      *)
(*                                                                         *)
(* The scan-code ring is the queue WordQueue, which the ring of            *)
(* RingBuffer is shown to implement: it drops a code, or loses every code  *)
(* waiting.  A code carries the number of its press, a history the program *)
(* does not have.  A character is the modifiers, the key and its place in  *)
(* the key's sequence.                                                     *)
(***************************************************************************)
EXTENDS Integers, Sequences, SequencesExt, FiniteSets

CONSTANTS
  Key,        \* the keys
  Modifier,   \* SHIFT, CTRL, OS
  ModOf,      \* [some keys -> Modifier]
  BreakKeys,  \* pairs <<key, modifier>> that are BREAK: CTRL-C, OS-ESC
  Length,     \* [Key -> characters a press gives: 0, 1, or a sequence's]
  ScSize,     \* MAX_BUFFER_SIZE, the slots of each ring
  MaxPresses  \* bound of the model: presses of keys

ASSUME KeyboardAssumption ==
  /\ DOMAIN ModOf \subseteq Key /\ Length \in [Key -> Nat]
  /\ \A k \in DOMAIN ModOf : ModOf[k] \in Modifier /\ Length[k] = 0
  /\ BreakKeys \subseteq Key \X Modifier
  /\ ScSize \in Nat /\ ScSize > 1 /\ MaxPresses \in Nat

\* The character ring, filled only when it is empty, has room for a sequence.
ASSUME SequenceAssumption == \A k \in Key : Length[k] <= ScSize

(* Every modifier is that of one key; or at least every modifier of a      *)
(* BREAK, and the other key of a BREAK is no modifier.                     *)
IsSole(k, n) == k \in DOMAIN ModOf /\ \A j \in DOMAIN ModOf : ModOf[j] = n <=> j = k

SoleModifiers == \A k \in DOMAIN ModOf : IsSole(k, ModOf[k])

SoleBreakKeys ==
  \A b \in BreakKeys : b[1] \notin DOMAIN ModOf /\ \E k \in Key : IsSole(k, b[2])

VARIABLES
  held,     \* the keys that are down
  device,   \* codes waiting in the keyboard: <<"make" or "break", key>>
  handling, \* the interrupt handler is running
  mods,     \* g_kbdmo_control.modifiers
  brk,      \* KBD_STAT_BREAK
  scBuf,    \* the scan-code ring: <<modifiers, "make" or "break", key, press>>
  charBuf,  \* the character ring
  got,      \* history: characters kbdmo_getc returned
  typed,    \* history: the presses handled: <<modifiers really held, key>>
  taken,    \* history: the numbers of the presses kbdmo_getc took out
  crowded,  \* history: a code came when the ring had no slot left
  really,   \* history: per waiting code, the modifiers held when it was made
  broke,    \* history: a BREAK was typed since the last kbdmo_break
  missed,   \* history: kbdmo_getc returned 0 with a character waiting
  presses

moVars == <<held, device, handling, mods, brk, scBuf, charBuf, got, typed, taken,
            crowded, really, broke, missed, presses>>
moRings == <<scBuf, charBuf>>
taking  == <<got, taken, missed>>
history == <<taking, typed, crowded, broke>>

ScanCode == (SUBSET Modifier) \X {"make", "break"} \X Key \X Nat

Ring == INSTANCE WordQueue WITH Word <- ScanCode, Cap <- ScSize - 1, queue <- scBuf

HeldMods(h) == {ModOf[k] : k \in h \cap DOMAIN ModOf}

MoInit ==
  /\ held = {} /\ device = <<>> /\ handling = FALSE
  /\ mods = {} /\ brk = FALSE
  /\ scBuf = <<>> /\ charBuf = <<>>
  /\ got = <<>> /\ typed = <<>> /\ taken = <<>> /\ really = <<>>
  /\ crowded = FALSE /\ broke = FALSE /\ missed = FALSE /\ presses = 0

-----------------------------------------------------------------------------

(* A key goes down or up.                                                  *)
Press(k) ==
  /\ presses < MaxPresses /\ presses' = presses + 1
  /\ k \notin held
  /\ held' = held \cup {k}
  /\ device' = Append(device, <<"make", k>>)
  /\ really' = Append(really, HeldMods(held'))
  /\ UNCHANGED <<handling, mods, brk, moRings, history>>

Release(k) ==
  /\ k \in held
  /\ held' = held \ {k}
  /\ device' = Append(device, <<"break", k>>)
  /\ really' = Append(really, HeldMods(held'))
  /\ UNCHANGED <<handling, mods, brk, moRings, history, presses>>

(* kbdmo_handle_irq begins: it loops while the keyboard has codes.         *)
Irq ==
  /\ ~handling /\ device # <<>>
  /\ handling' = TRUE
  /\ UNCHANGED <<held, device, mods, brk, moRings, history, really, presses>>

(* kbdmo_makebreak_modifier.                                               *)
MakeBreak(k, code, old) ==
  IF k \notin DOMAIN ModOf THEN old
  ELSE IF code = "make" THEN old \cup {ModOf[k]} ELSE old \ {ModOf[k]}

\* Mutant: BREAK is tested without the modifiers.
BreakTyped_Bare(k, code, m) == code = "make" /\ \E b \in BreakKeys : b[1] = k

(* CTRL with the BREAK key, or ESC with the Foenix key, going down.        *)
BreakTyped(k, code, m) == code = "make" /\ \E n \in m : <<k, n>> \in BreakKeys

(* kbdmo_enqueue_scan for the next code.  The ring may drop the code, or   *)
(* lose the codes waiting; break codes, which kbdmo_getc skips, take slots *)
(* too.                                                                    *)
Enqueue ==
  /\ handling /\ device # <<>>
  /\ LET code == Head(device)[1]
         k    == Head(device)[2]
     IN /\ brk' = (brk \/ BreakTyped(k, code, mods))
        /\ broke' = (broke \/ (code = "make" /\
                                \E n \in Head(really) : <<k, n>> \in BreakKeys))
        /\ mods' = MakeBreak(k, code, mods)
        /\ typed' = IF code = "make" THEN Append(typed, <<Head(really), k>>) ELSE typed
        /\ Ring!Put(<<mods', code, k, Len(typed')>>)
  /\ crowded' = (crowded \/ Len(scBuf) >= ScSize - 1)
  /\ device' = Tail(device) /\ really' = Tail(really)
  /\ UNCHANGED <<held, handling, charBuf, taking, presses>>

IrqDone ==
  /\ handling /\ device = <<>>
  /\ handling' = FALSE
  /\ UNCHANGED <<held, device, mods, brk, moRings, history, really, presses>>

-----------------------------------------------------------------------------

(* What a press gives: the layout tables and kbd_to_ansi.                  *)
Chars(m, k) == [i \in 1 .. Length[k] |-> <<m, k, i>>]

(* A character already expanded is waiting.                                *)
GetExpanded ==
  /\ ~handling
  /\ charBuf # <<>>
  /\ got' = Append(got, Head(charBuf)) /\ charBuf' = Tail(charBuf)
  /\ UNCHANGED <<held, device, handling, mods, brk, scBuf, typed, taken, crowded,
                 really, broke, missed, presses>>

(* Otherwise kbdmo_getc takes codes from the ring.  The handler may run    *)
(* between two of them: each is a step of its own.                         *)
SkipBreak ==
  /\ ~handling
  /\ charBuf = <<>>
  /\ scBuf # <<>> /\ Head(scBuf)[2] = "break"
  /\ Ring!Get
  /\ UNCHANGED <<held, device, handling, mods, brk, charBuf, history, really, presses>>

\* 0 is returned for key k although the ring still has a character.
ZeroWithMore(k) ==
  Length[k] = 0 /\ \E i \in 2 .. Len(scBuf) :
                      scBuf[i][2] = "make" /\ Length[scBuf[i][3]] > 0

\* Mutant: the scan codes are looked at although characters are waiting.
GetKey_Eager ==
  /\ ~handling
  /\ scBuf # <<>> /\ Head(scBuf)[2] = "make"
  /\ Ring!Get
  /\ LET key   == Head(scBuf)
         chars == Chars(key[1], key[3])
     IN /\ taken' = Append(taken, key[4])
        /\ IF chars = <<>>
           THEN UNCHANGED <<got, charBuf>>
           ELSE got' = Append(got, Head(chars)) /\ charBuf' = charBuf \o Tail(chars)
        /\ missed' = (missed \/ ZeroWithMore(key[3]))
  /\ UNCHANGED <<held, device, handling, mods, brk, typed, crowded, really, broke, presses>>

(* A make code is looked up: its first character is returned and the       *)
(* others kept.  A key with no character gives 0.                          *)
GetKey ==
  /\ ~handling
  /\ charBuf = <<>>
  /\ scBuf # <<>> /\ Head(scBuf)[2] = "make"
  /\ Ring!Get
  /\ LET key   == Head(scBuf)
         chars == Chars(key[1], key[3])
     IN /\ taken' = Append(taken, key[4])
        /\ IF chars = <<>>
           THEN UNCHANGED <<got, charBuf>>
           ELSE got' = Append(got, Head(chars)) /\ charBuf' = Tail(chars)
        /\ missed' = (missed \/ ZeroWithMore(key[3]))
  /\ UNCHANGED <<held, device, handling, mods, brk, typed, crowded, really, broke, presses>>

(* kbdmo_break.                                                            *)
TestBreak ==
  /\ ~handling
  /\ brk' = FALSE /\ broke' = FALSE
  /\ UNCHANGED <<held, device, handling, mods, moRings, taking, typed, crowded, really,
                 presses>>

MoNext ==
  \/ \E k \in Key : Press(k) \/ Release(k)
  \/ Irq \/ Enqueue \/ IrqDone
  \/ GetExpanded \/ SkipBreak \/ GetKey \/ TestBreak

MoSpec == MoInit /\ [][MoNext]_moVars

-----------------------------------------------------------------------------

MoTypeOK ==
  /\ held \subseteq Key /\ mods \subseteq Modifier
  /\ handling \in BOOLEAN /\ brk \in BOOLEAN /\ crowded \in BOOLEAN
  /\ broke \in BOOLEAN /\ missed \in BOOLEAN
  /\ Len(device) = Len(really)
  /\ Len(scBuf) <= ScSize
  /\ \A n \in 1 .. Len(charBuf) : charBuf[n][3] > 1
  /\ presses \in 0 .. MaxPresses

\* The characters of the presses taken, as they were typed.
TakenChars == [i \in 1 .. Len(taken) |-> Chars(typed[taken[i]][1], typed[taken[i]][2])]

\* Press n is taken, or waits.
Kept(n) ==
  \/ \E i \in 1 .. Len(taken) : taken[i] = n
  \/ \E i \in 1 .. Len(scBuf) : scBuf[i][2] = "make" /\ scBuf[i][4] = n

(* The presses kbdmo_getc takes are taken in the order they were typed,    *)
(* none twice, and what it returns with what is expanded is exactly their  *)
(* characters, each with the modifiers that were down when it was pressed: *)
(* no sequence is split by another key, whatever the ring lost.  And as    *)
(* long as every code found a free slot, no press is lost.  Two keys of    *)
(* one modifier would break it as they break ModifiersFollowKeys.          *)
KeysInOrder ==
  /\ \A i, j \in 1 .. Len(taken) : i < j => taken[i] < taken[j]
  /\ got \o charBuf = FlattenSeq(TakenChars)
  /\ ~crowded => \A n \in 1 .. Len(typed) : Kept(n)

(* The modifiers are those held, once every code has been handled: the     *)
(* struct says "State of the modifier keys (CTRL, ALT, SHIFT) and caps     *)
(* lock".                                                                  *)
ModifiersFollowKeys == device = <<>> => mods = HeldMods(held)

(* A BREAK typed since the last kbdmo_break is flagged, and nothing else - *)
(* of keys that are SoleBreakKeys: one of two CTRL keys let go of clears   *)
(* the flag the other still stands for, and CTRL-C is then no BREAK.       *)
BreakFlagged == brk = broke

(* kbdmo_getc returns "the next character to be read from the keyboard     *)
(* (0 if none available)".                                                 *)
ZeroMeansNone == ~missed
=============================================================================
