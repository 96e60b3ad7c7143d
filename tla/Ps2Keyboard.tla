---------------------------- MODULE Ps2Keyboard ----------------------------
(***************************************************************************)
(* The PS/2 keyboard of src/dev/ps2.c over the word ring: kbd_handle_irq   *)
(* puts the bytes of the keyboard together to scan codes, keeps the        *)
(* modifiers and queues the codes; kbd_get_scancode takes them out.  Word  *)
(* n of the ring stands for the n-th code queued, sent[n].  The mouse      *)
(* packets of mouse_handle_irq are here too.                               *)
(***************************************************************************)
EXTENDS RingBuffer

CONSTANTS
  Keys,        \* the keys: records of make bytes, break bytes and code
  Packets      \* the packets of the mouse: three bytes

ASSUME DeviceAssumption ==
  /\ \A k \in Keys : k.make \in Seq(1 .. 255) /\ k.break \in Seq(1 .. 255)
  /\ \A p \in Packets : p \in [1 .. 3 -> 0 .. 255]

VARIABLES
  port,       \* the port in use: the two share the handlers' data register only
  state,      \* g_kbd_control.state
  modifiers,  \* g_kbd_control.modifiers, as the set of its flags
  line,       \* the bytes the device has still to send of a stroke or a packet
  down,       \* the keys held down
  lost,       \* whether a byte was ever lost
  whole,      \* whole strokes or packets since the last loss
  meant,      \* the codes the stroke stands for, or the packet
  queuing,    \* history: the codes given to rb_word_put since the stroke began
  mouse,      \* g_mouse_state
  registers,  \* MousePtr_A_Mouse0
  aligned     \* history: no byte was lost since the mouse was last sure to be in step

ringVars == <<buffer, head, tail, pc, slot, data, puts, queued, oldest>>
kbdVars  == <<state, modifiers, down, queuing>>
mouseVars == <<mouse, registers, aligned>>
psVars   == <<ringVars, kbdVars, mouseVars, port, line, lost, whole, meant>>

Settled == 4    \* whole strokes after which a machine must be in step

-----------------------------------------------------------------------------
\* Bit 7 of a byte marks a break.
IsBreak(b)  == b >= 128
Base(b)     == b % 128
Broken(b)   == IF IsBreak(b) THEN 128 ELSE 0

(* g_kbd_set1_base: the first 89 codes stand for themselves.               *)
Set1Base(b) == IF Base(b) <= 88 THEN Base(b) ELSE 0

(* g_kbd_set1_e0.                                                          *)
E0Table ==
  { <<16, 112>>, <<25, 113>>, <<28, 109>>, <<29, 94>>, <<32, 114>>,
    <<34, 110>>, <<36, 111>>, <<46, 115>>, <<48, 116>>, <<53, 108>>,
    <<56, 92>>, <<70, 97>>, <<71, 99>>, <<72, 104>>, <<73, 100>>,
    <<75, 105>>, <<77, 107>>, <<79, 102>>, <<80, 106>>, <<81, 103>>,
    <<82, 98>>, <<83, 101>>, <<93, 93>> }

(* The code of each byte that may follow 224; 0 for one of no key.         *)
E0Code == [c \in 0 .. 127 |-> IF \E p \in E0Table : p[1] = c
                                THEN (CHOOSE p \in E0Table : p[1] = c)[2]
                                ELSE 0]
Set1E0(b) == E0Code[Base(b)]

-----------------------------------------------------------------------------
(* External: the keys of a keyboard that sends set 1: plain keys, keys     *)
(* behind the prefix 224, Print Screen and Pause.                          *)
PlainKey(k) ==
  \E c \in 1 .. 88 : k.make = <<c>> /\ k.break = <<c + 128>> /\ k.code = c

PrefixedKey(k) ==
  \E b \in (1 .. 127) \ {42, 55, 96, 97} :
    /\ k.make = <<224, b>> /\ k.break = <<224, b + 128>>
    /\ k.code = Set1E0(b) /\ k.code \in (1 .. 127) \ {96}

PrintScreen(k) ==
  /\ k.make = <<224, 42, 224, 55>> /\ k.break = <<224, 183, 224, 170>>
  /\ k.code = 96

Pause(k) == k.make = <<225, 29, 69, 225, 157, 197>> /\ k.break = <<>> /\ k.code = 97

ASSUME KeyAssumption ==
  \A k \in Keys : PlainKey(k) \/ PrefixedKey(k) \/ PrintScreen(k) \/ Pause(k)

-----------------------------------------------------------------------------
(* The modifier or lock a scan code stands for.                            *)
Held(code) ==
  CASE Base(code) \in {42, 54} -> "shift"
    [] Base(code) \in {29, 94} -> "ctrl"
    [] Base(code) \in {56, 92} -> "alt"
    [] Base(code) = 93         -> "menu"
    [] Base(code) = 91         -> "os"
    [] OTHER                   -> "none"

Lock(code) ==
  CASE code = 58 -> "caps" [] code = 69 -> "num" [] code = 70 -> "scroll"
    [] OTHER -> "none"

(* The switch of kbd_enqueue_scan with kbd_makebreak_modifier and          *)
(* kbd_toggle_modifier.                                                    *)
ModifiersAfter(mods, code) ==
  IF Held(code) # "none"
    THEN IF IsBreak(code) THEN mods \ {Held(code)} ELSE mods \cup {Held(code)}
    ELSE IF Lock(code) = "none" THEN mods
         ELSE IF Lock(code) \in mods THEN mods \ {Lock(code)}
              ELSE mods \cup {Lock(code)}

Code(mods, code) == [mods |-> mods, code |-> code]

(* kbd_enqueue_scan; the word carries the modifiers as they are after it.  *)
EnqueueScan(code) ==
  IF Base(code) = 0
    THEN UNCHANGED <<modifiers, queuing, ringVars>>
    ELSE /\ modifiers' = ModifiersAfter(modifiers, code)
         /\ queuing' = Append(queuing, code)
         /\ RbWordPut

-----------------------------------------------------------------------------
(* The sequences that are one key to the kernel: what each state expects,  *)
(* where that leads and what it queues.                                    *)
Chain ==
  [ IDLE       |-> { <<224, "E0", 0>>, <<225, "E1", 0>> },
    E0         |-> { <<42, "E02A", 0>>, <<183, "E0B7", 0>> },
    E02A       |-> { <<224, "E02AE0", 0>> },
    E02AE0     |-> { <<55, "IDLE", 96>> },
    E0B7       |-> { <<224, "E0B7E0", 0>> },
    E0B7E0     |-> { <<170, "IDLE", 208>> },
    E1         |-> { <<29, "E11D", 0>> },
    E11D       |-> { <<69, "E11D45", 0>> },
    E11D45     |-> { <<225, "E11D45E1", 0>> },
    E11D45E1   |-> { <<157, "E11D45E19D", 0>> },
    E11D45E19D |-> { <<197, "IDLE", 97>> } ]

\* Mutant: a prefixed key is queued without its break bit.
Lookup_NoBreak(st, b) ==
  CASE st = "IDLE" -> IF Set1Base(b) = 0 THEN 0 ELSE Set1Base(b) + Broken(b)
    [] st = "E0"   -> Set1E0(b)
    [] OTHER       -> 0

(* What a byte outside the sequences queues: prefixed keys and plain keys  *)
(* are looked up, in any other state the byte is eaten.                    *)
Lookup(st, b) ==
  LET key == CASE st = "IDLE" -> Set1Base(b)
               [] st = "E0"   -> Set1E0(b)
               [] OTHER       -> 0
  IN IF key = 0 THEN 0 ELSE key + Broken(b)

\* Mutant: a bad byte leaves the machine where it was.
Outcome_Stay(st, b) ==
  IF \E c \in Chain[st] : c[1] = b
    THEN LET c == CHOOSE c \in Chain[st] : c[1] = b IN <<c[2], c[3]>>
    ELSE <<IF st = "E0" THEN "IDLE" ELSE st, Lookup(st, b)>>

Outcome(st, b) ==
  IF \E c \in Chain[st] : c[1] = b
    THEN LET c == CHOOSE c \in Chain[st] : c[1] = b IN <<c[2], c[3]>>
    ELSE <<"IDLE", Lookup(st, b)>>

-----------------------------------------------------------------------------
(* External: the keyboard.  A key is pressed, repeats while it is held, or *)
(* is released; a key without break bytes is never seen released.          *)
Send(bytes, codes) ==
  /\ line' = bytes
  /\ meant' = codes
  /\ queuing' = <<>>
  /\ whole' = IF whole < Settled THEN whole + 1 ELSE whole

Stroke ==
  /\ port = "keyboard" /\ line = <<>>
  /\ puts + 4 <= MaxPuts
  /\ \E k \in Keys :
       \/ /\ Send(k.make, <<k.code>>)
          /\ down' = IF k.break = <<>> THEN down ELSE down \cup {k}
       \/ /\ k \in down
          /\ Send(k.break, <<k.code + 128>>)
          /\ down' = down \ {k}
  /\ UNCHANGED <<ringVars, state, modifiers, mouseVars, port, lost>>

(* A byte is overwritten in the controller before the handler has run.     *)
Lose ==
  /\ line # <<>>
  /\ line' = Tail(line)
  /\ lost' = TRUE
  /\ whole' = 0
  /\ aligned' = FALSE
  /\ UNCHANGED <<ringVars, kbdVars, mouse, registers, port, meant>>

(* kbd_handle_irq; 0 and 128 are ignored.                                  *)
KbdHandleIrq ==
  /\ port = "keyboard" /\ line # <<>>
  /\ line' = Tail(line)
  /\ IF Base(Head(line)) = 0
       THEN UNCHANGED <<state, modifiers, queuing, ringVars>>
       ELSE /\ state' = Outcome(state, Head(line))[1]
            /\ EnqueueScan(Outcome(state, Head(line))[2])
  /\ UNCHANGED <<down, mouseVars, port, lost, whole, meant>>

(* kbd_get_scancode, from the main program.                                *)
KbdGetScancode ==
  /\ port = "keyboard"
  /\ RbWordGet
  /\ UNCHANGED <<kbdVars, mouseVars, port, line, lost, whole, meant>>

-----------------------------------------------------------------------------
\* Bit 3, set in the first byte of a packet; a movement may have it too.
StartsPacket(b) == (b \div 8) % 2 = 1

ASSUME PacketAssumption == \A p \in Packets : StartsPacket(p[1])

(* The handler cannot take a movement of this packet for a first byte:     *)
(* wherever it is before the packet, it is in step after it.               *)
Telling(p) == ~StartsPacket(p[2]) /\ ~StartsPacket(p[3])

(* External: the mouse sends a packet, any movement in it.                 *)
Move ==
  /\ port = "mouse" /\ line = <<>>
  /\ \E p \in Packets : Send(p, p)
  /\ aligned' = (aligned \/ (whole > 0 /\ Telling(meant)))
  /\ UNCHANGED <<ringVars, state, modifiers, down, mouse, registers, port, lost>>

\* Mutant: the first byte is taken whatever it is.
MouseHandleIrq_NoSync ==
  /\ port = "mouse" /\ line # <<>>
  /\ line' = Tail(line)
  /\ registers' = [registers EXCEPT ![mouse + 1] = Head(line)]
  /\ mouse' = (mouse + 1) % 3
  /\ UNCHANGED <<ringVars, kbdVars, aligned, port, lost, whole, meant>>

(* mouse_handle_irq: out of step, a byte without the mark is dropped.      *)
MouseHandleIrq ==
  /\ port = "mouse" /\ line # <<>>
  /\ line' = Tail(line)
  /\ IF mouse = 0 /\ ~StartsPacket(Head(line))
       THEN UNCHANGED <<mouse, registers>>
       ELSE /\ registers' = [registers EXCEPT ![mouse + 1] = Head(line)]
            /\ mouse' = (mouse + 1) % 3
  /\ UNCHANGED <<ringVars, kbdVars, aligned, port, lost, whole, meant>>

-----------------------------------------------------------------------------
(* ps2_init and mouse_init leave both machines at their start.             *)
PsInit ==
  /\ Init
  /\ port \in {"keyboard", "mouse"}
  /\ state = "IDLE" /\ modifiers = {} /\ down = {}
  /\ line = <<>> /\ lost = FALSE /\ whole = Settled
  /\ meant = (IF port = "mouse" THEN <<0, 0, 0>> ELSE <<>>)
  /\ queuing = <<>>
  /\ mouse = 0 /\ registers = <<0, 0, 0>> /\ aligned = TRUE

PsNext ==
  \/ Stroke \/ Lose \/ KbdHandleIrq \/ KbdGetScancode
  \/ Move \/ MouseHandleIrq

PsSpec == PsInit /\ [][PsNext]_psVars

-----------------------------------------------------------------------------
AtRest == line = <<>>

(* Print Screen is queued as pressed with 96 and as released with 208,     *)
(* where 96 with bit 7 set is 224.                                         *)
DriverCode(code) == IF code = 224 THEN 208 ELSE code

(* However many bytes were lost, the keyboard's machine is in step again   *)
(* after a few whole strokes: it waits for a new key, and each stroke has  *)
(* queued its own code and nothing else.                                   *)
BackInStep ==
  port = "keyboard" /\ AtRest /\ whole = Settled =>
    state = "IDLE" /\ queuing = [i \in DOMAIN meant |-> DriverCode(meant[i])]

(* As long as nothing was lost, a shift, control or alt flag is set only   *)
(* while a key of that kind is held: the bytes of Pause and Print Screen   *)
(* that look like modifiers set none.                                      *)
NoPhantomModifier ==
  port = "keyboard" /\ AtRest /\ ~lost =>
    \A f \in modifiers \cap {"shift", "ctrl", "alt"} :
      \E k \in down : Held(k.code) = f

(* kbd_handle_irq's comment on 208: it is "our PrintScreen key break".     *)
(* The release of a key is queued as the code of its press, bit 7 set.     *)
ReleaseMatchesPress ==
  port = "keyboard" /\ AtRest /\ ~lost => queuing = meant

(* As long as no byte was lost, every packet is shown as it was sent,      *)
(* whatever its movements; and after a loss again, from the first packet   *)
(* on that follows a whole one without a movement like a first byte.  Each *)
(* loss in between starts this anew.                                       *)
PacketsShown ==
  port = "mouse" /\ AtRest /\ aligned => mouse = 0 /\ registers = meant

(* mouse_handle_irq's comment, "ignore the byte... we're out of synch": to *)
(* ignore bytes brings the mouse back in step.                             *)
MouseBackInStep == port = "mouse" /\ AtRest /\ whole = Settled => mouse = 0

=============================================================================
