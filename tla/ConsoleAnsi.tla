---------------------------- MODULE ConsoleAnsi ----------------------------
(***************************************************************************)
(* The console channels (src/dev/console.c): what is written goes through  *)
(* an escape-sequence buffer when the channel interprets ANSI codes, and   *)
(* what is read comes from the one keyboard through a one-character peek   *)
(* buffer kept in each channel's data, right after the escape buffer.      *)
(*                                                                         *)
(* Characters are the classes the code tells apart.  What a sequence does  *)
(* to the screen is TextScreen's subject; here it is "ran".                *)
(***************************************************************************)
EXTENDS Integers, Sequences, SequencesExt, FiniteSets

CONSTANTS
  Chan,      \* the console channels
  Written,   \* bound of the model: those of them that are written to
  Char,      \* a subset of "esc", "[", "1", ";", "m", "q", "%"
  BufSize,   \* ANSI_BUFFER_SIZE
  MaxOut,    \* bound of the model: characters written to each
  MaxKeys    \* bound of the model: keys typed

ASSUME ConsoleAssumption ==
  /\ Written \subseteq Chan
  /\ BufSize \in Nat /\ BufSize > 2 /\ MaxOut \in Nat /\ MaxKeys \in Nat

\* Letters end a sequence; of the two, only "m" stands for one the table has.
Final == {"m", "q"}
Known == {"m"}

None == [from |-> "none"]
KeyOf(n) == [from |-> "keyboard", n |-> n]
Output(c) == [from |-> "output", c |-> c]

VARIABLES
  con,      \* [Chan -> the channel's t_console_data and histories]:
            \*   ansi   CON_CTRL_ANSI      buf  ansi_buffer up to its count
            \*   key    key_buffer         done history: what became of the output
            \*   mixed  history: a character overtook an unfinished sequence
            \*   grown  history: a sequence grew out of its buffer
            \*   written, read, gone (keys peeked and lost): histories
  kbd,      \* keys typed and not yet fetched
  keysTyped \* number of keys typed

conVars == <<con, kbd, keysTyped>>

ConInit ==
  /\ con = [ch \in Chan |-> [ansi |-> TRUE, buf |-> <<>>, key |-> None,
                             done |-> <<>>, mixed |-> FALSE, grown |-> FALSE,
                             written |-> <<>>, read |-> <<>>, gone |-> <<>>]]
  /\ kbd = <<>> /\ keysTyped = 0

-----------------------------------------------------------------------------

Ends(s, kind, text) == [s EXCEPT !.done = Append(@, [kind |-> kind, text |-> text])]

(* con_flush: with ANSI codes on, what is in the buffer is printed and each*)
(* byte cleared, the peeked key too when the sequence has grown over it.   *)
Flush(s) ==
  LET t == IF s.ansi /\ s.buf # <<>> THEN Ends(s, "shown", s.buf) ELSE s
  IN [t EXCEPT !.buf = <<>>,
               !.key = IF s.ansi /\ Len(s.buf) > BufSize THEN None ELSE @]

(* ansi_match_pattern, and the reset of the count by its caller.           *)
MatchPattern(s) ==
  IF s.buf[2] = "[" /\ Last(s.buf) \in Known
  THEN [Ends(s, "ran", s.buf) EXCEPT !.buf = <<>>]
  ELSE Flush(s)

\* Mutant: a letter that ends a sequence is not put in the buffer.
ProcessC_Skip(s, c) ==
  IF c = "esc" THEN [(IF s.buf = <<>> THEN s ELSE Ends(s, "dropped", s.buf))
                       EXCEPT !.buf = <<c>>]
  ELSE IF s.buf = <<>> THEN Ends(s, "shown", <<c>>)
  ELSE IF c \in Final /\ Len(s.buf) > 1 THEN MatchPattern(s)
  ELSE [s EXCEPT !.buf = Append(@, c)]

(* ansi_process_c.  ESC starts over, and what was being collected is gone. *)
(* Nothing limits the buffer: the character after the last place lands in  *)
(* the peek buffer.                                                        *)
ProcessC(s, c) ==
  LET t == [s EXCEPT !.buf = Append(@, c), !.grown = @ \/ Len(s.buf) >= BufSize,
                     !.key = IF Len(s.buf) = BufSize THEN Output(c) ELSE @]
  IN IF c = "esc"
     THEN [(IF s.buf = <<>> THEN s ELSE Ends(s, "dropped", s.buf)) EXCEPT !.buf = <<c>>]
     ELSE IF s.buf = <<>> THEN Ends(s, "shown", <<c>>)
     ELSE IF c \in Final THEN MatchPattern(t) ELSE t

(* con_write_b.                                                            *)
WriteB(s, c) ==
  LET t == [s EXCEPT !.written = Append(@, c)]
  IN IF s.ansi THEN ProcessC(t, c)
     ELSE [Ends(t, "shown", <<c>>) EXCEPT !.mixed = @ \/ s.buf # <<>>]

Write(ch, c) ==
  /\ Len(con[ch].written) < MaxOut
  /\ con' = [con EXCEPT ![ch] = WriteB(@, c)]
  /\ UNCHANGED <<kbd, keysTyped>>

(* con_ioctrl: CON_IOCTRL_ANSI_ON and _OFF.                                *)
Ioctrl(ch, on) ==
  /\ con[ch].ansi # on
  /\ con' = [con EXCEPT ![ch].ansi = on]
  /\ UNCHANGED <<kbd, keysTyped>>

(* con_close: an unfinished sequence is lost if interpreting is off.       *)
Closed(s) ==
  IF s.buf # <<>> /\ ~s.ansi THEN Ends(s, "dropped", s.buf) ELSE Flush(s)

(* con_open: the channel's data is set up anew, and a peeked key is lost.  *)
Opened(s) ==
  [s EXCEPT !.ansi = TRUE, !.buf = <<>>, !.key = None,
            !.gone = IF s.key = None THEN @ ELSE Append(@, s.key)]

Reopen(ch) ==
  /\ ~(con[ch].ansi /\ con[ch].buf = <<>> /\ con[ch].key = None)
  /\ con' = [con EXCEPT ![ch] = Opened(Closed(@))]
  /\ UNCHANGED <<kbd, keysTyped>>

-----------------------------------------------------------------------------

Type ==
  /\ keysTyped < MaxKeys /\ keysTyped' = keysTyped + 1
  /\ kbd' = Append(kbd, KeyOf(keysTyped'))
  /\ UNCHANGED con

\* The channel reads the key peeked before, or else the next key k.
Take(s, k) == IF s.key # None THEN [s EXCEPT !.read = Append(@, s.key), !.key = None]
              ELSE [s EXCEPT !.read = Append(@, k)]

(* con_read_b with echo off, once there is something to read: until then it*)
(* loops.                                                                  *)
Read(ch) ==
  /\ con[ch].key # None \/ kbd # <<>>
  /\ con' = [con EXCEPT ![ch] = Take(@, IF kbd = <<>> THEN None ELSE Head(kbd))]
  /\ kbd' = IF con[ch].key # None THEN kbd ELSE Tail(kbd)
  /\ UNCHANGED keysTyped

\* Mutant: a key is fetched although one has been peeked.
Peek_Again(ch) ==
  /\ kbd # <<>>
  /\ con' = [con EXCEPT ![ch].key = Head(kbd)]
  /\ kbd' = Tail(kbd)
  /\ UNCHANGED keysTyped

(* con_status, con_has_input: fetches a key and keeps it.                  *)
Peek(ch) ==
  /\ con[ch].key = None /\ kbd # <<>>
  /\ con' = [con EXCEPT ![ch].key = Head(kbd)]
  /\ kbd' = Tail(kbd)
  /\ UNCHANGED keysTyped

ConNext ==
  \/ \E ch \in Written : \/ \E c \in Char : Write(ch, c)
                         \/ \E on \in BOOLEAN : Ioctrl(ch, on)
  \/ \E ch \in Chan : Reopen(ch) \/ Read(ch) \/ Peek(ch)
  \/ Type

ConSpec == ConInit /\ [][ConNext]_conVars

-----------------------------------------------------------------------------

\* What grows out of its buffer lands in the peek buffer, and then in
\* whatever lies behind it.
InBounds == \A ch \in Chan : ~con[ch].grown

Text(done) == FlattenSeq([n \in DOMAIN done |-> done[n].text])

(* Every character written comes out once and in order, as text, in a      *)
(* sequence that was run, or in one cut off by a new ESC or by closing the *)
(* channel - or it is still in the buffer; unless other text was let       *)
(* through in mid-sequence, interpreting being off.                        *)
OutputInOrder ==
  \A ch \in Chan : LET s == con[ch] IN
    ~s.mixed => Text(s.done) \o s.buf = s.written

\* What runs is a whole sequence: ESC [, no letter on the way, and a code
\* the table has; and no such sequence is printed as text.
Whole(t) ==
  /\ Len(t) > 2 /\ t[1] = "esc" /\ t[2] = "[" /\ Last(t) \in Known
  /\ \A i \in 2 .. Len(t) - 1 : t[i] \notin Final \cup {"esc"}

RunsSequences ==
  \A ch \in Chan : \A n \in DOMAIN con[ch].done :
    con[ch].done[n].kind = "ran" <=> Whole(con[ch].done[n].text)

(* Every character reaches the screen once and in order, and exactly the   *)
(* whole sequences act (con_write_b, ansi_process_c), wherever interpreting*)
(* is switched or the channel reopened, while no sequence outgrows the     *)
(* buffer.                                                                 *)
OutputHandled == InBounds => OutputInOrder /\ RunsSequences

\* The keys a channel has had, the one it peeked at included.
HasHad(s) == s.read \o (IF s.key = None THEN <<>> ELSE <<s.key>>)

(* A key is read at most once, by one channel, and none is lost but one    *)
(* peeked by a channel that is then closed; each channel reads its keys in *)
(* the order they were typed, peeking or not, while no sequence outgrows   *)
(* the buffer.                                                             *)
KeysOnce == InBounds =>
  LET Gone(ch) == ToSet(con[ch].gone)
      Had(ch) == ToSet(HasHad(con[ch]))
  IN /\ \A ch \in Chan : \A i, j \in DOMAIN HasHad(con[ch]) :
          i < j => HasHad(con[ch])[i].n < HasHad(con[ch])[j].n
     /\ \A a, b \in Chan : a # b => Had(a) \cap (Had(b) \cup Gone(b)) = {}
     /\ (UNION {Had(ch) \cup Gone(ch) : ch \in Chan}) \cup ToSet(kbd)
          = {KeyOf(n) : n \in 1 .. keysTyped}

(* key_buffer is "Used to peek at keyboard input": what it holds was typed.*)
PeekedIsTyped == \A ch \in Chan : con[ch].key.from # "output"
=============================================================================
