---------------------------- MODULE CommandLine -----------------------------
(***************************************************************************)
(* The command line's editor (src/cli/cli.c): a key becomes one or more    *)
(* characters in the keyboard driver, the CLI puts them together again,    *)
(* edits its buffer, and tells the screen by escape sequences what it did. *)
(* Nothing reads the screen back: buffer and screen stay alike only if     *)
(* every pair of operations has the same effect on both.                   *)
(*                                                                         *)
(* The screen is TextScreen's; the panel below the title is its region.    *)
(* What a command prints is left out but for the line it ends.             *)
(***************************************************************************)
EXTENDS TextScreen

CONSTANTS
  MaxLine,   \* bound of the model: characters typed in a line, for MAX_COMMAND_SIZE
  Depth,     \* MAX_HISTORY_DEPTH
  MaxLines   \* bound of the model: lines completed

NUL == ""
Prompt == ">"       \* 0x10, followed by a space
Margin == 2         \* columns the prompt takes

ASSUME CliAssumption ==
  /\ VisW > Margin /\ Prompt \in Letter /\ NUL \notin Letter
  /\ MaxLine \in Nat \ {0} /\ Depth \in Nat \ {0} /\ MaxLines \in Nat

VARIABLES
  cli,      \* line: command_line, i: the place in it, history: commands gone back,
            \* past: cli_history
  entered,  \* history: the lines ended with CR, newest first
  lines     \* lines given to cli_process_line

cliVars == <<screen, cli, entered, lines>>
-----------------------------------------------------------------------------
(* From the key to the characters: kbd_to_ansi of the two drivers.         *)

\* The keys that send a sequence, with the letter or the number it carries.
LetterCode == [UP |-> "A", DOWN |-> "B", RIGHT |-> "C", LEFT |-> "D"]
NumberCode == [HOME |-> 1, INS |-> 2, DEL |-> 3, END |-> 4, PGUP |-> 5, PGDN |-> 6,
               F1 |-> 11, F2 |-> 12, F3 |-> 13, F4 |-> 14, F5 |-> 15,
               F6 |-> 17, F7 |-> 18, F8 |-> 19, F9 |-> 20, F10 |-> 21, F11 |-> 23, F12 |-> 24,
               MONITOR |-> 30, CTX |-> 31, HELP |-> 32]
PlainKeys == {"BS", "RETURN"} \cup (Letter \ {Prompt})
Key == DOMAIN LetterCode \cup DOMAIN NumberCode \cup PlainKeys \cup {"ESC"}
ASSUME KeyAssumption ==   \* no letter has the name of another key or code
  Letter \cap (DOMAIN LetterCode \cup DOMAIN NumberCode
               \cup {"ESC", "BS", "RETURN", "CR", "LF", "CTL", "none"}) = {}
FlagKeys == {"SHIFT", "ALT", "CTRL", "OS"}
ModKeys == FlagKeys \cup {"MENU"}
Weight == [SHIFT |-> 1, ALT |-> 2, CTRL |-> 4, OS |-> 8, MENU |-> 16]
Ps2Weight == [SHIFT |-> 2, CTRL |-> 4, ALT |-> 8, OS |-> 16, MENU |-> 32]

(* The layout's tables: the character of a key that sends one.  A letter is*)
(* named for what SHIFT and CAPS make of it; CTRL makes a control code of  *)
(* it (of H, M and [ those of BS, RETURN and ESC, of a digit none).        *)
Character(key, mods) ==
  LET held == IF "ALT" \in mods THEN {} ELSE mods
  IN IF key = "RETURN" THEN (IF held \cap {"SHIFT", "CTRL"} = {} THEN "CR" ELSE "LF")
     ELSE IF key \in Letter /\ "CTRL" \in held THEN "CTL"
     ELSE key

Digits == <<"0", "1", "2", "3", "4", "5", "6", "7", "8", "9">>
DigitsOf(n) == (IF n >= 10 THEN <<Digits[(n \div 10) + 1]>> ELSE <<>>) \o <<Digits[(n % 10) + 1]>>
Total(weight, mods) ==
  LET Bit(m) == IF m \in mods THEN weight[m] ELSE 0
  IN Bit("SHIFT") + Bit("ALT") + Bit("CTRL") + Bit("OS") + Bit("MENU")

\* Mutant: the code of the modifiers is sent without the 1 added to it.
ModifierCode_Bare(mods) ==
  IF mods \subseteq {"MENU"} THEN <<>> ELSE DigitsOf(Total(Weight, mods))

(* The modifiers, as a number one more than their bits.  MENU alone is not *)
(* sent.                                                                   *)
ModifierCode(mods) ==
  IF mods \subseteq {"MENU"} THEN <<>> ELSE DigitsOf(Total(Weight, mods) + 1)

(* kbd_mo.c: modifiers go before a letter, and after a number.             *)
KbdmoToAnsi(key, mods) ==
  IF key \in PlainKeys THEN <<Character(key, mods)>>
  ELSE IF key = "ESC" THEN <<"ESC", "ESC">>
  ELSE IF key \in DOMAIN LetterCode
  THEN <<"ESC", "[">> \o ModifierCode(mods) \o <<LetterCode[key]>>
  ELSE <<"ESC", "[">> \o DigitsOf(NumberCode[key])
       \o (IF mods \subseteq {"MENU"} THEN <<>> ELSE <<";">>) \o ModifierCode(mods) \o <<"~">>

(* ps2.c: modifiers and a semicolon go before either.  With ALT held the   *)
(* driver does not come here.                                              *)
Ps2Key == Key \ {"MONITOR", "CTX", "HELP"}
KbdToAnsi(key, mods) ==
  LET Modifiers == IF mods \subseteq {"MENU"} THEN <<>>
                   ELSE DigitsOf(Total(Ps2Weight, mods) % 16) \o <<";">>
  IN IF key \in PlainKeys THEN <<Character(key, mods)>>
     ELSE IF key = "ESC" THEN <<"ESC", "ESC">>
     ELSE IF key \in DOMAIN LetterCode
     THEN <<"ESC", "[">> \o Modifiers \o <<LetterCode[key]>>
     ELSE <<"ESC", "[">> \o Modifiers \o DigitsOf(NumberCode[key]) \o <<"~">>

-----------------------------------------------------------------------------
(* From the characters to the editor's key codes: cli_getchar.             *)

Plain(c) == [key |-> c, flags |-> {}]
Nothing == Plain("none")    \* 0
(* cli_translate_modifiers.                                                *)
Flags(n) ==
  LET bits == IF n > 0 THEN n - 1 ELSE n
  IN {m \in FlagKeys : (bits \div Weight[m]) % 2 = 1}
TranslateAlpha(modifiers, code) ==
  IF \E k \in DOMAIN LetterCode : LetterCode[k] = code
  THEN [key |-> CHOOSE k \in DOMAIN LetterCode : LetterCode[k] = code,
        flags |-> Flags(modifiers)]
  ELSE Nothing
FunctionKey == <<"F1", "F2", "F3", "F4", "F5", "F6", "F7", "F8", "F9", "F10">>
TranslateNumeric(modifiers, code) ==
  LET Is(key) == [key |-> key, flags |-> Flags(modifiers)]
  IN IF code \in 11 .. 15 THEN Is(FunctionKey[code - 10])
     ELSE IF code \in 17 .. 21 THEN Is(FunctionKey[code - 11])
     ELSE IF code = 30 THEN Is("MONITOR")
     ELSE IF code = 31 THEN Is("CTX")
     ELSE IF code = 32 THEN Is("HELP")
     ELSE IF code = 3 THEN Is("DEL")
     ELSE Nothing

Start == [state |-> "BASE", number1 |-> 0, number2 |-> 0, codes |-> <<>>]
Returns(code, s) == [Start EXCEPT !.codes = Append(s.codes, code)]

\* Of the letters, the keyboards send only these in a sequence.
Alpha(c) == \E k \in DOMAIN LetterCode : LetterCode[k] = c
Digit(c) == c \in Range(Digits)
Value(c) == (CHOOSE n \in 1 .. 10 : Digits[n] = c) - 1
(* One turn of the loop in cli_getchar; a call that returns is followed by *)
(* the next.                                                               *)
GetChar(s, c) ==
  IF s.state = "BASE" THEN
    IF c = "ESC" THEN [s EXCEPT !.state = "ES"] ELSE Returns(Plain(c), s)
  ELSE IF s.state = "ES" THEN
    IF c = "[" THEN [s EXCEPT !.state = "CSI"] ELSE Returns(Plain(c), s)
  ELSE IF s.state = "CSI" THEN
    IF Digit(c) THEN [s EXCEPT !.number1 = @ * 10 + Value(c)]
    ELSE IF c = ";" THEN [s EXCEPT !.state = "SEMI"]
    ELSE IF c = "~" THEN Returns(TranslateNumeric(0, s.number1), s)
    ELSE IF Alpha(c) THEN Returns(TranslateAlpha(s.number1, c), s)
    ELSE Returns(Plain(c), s)
  ELSE
    IF Digit(c) THEN [s EXCEPT !.number2 = @ * 10 + Value(c)]
    ELSE IF c = "~" THEN Returns(TranslateNumeric(s.number2, s.number1), s)
    ELSE Returns(Plain(c), s)

Codes(chars) == ForEach(GetChar, chars, Start).codes

\* What cli_getchar returns for each key of the Mo keyboard.
Heard == [key \in Key |-> [mods \in SUBSET ModKeys |-> Codes(KbdmoToAnsi(key, mods))]]

-----------------------------------------------------------------------------
(* The buffer.                                                             *)

Text(line) ==  \* the string in the buffer: up to the first NUL
  LET length == CHOOSE n \in 0 .. MaxLine :
                  line[n] = NUL /\ \A k \in 0 .. n - 1 : line[k] # NUL
  IN [k \in 1 .. length |-> line[k - 1]]
StrLen(line) == Len(Text(line))
Blank == [k \in 0 .. MaxLine |-> NUL]

(* strcpy: what is behind the NUL stays.                                   *)
StrCpy(line, text) ==
  [k \in 0 .. MaxLine |-> IF k < Len(text) THEN text[k + 1]
                          ELSE IF k = Len(text) THEN NUL ELSE line[k]]

(* The loop that closes the gap at i.                                      *)
CloseGap(line, i) ==
  [k \in 0 .. MaxLine |-> IF i <= k /\ k < StrLen(line) THEN line[k + 1] ELSE line[k]]

(* The sequences the editor prints, through the console's handlers.        *)
GoTo(s, column) == set_xy(s, column, s.cursor.y)    \* ESC [ n G
GoBy(s, dx) == set_xy(s, s.cursor.x + dx, s.cursor.y)    \* ESC [ C and D
PrintText(s, text) == ForEach(put, text, s)
ClearAfterPrompt(s) == txt_clear_line(GoTo(s, Margin), 0)    \* ESC [3G ESC [K
DeleteOne(s) == txt_delete(s, 1)    \* ESC [1P
ShowPrompt(s) == PrintText(s, <<Prompt, Space>>)

-----------------------------------------------------------------------------
(* One key code in cli_readline.  e is the editor: cli with its screen.    *)
(* Other control codes and keys than these do nothing.                     *)

Type(e, c) ==
  IF e.i < MaxLine
  THEN [e EXCEPT !.line[e.i] = c, !.i = @ + 1, !.screen = put(@, c)]
  ELSE e

EscapeKey(e) == [e EXCEPT !.line = Blank, !.i = 0, !.screen = ClearAfterPrompt(@)]

\* Mutant: the screen's cursor is not moved back first.
Backspace_InPlace(e) ==
  IF e.i > 0 THEN [e EXCEPT !.i = @ - 1, !.line = CloseGap(@, e.i - 1),
                            !.screen = DeleteOne(@)]
  ELSE e

Backspace(e) ==
  IF e.i > 0 THEN [e EXCEPT !.i = @ - 1, !.line = CloseGap(@, e.i - 1),
                            !.screen = DeleteOne(GoBy(@, -1))]
  ELSE e

DeleteKey(e) == [e EXCEPT !.line = CloseGap(@, e.i), !.screen = DeleteOne(@)]

Left(e, ctrl) ==
  IF ctrl THEN [e EXCEPT !.i = 0, !.screen = GoTo(@, Margin)]
  ELSE IF e.i > 0 THEN [e EXCEPT !.i = @ - 1, !.screen = GoBy(@, -1)]
  ELSE e

Right(e, ctrl) ==
  IF ctrl THEN [e EXCEPT !.i = StrLen(e.line), !.screen = GoTo(@, Margin + StrLen(e.line))]
  ELSE IF e.line[e.i] # NUL THEN [e EXCEPT !.i = @ + 1, !.screen = GoBy(@, 1)]
  ELSE e

(* The n-th line of the history replaces what was typed.                   *)
Recall(e, n) ==
  LET text == e.past[n + 1]
  IN [e EXCEPT !.line = StrCpy(@, text), !.i = Len(text),
               !.screen = PrintText(ClearAfterPrompt(@), text)]

Up(e) ==
  IF e.history < Depth /\ e.past[e.history + 1] # <<>>
  THEN [Recall(e, e.history) EXCEPT !.history = @ + 1]
  ELSE e

Down(e) ==
  IF e.history > 0 THEN [Recall(e, e.history - 1) EXCEPT !.history = @ - 1] ELSE e

Edit(e, code) ==
  LET ctrl == "CTRL" \in code.flags
  IN IF code.key \in Letter \cup {"C", "D", "A", "B"} THEN Type(e, code.key)
     ELSE IF code.key = "ESC" THEN EscapeKey(e)
     ELSE IF code.key = "BS" THEN Backspace(e)
     ELSE IF code.key = "DEL" THEN DeleteKey(e)
     ELSE IF code.key = "LEFT" THEN Left(e, ctrl)
     ELSE IF code.key = "RIGHT" THEN Right(e, ctrl)
     ELSE IF code.key = "UP" THEN Up(e)
     ELSE IF code.key = "DOWN" THEN Down(e)
     ELSE e
Ends == {"CR", "CTX", "HELP"}

-----------------------------------------------------------------------------
(* cli_repl.                                                               *)

\* Mutant: the loop that makes room runs the other way.
Remember_Upwards(past, text) == [n \in 1 .. Depth |-> text]

Remember(past, text) == [n \in 1 .. Depth |-> IF n = 1 THEN text ELSE past[n - 1]]

Editor == [line |-> cli.line, i |-> cli.i, history |-> cli.history,
           past |-> cli.past, screen |-> screen]
EditorBecomes(e) ==
  /\ screen' = e.screen
  /\ cli' = [line |-> e.line, i |-> e.i, history |-> e.history, past |-> e.past]

(* The next prompt, two lines down, and an empty line.                     *)
NextLine(e) ==
  [e EXCEPT !.line = Blank, !.i = 0, !.history = 0,
            !.screen = ShowPrompt(newline(newline(@)))]

CliInit ==
  /\ screen = ShowPrompt([cells |-> [o \in Memory |-> Space], region |-> Full,
                          cursor |-> [x |-> 0, y |-> 0], wild |-> FALSE])
  /\ cli = [line |-> Blank, i |-> 0, history |-> 0, past |-> [n \in 1 .. Depth |-> <<>>]]
  /\ entered = <<>> /\ lines = 0

(* A key that leaves the line as it is being edited.                       *)
EditKey(key, mods) ==
  LET codes == Heard[key][mods]
  IN /\ ~\E n \in DOMAIN codes : codes[n].key \in Ends
     /\ EditorBecomes(ForEach(Edit, codes, Editor))
     /\ UNCHANGED <<entered, lines>>

(* CR: the line goes into the history and is executed.                     *)
Enter ==
  /\ lines < MaxLines /\ lines' = lines + 1
  /\ entered' = <<Text(cli.line)>> \o entered
  /\ EditorBecomes(NextLine([Editor EXCEPT !.past = Remember(@, Text(cli.line))]))

(* MENU HELP prints help or, with OS, the credits; CTX SWITCH has the same *)
(* effect on the other screen.  Then the line is executed as it stands.    *)
Interrupted ==
  /\ lines < MaxLines /\ lines' = lines + 1
  /\ UNCHANGED entered
  /\ EditorBecomes(NextLine([Editor EXCEPT !.screen = newline(@)]))

EditMods == {{}, {"CTRL"}}

CliNext == \/ \E key \in Key, mods \in EditMods : EditKey(key, mods)
           \/ Enter \/ Interrupted

CliSpec == CliInit /\ [][CliNext]_cliVars

-----------------------------------------------------------------------------

Row(s) == [x \in 0 .. VisW - 1 |-> s.cells[Offset(x, s.cursor.y)]]
(* The row of the cursor shows the prompt and the text, and the cursor is  *)
(* at the place in the text where the next key takes effect.               *)
Shown(s, line, i) ==
  LET text == Text(line)
  IN /\ s.cursor.x = Margin + i
     /\ \A x \in Margin .. VisW - 1 :
          Row(s)[x] = IF x - Margin < Len(text) THEN text[x - Margin + 1] ELSE Space
Fits(line) == Margin + StrLen(line) < VisW
\* Bytes of an earlier, longer line lie behind the NUL.
TailHidden(line) ==
  StrLen(line) < MaxLine /\ \E k \in StrLen(line) + 1 .. MaxLine : line[k] # NUL

(* A line that fits on the row, and whose buffer has no bytes behind its   *)
(* end, is shown after every key as it is in the buffer: moving, deleting  *)
(* and recalling do the same to both (cli_readline, cli_repl).             *)
ShownAsHeld ==
  [][Shown(screen, cli.line, cli.i) /\ Fits(cli.line) /\ Fits(cli'.line)
       /\ ~TailHidden(cli.line)
     => Shown(screen', cli'.line, cli'.i)]_cliVars

(* The history is the last lines entered, newest first, whatever was       *)
(* recalled, edited or interrupted between (cli_repl).                     *)
HistoryNewestFirst ==
  \A n \in 1 .. Depth :
    cli.past[n] = IF n <= Len(entered) THEN entered[n] ELSE <<>>

\* The code of a key to the editor: of a key it does not know, none.
Unknown == {"HOME", "INS", "END", "PGUP", "PGDN", "F11", "F12"}
KeyCode(key, mods) ==
  IF key \in PlainKeys \cup {"ESC"} THEN Plain(Character(key, mods))
  ELSE IF key \in Unknown THEN Nothing
  ELSE [key |-> key, flags |-> mods \ {"MENU"}]
KeysHeard == Heard = [key \in Key |-> [mods \in SUBSET ModKeys |-> <<KeyCode(key, mods)>>]]
Ps2KeysHeard == \A key \in Ps2Key : Codes(KbdToAnsi(key, {})) = <<KeyCode(key, {})>>

(* Every key of the Mo keyboard, with any modifiers, becomes one code: of  *)
(* a key the CLI knows that key and its modifiers, of another none; and so *)
(* does every key of the PS/2 keyboard without modifiers.  A key that the  *)
(* CLI does not know, or a RETURN with CTRL, does nothing to any line.     *)
KeysUnderstood ==
  /\ KeysHeard /\ Ps2KeysHeard
  /\ \A key \in Unknown \cup {"RETURN"}, mods \in EditMods :
       KeyCode(key, mods).key # "CR" => ForEach(Edit, Heard[key][mods], Editor) = Editor

-----------------------------------------------------------------------------
(* What the comments say and the code does not do.                         *)

(* The same of the PS/2 keyboard's modifiers.                              *)
Ps2KeysUnderstood ==
  \A key \in Ps2Key, mods \in SUBSET (ModKeys \ {"ALT"}) :
    Codes(KbdToAnsi(key, mods)) = <<KeyCode(key, mods)>>

(* cli.c, at CLI_FLAG_FUNC: "Function keys: 0x4001 - 0x400C", twelve.      *)
FunctionKeysHeard ==
  \A key \in {"F11", "F12"} : Codes(KbdmoToAnsi(key, {})) # <<Nothing>>

(* "Add key to command line": of the string, whatever was recalled before. *)
NothingComesBack == [][StrLen(cli'.line) <= StrLen(cli.line) + 1
                       \/ cli'.history # cli.history]_cliVars

(* cli_repl: "Otherwise, good command... lets add it to the history": what *)
(* is executed has been entered.                                           *)
RunsEntered == lines = Len(entered)

(* "Go back one command in history": a command entered can be recalled.    *)
UpRecalls ==
  cli.history = 0 /\ (\E n \in 1 .. Depth : cli.past[n] # <<>>)
    => Up(Editor).history = 1

(* "Go forward one command in history": the line changes to a newer one.   *)
DownIsNewer ==
  cli.history > 1 /\ Text(cli.line) = cli.past[cli.history]
    => Text(Down(Editor).line) = cli.past[cli.history - 1]
=============================================================================
