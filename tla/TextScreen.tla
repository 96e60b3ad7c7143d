----------------------------- MODULE TextScreen -----------------------------
(***************************************************************************)
(* A text screen: the operations of txt_screen.c over those of a display's *)
(* driver (txt_a2560k_b.c; the other drivers have the same code).  Erasing *)
(* and inserting work by narrowing the region, filling or scrolling it,    *)
(* and putting it back, and an empty region stands for the whole screen.   *)
(*                                                                         *)
(* Colour, fonts and the display's modes are left out.                     *)
(***************************************************************************)
EXTENDS Integers, Sequences, FiniteSets, SequencesExt

CONSTANTS
  MaxW, MaxH,   \* a2560k_b_max_size
  VisW, VisH,   \* a2560k_b_visible_size: without the border
  TabStop,      \* columns between tab stops (8)
  Letter,       \* the characters printed
  By,           \* bound of the model: amounts to scroll, insert and delete
  At            \* bound of the model: rows and columns asked for

Space == " "   \* a blank cell

ASSUME ScreenAssumption ==
  /\ MaxW \in Nat /\ MaxH \in Nat
  /\ VisW \in 1 .. MaxW /\ VisH \in 1 .. MaxH /\ TabStop \in Nat \ {0}
  /\ By \subseteq Int /\ At \subseteq Int /\ Space \notin Letter

VARIABLE screen
  \* cells:  [offset in the text matrix -> character]
  \* region, cursor: a2560k_b_region, a2560k_b_cursor
  \* wild:   an operation has run past its region or the matrix

Offset(x, y) == y * MaxW + x
Memory == 0 .. MaxW * MaxH - 1
Full == [x |-> 0, y |-> 0, w |-> VisW, h |-> VisH]
InRect(r, x, y) == x \in r.x .. r.x + r.w - 1 /\ y \in r.y .. r.y + r.h - 1
Cells(r) == {Offset(x, y) : x \in r.x .. r.x + r.w - 1, y \in r.y .. r.y + r.h - 1}

\* The regions a program sets, all within the screen.
Regions == {r \in [x : 0 .. VisW - 1, y : 0 .. VisH - 1, w : 0 .. VisW, h : 0 .. VisH] :
              r.x + r.w <= VisW /\ r.y + r.h <= VisH}

Init == screen = [cells |-> [o \in Memory |-> Space], region |-> Full,
                  cursor |-> [x |-> 0, y |-> 0], wild |-> FALSE]

-----------------------------------------------------------------------------
(* The driver.                                                             *)

(* An empty region sets the whole screen.  The cursor stays.               *)
set_region(s, r) ==
  [s EXCEPT !.region = IF r.w = 0 \/ r.h = 0 THEN Full ELSE r]

\* Mutant: one row too many is filled.
fill_Over(s, c) ==
  LET r == [s.region EXCEPT !.h = @ + 1]
  IN [s EXCEPT !.cells = [o \in Memory |-> IF o \in Cells(r) THEN c ELSE @[o]],
               !.wild = @ \/ ~(Cells(s.region) \subseteq Memory)]

(* Writes every cell of the region.                                        *)
fill(s, c) ==
  [s EXCEPT !.cells = [o \in Memory |-> IF o \in Cells(s.region) THEN c ELSE @[o]],
            !.wild = @ \/ ~(Cells(s.region) \subseteq Memory)]

\* The values a loop from first to last by step takes: it tests for last
\* with "!=", so it must not start past it.
Loop(first, last, step) ==
  [i \in 1 .. (last - first) * step |-> first + (i - 1) * step]

\* Mutant: the forward loops stop one cell early.
Limits_Short(origin, size, by) ==
  IF by >= 0
  THEN [l0 |-> origin, l2 |-> origin + size - by, l3 |-> origin + size - 1, d |-> 1]
  ELSE [l0 |-> origin + size - 1, l2 |-> origin - 1 - by, l3 |-> origin - 1, d |-> -1]

(* The limits of one axis: where the loop starts, the end of the cells     *)
(* that are overwritten, the end of the region, and the direction.         *)
Limits(origin, size, by) ==
  IF by >= 0
  THEN [l0 |-> origin, l2 |-> origin + size - by, l3 |-> origin + size, d |-> 1]
  ELSE [l0 |-> origin + size - 1, l2 |-> origin - 1 - by, l3 |-> origin - 1, d |-> -1]

(* The loop's body for each value of its counter in turn.                  *)
ForEach(Do(_, _), counter, start) ==
  LET after[n \in 0 .. Len(counter)] ==
        IF n = 0 THEN start ELSE Do(after[n - 1], counter[n])
  IN after[Len(counter)]

(* Two nested loops copy the cells one by one, each from h columns and v   *)
(* rows away.                                                              *)
CopyRow(cells, y, xs, h, v) ==
  LET Copy(c, x) == [c EXCEPT ![Offset(x, y)] = c[Offset(x + h, y + v)]]
  IN ForEach(Copy, xs, cells)
CopyRows(cells, ys, xs, h, v) ==
  LET Copy(c, y) == CopyRow(c, y, xs, h, v)
  IN ForEach(Copy, ys, cells)

BlankCells(cells, ys, xs) ==
  LET blank == {Offset(x, y) : x \in Range(xs), y \in Range(ys)}
  IN [o \in Memory |-> IF o \in blank THEN Space ELSE cells[o]]

(* The direction of the copying is the one that does not overwrite what is *)
(* still to be copied; then the cells uncovered are blanked.  Scrolling by *)
(* more than the region holds misses the end of a loop, whose counter then *)
(* runs through all 16-bit values.                                         *)
scroll(s, horizontal, vertical) ==
  LET r == s.region
      xl == Limits(r.x, r.w, horizontal)
      yl == Limits(r.y, r.h, vertical)
      over == horizontal \notin -r.w .. r.w \/ vertical \notin -r.h .. r.h
      moved == CopyRows(s.cells, Loop(yl.l0, yl.l2, yl.d), Loop(xl.l0, xl.l2, xl.d),
                        horizontal, vertical)
      columns == IF horizontal = 0 THEN moved
                 ELSE BlankCells(moved, Loop(yl.l0, yl.l3, yl.d), Loop(xl.l2, xl.l3, xl.d))
      rows == IF vertical = 0 THEN columns
              ELSE BlankCells(columns, Loop(yl.l2, yl.l3, yl.d), Loop(xl.l0, xl.l3, xl.d))
  IN IF over \/ ~(Cells(r) \subseteq Memory) THEN [s EXCEPT !.wild = TRUE]
     ELSE [s EXCEPT !.cells = rows]

(* A column past the region goes to the next line, a row past it scrolls.  *)
set_xy(s, x0, y0) ==
  LET r == s.region
      x == IF x0 < 0 \/ x0 >= r.w THEN 0 ELSE x0
      down == IF x0 >= r.w THEN y0 + 1 ELSE y0
      y == IF down < 0 THEN 0 ELSE down
      t == IF y >= r.h THEN scroll(s, 0, y - r.h + 1) ELSE s
  IN [t EXCEPT !.cursor = [x |-> x, y |-> IF y >= r.h THEN r.h - 1 ELSE y]]

(* Writes a character at the cursor and moves on.                          *)
put(s, c) ==
  LET o == Offset(s.region.x + s.cursor.x, s.region.y + s.cursor.y)
      t == IF o \in Memory THEN [s EXCEPT !.cells[o] = c] ELSE [s EXCEPT !.wild = TRUE]
  IN set_xy(t, s.cursor.x + 1, s.cursor.y)
-----------------------------------------------------------------------------
(* txt_screen.c.                                                           *)

(* txt_put of the control characters it knows; CR does nothing.            *)
backspace(s) ==
  IF s.cursor.x > 0
  THEN LET back(t) == set_xy(t, s.cursor.x - 1, s.cursor.y) IN back(put(back(s), Space))
  ELSE s
tab(s) == set_xy(s, ((s.cursor.x \div TabStop) + 1) * TabStop, s.cursor.y)
newline(s) == set_xy(s, 0, s.cursor.y + 1)
carriage_return(s) == s

(* The parts of the region the operations below narrow it to.              *)
LineFrom(s) == [x |-> s.region.x + s.cursor.x, y |-> s.region.y + s.cursor.y,
                w |-> s.region.w - s.cursor.x, h |-> 1]
LineTo(s, width) == [x |-> s.region.x, y |-> s.region.y + s.cursor.y,
                     w |-> width, h |-> 1]
Below(s) == [x |-> s.region.x, y |-> s.region.y + s.cursor.y + 1,
             w |-> s.region.w, h |-> s.region.h - s.cursor.y - 1]
Above(s) == [x |-> s.region.x, y |-> s.region.y, w |-> s.region.w, h |-> s.cursor.y]

Erase(s, r) == fill(set_region(s, r), Space)

\* Mutant: the cursor's own cell is left when erasing up to it.
txt_clear_Short(s, mode) ==
  set_region(IF mode = 0 THEN Erase(Erase(s, LineFrom(s)), Below(s))
             ELSE IF mode = 1 THEN Erase(Erase(s, Above(s)), LineTo(s, s.cursor.x))
             ELSE fill(s, Space),
             s.region)

(* From the cursor on, up to it, or everything.                            *)
txt_clear(s, mode) ==
  set_region(IF mode = 0 THEN Erase(Erase(s, LineFrom(s)), Below(s))
             ELSE IF mode = 1 THEN Erase(Erase(s, Above(s)), LineTo(s, s.cursor.x + 1))
             ELSE fill(s, Space),
             s.region)

(* The same of the cursor's line.                                          *)
txt_clear_line(s, mode) ==
  set_region(Erase(s, IF mode = 0 THEN LineFrom(s)
                      ELSE LineTo(s, IF mode = 1 THEN s.cursor.x ELSE s.region.w)),
             s.region)

txt_insert(s, count) ==
  IF count > 0 THEN set_region(scroll(set_region(s, LineFrom(s)), -count, 0), s.region)
  ELSE s

(* The count is limited to the column of the cursor.                       *)
txt_delete(s, count) ==
  LET n == IF count > s.cursor.x THEN s.cursor.x ELSE count
  IN IF count > 0 THEN set_region(scroll(set_region(s, LineFrom(s)), n, 0), s.region)
     ELSE s

-----------------------------------------------------------------------------

Becomes(s) == ~screen.wild /\ screen' = s

SetRegion == \E r \in Regions : Becomes(set_region(screen, r))
SetXY == \E x, y \in At : Becomes(set_xy(screen, x, y))
Scroll == \E h, v \in By : Becomes(scroll(screen, h, v))
Fill == \E c \in Letter : Becomes(fill(screen, c))
PutControl == \/ Becomes(backspace(screen)) \/ Becomes(tab(screen))
              \/ Becomes(newline(screen)) \/ Becomes(carriage_return(screen))
PutLetter == \E c \in Letter : Becomes(put(screen, c))
Clear == \E mode \in 0 .. 2 : Becomes(txt_clear(screen, mode))
ClearLine == \E mode \in 0 .. 2 : Becomes(txt_clear_line(screen, mode))
Insert == \E n \in By : Becomes(txt_insert(screen, n))
Delete == \E n \in By : Becomes(txt_delete(screen, n))

Next == \/ SetRegion \/ SetXY \/ Scroll \/ Fill \/ PutControl \/ PutLetter
        \/ Clear \/ ClearLine \/ Insert \/ Delete

Spec == Init /\ [][Next]_screen

-----------------------------------------------------------------------------

Screens == [cells : [Memory -> Letter \cup {Space}], region : {r \in Regions : r.w > 0 /\ r.h > 0},
            cursor : [x : 0 .. VisW - 1, y : 0 .. VisH - 1], wild : BOOLEAN]
TypeOK == screen \in Screens

CursorInside == screen.cursor.x < screen.region.w /\ screen.cursor.y < screen.region.h
Outside == Memory \ Cells(screen.region)

\* s is the screen with these cells blank and no other changed.
Blanks(s, cells) ==
  \A o \in Memory : s.cells[o] = IF o \in cells THEN Space ELSE screen.cells[o]

\* Part is blank, only cells of reach have changed, region and cursor are back.
Clears(s, part, reach) ==
  /\ \A o \in part : s.cells[o] = Space
  /\ \A o \in Memory \ reach : s.cells[o] = screen.cells[o]
  /\ s.region = screen.region /\ s.cursor = screen.cursor
KeepsOutside(s) == s.wild \/ \A o \in Outside : s.cells[o] = screen.cells[o]

\* The cells of the region from the cursor on, and up to it, in reading order.
CursorOffset == Offset(screen.region.x + screen.cursor.x, screen.region.y + screen.cursor.y)
FromCursor == {o \in Cells(screen.region) : o >= CursorOffset}
ToCursor == {o \in Cells(screen.region) : o <= CursorOffset}
OnLine == {Offset(x, screen.region.y + screen.cursor.y) :
             x \in screen.region.x .. screen.region.x + screen.region.w - 1}

(* Scrolling copies in place, yet every cell of the region gets what the   *)
(* cell the given distance away held before, or a blank where there was    *)
(* none in the region; no other cell changes.                              *)
ScrollMoves ==
  \A h, v \in By :
    LET s == scroll(screen, h, v)
    IN s.wild \/ \A x \in 0 .. MaxW - 1, y \in 0 .. MaxH - 1 :
         s.cells[Offset(x, y)] =
           IF ~InRect(screen.region, x, y) THEN screen.cells[Offset(x, y)]
           ELSE IF InRect(screen.region, x + h, y + v)
                THEN screen.cells[Offset(x + h, y + v)] ELSE Space

(* With the cursor in the region, erasing blanks what the code's comments  *)
(* name: the region from the cursor on, up to it, or all of it; the        *)
(* cursor's line from the cursor on, or all of it.  No other cell changes, *)
(* but that there is no row below the last, and none above the first: the  *)
(* empty part then reaches the whole screen.  In every case the region and *)
(* the cursor are as before.                                               *)
ErasesReach ==
  CursorInside =>
    /\ Clears(txt_clear(screen, 0), FromCursor,
              IF screen.cursor.y < screen.region.h - 1 THEN FromCursor ELSE Cells(Full))
    /\ Clears(txt_clear(screen, 1), ToCursor,
              IF screen.cursor.y > 0 THEN ToCursor ELSE Cells(Full))
    /\ Clears(txt_clear(screen, 2), Cells(screen.region), Cells(screen.region))
    /\ Clears(txt_clear_line(screen, 0), FromCursor \cap OnLine, FromCursor \cap OnLine)
    /\ Clears(txt_clear_line(screen, 2), OnLine, OnLine)

(* Printing, filling, inserting and deleting change no cell outside the    *)
(* region while the cursor is inside it.                                   *)
RegionHolds ==
  CursorInside =>
    /\ KeepsOutside(backspace(screen)) /\ KeepsOutside(tab(screen))
    /\ KeepsOutside(newline(screen))
    /\ \A c \in Letter : KeepsOutside(put(screen, c)) /\ KeepsOutside(fill(screen, c))
    /\ \A n \in By : KeepsOutside(txt_insert(screen, n)) /\ KeepsOutside(txt_delete(screen, n))

-----------------------------------------------------------------------------
(* What the comments say and the code does not do.                         *)

(* txt_clear: "Erase from cursor to end of region" and "Erase from start of*)
(* region to cursor", whatever row the cursor is on.                       *)
ErasesAsked ==
  CursorInside => /\ Blanks(txt_clear(screen, 0), FromCursor)
                  /\ Blanks(txt_clear(screen, 1), ToCursor)

(* txt_clear_line: "0: erase from the start of the line to the cursor".    *)
LineModesAsDocumented ==
  CursorInside => Blanks(txt_clear_line(screen, 0), ToCursor \cap OnLine)

(* txt_clear_line, at its mode 1: "Erase from start of line to cursor".    *)
LineToCursorErased ==
  CursorInside => Blanks(txt_clear_line(screen, 1), ToCursor \cap OnLine)

(* txt_put: "CR - Move the cursor to column 0 (carriage return)".          *)
ReturnGoesToColumn0 == carriage_return(screen).cursor.x = 0

(* txt_set_region: "Set a region to restrict further character display".   *)
DisplayRestricted == \A c \in Letter : KeepsOutside(put(screen, c))

(* txt_set_xy: "If y is greater than the height of the region, the region  *)
(* will scroll until that relative position would be within view."         *)
ScrollsToView == \A x, y \in At : ~set_xy(screen, x, y).wild \/ screen.wild

(* txt_delete: "count = the number of characters to delete".               *)
DeletesCount ==
  \A n \in By :
    LET s == txt_delete(screen, n)
        Cell(c) == Offset(screen.region.x + c, screen.region.y + screen.cursor.y)
    IN CursorInside /\ n > 0 /\ ~s.wild =>
         \A x \in screen.cursor.x .. screen.region.w - 1 :
           s.cells[Cell(x)] = IF x + n < screen.region.w
                              THEN screen.cells[Cell(x + n)] ELSE Space
=============================================================================
