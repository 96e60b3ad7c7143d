--------------------------- MODULE Screens_proofs ---------------------------
(***************************************************************************)
(* Proofs about the text screen and the command line's editor on it, for   *)
(* screens, regions, lines and histories of any size and any characters.   *)
(*                                                                         *)
(* The screen: what scroll's two loops leave, copying cell by cell, is     *)
(* what copying all the cells at once would (CopiedAtOnce, ScrollIs): the  *)
(* direction chosen by Limits never reads a cell already written.  From    *)
(* this and what fill does, each operation keeps the cells outside the     *)
(* region (Kept) and erases exactly a part of it.                          *)
(*                                                                         *)
(* The keys: what the Mo keyboard sends leads cli_getchar's machine from   *)
(* its start through the sequence to one code (Reads), a number being read *)
(* digit by digit as it was printed.                                       *)
(*                                                                         *)
(* The editor: the buffer holds a string that ends, the place is within    *)
(* it, and the screen is the whole panel with nothing below the cursor's   *)
(* row (Editors, Placed), so that a new line is blank.  Every operation    *)
(* keeps this, leaves the history alone, and does to the row what it does  *)
(* to the buffer (Sound).                                                  *)
(***************************************************************************)
EXTENDS CommandLine, SequenceTheorems, WellFoundedInduction, TLAPS

-----------------------------------------------------------------------------
(* Induction: a set that holds 0 and, with a number, the next one holds    *)
(* every number.                                                           *)
Less == {p \in Nat \X Nat : p[1] < p[2]}

(* A set of numbers that is not empty has a least one.                     *)
LEMMA Least ==
  ASSUME NEW T, T \subseteq Nat, T # {}
  PROVE  \E n \in T : \A m \in T : n <= m
<1>1. Less = OpToRel(<, Nat)
  BY DEF Less, OpToRel
<1>2. IsWellFoundedOn(Less, Nat)
  BY <1>1, NatLessThanWellFounded
<1>3. PICK n \in T : \A m \in T : <<m, n>> \notin Less
  BY <1>2, WFMin
<1>4. \A m \in T : ~(m < n)
  BY <1>3 DEF Less
<1> QED
  BY <1>4

LEMMA Induction ==
  ASSUME NEW T, 0 \in T, \A n \in Nat : n \in T => n + 1 \in T
  PROVE  Nat \subseteq T
<1>1. SUFFICES ASSUME Nat \ T # {} PROVE FALSE
  OBVIOUS
<1>2. PICK n \in Nat \ T : \A m \in Nat \ T : n <= m
  BY <1>1, Least
<1>3. n # 0 /\ n - 1 \in Nat
  BY <1>2
<1>4. n - 1 \in T
  BY <1>2, <1>3
<1> QED
  BY <1>2, <1>3, <1>4

(* A loop of m turns over states of X, given by what each turn does, has   *)
(* states after every number of turns, and they are determined.            *)
Turns(f, m, start, step) ==
  f = [n \in 0 .. m |-> IF n = 0 THEN start ELSE step[<<f[n - 1], n>>]]

(* There is such a list of states.                                         *)
LEMMA TurnsExist ==
  ASSUME NEW X, NEW m \in Nat, NEW start \in X, NEW step \in [X \X (1 .. m) -> X]
  PROVE  \E f \in [0 .. m -> X] : Turns(f, m, start, step)
<1> DEFINE T == {k \in Nat : k <= m => \E f \in [0 .. k -> X] : Turns(f, k, start, step)}
<1>1. 0 \in T
  <2> DEFINE f == [n \in 0 .. 0 |-> start]
  <2>1. f \in [0 .. 0 -> X] /\ Turns(f, 0, start, step)
    BY DEF Turns
  <2> QED BY <2>1
<1>2. ASSUME NEW k \in Nat, k \in T PROVE k + 1 \in T
  <2> SUFFICES ASSUME k + 1 <= m
               PROVE  \E f \in [0 .. k + 1 -> X] : Turns(f, k + 1, start, step)
    OBVIOUS
  <2>1. PICK f \in [0 .. k -> X] : Turns(f, k, start, step)
    BY <1>2
  <2>2. /\ f[0] = start
        /\ \A n \in 1 .. k : f[n] = step[<<f[n - 1], n>>]
    BY <2>1 DEF Turns
  <2>3. f[k] \in X /\ step[<<f[k], k + 1>>] \in X
    BY <2>1
  <2> DEFINE g == [n \in 0 .. k + 1 |-> IF n <= k THEN f[n] ELSE step[<<f[k], k + 1>>]]
  <2>4. g \in [0 .. k + 1 -> X]
    BY <2>1, <2>3
  <2>5. ASSUME NEW n \in 0 .. k + 1
        PROVE  g[n] = IF n = 0 THEN start ELSE step[<<g[n - 1], n>>]
    <3>1. CASE n = 0
      BY <2>2, <3>1
    <3>2. CASE n \in 1 .. k
      BY <2>2, <3>2
    <3>3. CASE n = k + 1
      <4>1. n # 0 /\ n - 1 = k /\ k \in 0 .. k + 1 /\ k <= k /\ ~(n <= k)
        BY <3>3
      <4>2. g[k] = f[k]
        BY <4>1
      <4>3. g[n] = step[<<f[k], k + 1>>]
        BY <4>1
      <4> QED BY <3>3, <4>1, <4>2, <4>3, Zenon
    <3> QED BY <3>1, <3>2, <3>3
  <2>6. Turns(g, k + 1, start, step)
    <3> HIDE DEF g
    <3>1. g = [n \in 0 .. k + 1 |-> g[n]]
      BY <2>4
    <3> QED BY <2>5, <3>1 DEF Turns
  <2> QED BY <2>4, <2>6
<1> HIDE DEF T
<1>3. Nat \subseteq T
  BY <1>1, <1>2, Induction
<1> QED BY <1>3 DEF T

SameTurns(f, g, m) ==
  f[0] = g[0] /\ \A n \in 1 .. m : f[n - 1] = g[n - 1] => f[n] = g[n]

(* Two lists that agree on what each turn does are the same.               *)
LEMMA TurnsDetermined ==
  ASSUME NEW m \in Nat, NEW f, NEW g, SameTurns(f, g, m)
  PROVE  \A n \in 0 .. m : f[n] = g[n]
<1> USE DEF SameTurns
<1> DEFINE T == {n \in Nat : n <= m => f[n] = g[n]}
<1>1. 0 \in T
  OBVIOUS
<1>2. ASSUME NEW n \in Nat, n \in T PROVE n + 1 \in T
  <2> SUFFICES ASSUME n + 1 <= m PROVE f[n + 1] = g[n + 1]
    OBVIOUS
  <2>1. n + 1 \in 1 .. m /\ (n + 1) - 1 = n /\ n <= m
    OBVIOUS
  <2>2. f[n] = g[n]
    BY <1>2, <2>1
  <2> QED BY <2>1, <2>2
<1> HIDE DEF T
<1>3. Nat \subseteq T
  BY <1>1, <1>2, Induction
<1> QED BY <1>3 DEF T

-----------------------------------------------------------------------------
(* Places in the text matrix.                                              *)
LEMMA Multiples ==
  ASSUME NEW w \in Nat, NEW a \in Int, NEW b \in Int, a < b
  PROVE  a * w + w <= b * w
<1>1. b - a - 1 \in Nat /\ b = a + 1 + (b - a - 1)
  OBVIOUS
<1>2. ASSUME NEW d \in Nat PROVE (a + 1 + d) * w = a * w + w + d * w /\ d * w \in Nat
  OBVIOUS
<1> QED BY <1>1, <1>2

(* Within the width, a place has one column and one row.                   *)
LEMMA OffsetOnce ==
  ASSUME NEW x \in 0 .. MaxW - 1, NEW y \in Int, NEW x2 \in 0 .. MaxW - 1, NEW y2 \in Int,
         Offset(x, y) = Offset(x2, y2)
  PROVE  x = x2 /\ y = y2
<1>0. MaxW \in Nat
  BY ScreenAssumption
<1>1. y * MaxW \in Int /\ y2 * MaxW \in Int /\ y * MaxW + x = y2 * MaxW + x2
  BY <1>0 DEF Offset
<1>2. ~(y < y2)
  BY <1>0, <1>1, Multiples
<1>3. ~(y2 < y)
  BY <1>0, <1>1, Multiples
<1> QED BY <1>1, <1>2, <1>3

(* The matrix holds every cell of its rows and columns.                    *)
LEMMA OffsetInside ==
  ASSUME NEW x \in 0 .. MaxW - 1, NEW y \in 0 .. MaxH - 1
  PROVE  Offset(x, y) \in Memory
<1>0. MaxW \in Nat /\ MaxH \in Nat
  BY ScreenAssumption
<1>1. y * MaxW + MaxW <= MaxH * MaxW /\ y * MaxW \in Nat
  BY <1>0, Multiples
<1>2. MaxH * MaxW = MaxW * MaxH /\ MaxH * MaxW \in Nat
  BY <1>0
<1> QED BY <1>0, <1>1, <1>2 DEF Offset, Memory

(* A cell a distance away is at the sum of the offsets.                    *)
LEMMA OffsetMoves ==
  ASSUME NEW x \in Int, NEW y \in Int, NEW h \in Int, NEW v \in Int
  PROVE  /\ Offset(x + h, y + v) = Offset(x, y) + Offset(h, v)
         /\ Offset(x, y) \in Int
<1>1. MaxW \in Nat
  BY ScreenAssumption
<1>2. /\ (y + v) * MaxW = y * MaxW + v * MaxW
      /\ y * MaxW \in Int /\ v * MaxW \in Int
  BY <1>1
<1> QED BY <1>1, <1>2 DEF Offset

-----------------------------------------------------------------------------
(* The loops of scroll, turn by turn.                                      *)
CopyRowTurn(f, cells, y, xs, h, v) ==
  /\ CopyRow(cells, y, xs, h, v) = f[Len(xs)] /\ f[0] = cells
  /\ \A n \in 1 .. Len(xs) :
       f[n] = [f[n - 1] EXCEPT ![Offset(xs[n], y)] = f[n - 1][Offset(xs[n] + h, y + v)]]
CopyRowsTurn(f, cells, ys, xs, h, v) ==
  /\ CopyRows(cells, ys, xs, h, v) = f[Len(ys)] /\ f[0] = cells
  /\ \A n \in 1 .. Len(ys) : f[n] = CopyRow(f[n - 1], ys[n], xs, h, v)

(* The inner loop of scroll goes through its turns.                        *)
LEMMA CopyRowTurns ==
  ASSUME NEW C, NEW cells \in [Memory -> C], NEW y \in Int, NEW xs \in Seq(Int),
         NEW h \in Int, NEW v \in Int,
         \A n \in 1 .. Len(xs) : Offset(xs[n] + h, y + v) \in Memory
  PROVE  \E f \in [0 .. Len(xs) -> [Memory -> C]] : CopyRowTurn(f, cells, y, xs, h, v)
<1> DEFINE X == [Memory -> C]
           m == Len(xs)
           to(n) == Offset(xs[n], y)
           from(n) == Offset(xs[n] + h, y + v)
           step == [p \in X \X (1 .. m) |-> [p[1] EXCEPT ![to(p[2])] = p[1][from(p[2])]]]
           Loops(g) == g = [n \in 0 .. m |-> IF n = 0 THEN cells
                              ELSE [g[n - 1] EXCEPT ![to(n)] = g[n - 1][from(n)]]]
           g == CHOOSE g : Loops(g)
<1>1. m \in Nat /\ cells \in X
  OBVIOUS
<1>2. step \in [X \X (1 .. m) -> X]
  <2>1. ASSUME NEW c \in X, NEW n \in 1 .. m
        PROVE  [c EXCEPT ![to(n)] = c[from(n)]] \in X
    <3>1. c[from(n)] \in C
      OBVIOUS
    <3> HIDE DEF to, from
    <3> QED BY <3>1
  <2> HIDE DEF X, to, from, m
  <2> QED BY <2>1
<1>3. CopyRow(cells, y, xs, h, v) = g[m]
  BY DEF CopyRow, ForEach
<1> HIDE DEF step
<1>4. PICK f \in [0 .. m -> X] : Turns(f, m, cells, step)
  <2> HIDE DEF X, m
  <2> QED BY <1>1, <1>2, TurnsExist
<1>5. f[0] = cells
  BY <1>1, <1>4 DEF Turns
<1>6. ASSUME NEW n \in 1 .. m
      PROVE  f[n] = [f[n - 1] EXCEPT ![to(n)] = f[n - 1][from(n)]]
  <2>1. f[n] = step[<<f[n - 1], n>>]
    BY <1>1, <1>4 DEF Turns
  <2>2. f[n - 1] \in X
    <3> HIDE DEF X, m
    <3> QED BY <1>1, <1>4
  <2> HIDE DEF X, m, to, from
  <2> QED BY <2>1, <2>2 DEF step
<1>7. Loops(f)
  <2>1. f = [n \in 0 .. m |-> f[n]]
    OBVIOUS
  <2>2. \A n \in 0 .. m : n # 0 => n \in 1 .. m
    BY <1>1
  <2> HIDE DEF to, from, m
  <2> QED BY <1>5, <1>6, <2>1, <2>2, Zenon
<1>8. Loops(g)
  <2> HIDE DEF Loops
  <2> QED BY <1>7, Zenon
<1> HIDE DEF g
<1>9. f = g
  <2>0. f = [n \in 0 .. m |-> f[n]]
    BY <1>4
  <2>1. /\ g = [n \in 0 .. m |-> g[n]] /\ g[0] = cells
        /\ \A n \in 1 .. m : g[n] = [g[n - 1] EXCEPT ![to(n)] = g[n - 1][from(n)]]
    <3>1. 0 \in 0 .. m /\ \A n \in 1 .. m : n \in 0 .. m /\ n # 0
      BY <1>1
    <3> HIDE DEF to, from, m
    <3> QED BY <1>8, <3>1, Zenon
  <2>2. \A n \in 1 .. m : f[n - 1] = g[n - 1] => f[n] = g[n]
    <3> HIDE DEF to, from, m
    <3> QED BY <1>6, <2>1, Zenon
  <2> HIDE DEF m, X
  <2>3. f[0] = g[0]
    BY <1>5, <2>1, Zenon
  <2>4. m \in Nat
    BY <1>1
  <2>5. g = [n \in 0 .. m |-> g[n]]
    BY <2>1, Zenon
  <2> HIDE DEF Loops
  <2>6. \A n \in 0 .. m : f[n] = g[n]
    <3>1. SameTurns(f, g, m)
      <4> HIDE DEF m
      <4> QED BY <2>2, <2>3, Zenon DEF SameTurns
    <3> QED BY <2>4, <3>1, TurnsDetermined, Zenon
  <2> QED BY <2>0, <2>5, <2>6, Zenon
<1> QED BY <1>3, <1>5, <1>6, <1>9, Zenon DEF CopyRowTurn

(* So a row copied leaves characters in the cells.                         *)
LEMMA CopyRowTyped ==
  ASSUME NEW C, NEW cells \in [Memory -> C], NEW y \in Int, NEW xs \in Seq(Int),
         NEW h \in Int, NEW v \in Int,
         \A n \in 1 .. Len(xs) : Offset(xs[n] + h, y + v) \in Memory
  PROVE  CopyRow(cells, y, xs, h, v) \in [Memory -> C]
<1>1. PICK f \in [0 .. Len(xs) -> [Memory -> C]] : CopyRowTurn(f, cells, y, xs, h, v)
  BY CopyRowTurns, Zenon
<1>2. Len(xs) \in 0 .. Len(xs)
  OBVIOUS
<1>3. f[Len(xs)] \in [Memory -> C]
  BY <1>2
<1> QED BY <1>1, <1>3, Zenon DEF CopyRowTurn

(* The outer loop goes through its turns.                                  *)
LEMMA CopyRowsTurns ==
  ASSUME NEW C, NEW cells \in [Memory -> C], NEW ys \in Seq(Int), NEW xs \in Seq(Int),
         NEW h \in Int, NEW v \in Int,
         \A j \in 1 .. Len(ys) : \A n \in 1 .. Len(xs) : Offset(xs[n] + h, ys[j] + v) \in Memory
  PROVE  \E f \in [0 .. Len(ys) -> [Memory -> C]] : CopyRowsTurn(f, cells, ys, xs, h, v)
<1> DEFINE X == [Memory -> C]
           m == Len(ys)
           body(c, n) == CopyRow(c, ys[n], xs, h, v)
           step == [p \in X \X (1 .. m) |-> body(p[1], p[2])]
           Loops(g) == g = [n \in 0 .. m |-> IF n = 0 THEN cells ELSE body(g[n - 1], n)]
           g == CHOOSE g : Loops(g)
<1>1. m \in Nat /\ cells \in X
  OBVIOUS
<1>2. step \in [X \X (1 .. m) -> X]
  <2>1. ASSUME NEW c \in X, NEW n \in 1 .. m
        PROVE  body(c, n) \in X
    <3>1. ys[n] \in Int
      OBVIOUS
    <3> QED BY <3>1, CopyRowTyped
  <2> HIDE DEF X, body, m
  <2> QED BY <2>1
<1>3. CopyRows(cells, ys, xs, h, v) = g[m]
  BY DEF CopyRows, ForEach
<1> HIDE DEF body, step
<1>4. PICK f \in [0 .. m -> X] : Turns(f, m, cells, step)
  <2> HIDE DEF X, m
  <2> QED BY <1>1, <1>2, TurnsExist
<1>5. f[0] = cells
  BY <1>1, <1>4 DEF Turns
<1>6. ASSUME NEW n \in 1 .. m
      PROVE  f[n] = body(f[n - 1], n)
  <2>1. f[n] = step[<<f[n - 1], n>>]
    BY <1>1, <1>4 DEF Turns
  <2>2. f[n - 1] \in X
    <3> HIDE DEF X, m
    <3> QED BY <1>1, <1>4
  <2> HIDE DEF X, m
  <2> QED BY <2>1, <2>2 DEF step
<1>7. Loops(f)
  <2>1. f = [n \in 0 .. m |-> f[n]]
    OBVIOUS
  <2>2. \A n \in 0 .. m : n # 0 => n \in 1 .. m
    BY <1>1
  <2> HIDE DEF m
  <2> QED BY <1>5, <1>6, <2>1, <2>2, Zenon
<1>8. Loops(g)
  <2> HIDE DEF Loops
  <2> QED BY <1>7, Zenon
<1> HIDE DEF g
<1>9. f = g
  <2>0. f = [n \in 0 .. m |-> f[n]]
    BY <1>4
  <2>1. /\ g = [n \in 0 .. m |-> g[n]] /\ g[0] = cells
        /\ \A n \in 1 .. m : g[n] = body(g[n - 1], n)
    <3>1. 0 \in 0 .. m /\ \A n \in 1 .. m : n \in 0 .. m /\ n # 0
      BY <1>1
    <3> HIDE DEF m
    <3> QED BY <1>8, <3>1, Zenon
  <2>2. \A n \in 1 .. m : f[n - 1] = g[n - 1] => f[n] = g[n]
    <3> HIDE DEF m
    <3> QED BY <1>6, <2>1, Zenon
  <2> HIDE DEF m, X
  <2>3. f[0] = g[0]
    BY <1>5, <2>1, Zenon
  <2>4. m \in Nat
    BY <1>1
  <2>5. g = [n \in 0 .. m |-> g[n]]
    BY <2>1, Zenon
  <2> HIDE DEF Loops
  <2>6. \A n \in 0 .. m : f[n] = g[n]
    <3>1. SameTurns(f, g, m)
      <4> HIDE DEF m
      <4> QED BY <2>2, <2>3, Zenon DEF SameTurns
    <3> QED BY <2>4, <3>1, TurnsDetermined, Zenon
  <2> QED BY <2>0, <2>5, <2>6, Zenon
<1> QED BY <1>3, <1>5, <1>6, <1>9, Zenon DEF body, CopyRowsTurn

(* So the rows copied leave characters in the cells.                       *)
LEMMA CopyRowsTyped ==
  ASSUME NEW C, NEW cells \in [Memory -> C], NEW ys \in Seq(Int), NEW xs \in Seq(Int),
         NEW h \in Int, NEW v \in Int,
         \A j \in 1 .. Len(ys) : \A n \in 1 .. Len(xs) : Offset(xs[n] + h, ys[j] + v) \in Memory
  PROVE  CopyRows(cells, ys, xs, h, v) \in [Memory -> C]
<1>1. PICK f \in [0 .. Len(ys) -> [Memory -> C]] : CopyRowsTurn(f, cells, ys, xs, h, v)
  BY CopyRowsTurns, Zenon
<1>2. Len(ys) \in 0 .. Len(ys)
  OBVIOUS
<1>3. f[Len(ys)] \in [Memory -> C]
  BY <1>2
<1> QED BY <1>1, <1>3, Zenon DEF CopyRowsTurn

(* A loop that in each turn copies some cells from D places away does what *)
(* copying them all at once does, if no turn reads what an earlier one has *)
(* written.                                                                *)
CopyTurns(f, c, m, p, D) ==
  /\ f[0] = [o \in Memory |-> c[o]]
  /\ \A n \in 1 .. m :
       /\ f[n] = [o \in Memory |-> IF o \in p[n] THEN f[n - 1][o + D] ELSE f[n - 1][o]]
       /\ \A o \in p[n] : o + D \in Memory /\ \A k \in 1 .. n - 1 : o + D \notin p[k]

CopiedIn(c, m, p, D) ==
  [o \in Memory |-> IF \E k \in 1 .. m : o \in p[k] THEN c[o + D] ELSE c[o]]

(* Copying one by one, from places not written yet, copies all at once.    *)
LEMMA CopiedAtOnce ==
  ASSUME NEW c, NEW m \in Nat, NEW p, NEW D \in Int, NEW f, CopyTurns(f, c, m, p, D)
  PROVE  f[m] = CopiedIn(c, m, p, D)
<1> DEFINE Done(o, n) == \E k \in 1 .. n : o \in p[k]
           All(n) == [o \in Memory |-> IF Done(o, n) THEN c[o + D] ELSE c[o]]
           T == {n \in Nat : n <= m => f[n] = All(n)}
<1>0. /\ f[0] = [o \in Memory |-> c[o]]
      /\ \A n \in 1 .. m :
           /\ f[n] = [o \in Memory |-> IF o \in p[n] THEN f[n - 1][o + D] ELSE f[n - 1][o]]
           /\ \A o \in p[n] : o + D \in Memory /\ \A k \in 1 .. n - 1 : o + D \notin p[k]
  BY Zenon DEF CopyTurns
<1>1. 0 \in T
  <2>1. \A o : ~Done(o, 0)
    OBVIOUS
  <2>2. All(0) = [o \in Memory |-> c[o]]
    <3> HIDE DEF Done
    <3> QED BY <2>1, Zenon
  <2> QED BY <1>0, <2>2
<1>2. ASSUME NEW n \in Nat, n \in T PROVE n + 1 \in T
  <2> SUFFICES ASSUME n + 1 <= m PROVE f[n + 1] = All(n + 1)
    OBVIOUS
  <2>1. n + 1 \in 1 .. m /\ (n + 1) - 1 = n /\ n <= m
    OBVIOUS
  <2>2. f[n] = All(n)
    BY <1>2, <2>1
  <2>3. f[n + 1] = [o \in Memory |-> IF o \in p[n + 1] THEN f[n][o + D] ELSE f[n][o]]
    BY <1>0, <2>1
  <2>4. \A o : Done(o, n + 1) <=> Done(o, n) \/ o \in p[n + 1]
    BY <2>1
  <2>5. \A o \in p[n + 1] : o + D \in Memory /\ ~Done(o + D, n)
    BY <1>0, <2>1
  <2> HIDE DEF Done
  <2>6. ASSUME NEW o \in Memory
        PROVE  (IF o \in p[n + 1] THEN f[n][o + D] ELSE f[n][o])
                 = IF Done(o, n + 1) THEN c[o + D] ELSE c[o]
    <3>1. CASE o \in p[n + 1]
      <4>1. f[n][o + D] = c[o + D]
        BY <2>2, <2>5, <3>1
      <4> QED BY <2>4, <3>1, <4>1
    <3>2. CASE o \notin p[n + 1]
      BY <2>2, <2>4, <3>2
    <3> QED BY <3>1, <3>2
  <2> QED BY <2>3, <2>6
<1> HIDE DEF T
<1>3. Nat \subseteq T
  BY <1>1, <1>2, Induction
<1>4. f[m] = All(m)
  BY <1>3 DEF T
<1> QED BY <1>4 DEF CopiedIn

-----------------------------------------------------------------------------
(* What the loops of scroll come to.                                       *)

\* The values of a counter that are read from d away after all earlier
\* values have been written, and never read what was written.
Ahead(zs, d) == \A n \in 1 .. Len(zs) : \A k \in 1 .. n - 1 : zs[n] + d # zs[k]
Counts(zs, d, max) ==
  /\ zs \in Seq(Int) /\ Ahead(zs, d)
  /\ \A n \in 1 .. Len(zs) : zs[n] \in 0 .. max - 1 /\ zs[n] + d \in 0 .. max - 1
Rect(xs, ys) == {Offset(x, y) : x \in xs, y \in ys}
RowPlaces(y, xs) == {Offset(x, y) : x \in Range(xs)}
Places(ys, xs) == Rect(Range(xs), Range(ys))
Copied(cells, places, D) == [o \in Memory |-> IF o \in places THEN cells[o + D] ELSE cells[o]]

Grid(C) == [Memory -> C]

(* The inner loop copies its columns as if all at once.                    *)
LEMMA CopyRowIs ==
  ASSUME NEW C, NEW cells \in Grid(C), NEW y \in Int, NEW xs, NEW h \in Int, NEW v \in Int,
         Counts(xs, h, MaxW), y \in 0 .. MaxH - 1, y + v \in 0 .. MaxH - 1
  PROVE  CopyRow(cells, y, xs, h, v) = Copied(cells, RowPlaces(y, xs), Offset(h, v))
<1> DEFINE m == Len(xs)
           D == Offset(h, v)
           p == [n \in 1 .. m |-> {Offset(xs[n], y)}]
<1>1. /\ xs \in Seq(Int) /\ m \in Nat
      /\ \A n \in 1 .. m : /\ xs[n] \in Int /\ xs[n] \in 0 .. MaxW - 1
                           /\ xs[n] + h \in 0 .. MaxW - 1
      /\ \A n \in 1 .. m : \A k \in 1 .. n - 1 : xs[n] + h # xs[k]
  BY DEF Counts, Ahead
<1>2. D \in Int
  BY OffsetMoves
<1>3. ASSUME NEW n \in 1 .. m
      PROVE  /\ Offset(xs[n], y) \in Memory /\ Offset(xs[n] + h, y + v) \in Memory
             /\ Offset(xs[n] + h, y + v) = Offset(xs[n], y) + D
  <2>1. xs[n] \in Int /\ xs[n] \in 0 .. MaxW - 1 /\ xs[n] + h \in 0 .. MaxW - 1
    BY <1>1
  <2> DEFINE x == xs[n]
             x2 == xs[n] + h
             y2 == y + v
  <2>2. Offset(x + h, y + v) = Offset(x, y) + D
    <3>1. x \in Int
      BY <2>1
    <3> HIDE DEF x
    <3> QED BY <3>1, OffsetMoves
  <2>3. Offset(x, y) \in Memory
    <3> HIDE DEF x
    <3> QED BY <2>1, OffsetInside DEF x
  <2>4. Offset(x2, y2) \in Memory
    <3>1. x2 \in 0 .. MaxW - 1 /\ y2 \in 0 .. MaxH - 1
      BY <2>1
    <3> HIDE DEF x2, y2
    <3> QED BY <3>1, OffsetInside
  <2> QED BY <2>2, <2>3, <2>4
<1>4. PICK f \in [0 .. m -> [Memory -> C]] : CopyRowTurn(f, cells, y, xs, h, v)
  BY <1>1, <1>3, CopyRowTurns DEF Grid
<1>5. f[0] = [o \in Memory |-> cells[o]]
  BY <1>4, Zenon DEF CopyRowTurn, Grid
<1>6. ASSUME NEW n \in 1 .. m
      PROVE  f[n] = [o \in Memory |-> IF o \in p[n] THEN f[n - 1][o + D] ELSE f[n - 1][o]]
  <2>1. f[n] = [f[n - 1] EXCEPT ![Offset(xs[n], y)] = f[n - 1][Offset(xs[n] + h, y + v)]]
    BY <1>4, Zenon DEF CopyRowTurn
  <2>2. f[n - 1] \in [Memory -> C]
    <3>1. n - 1 \in 0 .. m
      BY <1>1
    <3> HIDE DEF m
    <3> QED BY <1>4, <3>1
  <2>3. p[n] = {Offset(xs[n], y)}
    BY <1>1
  <2> DEFINE to == Offset(xs[n], y)
             from == Offset(xs[n] + h, y + v)
             c == f[n - 1]
  <2>4. to \in Memory /\ from = to + D
    BY <1>3
  <2> HIDE DEF to, from, p, c, D
  <2>5. f[n] = [c EXCEPT ![to] = c[from]] /\ c \in [Memory -> C] /\ p[n] = {to}
    BY <2>1, <2>2, <2>3 DEF to, from, c
  <2>6. [c EXCEPT ![to] = c[from]] = [o \in Memory |-> IF o \in p[n] THEN c[o + D] ELSE c[o]]
    BY <2>4, <2>5
  <2> QED BY <2>5, <2>6, Zenon DEF c
<1>7. ASSUME NEW n \in 1 .. m, NEW o \in p[n]
      PROVE  o + D \in Memory /\ \A k \in 1 .. n - 1 : o + D \notin p[k]
  <2>1. p[n] = {Offset(xs[n], y)}
    BY <1>1
  <2>2. o + D = Offset(xs[n] + h, y + v) /\ o + D \in Memory
    BY <1>3, <2>1
  <2>3. ASSUME NEW k \in 1 .. n - 1, o + D \in p[k] PROVE FALSE
    <3>1. k \in 1 .. m /\ p[k] = {Offset(xs[k], y)}
      BY <1>1
    <3>2. Offset(xs[n] + h, y + v) = Offset(xs[k], y)
      BY <2>2, <2>3, <3>1
    <3>3. xs[n] + h = xs[k]
      BY <1>1, <3>1, <3>2, OffsetOnce
    <3> QED BY <1>1, <3>3
  <2> QED BY <2>2, <2>3
<1>8. f[m] = CopiedIn(cells, m, p, D)
  <2> HIDE DEF p, D, m
  <2>1. CopyTurns(f, cells, m, p, D)
    BY <1>5, <1>6, <1>7, Zenon DEF CopyTurns
  <2> QED BY <1>1, <1>2, <2>1, CopiedAtOnce, Zenon
<1>9. \A o : (\E k \in 1 .. m : o \in p[k]) <=> o \in RowPlaces(y, xs)
  <2>1. Range(xs) = {xs[k] : k \in 1 .. m}
    BY <1>1 DEF Range
  <2>2. \A k \in 1 .. m : p[k] = {Offset(xs[k], y)}
    OBVIOUS
  <2> HIDE DEF p
  <2> QED BY <2>1, <2>2 DEF RowPlaces
<1>10. CopyRow(cells, y, xs, h, v) = f[m]
  BY <1>4, Zenon DEF CopyRowTurn
<1> HIDE DEF p
<1> QED BY <1>8, <1>9, <1>10 DEF Copied, CopiedIn

(* The outer loop copies its rows as if all at once.                       *)
LEMMA CopyRowsIs ==
  ASSUME NEW C, NEW cells \in Grid(C), NEW ys, NEW xs, NEW h \in Int, NEW v \in Int,
         Counts(xs, h, MaxW), Counts(ys, v, MaxH)
  PROVE  CopyRows(cells, ys, xs, h, v) = Copied(cells, Places(ys, xs), Offset(h, v))
<1> DEFINE m == Len(ys)
           D == Offset(h, v)
           p == [n \in 1 .. m |-> RowPlaces(ys[n], xs)]
<1>1. /\ ys \in Seq(Int) /\ m \in Nat
      /\ \A n \in 1 .. m : /\ ys[n] \in Int /\ ys[n] \in 0 .. MaxH - 1
                           /\ ys[n] + v \in 0 .. MaxH - 1
      /\ \A n \in 1 .. m : \A k \in 1 .. n - 1 : ys[n] + v # ys[k]
  BY DEF Counts, Ahead
<1>2. D \in Int
  BY OffsetMoves
<1>3. /\ xs \in Seq(Int)
      /\ \A x \in Range(xs) : x \in Int /\ x \in 0 .. MaxW - 1 /\ x + h \in 0 .. MaxW - 1
  <2>1. Range(xs) = {xs[k] : k \in 1 .. Len(xs)}
    BY DEF Range, Counts
  <2> QED BY <2>1 DEF Counts
<1>4. PICK f \in [0 .. m -> [Memory -> C]] : CopyRowsTurn(f, cells, ys, xs, h, v)
  <2>1. \A j \in 1 .. Len(ys) : \A n \in 1 .. Len(xs) : Offset(xs[n] + h, ys[j] + v) \in Memory
    BY <1>1, OffsetInside DEF Counts
  <2> QED BY <1>1, <1>3, <2>1, CopyRowsTurns DEF Grid
<1>5. f[0] = [o \in Memory |-> cells[o]]
  BY <1>4, Zenon DEF CopyRowsTurn, Grid
<1>6. ASSUME NEW n \in 1 .. m
      PROVE  f[n] = [o \in Memory |-> IF o \in p[n] THEN f[n - 1][o + D] ELSE f[n - 1][o]]
  <2>1. f[n] = CopyRow(f[n - 1], ys[n], xs, h, v)
    BY <1>4, Zenon DEF CopyRowsTurn
  <2>2. f[n - 1] \in [Memory -> C]
    <3>1. n - 1 \in 0 .. m
      BY <1>1
    <3> HIDE DEF m
    <3> QED BY <1>4, <3>1
  <2>3. p[n] = RowPlaces(ys[n], xs)
    BY <1>1
  <2>4. CopyRow(f[n - 1], ys[n], xs, h, v) = Copied(f[n - 1], p[n], D)
    <3>1. ys[n] \in Int /\ ys[n] \in 0 .. MaxH - 1 /\ ys[n] + v \in 0 .. MaxH - 1
      BY <1>1
    <3>2. CopyRow(f[n - 1], ys[n], xs, h, v)
            = Copied(f[n - 1], RowPlaces(ys[n], xs), Offset(h, v))
      <4> DEFINE c == f[n - 1]
                 y == ys[n]
      <4>1. /\ c \in Grid(C) /\ y \in Int /\ y \in 0 .. MaxH - 1
            /\ y + v \in 0 .. MaxH - 1 /\ Counts(xs, h, MaxW)
        BY <2>2, <3>1 DEF Grid
      <4> HIDE DEF c, y
      <4>2. CopyRow(c, y, xs, h, v) = Copied(c, RowPlaces(y, xs), Offset(h, v))
        BY <4>1, CopyRowIs
      <4> QED BY <4>2, Zenon DEF c, y
    <3> QED BY <2>3, <3>2, Zenon
  <2> QED BY <2>1, <2>4, Zenon DEF Copied
<1>7. ASSUME NEW n \in 1 .. m, NEW o \in p[n]
      PROVE  o + D \in Memory /\ \A k \in 1 .. n - 1 : o + D \notin p[k]
  <2>1. PICK x \in Range(xs) : o = Offset(x, ys[n])
    BY <1>1 DEF RowPlaces
  <2>2. o + D = Offset(x + h, ys[n] + v) /\ o + D \in Memory
    <3> DEFINE y == ys[n]
               x2 == x + h
               y2 == y + v
    <3>1. /\ x \in Int /\ y \in Int /\ x2 \in 0 .. MaxW - 1 /\ y2 \in 0 .. MaxH - 1
          /\ o = Offset(x, y)
      BY <1>1, <1>3, <2>1
    <3> HIDE DEF y
    <3>2. Offset(x + h, y + v) = Offset(x, y) + D
      BY <3>1, OffsetMoves
    <3> HIDE DEF x2, y2
    <3>3. Offset(x2, y2) \in Memory
      BY <3>1, OffsetInside
    <3> QED BY <3>1, <3>2, <3>3 DEF y, x2, y2
  <2>3. ASSUME NEW k \in 1 .. n - 1, o + D \in p[k] PROVE FALSE
    <3>1. k \in 1 .. m
      BY <1>1
    <3>2. PICK z \in Range(xs) : o + D = Offset(z, ys[k])
      BY <2>3, <3>1 DEF RowPlaces
    <3>3. ys[n] + v = ys[k]
      <4>1. /\ x + h \in 0 .. MaxW - 1 /\ z \in 0 .. MaxW - 1
            /\ ys[n] + v \in Int /\ ys[k] \in Int
        <5>1. ys[n] \in Int /\ ys[k] \in Int
          BY <1>1, <3>1
        <5>2. x + h \in 0 .. MaxW - 1 /\ z \in 0 .. MaxW - 1
          BY <1>3
        <5> QED BY <5>1, <5>2
      <4>2. Offset(x + h, ys[n] + v) = Offset(z, ys[k])
        BY <2>2, <3>2
      <4> QED BY <4>1, <4>2, OffsetOnce
    <3> QED BY <1>1, <3>3
  <2> QED BY <2>2, <2>3
<1>8. f[m] = CopiedIn(cells, m, p, D)
  <2> HIDE DEF p, D, m
  <2>1. CopyTurns(f, cells, m, p, D)
    BY <1>5, <1>6, <1>7, Zenon DEF CopyTurns
  <2> QED BY <1>1, <1>2, <2>1, CopiedAtOnce, Zenon
<1>9. \A o : (\E k \in 1 .. m : o \in p[k]) <=> o \in Places(ys, xs)
  <2>1. Range(ys) = {ys[k] : k \in 1 .. m}
    BY <1>1 DEF Range
  <2>2. \A k \in 1 .. m : p[k] = {Offset(x, ys[k]) : x \in Range(xs)}
    BY DEF RowPlaces
  <2> HIDE DEF p
  <2> QED BY <2>1, <2>2 DEF Places, Rect
<1>10. CopyRows(cells, ys, xs, h, v) = f[m]
  BY <1>4, Zenon DEF CopyRowsTurn
<1> HIDE DEF p
<1> QED BY <1>8, <1>9, <1>10 DEF Copied, CopiedIn

(* The values a loop's counter takes.                                      *)
LEMMA LoopUp ==
  ASSUME NEW a \in Int, NEW b \in Int, a <= b
  PROVE  /\ Loop(a, b, 1) \in Seq(Int) /\ Len(Loop(a, b, 1)) = b - a
         /\ \A n \in 1 .. b - a : Loop(a, b, 1)[n] = a + (n - 1)
         /\ Range(Loop(a, b, 1)) = a .. b - 1
<1> DEFINE f == Loop(a, b, 1)
           m == b - a
<1>1. f = [i \in 1 .. m |-> a + (i - 1)]
  BY DEF Loop
<1>2. m \in Nat
  OBVIOUS
<1> HIDE DEF f
<1>3. f \in Seq(Int) /\ Len(f) = m /\ DOMAIN f = 1 .. m
  BY <1>1, <1>2
<1>4. Range(f) = a .. b - 1
  <2>1. \A z \in a .. b - 1 : z - a + 1 \in 1 .. m /\ f[z - a + 1] = z
    BY <1>1
  <2>2. \A n \in 1 .. m : f[n] \in a .. b - 1
    BY <1>1
  <2> QED BY <1>3, <2>1, <2>2 DEF Range
<1> QED BY <1>1, <1>3, <1>4 DEF f

(* The values of a loop that goes down.                                    *)
LEMMA LoopDown ==
  ASSUME NEW a \in Int, NEW b \in Int, b <= a
  PROVE  /\ Loop(a, b, -1) \in Seq(Int) /\ Len(Loop(a, b, -1)) = a - b
         /\ \A n \in 1 .. a - b : Loop(a, b, -1)[n] = a - (n - 1)
         /\ Range(Loop(a, b, -1)) = b + 1 .. a
<1> DEFINE f == Loop(a, b, -1)
           m == a - b
<1>1. f = [i \in 1 .. m |-> a - (i - 1)]
  BY DEF Loop
<1>2. m \in Nat
  OBVIOUS
<1> HIDE DEF f
<1>3. f \in Seq(Int) /\ Len(f) = m /\ DOMAIN f = 1 .. m
  BY <1>1, <1>2
<1>4. Range(f) = b + 1 .. a
  <2>1. \A z \in b + 1 .. a : a - z + 1 \in 1 .. m /\ f[a - z + 1] = z
    BY <1>1
  <2>2. \A n \in 1 .. m : f[n] \in b + 1 .. a
    BY <1>1
  <2> QED BY <1>3, <2>1, <2>2 DEF Range
<1> QED BY <1>1, <1>3, <1>4 DEF f

(* The limits of an axis make the copying loop keep ahead of itself, copy  *)
(* to the places that have something to copy, and blank the others.        *)
Axis(origin, size) == origin .. origin + size - 1
CopyLoop(l) == Loop(l.l0, l.l2, l.d)
BlankLoop(l) == Loop(l.l2, l.l3, l.d)
FullLoop(l) == Loop(l.l0, l.l3, l.d)
Filled(origin, size, by) == {z \in Axis(origin, size) : z + by \in Axis(origin, size)}
Uncovered(origin, size, by) == {z \in Axis(origin, size) : z + by \notin Axis(origin, size)}

(* The limits make a loop that copies without overwriting what it still    *)
(* needs, and the loops of one axis share out its cells.                   *)
LEMMA LimitsKeepAhead ==
  ASSUME NEW origin \in Nat, NEW size \in Nat, NEW max \in Nat, origin + size <= max,
         NEW by \in -size .. size, NEW l, l = Limits(origin, size, by)
  PROVE  /\ Counts(CopyLoop(l), by, max)
         /\ Range(CopyLoop(l)) = Filled(origin, size, by)
         /\ Range(BlankLoop(l)) = Uncovered(origin, size, by)
         /\ Range(FullLoop(l)) = Axis(origin, size)
<1>1. CASE by >= 0
  <2>1. l = [l0 |-> origin, l2 |-> origin + size - by, l3 |-> origin + size, d |-> 1]
    BY <1>1 DEF Limits
  <2> DEFINE a == origin
             b == origin + size - by
             c == origin + size
             f == Loop(a, b, 1)
  <2>2. /\ a \in Int /\ b \in Int /\ c \in Int /\ a <= b /\ b <= c
        /\ l.l0 = a /\ l.l2 = b /\ l.l3 = c /\ l.d = 1
    BY <1>1, <2>1
  <2>3. CopyLoop(l) = f /\ BlankLoop(l) = Loop(b, c, 1) /\ FullLoop(l) = Loop(a, c, 1)
    BY <2>2 DEF CopyLoop, BlankLoop, FullLoop
  <2>4. /\ f \in Seq(Int) /\ Len(f) = b - a /\ \A n \in 1 .. b - a : f[n] = a + (n - 1)
        /\ Range(f) = a .. b - 1
    <3>1. a \in Int /\ b \in Int /\ a <= b
      BY <2>2
    <3> HIDE DEF a, b, c
    <3>2. f \in Seq(Int) /\ Len(f) = b - a
      BY <3>1, LoopUp
    <3>3. \A n \in 1 .. b - a : f[n] = a + (n - 1)
      BY <3>1, LoopUp
    <3>4. Range(f) = a .. b - 1
      BY <3>1, LoopUp
    <3> QED BY <3>2, <3>3, <3>4
  <2>5. Range(Loop(b, c, 1)) = b .. c - 1
    <3> HIDE DEF a, b, c
    <3> QED BY <2>2, LoopUp
  <2>6. Range(Loop(a, c, 1)) = a .. c - 1
    <3>1. a <= c
      BY <2>2
    <3> HIDE DEF a, b, c
    <3> QED BY <2>2, <3>1, LoopUp
  <2> HIDE DEF f
  <2>7. Counts(f, by, max)
    <3>1. /\ f \in Seq(Int) /\ Len(f) = b - a /\ \A n \in 1 .. b - a : f[n] = a + (n - 1)
      BY <2>4
    <3>2. Ahead(f, by)
      <4> SUFFICES ASSUME NEW n \in 1 .. Len(f), NEW k \in 1 .. n - 1 PROVE f[n] + by # f[k]
        BY DEF Ahead
      <4>1. n \in 1 .. b - a /\ k \in 1 .. b - a
        BY <3>1
      <4>2. f[n] = a + (n - 1) /\ f[k] = a + (k - 1)
        BY <3>1, <4>1
      <4> QED BY <1>1, <4>1, <4>2
    <3>3. ASSUME NEW n \in 1 .. Len(f)
          PROVE  f[n] \in 0 .. max - 1 /\ f[n] + by \in 0 .. max - 1
      <4>1. f[n] = a + (n - 1) /\ n \in 1 .. b - a
        BY <3>1
      <4> QED BY <1>1, <4>1
    <3> QED BY <3>1, <3>2, <3>3 DEF Counts
  <2>8. /\ a .. b - 1 = Filled(origin, size, by) /\ b .. c - 1 = Uncovered(origin, size, by)
        /\ a .. c - 1 = Axis(origin, size)
    BY <1>1 DEF Filled, Uncovered, Axis
  <2> QED BY <2>3, <2>4, <2>5, <2>6, <2>7, <2>8
<1>2. CASE ~(by >= 0)
  <2>1. l = [l0 |-> origin + size - 1, l2 |-> origin - 1 - by, l3 |-> origin - 1, d |-> -1]
    BY <1>2 DEF Limits
  <2> DEFINE a == origin + size - 1
             b == origin - 1 - by
             c == origin - 1
             f == Loop(a, b, -1)
  <2>2. /\ a \in Int /\ b \in Int /\ c \in Int /\ b <= a /\ c <= b
        /\ l.l0 = a /\ l.l2 = b /\ l.l3 = c /\ l.d = -1
    BY <1>2, <2>1
  <2>3. CopyLoop(l) = f /\ BlankLoop(l) = Loop(b, c, -1) /\ FullLoop(l) = Loop(a, c, -1)
    BY <2>2 DEF CopyLoop, BlankLoop, FullLoop
  <2>4. /\ f \in Seq(Int) /\ Len(f) = a - b /\ \A n \in 1 .. a - b : f[n] = a - (n - 1)
        /\ Range(f) = b + 1 .. a
    <3> HIDE DEF a, b, c
    <3> QED BY <2>2, LoopDown
  <2>5. Range(Loop(b, c, -1)) = c + 1 .. b
    <3> HIDE DEF a, b, c
    <3> QED BY <2>2, LoopDown
  <2>6. Range(Loop(a, c, -1)) = c + 1 .. a
    <3>1. c <= a
      BY <2>2
    <3> HIDE DEF a, b, c
    <3> QED BY <2>2, <3>1, LoopDown
  <2> HIDE DEF f
  <2>7. Counts(f, by, max)
    <3>1. /\ f \in Seq(Int) /\ Len(f) = a - b /\ \A n \in 1 .. a - b : f[n] = a - (n - 1)
      BY <2>4
    <3>2. Ahead(f, by)
      <4> SUFFICES ASSUME NEW n \in 1 .. Len(f), NEW k \in 1 .. n - 1 PROVE f[n] + by # f[k]
        BY DEF Ahead
      <4>1. n \in 1 .. a - b /\ k \in 1 .. a - b
        BY <3>1
      <4>2. f[n] = a - (n - 1) /\ f[k] = a - (k - 1)
        BY <3>1, <4>1
      <4> QED BY <1>2, <4>1, <4>2
    <3>3. ASSUME NEW n \in 1 .. Len(f)
          PROVE  f[n] \in 0 .. max - 1 /\ f[n] + by \in 0 .. max - 1
      <4>1. f[n] = a - (n - 1) /\ n \in 1 .. a - b
        BY <3>1
      <4> QED BY <1>2, <4>1
    <3> QED BY <3>1, <3>2, <3>3 DEF Counts
  <2>8. /\ b + 1 .. a = Filled(origin, size, by) /\ c + 1 .. b = Uncovered(origin, size, by)
        /\ c + 1 .. a = Axis(origin, size)
    BY <1>2 DEF Filled, Uncovered, Axis
  <2> QED BY <2>3, <2>4, <2>5, <2>6, <2>7, <2>8
<1> QED BY <1>1, <1>2

(* The same within the region itself.                                      *)
LEMMA LimitsFilled ==
  ASSUME NEW origin \in Nat, NEW size \in Nat, NEW by \in -size .. size
  PROVE  /\ Counts(CopyLoop(Limits(origin, size, by)), by, origin + size)
         /\ Range(CopyLoop(Limits(origin, size, by))) = Filled(origin, size, by)
<1> DEFINE max == origin + size
           l == Limits(origin, size, by)
<1>1. max \in Nat /\ origin + size <= max
  OBVIOUS
<1>2. l = Limits(origin, size, by)
  OBVIOUS
<1> HIDE DEF max, l
<1>3. Counts(CopyLoop(l), by, max) /\ Range(CopyLoop(l)) = Filled(origin, size, by)
  BY <1>1, <1>2, LimitsKeepAhead
<1> QED BY <1>3 DEF max, l

InMatrix(r) ==
  /\ r.x \in Nat /\ r.y \in Nat /\ r.w \in Nat \ {0} /\ r.h \in Nat \ {0}
  /\ r.x + r.w <= MaxW /\ r.y + r.h <= MaxH
Blanked(cells, places) == [o \in Memory |-> IF o \in places THEN Space ELSE cells[o]]
Scrolled(cells, r, h, v) ==
  [o \in Memory |->
     IF o \in Rect(Filled(r.x, r.w, h), Filled(r.y, r.h, v)) THEN cells[o + Offset(h, v)]
     ELSE IF o \in Cells(r) THEN Space ELSE cells[o]]

(* A region within the matrix has its cells there.                         *)
LEMMA CellsInside ==
  ASSUME NEW r, InMatrix(r)
  PROVE  /\ Cells(r) = Rect(Axis(r.x, r.w), Axis(r.y, r.h)) /\ Cells(r) \subseteq Memory
         /\ Axis(r.x, r.w) \subseteq 0 .. MaxW - 1 /\ Axis(r.y, r.h) \subseteq 0 .. MaxH - 1
<1>1. Axis(r.x, r.w) \subseteq 0 .. MaxW - 1 /\ Axis(r.y, r.h) \subseteq 0 .. MaxH - 1
  <2>1. MaxW \in Nat /\ MaxH \in Nat
    BY ScreenAssumption
  <2> QED BY <2>1 DEF Axis, InMatrix
<1>2. Cells(r) = Rect(Axis(r.x, r.w), Axis(r.y, r.h))
  BY DEF Cells, Rect, Axis
<1>3. \A x \in Axis(r.x, r.w), y \in Axis(r.y, r.h) : Offset(x, y) \in Memory
  BY <1>1, OffsetInside
<1> QED BY <1>1, <1>2, <1>3 DEF Rect

(* Places of different columns or rows are different.                      *)
LEMMA RectHas ==
  ASSUME NEW xs, NEW ys, xs \subseteq 0 .. MaxW - 1, ys \subseteq 0 .. MaxH - 1,
         NEW x \in 0 .. MaxW - 1, NEW y \in 0 .. MaxH - 1
  PROVE  Offset(x, y) \in Rect(xs, ys) <=> x \in xs /\ y \in ys
<1>1. ASSUME Offset(x, y) \in Rect(xs, ys) PROVE x \in xs /\ y \in ys
  <2>1. PICK x2 \in xs, y2 \in ys : Offset(x, y) = Offset(x2, y2)
    BY <1>1 DEF Rect
  <2>2. x2 \in 0 .. MaxW - 1 /\ y2 \in Int /\ y \in Int
    OBVIOUS
  <2> QED BY <2>1, <2>2, OffsetOnce
<1> QED BY <1>1 DEF Rect

(* Scrolling by no more than the region holds moves its cells and blanks   *)
(* the others.                                                             *)
LEMMA ScrollIs ==
  ASSUME NEW C, NEW s, s.cells \in Grid(C), InMatrix(s.region),
         NEW h \in -s.region.w .. s.region.w, NEW v \in -s.region.h .. s.region.h
  PROVE  scroll(s, h, v) = [s EXCEPT !.cells = Scrolled(s.cells, s.region, h, v)]
<1> DEFINE r == s.region
           xl == Limits(r.x, r.w, h)
           yl == Limits(r.y, r.h, v)
           moved == CopyRows(s.cells, CopyLoop(yl), CopyLoop(xl), h, v)
           columns == IF h = 0 THEN moved ELSE BlankCells(moved, FullLoop(yl), BlankLoop(xl))
           rows == IF v = 0 THEN columns ELSE BlankCells(columns, BlankLoop(yl), FullLoop(xl))
           fx == Filled(r.x, r.w, h)
           fy == Filled(r.y, r.h, v)
           ux == Uncovered(r.x, r.w, h)
           uy == Uncovered(r.y, r.h, v)
           ax == Axis(r.x, r.w)
           ay == Axis(r.y, r.h)
           D == Offset(h, v)
<1>0. /\ r.x \in Nat /\ r.y \in Nat /\ r.w \in Nat /\ r.h \in Nat
      /\ r.x + r.w <= MaxW /\ r.y + r.h <= MaxH /\ MaxW \in Nat /\ MaxH \in Nat
      /\ h \in Int /\ v \in Int
  <2>1. MaxW \in Nat /\ MaxH \in Nat
    BY ScreenAssumption
  <2> QED BY <2>1 DEF InMatrix
<1>1. Cells(r) = Rect(ax, ay) /\ Cells(r) \subseteq Memory
      /\ ax \subseteq 0 .. MaxW - 1 /\ ay \subseteq 0 .. MaxH - 1
  BY CellsInside
<1>2. scroll(s, h, v) = [s EXCEPT !.cells = rows]
  BY <1>1 DEF scroll, CopyLoop, BlankLoop, FullLoop
<1>3. /\ Counts(CopyLoop(xl), h, MaxW)
      /\ Range(CopyLoop(xl)) = fx /\ Range(BlankLoop(xl)) = ux /\ Range(FullLoop(xl)) = ax
  <2> DEFINE a == r.x
             z == r.w
             l == xl
  <2>1. /\ a \in Nat /\ z \in Nat /\ a + z <= MaxW /\ MaxW \in Nat /\ h \in -z .. z
        /\ l = Limits(a, z, h)
    BY <1>0
  <2> HIDE DEF a, z, l
  <2>2. /\ Counts(CopyLoop(l), h, MaxW)
        /\ Range(CopyLoop(l)) = Filled(a, z, h) /\ Range(BlankLoop(l)) = Uncovered(a, z, h)
        /\ Range(FullLoop(l)) = Axis(a, z)
    BY <2>1, LimitsKeepAhead, SMTT(30)
  <2> QED BY <2>2 DEF a, z, l
<1>4. /\ Counts(CopyLoop(yl), v, MaxH)
      /\ Range(CopyLoop(yl)) = fy /\ Range(BlankLoop(yl)) = uy /\ Range(FullLoop(yl)) = ay
  <2> DEFINE a == r.y
             z == r.h
             l == yl
  <2>1. /\ a \in Nat /\ z \in Nat /\ a + z <= MaxH /\ MaxH \in Nat /\ v \in -z .. z
        /\ l = Limits(a, z, v)
    BY <1>0
  <2> HIDE DEF a, z, l
  <2>2. /\ Counts(CopyLoop(l), v, MaxH)
        /\ Range(CopyLoop(l)) = Filled(a, z, v) /\ Range(BlankLoop(l)) = Uncovered(a, z, v)
        /\ Range(FullLoop(l)) = Axis(a, z)
    BY <2>1, LimitsKeepAhead, SMTT(30)
  <2> QED BY <2>2 DEF a, z, l
<1> HIDE DEF xl, yl
<1>5. moved = Copied(s.cells, Rect(fx, fy), D)
  <2>1. Places(CopyLoop(yl), CopyLoop(xl)) = Rect(fx, fy)
    BY <1>3, <1>4, Zenon DEF Places
  <2> DEFINE xs == CopyLoop(xl)
             ys == CopyLoop(yl)
             c == s.cells
  <2>2. c \in Grid(C) /\ Counts(xs, h, MaxW) /\ Counts(ys, v, MaxH)
    BY <1>3, <1>4
  <2> HIDE DEF xs, ys, c
  <2>3. CopyRows(c, ys, xs, h, v) = Copied(c, Places(ys, xs), Offset(h, v))
    BY <1>0, <2>2, CopyRowsIs
  <2> QED BY <2>1, <2>3, Zenon DEF xs, ys, c
<1>b. ASSUME NEW c, NEW ys, NEW xs
      PROVE  BlankCells(c, ys, xs) = Blanked(c, Rect(Range(xs), Range(ys)))
  BY DEF BlankCells, Blanked, Rect
<1>6. columns = Blanked(moved, Rect(ux, ay))
  <2>1. CASE h = 0
    <3>1. ux = {}
      BY <1>0, <2>1 DEF Uncovered, Axis
    <3>2. \A o : o \notin Rect(ux, ay)
      BY <3>1 DEF Rect
    <3>3. moved = [o \in Memory |-> moved[o]]
      BY <1>5, Zenon DEF Copied
    <3> HIDE DEF moved, ux
    <3> QED BY <2>1, <3>2, <3>3 DEF Blanked
  <2>2. CASE h # 0
    BY <1>3, <1>4, <1>b, <2>2, Zenon
  <2> QED BY <2>1, <2>2
<1>7. rows = Blanked(columns, Rect(ax, uy))
  <2>1. CASE v = 0
    <3>1. uy = {}
      BY <1>0, <2>1 DEF Uncovered, Axis
    <3>2. \A o : o \notin Rect(ax, uy)
      BY <3>1 DEF Rect
    <3> HIDE DEF columns, uy
    <3>3. columns = [o \in Memory |-> columns[o]]
      BY <1>6, Zenon DEF Blanked
    <3> QED BY <2>1, <3>2, <3>3 DEF Blanked
  <2>2. CASE v # 0
    <3> HIDE DEF columns
    <3> QED BY <1>3, <1>4, <1>b, <2>2, Zenon
  <2> QED BY <2>1, <2>2
<1> HIDE DEF moved, columns, rows
<1>8. ASSUME NEW o \in Memory
      PROVE  rows[o] = IF o \in Rect(fx, fy) THEN s.cells[o + D]
                       ELSE IF o \in Cells(r) THEN Space ELSE s.cells[o]
  <2>1. rows[o] = IF o \in Rect(ax, uy) THEN Space ELSE IF o \in Rect(ux, ay) THEN Space
                  ELSE IF o \in Rect(fx, fy) THEN s.cells[o + D] ELSE s.cells[o]
    BY <1>5, <1>6, <1>7, Zenon DEF Copied, Blanked
  <2>2. /\ fx = ax \ ux /\ ux \subseteq ax /\ fy = ay \ uy /\ uy \subseteq ay
    BY DEF Filled, Uncovered
  <2>3. CASE o \notin Cells(r)
    <3> HIDE DEF ax, ay, ux, uy, fx, fy
    <3>1. o \notin Rect(ax, uy) /\ o \notin Rect(ux, ay) /\ o \notin Rect(fx, fy)
      BY <1>1, <2>2, <2>3 DEF Rect
    <3> QED BY <2>1, <2>3, <3>1, Zenon
  <2>4. CASE o \in Cells(r)
    <3>1. PICK x \in ax, y \in ay : o = Offset(x, y)
      BY <1>1, <2>4 DEF Rect
    <3>2. x \in 0 .. MaxW - 1 /\ y \in 0 .. MaxH - 1
      BY <1>1
    <3> HIDE DEF ax, ay, ux, uy, fx, fy
    <3>3. /\ fx \subseteq 0 .. MaxW - 1 /\ ux \subseteq 0 .. MaxW - 1
          /\ fy \subseteq 0 .. MaxH - 1 /\ uy \subseteq 0 .. MaxH - 1
      BY <1>1, <2>2
    <3>4. o \in Rect(ax, uy) <=> y \in uy
      BY <1>1, <3>1, <3>2, <3>3, RectHas
    <3>5. o \in Rect(ux, ay) <=> x \in ux
      BY <1>1, <3>1, <3>2, <3>3, RectHas
    <3>6. o \in Rect(fx, fy) <=> x \in fx /\ y \in fy
      BY <1>1, <3>1, <3>2, <3>3, RectHas
    <3> QED BY <2>1, <2>2, <2>4, <3>1, <3>4, <3>5, <3>6
  <2> QED BY <2>3, <2>4
<1>9. rows = Scrolled(s.cells, r, h, v)
  <2>1. rows = [o \in Memory |-> rows[o]]
    BY <1>7, Zenon DEF Blanked
  <2> QED BY <1>8, <2>1, Zenon DEF Scrolled
<1> QED BY <1>2, <1>9, Zenon

(* Cell by cell, and that no cell outside the region changes.              *)
LEMMA ScrolledAt ==
  ASSUME NEW cells, NEW r, InMatrix(r), NEW h \in Int, NEW v \in Int,
         NEW x \in 0 .. MaxW - 1, NEW y \in 0 .. MaxH - 1
  PROVE  Scrolled(cells, r, h, v)[Offset(x, y)] =
           IF ~InRect(r, x, y) THEN cells[Offset(x, y)]
           ELSE IF InRect(r, x + h, y + v) THEN cells[Offset(x + h, y + v)] ELSE Space
<1> DEFINE o == Offset(x, y)
           fx == Filled(r.x, r.w, h)
           fy == Filled(r.y, r.h, v)
<1>1. /\ o \in Memory /\ o + Offset(h, v) = Offset(x + h, y + v)
      /\ x \in Int /\ y \in Int
  <2>1. x \in Int /\ y \in Int
    OBVIOUS
  <2>2. o \in Memory
    BY OffsetInside
  <2>3. Offset(x, y) + Offset(h, v) = Offset(x + h, y + v)
    BY <2>1, OffsetMoves
  <2> QED BY <2>1, <2>2, <2>3
<1>2. /\ Axis(r.x, r.w) \subseteq 0 .. MaxW - 1 /\ Axis(r.y, r.h) \subseteq 0 .. MaxH - 1
      /\ Cells(r) = Rect(Axis(r.x, r.w), Axis(r.y, r.h))
  BY CellsInside
<1>3. o \in Cells(r) <=> InRect(r, x, y)
  <2>1. o \in Cells(r) <=> x \in Axis(r.x, r.w) /\ y \in Axis(r.y, r.h)
    BY <1>2, RectHas
  <2> QED BY <2>1 DEF Axis, InRect
<1>4. o \in Rect(fx, fy) <=> InRect(r, x, y) /\ InRect(r, x + h, y + v)
  <2>1. fx \subseteq 0 .. MaxW - 1 /\ fy \subseteq 0 .. MaxH - 1
    BY <1>2 DEF Filled
  <2>2. o \in Rect(fx, fy) <=> x \in fx /\ y \in fy
    <3> HIDE DEF fx, fy
    <3> QED BY <2>1, RectHas
  <2> QED BY <2>2 DEF Filled, Axis, InRect
<1>5. Scrolled(cells, r, h, v)[o] = IF o \in Rect(fx, fy) THEN cells[o + Offset(h, v)]
                                   ELSE IF o \in Cells(r) THEN Space ELSE cells[o]
  BY <1>1, Zenon DEF Scrolled
<1> HIDE DEF fx, fy, o
<1> QED BY <1>1, <1>3, <1>4, <1>5 DEF o

(* Scrolling changes no cell outside the region.                           *)
LEMMA ScrolledOutside ==
  ASSUME NEW cells, NEW r, InMatrix(r), NEW h \in Int, NEW v \in Int,
         NEW o \in Memory, o \notin Cells(r)
  PROVE  Scrolled(cells, r, h, v)[o] = cells[o]
<1>1. o \notin Rect(Filled(r.x, r.w, h), Filled(r.y, r.h, v))
  BY DEF Rect, Filled, Axis, Cells
<1> QED BY <1>1, Zenon DEF Scrolled

-----------------------------------------------------------------------------
(* Types.  The operations narrow the region to parts that may be outside   *)
(* the screen when the cursor is not in the region; what they leave is a   *)
(* screen again.                                                           *)
Areas == [x : Nat, y : Nat, w : Int, h : Int]
Loose(C) == [cells : Grid(C), region : Areas,
             cursor : [x : 0 .. VisW - 1, y : 0 .. VisH - 1], wild : BOOLEAN]
Shows(C) == [cells : Grid(C), region : {r \in Regions : r.w > 0 /\ r.h > 0},
             cursor : [x : 0 .. VisW - 1, y : 0 .. VisH - 1], wild : BOOLEAN]

(* The sizes of the matrix and of what is visible of it.                   *)
LEMMA Sizes == /\ MaxW \in Nat /\ MaxH \in Nat /\ VisW \in Nat /\ VisH \in Nat
               /\ VisW > 0 /\ VisH > 0 /\ VisW <= MaxW /\ VisH <= MaxH
               /\ TabStop \in Nat /\ TabStop > 0
<1>1. MaxW \in Nat /\ MaxH \in Nat /\ VisW \in 1 .. MaxW /\ VisH \in 1 .. MaxH
      /\ TabStop \in Nat \ {0}
  BY ScreenAssumption
<1> QED BY <1>1

(* A region that a program sets is within the matrix.                      *)
LEMMA RegionFacts ==
  ASSUME NEW r \in Regions
  PROVE  /\ r \in Areas /\ r.w \in Nat /\ r.h \in Nat /\ r.x + r.w <= VisW /\ r.y + r.h <= VisH
         /\ r.x \in Nat /\ r.y \in Nat
         /\ r.w > 0 /\ r.h > 0 => InMatrix(r)
BY Sizes DEF Regions, Areas, InMatrix

(* The whole screen is a region.                                           *)
LEMMA FullFacts == Full \in Regions /\ Full.w > 0 /\ Full.h > 0
BY Sizes DEF Full, Regions

(* A region that a program sets keeps a screen within the matrix.          *)
LEMMA ShowsLoose == ASSUME NEW C, NEW s \in Shows(C) PROVE s \in Loose(C) /\ InMatrix(s.region)
BY RegionFacts DEF Shows, Loose

(* Scrolling leaves a screen, wild or not.                                 *)
LEMMA ScrollLoose ==
  ASSUME NEW C, Space \in C, NEW s \in Loose(C), NEW h \in Int, NEW v \in Int
  PROVE  /\ scroll(s, h, v) \in Loose(C) /\ scroll(s, h, v).region = s.region
         /\ scroll(s, h, v).cursor = s.cursor /\ (s.wild => scroll(s, h, v).wild)
<1> DEFINE r == s.region
           xl == Limits(r.x, r.w, h)
           yl == Limits(r.y, r.h, v)
           moved == CopyRows(s.cells, CopyLoop(yl), CopyLoop(xl), h, v)
           columns == IF h = 0 THEN moved ELSE BlankCells(moved, FullLoop(yl), BlankLoop(xl))
           rows == IF v = 0 THEN columns ELSE BlankCells(columns, BlankLoop(yl), FullLoop(xl))
           over == h \notin -r.w .. r.w \/ v \notin -r.h .. r.h
           bad == over \/ ~(Cells(r) \subseteq Memory)
<1>1. scroll(s, h, v) = IF bad THEN [s EXCEPT !.wild = TRUE] ELSE [s EXCEPT !.cells = rows]
  BY DEF scroll, CopyLoop, BlankLoop, FullLoop
<1>2. /\ s.cells \in Grid(C) /\ r.x \in Nat /\ r.y \in Nat /\ r.w \in Int /\ r.h \in Int
  BY DEF Loose, Areas
<1>3. ASSUME ~bad PROVE rows \in Grid(C)
  <2>0. h \in -r.w .. r.w /\ v \in -r.h .. r.h /\ Cells(r) \subseteq Memory
    BY <1>3, Zenon
  <2>1. r.w \in Nat /\ r.h \in Nat
    <3> DEFINE a == r.w
               b == r.h
    <3>1. a \in Int /\ b \in Int /\ h \in -a .. a /\ v \in -b .. b
      BY <1>2, <2>0, Zenon
    <3> HIDE DEF a, b
    <3>2. -a <= h /\ h <= a /\ -b <= v /\ v <= b
      BY <3>1
    <3>3. a >= 0 /\ b >= 0
      BY <3>1, <3>2
    <3>4. a \in Nat /\ b \in Nat
      BY <3>1, <3>3
    <3> QED BY <3>4 DEF a, b
  <2>2. Counts(CopyLoop(xl), h, r.x + r.w) /\ Range(CopyLoop(xl)) = Filled(r.x, r.w, h)
    BY <1>2, <2>0, <2>1, LimitsFilled, Zenon
  <2>3. Counts(CopyLoop(yl), v, r.y + r.h) /\ Range(CopyLoop(yl)) = Filled(r.y, r.h, v)
    BY <1>2, <2>0, <2>1, LimitsFilled, Zenon
  <2> DEFINE xs == CopyLoop(xl)
             ys == CopyLoop(yl)
  <2>4. xs \in Seq(Int) /\ ys \in Seq(Int)
    BY <2>2, <2>3, Zenon DEF Counts
  <2>5. ASSUME NEW j \in 1 .. Len(ys), NEW n \in 1 .. Len(xs)
        PROVE  Offset(xs[n] + h, ys[j] + v) \in Memory
    <3> HIDE DEF xs, ys
    <3>1. xs[n] \in Range(xs) /\ ys[j] \in Range(ys)
      <4>1. xs[n] \in Range(xs)
        BY <2>4 DEF Range
      <4>2. ys[j] \in Range(ys)
        BY <2>4 DEF Range
      <4> QED BY <4>1, <4>2
    <3>2. /\ xs[n] \in Axis(r.x, r.w) /\ ys[j] \in Axis(r.y, r.h)
          /\ xs[n] + h \in Axis(r.x, r.w) /\ ys[j] + v \in Axis(r.y, r.h)
      BY <2>2, <2>3, <3>1 DEF Filled, xs, ys
    <3>3. Offset(xs[n] + h, ys[j] + v) \in Cells(r)
      <4> DEFINE x == xs[n] + h
                 y == ys[j] + v
      <4>1. x \in r.x .. r.x + r.w - 1 /\ y \in r.y .. r.y + r.h - 1
        BY <3>2, Zenon DEF Axis
      <4> HIDE DEF x, y
      <4>2. Offset(x, y) \in Cells(r)
        BY <4>1 DEF Cells
      <4> QED BY <4>2 DEF x, y
    <3> QED BY <2>0, <3>3
  <2>6. moved \in Grid(C)
    <3> DEFINE c == s.cells
    <3>1. c \in [Memory -> C] /\ h \in Int /\ v \in Int
      BY <1>2 DEF Grid
    <3> HIDE DEF xs, ys, c
    <3>2. CopyRows(c, ys, xs, h, v) \in [Memory -> C]
      BY <2>4, <2>5, <3>1, CopyRowsTyped
    <3> QED BY <3>2, Zenon DEF xs, ys, c, Grid
  <2> HIDE DEF moved
  <2>7. ASSUME NEW c \in Grid(C), NEW p, NEW q PROVE BlankCells(c, p, q) \in Grid(C)
    <3> DEFINE places == Rect(Range(q), Range(p))
    <3>1. BlankCells(c, p, q) = [o \in Memory |-> IF o \in places THEN Space ELSE c[o]]
      BY DEF BlankCells, Rect
    <3> HIDE DEF places
    <3> QED BY <3>1 DEF Grid
  <2>8. columns \in Grid(C)
    BY <2>6, <2>7, Zenon
  <2> HIDE DEF columns
  <2> QED BY <2>7, <2>8, Zenon
<1> HIDE DEF rows, bad
<1>4. CASE bad
  BY <1>1, <1>4 DEF Loose
<1>5. CASE ~bad
  BY <1>1, <1>3, <1>5 DEF Loose
<1> QED BY <1>4, <1>5

-----------------------------------------------------------------------------
(* What each operation leaves: a screen, with the same region, and with    *)
(* the cells outside the region as they were unless it has gone wild.      *)
Kept(s, t) ==
  /\ t.region = s.region /\ (s.wild => t.wild)
  /\ t.wild \/ \A o \in Memory \ Cells(s.region) : t.cells[o] = s.cells[o]
Inside(s) == s.cursor.x < s.region.w /\ s.cursor.y < s.region.h

(* What two operations leave, the one after the other leaves.              *)
LEMMA KeptOn ==
  ASSUME NEW s, NEW t, NEW u, Kept(s, t), Kept(t, u)
  PROVE  Kept(s, u)
BY Zenon DEF Kept

(* What has the region of a screen is one.                                 *)
LEMMA LooseShows ==
  ASSUME NEW C, NEW s \in Shows(C), NEW t \in Loose(C), t.region = s.region
  PROVE  t \in Shows(C)
BY DEF Shows, Loose

(* Scrolling.                                                              *)
LEMMA ScrollKeeps ==
  ASSUME NEW C, Space \in C, NEW s \in Shows(C), NEW h \in Int, NEW v \in Int
  PROVE  /\ scroll(s, h, v) \in Shows(C) /\ Kept(s, scroll(s, h, v))
         /\ scroll(s, h, v).cursor = s.cursor
<1> DEFINE t == scroll(s, h, v)
           r == s.region
<1>1. s \in Loose(C) /\ InMatrix(r)
  BY ShowsLoose
<1>2. t \in Loose(C) /\ t.region = s.region /\ t.cursor = s.cursor /\ (s.wild => t.wild)
  BY <1>1, ScrollLoose
<1>3. t \in Shows(C)
  <2> HIDE DEF t
  <2> QED BY <1>2, LooseShows
<1>4. t.wild \/ \A o \in Memory \ Cells(r) : t.cells[o] = s.cells[o]
  <2>1. CASE h \in -r.w .. r.w /\ v \in -r.h .. r.h
    <3>0. s.cells \in Grid(C)
      BY DEF Shows
    <3>1. t = [s EXCEPT !.cells = Scrolled(s.cells, r, h, v)]
      BY <1>1, <2>1, <3>0, ScrollIs
    <3>2. t.cells = Scrolled(s.cells, r, h, v)
      <4> HIDE DEF t
      <4> QED BY <1>1, <3>1 DEF Loose
    <3>3. \A o \in Memory \ Cells(r) : Scrolled(s.cells, r, h, v)[o] = s.cells[o]
      <4> TAKE o \in Memory \ Cells(r)
      <4> DEFINE c == s.cells
                 q == s.region
      <4>1. InMatrix(q) /\ o \in Memory /\ o \notin Cells(q)
        BY <1>1
      <4> HIDE DEF c, q
      <4>2. Scrolled(c, q, h, v)[o] = c[o]
        BY <4>1, ScrolledOutside
      <4> QED BY <4>2 DEF c, q
    <3> QED BY <3>2, <3>3
  <2>2. CASE ~(h \in -r.w .. r.w /\ v \in -r.h .. r.h)
    <3>1. t = [s EXCEPT !.wild = TRUE]
      BY <2>2 DEF scroll
    <3> HIDE DEF t
    <3> QED BY <1>1, <3>1 DEF Loose
  <2> QED BY <2>1, <2>2
<1> HIDE DEF t
<1>5. Kept(s, t)
  BY <1>2, <1>4 DEF Kept
<1> QED BY <1>2, <1>3, <1>5 DEF t

(* Moving the cursor, which may scroll.                                    *)
LEMMA MovesKeep ==
  ASSUME NEW C, Space \in C, NEW s \in Shows(C), NEW x0 \in Int, NEW y0 \in Int
  PROVE  /\ set_xy(s, x0, y0) \in Shows(C) /\ Kept(s, set_xy(s, x0, y0))
         /\ Inside(set_xy(s, x0, y0))
<1> DEFINE r == s.region
           x == IF x0 < 0 \/ x0 >= r.w THEN 0 ELSE x0
           down == IF x0 >= r.w THEN y0 + 1 ELSE y0
           y == IF down < 0 THEN 0 ELSE down
           t == IF y >= r.h THEN scroll(s, 0, y - r.h + 1) ELSE s
           c == [x |-> x, y |-> IF y >= r.h THEN r.h - 1 ELSE y]
           u == [t EXCEPT !.cursor = c]
<1>1. set_xy(s, x0, y0) = u
  BY DEF set_xy
<1>2. /\ r \in Regions /\ r.w \in 1 .. VisW /\ r.h \in 1 .. VisH
  BY Sizes DEF Shows, Regions
<1>3. x \in 0 .. r.w - 1 /\ y \in Nat
  BY <1>2
<1>4. c \in [x : 0 .. VisW - 1, y : 0 .. VisH - 1] /\ c.x < r.w /\ c.y < r.h
  <2> HIDE DEF x, y, r
  <2> QED BY Sizes, <1>2, <1>3
<1>5. t \in Shows(C) /\ Kept(s, t)
  <2>1. CASE y >= r.h
    <3>1. y - r.h + 1 \in Int /\ 0 \in Int
      BY <1>2, <1>3
    <3> DEFINE d == y - r.h + 1
    <3> HIDE DEF d
    <3>2. scroll(s, 0, d) \in Shows(C) /\ Kept(s, scroll(s, 0, d))
      BY <3>1, ScrollKeeps DEF d
    <3>3. t = scroll(s, 0, d)
      BY <2>1 DEF d
    <3> QED BY <3>2, <3>3, Zenon
  <2>2. CASE ~(y >= r.h)
    <3>1. t = s
      BY <2>2
    <3>2. Kept(s, s)
      BY DEF Kept
    <3> QED BY <3>1, <3>2, Zenon
  <2> QED BY <2>1, <2>2
<1> HIDE DEF t, c
<1>6. u \in Shows(C) /\ u.region = t.region /\ u.wild = t.wild /\ u.cells = t.cells /\ u.cursor = c
  BY <1>4, <1>5 DEF Shows
<1> HIDE DEF u
<1>7. Kept(s, u)
  BY <1>5, <1>6, Zenon DEF Kept
<1>8. Inside(u)
  BY <1>4, <1>5, <1>6 DEF Inside, Kept
<1> QED BY <1>1, <1>6, <1>7, <1>8

(* Writing a character at a cursor inside the region.                      *)
LEMMA PutKeeps ==
  ASSUME NEW C, Space \in C, NEW s \in Shows(C), NEW c \in C
  PROVE  /\ put(s, c) \in Shows(C) /\ (Inside(s) => Kept(s, put(s, c)))
         /\ Inside(put(s, c))
         /\ put(s, c).region = s.region /\ (s.wild => put(s, c).wild)
<1> DEFINE r == s.region
           o == Offset(r.x + s.cursor.x, r.y + s.cursor.y)
           t == IF o \in Memory THEN [s EXCEPT !.cells[o] = c] ELSE [s EXCEPT !.wild = TRUE]
           x == s.cursor.x + 1
           y == s.cursor.y
<1>1. put(s, c) = set_xy(t, x, y)
  BY DEF put
<1>2. x \in Int /\ y \in Int
  BY DEF Shows
<1>3. t \in Shows(C) /\ t.region = s.region /\ (s.wild => t.wild)
  <2> HIDE DEF o
  <2>1. CASE o \in Memory
    <3>1. [s.cells EXCEPT ![o] = c] \in Grid(C)
      BY <2>1 DEF Grid, Shows
    <3>2. t = [s EXCEPT !.cells = [s.cells EXCEPT ![o] = c]]
      BY <2>1
    <3> DEFINE g == [s.cells EXCEPT ![o] = c]
    <3> HIDE DEF g, t
    <3> QED BY <3>1, <3>2 DEF Shows, g
  <2>2. CASE o \notin Memory
    <3>1. t = [s EXCEPT !.wild = TRUE]
      BY <2>2
    <3> HIDE DEF t
    <3> QED BY <3>1 DEF Shows
  <2> QED BY <2>1, <2>2
<1>4. ASSUME Inside(s) PROVE Kept(s, t)
  <2>1. o \in Cells(r)
    <3> DEFINE a == r.x + s.cursor.x
               b == r.y + s.cursor.y
    <3>1. a \in r.x .. r.x + r.w - 1 /\ b \in r.y .. r.y + r.h - 1
      <4>1. r \in Regions /\ s.cursor.x \in Nat /\ s.cursor.y \in Nat
        BY DEF Shows
      <4>2. r.x \in Nat /\ r.y \in Nat /\ r.w \in Nat /\ r.h \in Nat
        BY <4>1, RegionFacts
      <4> QED BY <1>4, <4>1, <4>2 DEF Inside
    <3> HIDE DEF a, b
    <3>2. Offset(a, b) \in Cells(r)
      BY <3>1 DEF Cells
    <3> QED BY <3>2 DEF a, b
  <2> HIDE DEF o
  <2>2. CASE o \in Memory
    <3>1. s.cells \in Grid(C)
      BY DEF Shows
    <3>2. t.cells = [s.cells EXCEPT ![o] = c]
      BY <2>2 DEF Shows
    <3> HIDE DEF t
    <3>3. \A p \in Memory \ Cells(r) : t.cells[p] = s.cells[p]
      BY <2>1, <3>1, <3>2 DEF Grid
    <3> QED BY <1>3, <3>3 DEF Kept
  <2>3. CASE o \notin Memory
    <3>1. t.wild
      BY <2>3 DEF Shows
    <3> QED BY <1>3, <3>1 DEF Kept
  <2> QED BY <2>2, <2>3
<1> HIDE DEF t, x, y
<1>5. set_xy(t, x, y) \in Shows(C) /\ Kept(t, set_xy(t, x, y)) /\ Inside(set_xy(t, x, y))
  BY <1>2, <1>3, MovesKeep
<1> DEFINE u == set_xy(t, x, y)
<1> HIDE DEF u
<1>6. Inside(s) => Kept(s, u)
  BY <1>4, <1>5, KeptOn DEF u
<1>7. u.region = s.region /\ (s.wild => u.wild)
  BY <1>3, <1>5 DEF Kept, u
<1> QED BY <1>1, <1>5, <1>6, <1>7 DEF u

(* The control characters.                                                 *)
LEMMA ControlsKeep ==
  ASSUME NEW C, Space \in C, NEW s \in Shows(C)
  PROVE  /\ backspace(s) \in Shows(C) /\ Kept(s, backspace(s))
         /\ tab(s) \in Shows(C) /\ Kept(s, tab(s))
         /\ newline(s) \in Shows(C) /\ Kept(s, newline(s))
<1> DEFINE x == s.cursor.x
           y == s.cursor.y
           tx == ((x \div TabStop) + 1) * TabStop
<1>0. Kept(s, s)
  BY DEF Kept
<1>1. x \in Nat /\ y \in Nat
  BY DEF Shows
<1>2. tab(s) \in Shows(C) /\ Kept(s, tab(s))
  <2>1. tx \in Int
    <3> DEFINE q == x \div TabStop
    <3>1. q \in Int
      BY <1>1, Sizes
    <3>2. tx = (q + 1) * TabStop
      OBVIOUS
    <3> HIDE DEF q, tx
    <3> QED BY <3>1, <3>2, Sizes
  <2>2. tab(s) = set_xy(s, tx, y)
    BY DEF tab
  <2> HIDE DEF tx, y
  <2>3. y \in Int
    BY <1>1
  <2> QED BY <2>1, <2>2, <2>3, MovesKeep
<1>3. newline(s) \in Shows(C) /\ Kept(s, newline(s))
  <2> DEFINE y1 == y + 1
  <2>1. newline(s) = set_xy(s, 0, y1)
    BY DEF newline
  <2>2. y1 \in Int /\ 0 \in Int
    BY <1>1
  <2> HIDE DEF y1
  <2> QED BY <2>1, <2>2, MovesKeep
<1>4. backspace(s) \in Shows(C) /\ Kept(s, backspace(s))
  <2>1. CASE x > 0
    <3> DEFINE x1 == x - 1
               t == set_xy(s, x1, y)
               u == put(t, Space)
               w == set_xy(u, x1, y)
    <3>1. backspace(s) = w
      BY <2>1 DEF backspace
    <3>2. x1 \in Int /\ y \in Int
      BY <1>1
    <3> HIDE DEF x1, y
    <3>3. t \in Shows(C) /\ Kept(s, t) /\ Inside(t)
      BY <3>2, MovesKeep
    <3> HIDE DEF t
    <3>4. u \in Shows(C) /\ Kept(t, u)
      BY <3>3, PutKeeps
    <3> HIDE DEF u
    <3>5. w \in Shows(C) /\ Kept(u, w)
      BY <3>2, <3>4, MovesKeep
    <3> HIDE DEF w
    <3>6. Kept(s, w)
      BY <3>3, <3>4, <3>5, KeptOn
    <3> QED BY <3>1, <3>5, <3>6
  <2>2. CASE ~(x > 0)
    <3>1. backspace(s) = s
      BY <2>2 DEF backspace
    <3> QED BY <1>0, <3>1
  <2> QED BY <2>1, <2>2
<1> QED BY <1>2, <1>3, <1>4

(* The driver's operations on any region, and the parts of the region.     *)
LEMMA SetRegionIs ==
  ASSUME NEW C, NEW s \in Loose(C), NEW r \in Areas
  PROVE  /\ set_region(s, r) \in Loose(C)
         /\ set_region(s, r).region = (IF r.w = 0 \/ r.h = 0 THEN Full ELSE r)
         /\ set_region(s, r).cells = s.cells /\ set_region(s, r).cursor = s.cursor
         /\ set_region(s, r).wild = s.wild
<1> DEFINE q == IF r.w = 0 \/ r.h = 0 THEN Full ELSE r
<1>1. set_region(s, r) = [s EXCEPT !.region = q]
  BY DEF set_region
<1>2. q \in Areas
  BY FullFacts, RegionFacts
<1>3. q = IF r.w = 0 \/ r.h = 0 THEN Full ELSE r
  OBVIOUS
<1> HIDE DEF q
<1> QED BY <1>1, <1>2, <1>3 DEF Loose

(* Filling writes the cells of the region.                                 *)
LEMMA FillIs ==
  ASSUME NEW C, NEW c \in C, NEW s \in Loose(C)
  PROVE  /\ fill(s, c) \in Loose(C) /\ fill(s, c).region = s.region
         /\ fill(s, c).cursor = s.cursor /\ (s.wild => fill(s, c).wild)
         /\ \A o \in Memory :
              fill(s, c).cells[o] = IF o \in Cells(s.region) THEN c ELSE s.cells[o]
<1> DEFINE g == [o \in Memory |-> IF o \in Cells(s.region) THEN c ELSE s.cells[o]]
           w == s.wild \/ ~(Cells(s.region) \subseteq Memory)
<1>1. fill(s, c) = [s EXCEPT !.cells = g, !.wild = w]
  BY DEF fill
<1>2. g \in Grid(C)
  BY DEF Grid, Loose
<1>3. w \in BOOLEAN /\ (s.wild => w)
  OBVIOUS
<1>4. \A o \in Memory : g[o] = IF o \in Cells(s.region) THEN c ELSE s.cells[o]
  OBVIOUS
<1> HIDE DEF g, w
<1> QED BY <1>1, <1>2, <1>3, <1>4 DEF Loose

(* The parts of the region that erasing narrows it to, empty or not.       *)
LEMMA Parts ==
  ASSUME NEW C, NEW s \in Shows(C), NEW width \in Int
  PROVE  /\ LineFrom(s) \in Areas /\ LineTo(s, width) \in Areas
         /\ Below(s) \in Areas /\ Above(s) \in Areas
<1>1. s.region \in Regions /\ s.cursor.x \in Nat /\ s.cursor.y \in Nat
  BY DEF Shows
<1>2. /\ s.region.x \in Nat /\ s.region.y \in Nat /\ s.region.w \in Nat /\ s.region.h \in Nat
  BY <1>1, RegionFacts
<1> QED BY <1>1, <1>2 DEF LineFrom, LineTo, Below, Above, Areas

(* The region put back is the one before.                                  *)
LEMMA RegionBack ==
  ASSUME NEW C, NEW s \in Shows(C), NEW t \in Loose(C)
  PROVE  /\ set_region(t, s.region) \in Shows(C) /\ set_region(t, s.region).region = s.region
         /\ set_region(t, s.region).cells = t.cells /\ set_region(t, s.region).wild = t.wild
         /\ set_region(t, s.region).cursor = t.cursor
<1> DEFINE r == s.region
           u == set_region(t, r)
<1>1. r \in Regions /\ r.w > 0 /\ r.h > 0
  BY DEF Shows
<1>2. r \in Areas /\ r.w \in Nat /\ r.h \in Nat
  BY <1>1, RegionFacts
<1>3. /\ u \in Loose(C) /\ u.region = (IF r.w = 0 \/ r.h = 0 THEN Full ELSE r)
      /\ u.cells = t.cells /\ u.wild = t.wild /\ u.cursor = t.cursor
  <2> HIDE DEF r
  <2> QED BY <1>2, SetRegionIs
<1>4. u.region = r
  BY <1>1, <1>2, <1>3
<1> HIDE DEF u
<1>5. u \in Shows(C)
  BY <1>3, <1>4, LooseShows
<1> QED BY <1>3, <1>4, <1>5 DEF u

(* Erasing a part blanks its cells; an empty part is the whole screen.     *)
Filling(r) == IF r.w = 0 \/ r.h = 0 THEN Full ELSE r

LEMMA EraseIs ==
  ASSUME NEW C, Space \in C, NEW s \in Loose(C), NEW r \in Areas
  PROVE  /\ Erase(s, r) \in Loose(C) /\ Erase(s, r).cursor = s.cursor
         /\ (s.wild => Erase(s, r).wild)
         /\ \A o \in Memory :
              Erase(s, r).cells[o] = IF o \in Cells(Filling(r)) THEN Space ELSE s.cells[o]
         /\ r.w # 0 /\ r.h # 0
              => \A o \in Memory :
                   Erase(s, r).cells[o] = IF o \in Cells(r) THEN Space ELSE s.cells[o]
<1> DEFINE t == set_region(s, r)
           u == fill(t, Space)
<1>1. Erase(s, r) = u
  BY DEF Erase
<1>2. /\ t \in Loose(C) /\ t.region = (IF r.w = 0 \/ r.h = 0 THEN Full ELSE r)
      /\ t.cells = s.cells /\ t.cursor = s.cursor /\ t.wild = s.wild
  BY SetRegionIs
<1> HIDE DEF t
<1>3. /\ u \in Loose(C) /\ u.cursor = t.cursor /\ (t.wild => u.wild)
      /\ \A o \in Memory : u.cells[o] = IF o \in Cells(t.region) THEN Space ELSE t.cells[o]
  BY <1>2, FillIs
<1> HIDE DEF u
<1>4. r.w # 0 /\ r.h # 0
        => \A o \in Memory : u.cells[o] = IF o \in Cells(r) THEN Space ELSE s.cells[o]
  BY <1>2, <1>3, Zenon
<1>5. \A o \in Memory : u.cells[o] = IF o \in Cells(Filling(r)) THEN Space ELSE s.cells[o]
  BY <1>2, <1>3, Zenon DEF Filling
<1> QED BY <1>1, <1>2, <1>3, <1>4, <1>5

(* Erasing leaves a screen, with the region put back.                      *)
LEMMA ClearsShow ==
  ASSUME NEW C, Space \in C, NEW s \in Shows(C), NEW mode
  PROVE  txt_clear(s, mode) \in Shows(C) /\ txt_clear_line(s, mode) \in Shows(C)
<1>0. s \in Loose(C)
  BY ShowsLoose
<1> DEFINE x == s.cursor.x
           x1 == s.cursor.x + 1
           w == s.region.w
<1>1. x \in Int /\ x1 \in Int /\ w \in Int
  BY RegionFacts DEF Shows
<1> DEFINE from == LineFrom(s)
           below == Below(s)
           above == Above(s)
           to == LineTo(s, x)
           to1 == LineTo(s, x1)
           all == LineTo(s, w)
<1>2. /\ from \in Areas /\ below \in Areas /\ above \in Areas
      /\ to \in Areas /\ to1 \in Areas /\ all \in Areas
  <2>1. from \in Areas /\ below \in Areas /\ above \in Areas /\ to \in Areas
    <3> HIDE DEF x
    <3> QED BY <1>1, Parts
  <2>2. to1 \in Areas
    <3> HIDE DEF x1
    <3> QED BY <1>1, Parts
  <2>3. all \in Areas
    <3> HIDE DEF w
    <3> QED BY <1>1, Parts
  <2> QED BY <2>1, <2>2, <2>3
<1> DEFINE a == Erase(s, from)
           b == Erase(a, below)
           c == Erase(s, above)
           d == Erase(c, to1)
           e == fill(s, Space)
           cleared == IF mode = 0 THEN b ELSE IF mode = 1 THEN d ELSE e
           part == IF mode = 0 THEN from ELSE IF mode = 1 THEN to ELSE all
           line == Erase(s, part)
<1>3. txt_clear(s, mode) = set_region(cleared, s.region)
  BY Zenon DEF txt_clear
<1>4. txt_clear_line(s, mode) = set_region(line, s.region)
  <2>1. txt_clear_line(s, mode)
          = set_region(Erase(s, IF mode = 0 THEN LineFrom(s)
                                ELSE LineTo(s, IF mode = 1 THEN x ELSE w)), s.region)
    BY Zenon DEF txt_clear_line
  <2>2. part = IF mode = 0 THEN LineFrom(s) ELSE LineTo(s, IF mode = 1 THEN x ELSE w)
    BY Zenon
  <2> QED BY <2>1, <2>2, Zenon
<1> HIDE DEF from, below, above, to, to1, all
<1>5. a \in Loose(C) /\ c \in Loose(C) /\ e \in Loose(C)
  BY <1>0, <1>2, EraseIs, FillIs
<1> HIDE DEF a, c, e
<1>6. b \in Loose(C) /\ d \in Loose(C)
  BY <1>2, <1>5, EraseIs
<1>7. part \in Areas
  BY <1>2, Zenon
<1> HIDE DEF b, d, part
<1>8. cleared \in Loose(C)
  BY <1>5, <1>6, Zenon
<1>9. line \in Loose(C)
  BY <1>0, <1>7, EraseIs
<1> HIDE DEF cleared, line
<1> QED BY <1>3, <1>4, <1>8, <1>9, RegionBack

(* Inserting and deleting scroll the rest of the line.                     *)
LEMMA LineScrollKeeps ==
  ASSUME NEW C, Space \in C, NEW s \in Shows(C), NEW h \in Int,
         NEW u, u = set_region(scroll(set_region(s, LineFrom(s)), h, 0), s.region)
  PROVE  u \in Shows(C) /\ (Inside(s) => Kept(s, u))
<1> DEFINE r == s.region
           q == LineFrom(s)
           t == set_region(s, q)
           v == scroll(t, h, 0)
<1>1. /\ r \in Regions /\ r.x \in Nat /\ r.y \in Nat /\ r.w \in Nat /\ r.h \in Nat
      /\ r.x + r.w <= VisW /\ r.y + r.h <= VisH /\ s.cursor.x \in Nat /\ s.cursor.y \in Nat
      /\ InMatrix(r) /\ s \in Loose(C)
  BY RegionFacts, ShowsLoose DEF Shows
<1>2. /\ t \in Loose(C) /\ t.region = (IF q.w = 0 \/ q.h = 0 THEN Full ELSE q)
      /\ t.cells = s.cells /\ t.cursor = s.cursor /\ t.wild = s.wild
  <2>1. q \in Areas
    BY Parts
  <2> HIDE DEF q
  <2> QED BY <1>1, <2>1, SetRegionIs
<1> HIDE DEF t
<1>3. v \in Loose(C) /\ v.region = t.region /\ v.cursor = t.cursor /\ (t.wild => v.wild)
  BY <1>2, ScrollLoose
<1>4. u = set_region(v, r)
  BY Zenon DEF t
<1>5. u \in Shows(C) /\ u.region = r /\ u.cells = v.cells /\ u.wild = v.wild
  <2> HIDE DEF v
  <2> QED BY <1>3, <1>4, RegionBack
<1>6. ASSUME Inside(s) PROVE Kept(s, u)
  <2>1. q = [x |-> r.x + s.cursor.x, y |-> r.y + s.cursor.y, w |-> r.w - s.cursor.x, h |-> 1]
    BY DEF LineFrom
  <2>2. /\ q.x = r.x + s.cursor.x /\ q.y = r.y + s.cursor.y /\ q.w = r.w - s.cursor.x
        /\ q.h = 1 /\ s.cursor.x < r.w /\ s.cursor.y < r.h
    BY <1>6, <2>1 DEF Inside
  <2> HIDE DEF q
  <2>3. InMatrix(q) /\ Cells(q) \subseteq Cells(r) /\ t.region = q
    <3>1. InMatrix(q)
      BY <1>1, <2>2, Sizes DEF InMatrix
    <3>2. \A x : x \in q.x .. q.x + q.w - 1 => x \in r.x .. r.x + r.w - 1
      BY <1>1, <2>2
    <3>3. \A y : y \in q.y .. q.y + q.h - 1 => y \in r.y .. r.y + r.h - 1
      BY <1>1, <2>2
    <3>4. Cells(q) \subseteq Cells(r)
      BY <3>2, <3>3 DEF Cells
    <3>5. q.w # 0 /\ q.h # 0
      BY <1>1, <2>2
    <3> QED BY <1>2, <3>1, <3>4, <3>5
  <2>4. v.wild \/ \A o \in Memory \ Cells(r) : v.cells[o] = s.cells[o]
    <3>1. CASE h \in -q.w .. q.w /\ 0 \in -q.h .. q.h
      <4>1. t.cells \in Grid(C) /\ InMatrix(t.region)
            /\ h \in -t.region.w .. t.region.w /\ 0 \in -t.region.h .. t.region.h
        BY <1>2, <2>3, <3>1 DEF Loose
      <4>2. v = [t EXCEPT !.cells = Scrolled(t.cells, t.region, h, 0)]
        BY <4>1, ScrollIs
      <4> DEFINE g == Scrolled(t.cells, t.region, h, 0)
      <4> HIDE DEF g, v
      <4>3. v.cells = g
        BY <1>2, <4>2 DEF Loose, g
      <4>4. ASSUME NEW o \in Memory \ Cells(r) PROVE g[o] = s.cells[o]
        <5> DEFINE c == s.cells
                   z == 0
        <5>1. o \in Memory /\ o \notin Cells(q) /\ z \in Int /\ InMatrix(q)
          BY <2>3
        <5>2. Scrolled(c, q, h, z)[o] = c[o]
          <6> HIDE DEF c, z, r
          <6> QED BY <5>1, ScrolledOutside
        <5>3. g = Scrolled(c, q, h, z)
          BY <1>2, <2>3, Zenon DEF g
        <5> QED BY <5>2, <5>3, Zenon
      <4> QED BY <4>3, <4>4
    <3>2. CASE ~(h \in -q.w .. q.w /\ 0 \in -q.h .. q.h)
      <4>1. v = [t EXCEPT !.wild = TRUE]
        BY <2>3, <3>2 DEF scroll
      <4> HIDE DEF v
      <4> QED BY <1>2, <4>1 DEF Loose
    <3> QED BY <3>1, <3>2
  <2> HIDE DEF v
  <2> QED BY <1>2, <1>3, <1>5, <2>4 DEF Kept
<1> QED BY <1>5, <1>6

(* Inserting and deleting keep what is outside the region.                 *)
LEMMA LinesKeep ==
  ASSUME NEW C, Space \in C, NEW s \in Shows(C), NEW count \in Int
  PROVE  /\ txt_insert(s, count) \in Shows(C) /\ (Inside(s) => Kept(s, txt_insert(s, count)))
         /\ txt_delete(s, count) \in Shows(C) /\ (Inside(s) => Kept(s, txt_delete(s, count)))
<1>1. Kept(s, s)
  BY DEF Kept
<1>2. CASE count > 0
  <2> DEFINE h == -count
             n == IF count > s.cursor.x THEN s.cursor.x ELSE count
             u == set_region(scroll(set_region(s, LineFrom(s)), h, 0), s.region)
             v == set_region(scroll(set_region(s, LineFrom(s)), n, 0), s.region)
  <2>1. txt_insert(s, count) = u /\ txt_delete(s, count) = v
    BY <1>2 DEF txt_insert, txt_delete
  <2>2. h \in Int /\ n \in Int
    BY DEF Shows
  <2> HIDE DEF h, n
  <2>3. u \in Shows(C) /\ (Inside(s) => Kept(s, u))
    BY <2>2, LineScrollKeeps
  <2>4. v \in Shows(C) /\ (Inside(s) => Kept(s, v))
    BY <2>2, LineScrollKeeps
  <2> QED BY <2>1, <2>3, <2>4, Zenon
<1>3. CASE ~(count > 0)
  <2>1. txt_insert(s, count) = s /\ txt_delete(s, count) = s
    BY <1>3 DEF txt_insert, txt_delete
  <2> QED BY <1>1, <2>1, Zenon
<1> QED BY <1>2, <1>3

Char == Letter \cup {Space}

(* The types of the model, as the lemmas above name them.                  *)
LEMMA TypeShows == (TypeOK <=> screen \in Shows(Char)) /\ Space \in Char /\ Letter \subseteq Char
BY DEF TypeOK, Screens, Shows, Grid, Char

(* The screen and what is set, wherever the operations start.              *)
THEOREM ScreenTyped == Spec => []TypeOK
<1>1. Init => TypeOK
  <2>1. Full \in Regions /\ Full.w > 0 /\ Full.h > 0
    BY FullFacts
  <2>2. 0 \in 0 .. VisW - 1 /\ 0 \in 0 .. VisH - 1
    BY Sizes
  <2>3. [o \in Memory |-> Space] \in [Memory -> Letter \cup {Space}]
    OBVIOUS
  <2> DEFINE cells == [o \in Memory |-> Space]
  <2> HIDE DEF cells
  <2> QED BY <2>1, <2>2, <2>3 DEF Init, TypeOK, Screens, cells
<1>2. TypeOK /\ [Next]_screen => TypeOK'
  <2> SUFFICES ASSUME TypeOK, [Next]_screen PROVE TypeOK'
    OBVIOUS
  <2>0. screen \in Shows(Char) /\ Space \in Char /\ Letter \subseteq Char /\ screen \in Loose(Char)
    BY TypeShows, ShowsLoose
  <2>1. SUFFICES screen' \in Shows(Char)
    BY DEF TypeOK, Screens, Shows, Grid, Char
  <2>2. By \subseteq Int /\ At \subseteq Int
    BY ScreenAssumption
  <2>3. CASE SetRegion
    <3>1. PICK r \in Regions : screen' = set_region(screen, r)
      BY <2>3, Zenon DEF SetRegion, Becomes
    <3>2. r \in Areas /\ r.w \in Nat /\ r.h \in Nat /\ (r.w > 0 /\ r.h > 0 => InMatrix(r))
      BY RegionFacts
    <3>3. /\ screen' \in Loose(Char)
          /\ screen'.region = (IF r.w = 0 \/ r.h = 0 THEN Full ELSE r)
      BY <2>0, <3>1, <3>2, SetRegionIs
    <3>4. screen'.region \in Regions /\ screen'.region.w > 0 /\ screen'.region.h > 0
      BY <3>2, <3>3, FullFacts
    <3> QED BY <3>3, <3>4 DEF Loose, Shows
  <2>4. CASE SetXY
    <3>1. PICK x \in At, y \in At : screen' = set_xy(screen, x, y)
      BY <2>4, Zenon DEF SetXY, Becomes
    <3>2. x \in Int /\ y \in Int
      BY <2>2
    <3> QED BY <2>0, <3>1, <3>2, MovesKeep
  <2>5. CASE Scroll
    <3>1. PICK h \in By, v \in By : screen' = scroll(screen, h, v)
      BY <2>5, Zenon DEF Scroll, Becomes
    <3>2. h \in Int /\ v \in Int
      BY <2>2
    <3> QED BY <2>0, <3>1, <3>2, ScrollKeeps
  <2>6. CASE Fill
    <3>1. PICK c \in Letter : screen' = fill(screen, c)
      BY <2>6, Zenon DEF Fill, Becomes
    <3>2. screen' \in Loose(Char) /\ screen'.region = screen.region
      BY <2>0, <3>1, FillIs
    <3> QED BY <2>0, <3>2, LooseShows
  <2>7. CASE PutControl
    <3>1. \/ screen' = backspace(screen) \/ screen' = tab(screen)
          \/ screen' = newline(screen) \/ screen' = screen
      BY <2>7, Zenon DEF PutControl, Becomes, carriage_return
    <3> QED BY <2>0, <3>1, ControlsKeep
  <2>8. CASE PutLetter
    <3>1. PICK c \in Letter : screen' = put(screen, c)
      BY <2>8, Zenon DEF PutLetter, Becomes
    <3> QED BY <2>0, <3>1, PutKeeps
  <2>9. CASE Clear \/ ClearLine
    <3>1. PICK mode \in 0 .. 2 :
            screen' = txt_clear(screen, mode) \/ screen' = txt_clear_line(screen, mode)
      BY <2>9, Zenon DEF Clear, ClearLine, Becomes
    <3> QED BY <2>0, <3>1, ClearsShow
  <2>10. CASE Insert \/ Delete
    <3>1. PICK n \in By : screen' = txt_insert(screen, n) \/ screen' = txt_delete(screen, n)
      BY <2>10, Zenon DEF Insert, Delete, Becomes
    <3>2. n \in Int
      BY <2>2
    <3> QED BY <2>0, <3>1, <3>2, LinesKeep
  <2>11. CASE UNCHANGED screen
    BY <2>0, <2>11
  <2> QED BY <2>3, <2>4, <2>5, <2>6, <2>7, <2>8, <2>9, <2>10, <2>11 DEF Next
<1> QED BY <1>1, <1>2, PTL DEF Spec

(* Scrolling in place gives every cell of the region what the cell the     *)
(* given distance away held before, or a blank, and changes no other: the  *)
(* direction of the loops keeps every cell until it has been read.         *)
THEOREM ScrollsMove == Spec => []ScrollMoves
<1>1. TypeOK => ScrollMoves
  <2> SUFFICES ASSUME TypeOK, NEW h \in By, NEW v \in By,
                      NEW x \in 0 .. MaxW - 1, NEW y \in 0 .. MaxH - 1,
                      ~scroll(screen, h, v).wild
               PROVE  scroll(screen, h, v).cells[Offset(x, y)] =
                        IF ~InRect(screen.region, x, y) THEN screen.cells[Offset(x, y)]
                        ELSE IF InRect(screen.region, x + h, y + v)
                             THEN screen.cells[Offset(x + h, y + v)] ELSE Space
    BY Zenon DEF ScrollMoves
  <2> DEFINE r == screen.region
             c == screen.cells
             s == scroll(screen, h, v)
  <2>1. screen \in Shows(Char) /\ InMatrix(r) /\ c \in Grid(Char) /\ screen \in Loose(Char)
    BY TypeShows, ShowsLoose DEF Shows
  <2>2. h \in Int /\ v \in Int
    BY ScreenAssumption
  <2>3. h \in -r.w .. r.w /\ v \in -r.h .. r.h
    <3>1. SUFFICES ASSUME ~(h \in -r.w .. r.w /\ v \in -r.h .. r.h) PROVE FALSE
      OBVIOUS
    <3>2. s = [screen EXCEPT !.wild = TRUE]
      BY <3>1 DEF scroll
    <3> HIDE DEF s
    <3> QED BY <2>1, <3>2 DEF Loose, s
  <2>4. s = [screen EXCEPT !.cells = Scrolled(c, r, h, v)]
    BY <2>1, <2>3, ScrollIs
  <2> DEFINE g == Scrolled(c, r, h, v)
  <2> HIDE DEF g, s
  <2>5. s.cells = g
    BY <2>1, <2>4 DEF Loose, g
  <2>6. g[Offset(x, y)] = IF ~InRect(r, x, y) THEN c[Offset(x, y)]
                          ELSE IF InRect(r, x + h, y + v) THEN c[Offset(x + h, y + v)] ELSE Space
    <3> HIDE DEF r, c
    <3> QED BY <2>1, <2>2, ScrolledAt DEF g
  <2> QED BY <2>5, <2>6, Zenon DEF s
<1> QED BY <1>1, ScreenTyped, PTL

(* With the cursor in the region, no operation of a program that prints,   *)
(* fills, inserts or deletes reaches a cell outside the region.            *)
THEOREM RegionHeld == Spec => []RegionHolds
<1>1. TypeOK => RegionHolds
  <2> SUFFICES ASSUME TypeOK, CursorInside PROVE RegionHolds
    BY Zenon DEF RegionHolds
  <2>1. screen \in Shows(Char) /\ Space \in Char /\ Letter \subseteq Char /\ screen \in Loose(Char)
    BY TypeShows, ShowsLoose
  <2>2. Inside(screen)
    BY DEF Inside, CursorInside
  <2>3. ASSUME NEW s, Kept(screen, s) PROVE KeepsOutside(s)
    BY <2>3, Zenon DEF Kept, KeepsOutside, Outside
  <2>4. KeepsOutside(backspace(screen)) /\ KeepsOutside(tab(screen)) /\ KeepsOutside(newline(screen))
    BY <2>1, <2>3, ControlsKeep
  <2>5. ASSUME NEW c \in Letter PROVE KeepsOutside(put(screen, c)) /\ KeepsOutside(fill(screen, c))
    <3>1. c \in Char
      BY <2>1
    <3>2. KeepsOutside(put(screen, c))
      BY <2>1, <2>2, <2>3, <3>1, PutKeeps
    <3> DEFINE t == fill(screen, c)
    <3>3. \A o \in Memory : t.cells[o] = IF o \in Cells(screen.region) THEN c ELSE screen.cells[o]
      BY <2>1, <3>1, FillIs
    <3> HIDE DEF t
    <3>4. KeepsOutside(t)
      BY <3>3 DEF KeepsOutside, Outside
    <3> QED BY <3>2, <3>4 DEF t
  <2>6. ASSUME NEW n \in By
        PROVE  KeepsOutside(txt_insert(screen, n)) /\ KeepsOutside(txt_delete(screen, n))
    <3>1. n \in Int
      BY ScreenAssumption
    <3> QED BY <2>1, <2>2, <2>3, <3>1, LinesKeep
  <2> QED BY <2>4, <2>5, <2>6, Zenon DEF RegionHolds
<1> QED BY <1>1, ScreenTyped, PTL

(* Reading order is the order of the offsets.                              *)
LEMMA OffsetOrder ==
  ASSUME NEW x \in 0 .. MaxW - 1, NEW y \in Int, NEW x2 \in 0 .. MaxW - 1, NEW y2 \in Int
  PROVE  Offset(x, y) <= Offset(x2, y2) <=> y < y2 \/ (y = y2 /\ x <= x2)
<1>0. MaxW \in Nat
  BY Sizes
<1>1. y * MaxW \in Int /\ y2 * MaxW \in Int
  BY <1>0
<1>2. CASE y < y2
  <2>1. y * MaxW + MaxW <= y2 * MaxW
    BY <1>0, <1>2, Multiples
  <2> QED BY <1>0, <1>1, <1>2, <2>1 DEF Offset
<1>3. CASE y2 < y
  <2>1. y2 * MaxW + MaxW <= y * MaxW
    BY <1>0, <1>3, Multiples
  <2> QED BY <1>0, <1>1, <1>3, <2>1 DEF Offset
<1>4. CASE y = y2
  BY <1>0, <1>1, <1>4 DEF Offset
<1> QED BY <1>2, <1>3, <1>4

(* A cell of the region is in a part of it, or before or after the cursor, *)
(* by its column and row.                                                  *)
LEMMA InPart ==
  ASSUME NEW r, NEW x \in r.x .. r.x + r.w - 1, NEW y \in r.y .. r.y + r.h - 1, InMatrix(r),
         NEW q, InMatrix(q)
  PROVE  Offset(x, y) \in Cells(q) <=> InRect(q, x, y)
<1>1. x \in 0 .. MaxW - 1 /\ y \in 0 .. MaxH - 1
  BY Sizes DEF InMatrix
<1>2. /\ Axis(q.x, q.w) \subseteq 0 .. MaxW - 1 /\ Axis(q.y, q.h) \subseteq 0 .. MaxH - 1
      /\ Cells(q) = Rect(Axis(q.x, q.w), Axis(q.y, q.h))
  BY CellsInside
<1>3. Offset(x, y) \in Cells(q) <=> x \in Axis(q.x, q.w) /\ y \in Axis(q.y, q.h)
  BY <1>1, <1>2, RectHas
<1> QED BY <1>3 DEF Axis, InRect

(* The cursor inside the region is on a cell of it.                        *)
LEMMA CursorPlace ==
  ASSUME NEW C, screen \in Shows(C), CursorInside
  PROVE  /\ screen.region.x \in Nat /\ screen.region.y \in Nat
         /\ screen.region.w \in Nat /\ screen.region.h \in Nat
         /\ screen.region.x + screen.region.w <= MaxW /\ screen.region.y + screen.region.h <= MaxH
         /\ screen.cursor.x \in Nat /\ screen.cursor.y \in Nat
         /\ screen.cursor.x < screen.region.w /\ screen.cursor.y < screen.region.h
         /\ InMatrix(screen.region)
<1>1. screen.region \in Regions /\ screen.cursor.x \in Nat /\ screen.cursor.y \in Nat
  BY DEF Shows
<1>2. /\ screen.region.x \in Nat /\ screen.region.y \in Nat
      /\ screen.region.w \in Nat /\ screen.region.h \in Nat
      /\ screen.region.x + screen.region.w <= VisW /\ screen.region.y + screen.region.h <= VisH
  BY <1>1, RegionFacts
<1>3. InMatrix(screen.region)
  BY ShowsLoose
<1> QED BY <1>1, <1>2, <1>3, Sizes DEF CursorInside

(* What each part holds, in reading order.                                 *)
LEMMA PartsHold ==
  ASSUME NEW C, screen \in Shows(C), CursorInside,
         NEW o \in Memory
  PROVE  /\ screen.cursor.y < screen.region.h - 1
              => (o \in FromCursor <=> o \in Cells(LineFrom(screen)) \/ o \in Cells(Below(screen)))
         /\ screen.cursor.y > 0
              => (o \in ToCursor <=> \/ o \in Cells(LineTo(screen, screen.cursor.x + 1))
                                     \/ o \in Cells(Above(screen)))
         /\ o \in FromCursor \cap OnLine <=> o \in Cells(LineFrom(screen))
         /\ o \in OnLine <=> o \in Cells(LineTo(screen, screen.region.w))
<1> DEFINE r == screen.region
           cx == r.x + screen.cursor.x
           cy == r.y + screen.cursor.y
           from == LineFrom(screen)
           below == Below(screen)
           above == Above(screen)
           to1 == LineTo(screen, screen.cursor.x + 1)
           all == LineTo(screen, screen.region.w)
<1>1. /\ r.x \in Nat /\ r.y \in Nat /\ r.w \in Nat /\ r.h \in Nat
      /\ r.x + r.w <= MaxW /\ r.y + r.h <= MaxH
      /\ screen.cursor.x \in Nat /\ screen.cursor.y \in Nat
      /\ screen.cursor.x < r.w /\ screen.cursor.y < r.h /\ InMatrix(r)
  BY CursorPlace
<1>2. /\ InMatrix(from) /\ InMatrix(to1) /\ InMatrix(all)
      /\ (screen.cursor.y < r.h - 1 => InMatrix(below))
      /\ (screen.cursor.y > 0 => InMatrix(above))
  <2> HIDE DEF r
  <2>1. InMatrix(from)
    BY <1>1, Sizes DEF LineFrom, InMatrix, r
  <2>2. InMatrix(to1)
    BY <1>1, Sizes DEF LineTo, InMatrix, r
  <2>3. InMatrix(all)
    BY <1>1, Sizes DEF LineTo, InMatrix, r
  <2>4. screen.cursor.y < r.h - 1 => InMatrix(below)
    BY <1>1, Sizes DEF Below, InMatrix, r
  <2>5. screen.cursor.y > 0 => InMatrix(above)
    BY <1>1, Sizes DEF Above, InMatrix, r
  <2> QED BY <2>1, <2>2, <2>3, <2>4, <2>5
<1>3. CursorOffset = Offset(cx, cy) /\ cx \in r.x .. r.x + r.w - 1 /\ cy \in r.y .. r.y + r.h - 1
      /\ cx \in 0 .. MaxW - 1 /\ cx \in Int /\ cy \in Int
  <2>1. CursorOffset = Offset(cx, cy)
    BY Zenon DEF CursorOffset
  <2> QED BY <1>1, <2>1, Sizes
<1>4. OnLine = Cells(all)
  <2>1. /\ all.x = r.x /\ all.y = cy /\ all.w = r.w /\ all.h = 1
    BY DEF LineTo
  <2>2. all.y .. all.y + all.h - 1 = {cy}
    BY <1>3, <2>1
  <2> QED BY <2>1, <2>2 DEF OnLine, Cells
<1>5. CASE o \in Cells(r)
  <2>1. PICK x \in r.x .. r.x + r.w - 1, y \in r.y .. r.y + r.h - 1 : o = Offset(x, y)
    BY <1>5 DEF Cells
  <2>2. x \in 0 .. MaxW - 1 /\ y \in Int /\ x \in Int
    BY <1>1, Sizes
  <2>3. /\ o \in FromCursor <=> cy < y \/ (cy = y /\ cx <= x)
        /\ o \in ToCursor <=> y < cy \/ (y = cy /\ x <= cx)
    <3> HIDE DEF r, cx, cy
    <3>1. CursorOffset <= o <=> cy < y \/ (cy = y /\ cx <= x)
      BY <1>3, <2>1, <2>2, OffsetOrder
    <3>2. o <= CursorOffset <=> y < cy \/ (y = cy /\ x <= cx)
      BY <1>3, <2>1, <2>2, OffsetOrder
    <3>3. o \in Int /\ CursorOffset \in Int
      BY <1>3, <2>1, <2>2, OffsetMoves
    <3>4. (o \in FromCursor <=> CursorOffset <= o) /\ (o \in ToCursor <=> o <= CursorOffset)
      BY <1>5, <3>3 DEF FromCursor, ToCursor, r
    <3> QED BY <3>1, <3>2, <3>4, Zenon
  <2>4. ASSUME NEW q, InMatrix(q) PROVE o \in Cells(q) <=> InRect(q, x, y)
    <3> HIDE DEF r
    <3> QED BY <1>1, <2>1, <2>4, InPart
  <2>5. /\ o \in Cells(from) <=> InRect(from, x, y)
        /\ o \in Cells(to1) <=> InRect(to1, x, y)
        /\ o \in Cells(all) <=> InRect(all, x, y)
        /\ screen.cursor.y < r.h - 1 => (o \in Cells(below) <=> InRect(below, x, y))
        /\ screen.cursor.y > 0 => (o \in Cells(above) <=> InRect(above, x, y))
    <3> HIDE DEF from, below, above, to1, all
    <3> QED BY <1>2, <2>4, Zenon
  <2>6. /\ InRect(from, x, y) <=> y = cy /\ cx <= x
        /\ InRect(to1, x, y) <=> y = cy /\ x <= cx
        /\ InRect(all, x, y) <=> y = cy
        /\ InRect(below, x, y) <=> cy < y
        /\ InRect(above, x, y) <=> y < cy
    <3>1. InRect(from, x, y) <=> y = cy /\ cx <= x
      BY <1>1, <2>1, <2>2 DEF LineFrom, InRect
    <3>2. InRect(to1, x, y) <=> y = cy /\ x <= cx
      <4>1. to1.x = r.x /\ to1.y = cy /\ to1.w = screen.cursor.x + 1 /\ to1.h = 1
        BY DEF LineTo
      <4> HIDE DEF to1, r
      <4>2. InRect(to1, x, y) <=> x \in r.x .. r.x + (screen.cursor.x + 1) - 1 /\ y \in cy .. cy + 1 - 1
        BY <4>1, Zenon DEF InRect
      <4>3. (x \in r.x .. r.x + (screen.cursor.x + 1) - 1) <=> x <= cx
        BY <1>1, <2>1, <2>2
      <4>4. (y \in cy .. cy + 1 - 1) <=> y = cy
        BY <1>3, <2>2
      <4> QED BY <4>2, <4>3, <4>4, Zenon
    <3>3. InRect(all, x, y) <=> y = cy
      <4>1. all.x = r.x /\ all.y = cy /\ all.w = r.w /\ all.h = 1
        BY DEF LineTo
      <4> HIDE DEF all, r
      <4>2. InRect(all, x, y) <=> x \in r.x .. r.x + r.w - 1 /\ y \in cy .. cy + 1 - 1
        BY <4>1, Zenon DEF InRect
      <4> QED BY <1>1, <1>3, <2>1, <2>2, <4>2
    <3>4. InRect(below, x, y) <=> cy < y
      BY <1>1, <2>1, <2>2 DEF Below, InRect
    <3>5. InRect(above, x, y) <=> y < cy
      BY <1>1, <2>1, <2>2 DEF Above, InRect
    <3> QED BY <3>1, <3>2, <3>3, <3>4, <3>5
  <2>7. (cy < y \/ (cy = y /\ cx <= x)) /\ y = cy <=> y = cy /\ cx <= x
    BY <1>3, <2>2
  <2> HIDE DEF from, below, above, to1, all, r, cx, cy
  <2>8. o \in FromCursor \cap OnLine <=> o \in FromCursor /\ o \in Cells(all)
    BY <1>4
  <2>9. screen.cursor.y < r.h - 1 => (o \in FromCursor <=> o \in Cells(from) \/ o \in Cells(below))
    BY <2>3, <2>5, <2>6, Zenon
  <2>10. screen.cursor.y > 0 => (o \in ToCursor <=> o \in Cells(to1) \/ o \in Cells(above))
    BY <2>3, <2>5, <2>6, Zenon
  <2>11. o \in FromCursor \cap OnLine <=> o \in Cells(from)
    BY <2>3, <2>5, <2>6, <2>7, <2>8, Zenon
  <2>12. o \in OnLine <=> o \in Cells(all)
    BY <1>4
  <2> QED BY <2>9, <2>10, <2>11, <2>12 DEF from, below, above, to1, all, r
<1>6. CASE o \notin Cells(r)
  <2>1. ASSUME NEW q, q.x >= r.x, q.y >= r.y, q.x + q.w <= r.x + r.w, q.y + q.h <= r.y + r.h,
               q \in Areas
        PROVE  o \notin Cells(q)
    <3>1. \A x : x \in q.x .. q.x + q.w - 1 => x \in r.x .. r.x + r.w - 1
      BY <1>1, <2>1 DEF Areas
    <3>2. \A y : y \in q.y .. q.y + q.h - 1 => y \in r.y .. r.y + r.h - 1
      BY <1>1, <2>1 DEF Areas
    <3> QED BY <1>6, <3>1, <3>2 DEF Cells
  <2>2. o \notin Cells(from) /\ o \notin Cells(below)
    BY <1>1, <2>1 DEF LineFrom, Below, Areas
  <2>3. o \notin Cells(to1) /\ o \notin Cells(above)
    BY <1>1, <2>1 DEF LineTo, Above, Areas
  <2>4. o \notin Cells(all)
    BY <1>1, <2>1 DEF LineTo, Areas
  <2> HIDE DEF from, below, above, to1, all
  <2>5. o \notin FromCursor /\ o \notin ToCursor /\ o \notin OnLine
    BY <1>4, <1>6, <2>4 DEF FromCursor, ToCursor
  <2> QED BY <2>2, <2>3, <2>4, <2>5 DEF from, below, above, to1, all
<1> QED BY <1>5, <1>6

(* What is erased is in the matrix.                                        *)
LEMMA ErasedInMatrix ==
  ASSUME NEW C, screen \in Shows(C), CursorInside
  PROVE  /\ FromCursor \subseteq Memory /\ ToCursor \subseteq Memory /\ OnLine \subseteq Memory
         /\ Cells(screen.region) \subseteq Memory
<1>1. /\ screen.region.x \in Nat /\ screen.region.y \in Nat
      /\ screen.region.w \in Nat /\ screen.region.h \in Nat
      /\ screen.cursor.x \in Nat /\ screen.cursor.y \in Nat
      /\ screen.cursor.x < screen.region.w /\ screen.cursor.y < screen.region.h
      /\ InMatrix(screen.region)
  BY CursorPlace
<1>2. Cells(screen.region) \subseteq Memory
  BY <1>1, CellsInside
<1>3. screen.region.y + screen.cursor.y
        \in screen.region.y .. screen.region.y + screen.region.h - 1
  BY <1>1
<1>4. OnLine \subseteq Cells(screen.region)
  BY <1>3 DEF OnLine, Cells
<1>5. FromCursor \subseteq Cells(screen.region) /\ ToCursor \subseteq Cells(screen.region)
  BY DEF FromCursor, ToCursor
<1> QED BY <1>2, <1>4, <1>5

(* An empty part at the last or the first row is the whole screen, which   *)
(* holds the region.                                                       *)
LEMMA AtTheEdge ==
  ASSUME NEW C, screen \in Shows(C), CursorInside
  PROVE  /\ Filling(Below(screen))
               = IF screen.cursor.y < screen.region.h - 1 THEN Below(screen) ELSE Full
         /\ Filling(Above(screen)) = IF screen.cursor.y > 0 THEN Above(screen) ELSE Full
         /\ FromCursor \subseteq Cells(Full) /\ ToCursor \subseteq Cells(Full)
         /\ Cells(LineFrom(screen)) \subseteq Cells(Full)
         /\ Cells(LineTo(screen, screen.cursor.x + 1)) \subseteq Cells(Full)
<1> DEFINE r == screen.region
<1>1. /\ r.x \in Nat /\ r.y \in Nat /\ r.w \in Nat /\ r.h \in Nat
      /\ screen.cursor.x \in Nat /\ screen.cursor.y \in Nat
      /\ screen.cursor.x < r.w /\ screen.cursor.y < r.h
  BY CursorPlace
<1>2. r.x + r.w <= VisW /\ r.y + r.h <= VisH
  BY RegionFacts DEF Shows
<1>3. ASSUME NEW q, q.x \in Nat, q.y \in Nat, q.w \in Int, q.h \in Int,
             q.x + q.w <= VisW, q.y + q.h <= VisH
      PROVE  Cells(q) \subseteq Cells(Full)
  <2>1. \A x : x \in q.x .. q.x + q.w - 1 => x \in Full.x .. Full.x + Full.w - 1
    BY <1>3, Sizes DEF Full
  <2>2. \A y : y \in q.y .. q.y + q.h - 1 => y \in Full.y .. Full.y + Full.h - 1
    BY <1>3, Sizes DEF Full
  <2> QED BY <2>1, <2>2 DEF Cells
<1>4. Cells(r) \subseteq Cells(Full)
  <2> HIDE DEF r
  <2> QED BY <1>1, <1>2, <1>3
<1>5. FromCursor \subseteq Cells(Full) /\ ToCursor \subseteq Cells(Full)
  BY <1>4 DEF FromCursor, ToCursor
<1>6. Cells(LineFrom(screen)) \subseteq Cells(Full)
  <2> DEFINE q == LineFrom(screen)
  <2>1. /\ q.x \in Nat /\ q.y \in Nat /\ q.w \in Int /\ q.h \in Int
        /\ q.x + q.w <= VisW /\ q.y + q.h <= VisH
    BY <1>1, <1>2, Sizes DEF LineFrom
  <2> HIDE DEF q
  <2>2. Cells(q) \subseteq Cells(Full)
    BY <1>3, <2>1
  <2> QED BY <2>2 DEF q
<1>7. Cells(LineTo(screen, screen.cursor.x + 1)) \subseteq Cells(Full)
  <2> DEFINE q == LineTo(screen, screen.cursor.x + 1)
  <2>1. /\ q.x \in Nat /\ q.y \in Nat /\ q.w \in Int /\ q.h \in Int
        /\ q.x + q.w <= VisW /\ q.y + q.h <= VisH
    BY <1>1, <1>2, Sizes DEF LineTo
  <2> HIDE DEF q
  <2>2. Cells(q) \subseteq Cells(Full)
    BY <1>3, <2>1
  <2> QED BY <2>2 DEF q
<1>8. Filling(Below(screen))
        = IF screen.cursor.y < screen.region.h - 1 THEN Below(screen) ELSE Full
  BY <1>1 DEF Filling, Below
<1>9. Filling(Above(screen)) = IF screen.cursor.y > 0 THEN Above(screen) ELSE Full
  BY <1>1 DEF Filling, Above
<1> QED BY <1>5, <1>6, <1>7, <1>8, <1>9

(* With the cursor in the region, erasing by narrowing the region blanks   *)
(* the cells from the cursor on, up to it, or all of them, in reading      *)
(* order, puts region and cursor back, and changes no other cell, but at   *)
(* the last and the first row, where the empty part is the whole screen    *)
(* (txt_clear, and txt_clear_line from the cursor on and of the line).     *)
THEOREM PartErased == Spec => []ErasesReach
<1>1. TypeOK => ErasesReach
  <2> SUFFICES ASSUME TypeOK, CursorInside PROVE ErasesReach
    BY Zenon DEF ErasesReach
  <2> DEFINE x1 == screen.cursor.x + 1
             w == screen.region.w
             from == LineFrom(screen)
             below == Below(screen)
             above == Above(screen)
             to1 == LineTo(screen, x1)
             all == LineTo(screen, w)
  <2>1. screen \in Shows(Char) /\ Space \in Char /\ screen \in Loose(Char)
    BY TypeShows, ShowsLoose
  <2>2. /\ screen.region.w \in Nat /\ screen.region.h \in Nat
        /\ screen.cursor.x \in Nat /\ screen.cursor.y \in Nat
        /\ screen.cursor.x < screen.region.w /\ screen.cursor.y < screen.region.h
    BY <2>1, CursorPlace
  <2>3. /\ from \in Areas /\ below \in Areas /\ above \in Areas /\ to1 \in Areas /\ all \in Areas
    <3>1. x1 \in Int /\ w \in Int
      BY <2>2
    <3>2. from \in Areas /\ below \in Areas /\ above \in Areas
      BY <2>1, <3>1, Parts
    <3>3. to1 \in Areas
      <4> HIDE DEF x1
      <4> QED BY <2>1, <3>1, Parts
    <3>4. all \in Areas
      <4> HIDE DEF w
      <4> QED BY <2>1, <3>1, Parts
    <3> QED BY <3>2, <3>3, <3>4
  <2>4. from.w # 0 /\ from.h # 0 /\ to1.w # 0 /\ to1.h # 0 /\ all.w # 0 /\ all.h # 0
    BY <2>2 DEF LineFrom, LineTo
  <2>5. /\ Filling(below) = IF screen.cursor.y < screen.region.h - 1 THEN below ELSE Full
        /\ Filling(above) = IF screen.cursor.y > 0 THEN above ELSE Full
        /\ FromCursor \subseteq Cells(Full) /\ ToCursor \subseteq Cells(Full)
        /\ Cells(from) \subseteq Cells(Full) /\ Cells(to1) \subseteq Cells(Full)
    BY <2>1, AtTheEdge
  <2>6. \A o \in Memory :
          /\ screen.cursor.y < screen.region.h - 1
               => (o \in FromCursor <=> o \in Cells(from) \/ o \in Cells(below))
          /\ screen.cursor.y > 0
               => (o \in ToCursor <=> o \in Cells(to1) \/ o \in Cells(above))
          /\ o \in FromCursor \cap OnLine <=> o \in Cells(from)
          /\ o \in OnLine <=> o \in Cells(all)
    BY <2>1, PartsHold
  <2>7. FromCursor \subseteq Memory /\ ToCursor \subseteq Memory /\ OnLine \subseteq Memory
        /\ Cells(screen.region) \subseteq Memory
    BY <2>1, ErasedInMatrix
  <2> HIDE DEF from, below, above, to1, all
  <2>8. ASSUME NEW t \in Loose(Char), t.cursor = screen.cursor,
               NEW part \in SUBSET Memory, NEW reach, NEW s, s = set_region(t, screen.region),
               \A o \in part : t.cells[o] = Space,
               \A o \in Memory \ reach : t.cells[o] = screen.cells[o]
        PROVE  Clears(s, part, reach)
    <3>1. s.region = screen.region /\ s.cells = t.cells /\ s.cursor = screen.cursor
      BY <2>1, <2>8, RegionBack
    <3> QED BY <2>8, <3>1, Zenon DEF Clears
  <2>9. ASSUME NEW r \in Areas, r.w # 0, r.h # 0
        PROVE  /\ Erase(screen, r) \in Loose(Char) /\ Erase(screen, r).cursor = screen.cursor
               /\ \A o \in Memory :
                    Erase(screen, r).cells[o] = IF o \in Cells(r) THEN Space ELSE screen.cells[o]
    BY <2>1, <2>9, EraseIs
  <2>10. ASSUME NEW r \in Areas, NEW q \in Areas
         PROVE  /\ Erase(Erase(screen, r), q) \in Loose(Char)
                /\ Erase(Erase(screen, r), q).cursor = screen.cursor
                /\ \A o \in Memory :
                     Erase(Erase(screen, r), q).cells[o]
                       = IF o \in Cells(Filling(r)) \/ o \in Cells(Filling(q)) THEN Space
                         ELSE screen.cells[o]
    <3> DEFINE t == Erase(screen, r)
               u == Erase(t, q)
    <3>1. /\ t \in Loose(Char) /\ t.cursor = screen.cursor
          /\ \A o \in Memory :
               t.cells[o] = IF o \in Cells(Filling(r)) THEN Space ELSE screen.cells[o]
      BY <2>1, <2>10, EraseIs
    <3> HIDE DEF t
    <3>2. /\ u \in Loose(Char) /\ u.cursor = t.cursor
          /\ \A o \in Memory : u.cells[o] = IF o \in Cells(Filling(q)) THEN Space ELSE t.cells[o]
      BY <2>1, <2>10, <3>1, EraseIs
    <3> HIDE DEF u
    <3> QED BY <3>1, <3>2, Zenon DEF t, u
  <2>11. Filling(from) = from /\ Filling(to1) = to1
    BY <2>4 DEF Filling
  <2>12. Clears(txt_clear(screen, 0), FromCursor,
                IF screen.cursor.y < screen.region.h - 1 THEN FromCursor ELSE Cells(Full))
    <3> DEFINE t == Erase(Erase(screen, from), below)
               reach == IF screen.cursor.y < screen.region.h - 1 THEN FromCursor ELSE Cells(Full)
    <3>1. /\ t \in Loose(Char) /\ t.cursor = screen.cursor
          /\ \A o \in Memory :
               t.cells[o] = IF o \in Cells(from) \/ o \in Cells(Filling(below)) THEN Space
                            ELSE screen.cells[o]
      BY <2>3, <2>10, <2>11
    <3>2. txt_clear(screen, 0) = set_region(t, screen.region)
      BY DEF txt_clear, from, below
    <3>3. \A o \in Memory : o \in reach <=> o \in Cells(from) \/ o \in Cells(Filling(below))
      <4>1. CASE screen.cursor.y < screen.region.h - 1
        BY <2>5, <2>6, <4>1, Zenon
      <4>2. CASE ~(screen.cursor.y < screen.region.h - 1)
        BY <2>5, <4>2
      <4> QED BY <4>1, <4>2
    <3>4. FromCursor \subseteq reach
      BY <2>5
    <3> HIDE DEF t, reach
    <3>5. Clears(txt_clear(screen, 0), FromCursor, reach)
      <4>1. \A o \in FromCursor : t.cells[o] = Space
        BY <2>7, <3>1, <3>3, <3>4, Zenon
      <4>2. \A o \in Memory \ reach : t.cells[o] = screen.cells[o]
        BY <3>1, <3>3
      <4> QED BY <2>7, <2>8, <3>1, <3>2, <4>1, <4>2
    <3> QED BY <3>5 DEF reach
  <2>13. Clears(txt_clear(screen, 1), ToCursor,
                IF screen.cursor.y > 0 THEN ToCursor ELSE Cells(Full))
    <3> DEFINE t == Erase(Erase(screen, above), to1)
               reach == IF screen.cursor.y > 0 THEN ToCursor ELSE Cells(Full)
    <3>1. /\ t \in Loose(Char) /\ t.cursor = screen.cursor
          /\ \A o \in Memory :
               t.cells[o] = IF o \in Cells(Filling(above)) \/ o \in Cells(to1) THEN Space
                            ELSE screen.cells[o]
      BY <2>3, <2>10, <2>11
    <3>2. txt_clear(screen, 1) = set_region(t, screen.region)
      BY DEF txt_clear, above, to1
    <3>3. \A o \in Memory : o \in reach <=> o \in Cells(Filling(above)) \/ o \in Cells(to1)
      <4>1. CASE screen.cursor.y > 0
        BY <2>5, <2>6, <4>1, Zenon
      <4>2. CASE ~(screen.cursor.y > 0)
        BY <2>5, <4>2
      <4> QED BY <4>1, <4>2
    <3>4. ToCursor \subseteq reach
      BY <2>5
    <3> HIDE DEF t, reach
    <3>5. Clears(txt_clear(screen, 1), ToCursor, reach)
      <4>1. \A o \in ToCursor : t.cells[o] = Space
        BY <2>7, <3>1, <3>3, <3>4, Zenon
      <4>2. \A o \in Memory \ reach : t.cells[o] = screen.cells[o]
        BY <3>1, <3>3
      <4> QED BY <2>7, <2>8, <3>1, <3>2, <4>1, <4>2
    <3> QED BY <3>5 DEF reach
  <2>14. Clears(txt_clear(screen, 2), Cells(screen.region), Cells(screen.region))
    <3> DEFINE t == fill(screen, Space)
               part == Cells(screen.region)
    <3>1. /\ t \in Loose(Char) /\ t.cursor = screen.cursor
          /\ \A o \in Memory : t.cells[o] = IF o \in part THEN Space ELSE screen.cells[o]
      BY <2>1, FillIs
    <3>2. txt_clear(screen, 2) = set_region(t, screen.region)
      BY DEF txt_clear
    <3>3. part \in SUBSET Memory
      BY <2>7
    <3> HIDE DEF t, part
    <3>4. Clears(txt_clear(screen, 2), part, part)
      BY <2>8, <3>1, <3>2, <3>3
    <3> QED BY <3>4 DEF part
  <2>15. ASSUME NEW r \in Areas, r.w # 0, r.h # 0, NEW part \in SUBSET Memory,
                \A o \in Memory : o \in part <=> o \in Cells(r),
                NEW s, s = set_region(Erase(screen, r), screen.region)
         PROVE  Clears(s, part, part)
    <3> DEFINE t == Erase(screen, r)
    <3>1. /\ t \in Loose(Char) /\ t.cursor = screen.cursor
          /\ \A o \in Memory : t.cells[o] = IF o \in Cells(r) THEN Space ELSE screen.cells[o]
      BY <2>9, <2>15
    <3>2. s = set_region(t, screen.region)
      BY <2>15
    <3> HIDE DEF t
    <3>3. \A o \in part : t.cells[o] = Space
      BY <2>15, <3>1
    <3>4. \A o \in Memory \ part : t.cells[o] = screen.cells[o]
      BY <2>15, <3>1
    <3> QED BY <2>8, <3>1, <3>2, <3>3, <3>4
  <2>16. Clears(txt_clear_line(screen, 0), FromCursor \cap OnLine, FromCursor \cap OnLine)
    <3> DEFINE part == FromCursor \cap OnLine
    <3>1. txt_clear_line(screen, 0) = set_region(Erase(screen, from), screen.region)
      BY DEF txt_clear_line, from
    <3>2. part \in SUBSET Memory /\ \A o \in Memory : o \in part <=> o \in Cells(from)
      BY <2>6, <2>7
    <3> HIDE DEF part
    <3>3. Clears(txt_clear_line(screen, 0), part, part)
      BY <2>3, <2>4, <2>15, <3>1, <3>2
    <3> QED BY <3>3 DEF part
  <2>17. Clears(txt_clear_line(screen, 2), OnLine, OnLine)
    <3>1. txt_clear_line(screen, 2) = set_region(Erase(screen, all), screen.region)
      BY DEF txt_clear_line, all
    <3>2. OnLine \in SUBSET Memory /\ \A o \in Memory : o \in OnLine <=> o \in Cells(all)
      BY <2>6, <2>7
    <3> QED BY <2>3, <2>4, <2>15, <3>1, <3>2
  <2> QED BY <2>12, <2>13, <2>14, <2>16, <2>17, Zenon DEF ErasesReach
<1> QED BY <1>1, ScreenTyped, PTL

-----------------------------------------------------------------------------
(* Reading characters one by one takes cli_getchar from one state to       *)
(* another.                                                                *)
ReadBy(f, s, chars, t) ==
  /\ f[0] = s /\ f[Len(chars)] = t
  /\ \A n \in 1 .. Len(chars) : f[n] = GetChar(f[n - 1], chars[n])
Reads(s, chars, t) == \E f : ReadBy(f, s, chars, t)

(* No character leaves the state.                                          *)
LEMMA ReadsNone == ASSUME NEW s PROVE Reads(s, <<>>, s)
<1> DEFINE f == [n \in 0 .. 0 |-> s]
<1>1. f[0] = s /\ Len(<<>>) = 0
  OBVIOUS
<1> HIDE DEF f
<1>2. ReadBy(f, s, <<>>, s)
  BY <1>1 DEF ReadBy
<1> QED BY <1>2 DEF Reads

(* One character takes one turn.                                           *)
LEMMA ReadsOne == ASSUME NEW s, NEW c PROVE Reads(s, <<c>>, GetChar(s, c))
<1> DEFINE f == [n \in 0 .. 1 |-> IF n = 0 THEN s ELSE GetChar(s, c)]
           chars == <<c>>
<1>1. f[0] = s /\ f[1] = GetChar(s, c) /\ Len(chars) = 1 /\ chars[1] = c
  OBVIOUS
<1> HIDE DEF f, chars
<1>2. ReadBy(f, s, chars, GetChar(s, c))
  BY <1>1 DEF ReadBy
<1> QED BY <1>2 DEF Reads, chars

(* Characters after others are read from where those led.                  *)
LEMMA ReadsOn ==
  ASSUME NEW X, NEW a \in Seq(X), NEW b \in Seq(X), NEW s, NEW t, NEW u,
         Reads(s, a, t), Reads(t, b, u)
  PROVE  Reads(s, a \o b, u)
<1> DEFINE m == Len(a)
           k == Len(b)
           chars == a \o b
<1>1. /\ m \in Nat /\ k \in Nat /\ Len(chars) = m + k
      /\ \A n \in 1 .. m : chars[n] = a[n]
      /\ \A n \in m + 1 .. m + k : chars[n] = b[n - m]
  OBVIOUS
<1>2. PICK f : ReadBy(f, s, a, t)
  BY DEF Reads
<1>3. PICK g : ReadBy(g, t, b, u)
  BY DEF Reads
<1> DEFINE h == [n \in 0 .. m + k |-> IF n <= m THEN f[n] ELSE g[n - m]]
<1>4. /\ \A n \in 0 .. m : h[n] = f[n]
      /\ \A n \in m .. m + k : h[n] = g[n - m]
  <2>1. f[m] = t /\ g[0] = t
    BY <1>2, <1>3 DEF ReadBy
  <2> HIDE DEF m, k
  <2>2. ASSUME NEW n \in 0 .. m PROVE h[n] = f[n]
    BY <1>1
  <2>3. ASSUME NEW n \in m .. m + k PROVE h[n] = g[n - m]
    <3>1. CASE n = m
      <4>1. h[m] = f[m] /\ m - m = 0
        BY <1>1
      <4> HIDE DEF h
      <4> QED BY <2>1, <3>1, <4>1
    <3>2. CASE n > m
      BY <1>1, <3>2
    <3> QED BY <1>1, <3>1, <3>2
  <2> QED BY <2>2, <2>3
<1> HIDE DEF h, chars, m, k
<1>5. h[0] = s
  BY <1>1, <1>2, <1>4 DEF ReadBy
<1>6. h[m + k] = u
  <2>1. m + k \in m .. m + k /\ (m + k) - m = k
    BY <1>1
  <2>2. h[m + k] = g[k]
    BY <1>4, <2>1
  <2> QED BY <1>3, <2>2 DEF ReadBy, k
<1>7. ASSUME NEW n \in 1 .. m + k PROVE h[n] = GetChar(h[n - 1], chars[n])
  <2>1. CASE n <= m
    <3>1. n \in 1 .. m /\ n \in 0 .. m /\ n - 1 \in 0 .. m
      BY <1>1, <2>1
    <3>2. f[n] = GetChar(f[n - 1], a[n])
      BY <1>2, <3>1, Zenon DEF ReadBy, m
    <3> QED BY <1>1, <1>4, <3>1, <3>2, Zenon
  <2>2. CASE ~(n <= m)
    <3>1. /\ n \in m + 1 .. m + k /\ n \in m .. m + k /\ n - 1 \in m .. m + k
          /\ n - m \in 1 .. k /\ (n - 1) - m = (n - m) - 1
      BY <1>1, <2>2
    <3>2. g[n - m] = GetChar(g[(n - m) - 1], b[n - m])
      BY <1>3, <3>1, Zenon DEF ReadBy, k
    <3> QED BY <1>1, <1>4, <3>1, <3>2, Zenon
  <2> QED BY <2>1, <2>2
<1>8. ReadBy(h, s, chars, u)
  BY <1>1, <1>5, <1>6, <1>7, Zenon DEF ReadBy
<1> QED BY <1>8 DEF Reads, chars

(* The codes of a text are those of the state it leads to.                 *)
LEMMA CodesRead ==
  ASSUME NEW X, NEW chars \in Seq(X), NEW t, Reads(Start, chars, t)
  PROVE  Codes(chars) = t.codes
<1> DEFINE m == Len(chars)
           Loops(g) == g = [n \in 0 .. m |-> IF n = 0 THEN Start ELSE GetChar(g[n - 1], chars[n])]
           g == CHOOSE g : Loops(g)
<1>0. m \in Nat
  OBVIOUS
<1>1. Codes(chars) = g[m].codes
  BY Zenon DEF Codes, ForEach
<1>2. PICK f0 : ReadBy(f0, Start, chars, t)
  BY DEF Reads
<1> DEFINE f == [n \in 0 .. m |-> f0[n]]
<1>3. /\ \A n \in 0 .. m : f[n] = f0[n]
      /\ \A n \in 1 .. m : n \in 0 .. m /\ n - 1 \in 0 .. m /\ n # 0
      /\ 0 \in 0 .. m /\ m \in 0 .. m /\ f = [n \in 0 .. m |-> f[n]]
      /\ \A n \in 0 .. m : n # 0 => n \in 1 .. m
  <2> HIDE DEF m
  <2> QED BY <1>0
<1> HIDE DEF f, m
<1>4. f[0] = Start /\ f[m] = t /\ \A n \in 1 .. m : f[n] = GetChar(f[n - 1], chars[n])
  BY <1>2, <1>3, Zenon DEF ReadBy, m
<1>5. Loops(f)
  BY <1>3, <1>4, Zenon
<1>6. Loops(g)
  <2> HIDE DEF Loops
  <2> QED BY <1>5, Zenon
<1> HIDE DEF g
<1>7. g[0] = Start /\ \A n \in 1 .. m : g[n] = GetChar(g[n - 1], chars[n])
  BY <1>3, <1>6, Zenon
<1>8. SameTurns(g, f, m)
  BY <1>4, <1>7, Zenon DEF SameTurns
<1>9. \A n \in 0 .. m : g[n] = f[n]
  BY <1>0, <1>8, TurnsDetermined, Zenon
<1> QED BY <1>1, <1>3, <1>4, <1>9, Zenon

Marks == {"ESC", "[", ";", "~"} \cup {"A", "B", "C", "D"}
         \cup {"0", "1", "2", "3", "4", "5", "6", "7", "8", "9"}

(* The digits and what they count.                                         *)
LEMMA DigitFacts ==
  /\ \A n \in 1 .. 10 : /\ Digit(Digits[n]) /\ Value(Digits[n]) = n - 1
                        /\ Digits[n] \in Marks
  /\ ~Digit(";") /\ ~Digit("~") /\ ~Digit("A") /\ ~Digit("B") /\ ~Digit("C") /\ ~Digit("D")
<1>1. Digits \in Seq(Marks) /\ Len(Digits) = 10
  BY DEF Digits, Marks
<1>2. /\ Digits[1] = "0" /\ Digits[2] = "1" /\ Digits[3] = "2" /\ Digits[4] = "3"
      /\ Digits[5] = "4" /\ Digits[6] = "5" /\ Digits[7] = "6" /\ Digits[8] = "7"
      /\ Digits[9] = "8" /\ Digits[10] = "9"
  BY DEF Digits
<1>3. Range(Digits) = {Digits[n] : n \in 1 .. 10}
  <2> HIDE DEF Digits
  <2> QED BY <1>1 DEF Range
<1>4. \A n \in 1 .. 10 : \A k \in 1 .. 10 : Digits[n] = Digits[k] => n = k
  <2> HIDE DEF Digits
  <2> QED BY <1>2
<1>5. ASSUME NEW n \in 1 .. 10 PROVE Value(Digits[n]) = n - 1
  <2>1. (CHOOSE k \in 1 .. 10 : Digits[k] = Digits[n]) = n
    BY <1>4
  <2> QED BY <2>1 DEF Value
<1>6. ASSUME NEW n \in 1 .. 10 PROVE Digit(Digits[n]) /\ Digits[n] \in Marks
  <2>1. Digits[n] \in Range(Digits)
    BY <1>3
  <2>2. Digits[n] \in Marks
    <3> DEFINE d == Digits
    <3>1. d \in Seq(Marks) /\ n \in 1 .. Len(d)
      BY <1>1
    <3> HIDE DEF d
    <3>2. d[n] \in Marks
      BY <3>1
    <3> QED BY <3>2 DEF d
  <2> QED BY <2>1, <2>2 DEF Digit
<1>7. ASSUME NEW c, c \in {";", "~", "A", "B", "C", "D"} PROVE ~Digit(c)
  <2>1. \A n \in 1 .. 10 : n \in {1, 2, 3, 4, 5, 6, 7, 8, 9, 10}
    OBVIOUS
  <2>2. \A n \in {1, 2, 3, 4, 5, 6, 7, 8, 9, 10} :
          Digits[n] \in {"0", "1", "2", "3", "4", "5", "6", "7", "8", "9"}
    BY <1>2
  <2>3. c \notin {"0", "1", "2", "3", "4", "5", "6", "7", "8", "9"}
    BY <1>7
  <2>4. \A n \in 1 .. 10 : Digits[n] # c
    BY <2>1, <2>2, <2>3, Zenon
  <2>5. c \notin Range(Digits)
    BY <1>3, <2>4
  <2> QED BY <2>5 DEF Digit
<1> QED BY <1>5, <1>6, <1>7

(* Two sequences of one element.                                           *)
LEMMA PairOfOnes ==
  ASSUME NEW S, NEW x \in S, NEW y \in S
  PROVE  <<x>> \o <<y>> = <<x, y>>
<1> DEFINE p == <<x>>
           q == <<y>>
           pq == <<x, y>>
           s == p \o q
<1>1. /\ p \in Seq(S) /\ q \in Seq(S) /\ pq \in Seq(S)
      /\ Len(p) = 1 /\ Len(q) = 1 /\ Len(pq) = 2
      /\ p[1] = x /\ q[1] = y /\ pq[1] = x /\ pq[2] = y
  OBVIOUS
<1> HIDE DEF p, q, pq
<1>2. /\ s \in Seq(S) /\ Len(s) = Len(p) + Len(q)
      /\ \A i \in 1 .. Len(p) + Len(q) : s[i] = IF i <= Len(p) THEN p[i] ELSE q[i - Len(p)]
  BY <1>1, ConcatProperties
<1> HIDE DEF s
<1>3. Len(s) = 2 /\ s[1] = p[1] /\ s[2] = q[1]
  BY <1>1, <1>2
<1>4. \A k \in 1 .. 2 : s[k] = pq[k]
  BY <1>1, <1>3
<1>5. s = pq
  BY <1>1, <1>2, <1>3, <1>4
<1> QED BY <1>5 DEF p, q, pq, s

(* A number is read back as it was written.                                *)
LEMMA NumberWritten ==
  ASSUME NEW n \in 0 .. 99
  PROVE  /\ DigitsOf(n) \in Seq(Marks)
         /\ DigitsOf(n) = IF n >= 10 THEN <<Digits[(n \div 10) + 1], Digits[(n % 10) + 1]>>
                          ELSE <<Digits[n + 1]>>
<1> DEFINE a == (n \div 10) + 1
           b == (n % 10) + 1
<1>1. a \in 1 .. 10 /\ b \in 1 .. 10 /\ (n < 10 => b = n + 1)
  OBVIOUS
<1>2. Digits[a] \in Marks /\ Digits[b] \in Marks
  BY <1>1, DigitFacts
<1>3. DigitsOf(n) = IF n >= 10 THEN <<Digits[a], Digits[b]>> ELSE <<Digits[b]>>
  <2>1. DigitsOf(n) = (IF n >= 10 THEN <<Digits[a]>> ELSE <<>>) \o <<Digits[b]>>
    BY Zenon DEF DigitsOf
  <2> DEFINE da == Digits[a]
             db == Digits[b]
  <2> HIDE DEF da, db
  <2>2. <<da>> \o <<db>> = <<da, db>> /\ <<>> \o <<db>> = <<db>>
    <3>1. <<da>> \o <<db>> = <<da, db>>
      BY <1>2, PairOfOnes DEF da, db
    <3> DEFINE d == <<db>>
    <3>2. d \in Seq(Marks)
      <4>1. db \in Marks
        BY <1>2 DEF db
      <4> QED BY <4>1
    <3> HIDE DEF d
    <3>3. <<>> \o d = d
      BY <3>2
    <3> QED BY <3>1, <3>3 DEF d
  <2>3. CASE n >= 10
    BY <2>1, <2>2, <2>3, Zenon DEF da, db
  <2>4. CASE ~(n >= 10)
    BY <2>1, <2>2, <2>4, Zenon DEF da, db
  <2> QED BY <2>3, <2>4
<1> HIDE DEF a, b
<1>4. CASE n >= 10
  BY <1>2, <1>3, <1>4 DEF a, b
<1>5. CASE ~(n >= 10)
  BY <1>1, <1>2, <1>3, <1>5 DEF a, b
<1> QED BY <1>4, <1>5

Csi(number1) == [state |-> "CSI", number1 |-> number1, number2 |-> 0, codes |-> <<>>]
Semi(number1, number2) ==
  [state |-> "SEMI", number1 |-> number1, number2 |-> number2, codes |-> <<>>]

(* How a sequence begins.                                                  *)
LEMMA EscapeTurns ==
  /\ GetChar(GetChar(Start, "ESC"), "[") = Csi(0)
  /\ GetChar(GetChar(Start, "ESC"), "ESC").codes = <<Plain("ESC")>>
<1>1. GetChar(GetChar(Start, "ESC"), "[") = Csi(0)
  <2>1. GetChar(Start, "ESC") = [Start EXCEPT !.state = "ES"]
    BY DEF GetChar, Start
  <2>2. GetChar([Start EXCEPT !.state = "ES"], "[") = [Start EXCEPT !.state = "CSI"]
    BY DEF GetChar, Start
  <2>3. Csi(0) = [Start EXCEPT !.state = "CSI"]
    BY DEF Csi, Start
  <2> QED BY <2>1, <2>2, <2>3, Zenon
<1>2. GetChar(GetChar(Start, "ESC"), "ESC").codes = <<Plain("ESC")>>
  BY DEF GetChar, Start, Returns
<1> QED BY <1>1, <1>2

(* A digit multiplies by ten and adds.                                     *)
LEMMA DigitTurns ==
  ASSUME NEW i \in Nat, NEW j \in Nat, NEW n \in 1 .. 10
  PROVE  /\ GetChar(Csi(i), Digits[n]) = Csi(i * 10 + (n - 1))
         /\ GetChar(Semi(i, j), Digits[n]) = Semi(i, j * 10 + (n - 1))
<1> DEFINE c == Digits[n]
<1>1. Digit(c) /\ Value(c) = n - 1
  BY DigitFacts
<1> HIDE DEF c
<1>2. GetChar(Csi(i), c) = Csi(i * 10 + (n - 1))
  BY <1>1 DEF GetChar, Csi
<1>3. GetChar(Semi(i, j), c) = Semi(i, j * 10 + (n - 1))
  BY <1>1 DEF GetChar, Semi
<1> QED BY <1>2, <1>3 DEF c

(* The mark after a number, and the end of a sequence.                     *)
LEMMA EndTurns ==
  ASSUME NEW i \in Nat, NEW j \in Nat
  PROVE  /\ GetChar(Csi(i), ";") = Semi(i, 0)
         /\ GetChar(Csi(i), "~").codes = <<TranslateNumeric(0, i)>>
         /\ GetChar(Semi(i, j), "~").codes = <<TranslateNumeric(j, i)>>
<1>1. ~Digit("~") /\ ~Digit(";")
  BY DigitFacts
<1>2. /\ Csi(i).state = "CSI" /\ Csi(i).number1 = i /\ Csi(i).codes = <<>>
      /\ Semi(i, j).state = "SEMI" /\ Semi(i, j).number1 = i /\ Semi(i, j).number2 = j
      /\ Semi(i, j).codes = <<>>
  BY DEF Csi, Semi
<1>3. ASSUME NEW s, s.codes = <<>>, NEW code PROVE Returns(code, s).codes = <<code>>
  BY <1>3 DEF Returns, Start
<1>4. GetChar(Csi(i), ";") = Semi(i, 0)
  <2>1. GetChar(Csi(i), ";") = [Csi(i) EXCEPT !.state = "SEMI"]
    BY <1>1, <1>2, Zenon DEF GetChar
  <2>2. Semi(i, 0) = [Csi(i) EXCEPT !.state = "SEMI"]
    BY DEF Semi, Csi
  <2> QED BY <2>1, <2>2, Zenon
<1>5. GetChar(Csi(i), "~").codes = <<TranslateNumeric(0, i)>>
  <2>1. GetChar(Csi(i), "~") = Returns(TranslateNumeric(0, i), Csi(i))
    BY <1>1, <1>2, Zenon DEF GetChar
  <2> QED BY <1>2, <1>3, <2>1
<1>6. GetChar(Semi(i, j), "~").codes = <<TranslateNumeric(j, i)>>
  <2>1. GetChar(Semi(i, j), "~") = Returns(TranslateNumeric(j, i), Semi(i, j))
    BY <1>1, <1>2, Zenon DEF GetChar
  <2> QED BY <1>2, <1>3, <2>1
<1> QED BY <1>4, <1>5, <1>6

(* The letters that end a sequence are not digits or marks.                *)
LEMMA LetterCodes ==
  ASSUME NEW k \in DOMAIN LetterCode
  PROVE  /\ LetterCode[k] \in {"A", "B", "C", "D"} /\ LetterCode[k] \in Marks
         /\ \A l \in DOMAIN LetterCode : LetterCode[l] = LetterCode[k] => l = k
<1>1. DOMAIN LetterCode = {"UP", "DOWN", "RIGHT", "LEFT"}
  BY DEF LetterCode
<1>2. /\ LetterCode["UP"] = "A" /\ LetterCode["DOWN"] = "B"
      /\ LetterCode["RIGHT"] = "C" /\ LetterCode["LEFT"] = "D"
  BY DEF LetterCode
<1>3. LetterCode[k] \in {"A", "B", "C", "D"}
  BY <1>1, <1>2
<1> QED BY <1>1, <1>2, <1>3 DEF Marks

(* A letter ends a sequence, with the number before it as modifiers.       *)
LEMMA AlphaTurn ==
  ASSUME NEW i \in Nat, NEW k \in DOMAIN LetterCode
  PROVE  GetChar(Csi(i), LetterCode[k]).codes = <<[key |-> k, flags |-> Flags(i)]>>
<1> DEFINE c == LetterCode[k]
<1>3. c \in {"A", "B", "C", "D"} /\ \A l \in DOMAIN LetterCode : LetterCode[l] = c => l = k
  BY LetterCodes
<1>4. ~Digit(c) /\ c # ";" /\ c # "~"
  BY <1>3, DigitFacts
<1>5. TranslateAlpha(i, c) = [key |-> k, flags |-> Flags(i)]
  <2>1. (CHOOSE l \in DOMAIN LetterCode : LetterCode[l] = c) = k
    <3> HIDE DEF LetterCode
    <3> QED BY <1>3
  <2>2. \E l \in DOMAIN LetterCode : LetterCode[l] = c
    OBVIOUS
  <2> HIDE DEF c
  <2> QED BY <2>1, <2>2, Zenon DEF TranslateAlpha
<1>8. Alpha(c)
  BY DEF Alpha
<1> HIDE DEF c
<1>6. GetChar(Csi(i), c) = Returns(TranslateAlpha(i, c), Csi(i))
  BY <1>4, <1>8 DEF GetChar, Start, Csi
<1>7. GetChar(Csi(i), c).codes = <<TranslateAlpha(i, c)>>
  BY <1>6 DEF Returns, Start, Csi
<1> QED BY <1>5, <1>7 DEF c

(* A number printed is read as that number, wherever it stands.            *)
LEMMA NumberRead ==
  ASSUME NEW n \in 0 .. 99, NEW i \in Nat
  PROVE  Reads(Csi(0), DigitsOf(n), Csi(n)) /\ Reads(Semi(i, 0), DigitsOf(n), Semi(i, n))
<1> DEFINE a == (n \div 10) + 1
           b == (n % 10) + 1
           da == Digits[a]
           db == Digits[b]
           pa == <<da>>
           pb == <<db>>
<1>1. /\ a \in 1 .. 10 /\ b \in 1 .. 10 /\ (n < 10 => b - 1 = n)
      /\ (a - 1) * 10 + (b - 1) = n /\ a - 1 \in Nat
  OBVIOUS
<1>2. DigitsOf(n) = IF n >= 10 THEN pa \o pb ELSE pb
  <2>1. da \in Marks /\ db \in Marks
    BY <1>1, DigitFacts
  <2>2. pa \o pb = <<da, db>>
    <3> HIDE DEF da, db
    <3> QED BY <2>1, PairOfOnes
  <2>3. n < 10 => b = n + 1
    BY <1>1
  <2>4. DigitsOf(n) = IF n >= 10 THEN <<da, db>> ELSE <<Digits[n + 1]>>
    BY NumberWritten, Zenon
  <2>5. ~(n >= 10) => DigitsOf(n) = pb
    BY <2>3, <2>4
  <2>6. n >= 10 => DigitsOf(n) = pa \o pb
    BY <2>2, <2>4, Zenon
  <2> QED BY <2>5, <2>6, Zenon
<1>3. pa \in Seq(Marks) /\ pb \in Seq(Marks)
  <2>1. da \in Marks /\ db \in Marks
    BY <1>1, DigitFacts
  <2> HIDE DEF da, db
  <2> QED BY <2>1
<1>4. ASSUME NEW k \in Nat
      PROVE  /\ Reads(Csi(k), pa, Csi(k * 10 + (a - 1))) /\ Reads(Csi(k), pb, Csi(k * 10 + (b - 1)))
             /\ Reads(Semi(i, k), pa, Semi(i, k * 10 + (a - 1)))
             /\ Reads(Semi(i, k), pb, Semi(i, k * 10 + (b - 1)))
  <2> HIDE DEF a, b
  <2>1. /\ GetChar(Csi(k), da) = Csi(k * 10 + (a - 1)) /\ GetChar(Csi(k), db) = Csi(k * 10 + (b - 1))
        /\ GetChar(Semi(i, k), da) = Semi(i, k * 10 + (a - 1))
        /\ GetChar(Semi(i, k), db) = Semi(i, k * 10 + (b - 1))
    BY <1>1, DigitTurns
  <2> HIDE DEF da, db
  <2>2. /\ Reads(Csi(k), pa, GetChar(Csi(k), da)) /\ Reads(Csi(k), pb, GetChar(Csi(k), db))
        /\ Reads(Semi(i, k), pa, GetChar(Semi(i, k), da))
        /\ Reads(Semi(i, k), pb, GetChar(Semi(i, k), db))
    BY ReadsOne
  <2> QED BY <2>1, <2>2
<1>5. /\ 0 * 10 + (a - 1) = a - 1 /\ 0 * 10 + (b - 1) = b - 1 /\ 0 \in Nat
  BY <1>1
<1> HIDE DEF a, b, pa, pb
<1>6. CASE n >= 10
  <2>1. Reads(Csi(0), pa, Csi(a - 1)) /\ Reads(Semi(i, 0), pa, Semi(i, a - 1))
    BY <1>4, <1>5
  <2>2. Reads(Csi(a - 1), pb, Csi(n)) /\ Reads(Semi(i, a - 1), pb, Semi(i, n))
    BY <1>1, <1>4
  <2>3. Reads(Csi(0), pa \o pb, Csi(n))
    BY <1>3, <2>1, <2>2, ReadsOn
  <2>4. Reads(Semi(i, 0), pa \o pb, Semi(i, n))
    BY <1>3, <2>1, <2>2, ReadsOn
  <2> QED BY <1>2, <1>6, <2>3, <2>4
<1>7. CASE ~(n >= 10)
  <2>1. b - 1 = n
    BY <1>1, <1>7
  <2>2. Reads(Csi(0), pb, Csi(n)) /\ Reads(Semi(i, 0), pb, Semi(i, n))
    BY <1>4, <1>5, <2>1
  <2> QED BY <1>2, <1>7, <2>2
<1> QED BY <1>6, <1>7

(* The modifiers' bits.  The fifth, of MENU, is dropped.                   *)
LEMMA FlagsRead ==
  ASSUME NEW mods \in SUBSET ModKeys
  PROVE  /\ Total(Weight, mods) + 1 \in 1 .. 32 /\ Flags(Total(Weight, mods) + 1) = mods \ {"MENU"}
         /\ Flags(0) = {}
<1> DEFINE a == IF "SHIFT" \in mods THEN 1 ELSE 0
           b == IF "ALT" \in mods THEN 2 ELSE 0
           c == IF "CTRL" \in mods THEN 4 ELSE 0
           d == IF "OS" \in mods THEN 8 ELSE 0
           e == IF "MENU" \in mods THEN 16 ELSE 0
           n == a + b + c + d + e
<1>1. /\ Weight["SHIFT"] = 1 /\ Weight["ALT"] = 2 /\ Weight["CTRL"] = 4 /\ Weight["OS"] = 8
      /\ Weight["MENU"] = 16
  BY DEF Weight
<1>2. Total(Weight, mods) = n
  BY <1>1, Zenon DEF Total
<1>3. /\ a \in {0, 1} /\ b \in {0, 2} /\ c \in {0, 4} /\ d \in {0, 8} /\ e \in {0, 16}
      /\ (a = 1 <=> "SHIFT" \in mods) /\ (b = 2 <=> "ALT" \in mods)
      /\ (c = 4 <=> "CTRL" \in mods) /\ (d = 8 <=> "OS" \in mods)
  OBVIOUS
<1> HIDE DEF a, b, c, d, e
<1>4. n \in 0 .. 31
  BY <1>3
<1>5. /\ ((n \div 1) % 2 = 1 <=> a = 1)
      /\ ((n \div 2) % 2 = 1 <=> b = 2)
      /\ ((n \div 4) % 2 = 1 <=> c = 4)
      /\ ((n \div 8) % 2 = 1 <=> d = 8)
  <2>1. (n \div 1) % 2 = 1 <=> a = 1
    BY <1>3
  <2>2. (n \div 2) % 2 = 1 <=> b = 2
    BY <1>3
  <2>3. (n \div 4) % 2 = 1 <=> c = 4
    BY <1>3
  <2>4. (n \div 8) % 2 = 1 <=> d = 8
    BY <1>3
  <2> QED BY <2>1, <2>2, <2>3, <2>4
<1> HIDE DEF n
<1>6. ASSUME NEW k \in 0 .. 32
      PROVE  Flags(k) = {m \in FlagKeys : ((IF k > 0 THEN k - 1 ELSE k) \div Weight[m]) % 2 = 1}
  BY DEF Flags
<1>7. Flags(n + 1) = mods \ {"MENU"}
  <2>1. n + 1 \in 0 .. 32 /\ (IF n + 1 > 0 THEN (n + 1) - 1 ELSE n + 1) = n
    BY <1>4
  <2>2. Flags(n + 1) = {m \in FlagKeys : (n \div Weight[m]) % 2 = 1}
    BY <1>6, <2>1
  <2>3. \A m \in FlagKeys : ((n \div Weight[m]) % 2 = 1) <=> m \in mods
    BY <1>1, <1>3, <1>5 DEF FlagKeys
  <2>4. mods \ {"MENU"} = {m \in FlagKeys : m \in mods}
    BY DEF FlagKeys, ModKeys
  <2> QED BY <2>2, <2>3, <2>4
<1>8. Flags(0) = {}
  <2>1. Flags(0) = {m \in FlagKeys : (0 \div Weight[m]) % 2 = 1}
    BY DEF Flags
  <2>2. \A m \in FlagKeys : Weight[m] \in {1, 2, 4, 8}
    BY <1>1 DEF FlagKeys
  <2>3. \A w \in {1, 2, 4, 8} : (0 \div w) % 2 = 0
    OBVIOUS
  <2> QED BY <2>1, <2>2, <2>3
<1> QED BY <1>2, <1>4, <1>7, <1>8

\* What a key that sends a number means to the CLI.
Named(k, flags) == IF k \in Unknown THEN Nothing ELSE [key |-> k, flags |-> flags]

(* The number of a key is translated to it, or to nothing.                 *)
LEMMA NumbersNamed ==
  ASSUME NEW k \in DOMAIN NumberCode, NEW i \in Nat
  PROVE  NumberCode[k] \in 0 .. 99 /\ TranslateNumeric(i, NumberCode[k]) = Named(k, Flags(i))
<1> DEFINE Is(key) == [key |-> key, flags |-> Flags(i)]
           Goes(key, n) == NumberCode[key] = n /\ TranslateNumeric(i, n) = Named(key, Flags(i))
<1>1. /\ FunctionKey[1] = "F1" /\ FunctionKey[2] = "F2" /\ FunctionKey[3] = "F3"
      /\ FunctionKey[4] = "F4" /\ FunctionKey[5] = "F5" /\ FunctionKey[6] = "F6"
      /\ FunctionKey[7] = "F7" /\ FunctionKey[8] = "F8" /\ FunctionKey[9] = "F9"
      /\ FunctionKey[10] = "F10"
  BY DEF FunctionKey
<1>2. ASSUME NEW n \in 11 .. 15 PROVE TranslateNumeric(i, n) = Is(FunctionKey[n - 10])
  BY DEF TranslateNumeric
<1>3. ASSUME NEW n \in 17 .. 21 PROVE TranslateNumeric(i, n) = Is(FunctionKey[n - 11])
  BY DEF TranslateNumeric
<1>4. /\ TranslateNumeric(i, 30) = Is("MONITOR") /\ TranslateNumeric(i, 31) = Is("CTX")
      /\ TranslateNumeric(i, 32) = Is("HELP") /\ TranslateNumeric(i, 3) = Is("DEL")
  BY DEF TranslateNumeric
<1>5. ASSUME NEW n \in {1, 2, 4, 5, 6, 23, 24} PROVE TranslateNumeric(i, n) = Nothing
  BY DEF TranslateNumeric
<1>6. /\ 11 - 10 = 1 /\ 12 - 10 = 2 /\ 13 - 10 = 3 /\ 14 - 10 = 4 /\ 15 - 10 = 5
      /\ 17 - 11 = 6 /\ 18 - 11 = 7 /\ 19 - 11 = 8 /\ 20 - 11 = 9 /\ 21 - 11 = 10
      /\ \A n \in {11, 12, 13, 14, 15} : n \in 11 .. 15
      /\ \A n \in {17, 18, 19, 20, 21} : n \in 17 .. 21
  OBVIOUS
<1>7. /\ TranslateNumeric(i, 11) = Is("F1") /\ TranslateNumeric(i, 12) = Is("F2")
      /\ TranslateNumeric(i, 13) = Is("F3") /\ TranslateNumeric(i, 14) = Is("F4")
      /\ TranslateNumeric(i, 15) = Is("F5") /\ TranslateNumeric(i, 17) = Is("F6")
      /\ TranslateNumeric(i, 18) = Is("F7") /\ TranslateNumeric(i, 19) = Is("F8")
      /\ TranslateNumeric(i, 20) = Is("F9") /\ TranslateNumeric(i, 21) = Is("F10")
  <2> HIDE DEF Is
  <2> QED BY <1>1, <1>2, <1>3, <1>6
<1>8. /\ NumberCode["HOME"] = 1 /\ NumberCode["INS"] = 2 /\ NumberCode["DEL"] = 3
      /\ NumberCode["END"] = 4 /\ NumberCode["PGUP"] = 5 /\ NumberCode["PGDN"] = 6
      /\ NumberCode["F1"] = 11 /\ NumberCode["F2"] = 12 /\ NumberCode["F3"] = 13
      /\ NumberCode["F4"] = 14 /\ NumberCode["F5"] = 15 /\ NumberCode["F6"] = 17
      /\ NumberCode["F7"] = 18 /\ NumberCode["F8"] = 19 /\ NumberCode["F9"] = 20
      /\ NumberCode["F10"] = 21 /\ NumberCode["F11"] = 23 /\ NumberCode["F12"] = 24
      /\ NumberCode["MONITOR"] = 30 /\ NumberCode["CTX"] = 31 /\ NumberCode["HELP"] = 32
  BY DEF NumberCode
<1>9. DOMAIN NumberCode = {"HOME", "INS", "DEL", "END", "PGUP", "PGDN", "F1", "F2", "F3", "F4", "F5",
                           "F6", "F7", "F8", "F9", "F10", "F11", "F12", "MONITOR", "CTX", "HELP"}
  BY DEF NumberCode
<1>10. CASE k \in Unknown
  <2>1. Named(k, Flags(i)) = Nothing
    BY <1>10, Zenon DEF Named
  <2>2. NumberCode[k] \in {1, 2, 4, 5, 6, 23, 24}
    BY <1>8, <1>10 DEF Unknown
  <2> HIDE DEF Nothing
  <2> QED BY <1>5, <2>1, <2>2
<1>11. CASE k \notin Unknown
  <2>1. Named(k, Flags(i)) = Is(k)
    BY <1>11, Zenon DEF Named
  <2>2. k \in {"DEL", "F1", "F2", "F3", "F4", "F5", "F6", "F7", "F8", "F9", "F10",
               "MONITOR", "CTX", "HELP"}
    BY <1>9, <1>11 DEF Unknown
  <2> HIDE DEF Is
  <2>3. TranslateNumeric(i, NumberCode[k]) = Is(k)
    BY <1>4, <1>7, <1>8, <2>2
  <2>4. NumberCode[k] \in 0 .. 99
    BY <1>8, <2>2
  <2> QED BY <2>1, <2>3, <2>4
<1> QED BY <1>10, <1>11

(* A character outside a sequence is a key.                                *)
LEMMA PlainRead ==
  ASSUME NEW c, c # "ESC"
  PROVE  Codes(<<c>>) = <<Plain(c)>>
<1> DEFINE t == GetChar(Start, c)
           chars == <<c>>
<1>1. t.codes = <<Plain(c)>>
  BY DEF GetChar, Start, Returns
<1>2. Reads(Start, chars, t) /\ chars \in Seq({c})
  BY ReadsOne
<1> HIDE DEF t, chars
<1>3. Codes(chars) = t.codes
  BY <1>2, CodesRead
<1> QED BY <1>1, <1>3 DEF chars

(* Two escapes are the escape key.                                         *)
LEMMA EscapeRead == Codes(<<"ESC", "ESC">>) = <<Plain("ESC")>>
<1> DEFINE s == GetChar(Start, "ESC")
           t == GetChar(s, "ESC")
           e == "ESC"
           p == <<e>>
           pp == p \o p
<1>1. t.codes = <<Plain("ESC")>>
  BY EscapeTurns
<1>2. e \in Marks /\ p \in Seq(Marks) /\ pp = <<e, e>>
  <2>1. e \in Marks
    BY DEF Marks
  <2> HIDE DEF e
  <2>2. p \in Seq(Marks)
    BY <2>1
  <2>3. p \o p = <<e, e>>
    BY <2>1, PairOfOnes
  <2> QED BY <2>1, <2>2, <2>3
<1>3. Reads(Start, p, s) /\ Reads(s, p, t)
  BY ReadsOne
<1> HIDE DEF s, t, p
<1>4. Reads(Start, p \o p, t)
  BY <1>2, <1>3, ReadsOn
<1>5. pp \in Seq(Marks)
  BY <1>2, ConcatProperties
<1> HIDE DEF pp
<1>6. Codes(pp) = t.codes
  BY <1>4, <1>5, CodesRead DEF pp
<1> QED BY <1>1, <1>2, <1>6

(* The introducer, then the number of the modifiers.                       *)
LEMMA Introduced ==
  /\ <<"ESC", "[">> \in Seq(Marks) /\ Reads(Start, <<"ESC", "[">>, Csi(0))
<1> DEFINE s == GetChar(Start, "ESC")
           t == GetChar(s, "[")
           e == "ESC"
           b == "["
           p == <<e>>
           q == <<b>>
<1>1. t = Csi(0)
  BY EscapeTurns
<1>2. e \in Marks /\ b \in Marks
  BY DEF Marks
<1>3. p \in Seq(Marks) /\ q \in Seq(Marks) /\ p \o q = <<e, b>> /\ <<e, b>> \in Seq(Marks)
  <2> HIDE DEF e, b
  <2>1. p \o q = <<e, b>>
    BY <1>2, PairOfOnes
  <2> QED BY <1>2, <2>1
<1>4. Reads(Start, p, s) /\ Reads(s, q, t)
  BY ReadsOne
<1> HIDE DEF s, t, p, q
<1>5. Reads(Start, p \o q, t)
  BY <1>3, <1>4, ReadsOn
<1> QED BY <1>1, <1>3, <1>5

ModifierNumber(mods) == IF mods \subseteq {"MENU"} THEN 0 ELSE Total(Weight, mods) + 1

(* The code of some modifiers, printed, is read and translated back.       *)
LEMMA ModifiersRead ==
  ASSUME NEW mods \in SUBSET ModKeys
  PROVE  /\ ModifierNumber(mods) \in 0 .. 99 /\ Flags(ModifierNumber(mods)) = mods \ {"MENU"}
         /\ ModifierCode(mods) \in Seq(Marks)
         /\ Reads(Csi(0), ModifierCode(mods), Csi(ModifierNumber(mods)))
         /\ \A i \in Nat : Reads(Semi(i, 0), ModifierCode(mods), Semi(i, ModifierNumber(mods)))
<1>1. CASE mods \subseteq {"MENU"}
  <2>1. ModifierNumber(mods) = 0 /\ ModifierCode(mods) = <<>>
    BY <1>1, Zenon DEF ModifierNumber, ModifierCode
  <2>2. Flags(0) = {}
    BY FlagsRead
  <2>3. /\ Reads(Csi(0), <<>>, Csi(0)) /\ \A i \in Nat : Reads(Semi(i, 0), <<>>, Semi(i, 0))
    BY ReadsNone
  <2>4. <<>> \in Seq(Marks) /\ 0 \in 0 .. 99
    OBVIOUS
  <2>5. mods \ {"MENU"} = {}
    BY <1>1
  <2> QED BY <2>1, <2>2, <2>3, <2>4, <2>5, Zenon
<1>2. CASE ~(mods \subseteq {"MENU"})
  <2> DEFINE n == Total(Weight, mods) + 1
  <2>1. ModifierNumber(mods) = n /\ ModifierCode(mods) = DigitsOf(n)
    BY <1>2, Zenon DEF ModifierNumber, ModifierCode
  <2>2. n \in 1 .. 32 /\ Flags(n) = mods \ {"MENU"}
    BY FlagsRead
  <2> HIDE DEF n
  <2>3. n \in 0 .. 99
    BY <2>2
  <2>4. DigitsOf(n) \in Seq(Marks)
    BY <2>3, NumberWritten
  <2>5. Reads(Csi(0), DigitsOf(n), Csi(n))
    BY <2>3, NumberRead
  <2>6. \A i \in Nat : Reads(Semi(i, 0), DigitsOf(n), Semi(i, n))
    BY <2>3, NumberRead
  <2> QED BY <2>1, <2>2, <2>3, <2>4, <2>5, <2>6, Zenon
<1> QED BY <1>1, <1>2

(* A key whose sequence ends in a letter.                                  *)
LEMMA LetterKeyRead ==
  ASSUME NEW k \in DOMAIN LetterCode, NEW mods \in SUBSET ModKeys
  PROVE  Codes(<<"ESC", "[">> \o ModifierCode(mods) \o <<LetterCode[k]>>)
           = <<[key |-> k, flags |-> mods \ {"MENU"}]>>
<1> DEFINE n == ModifierNumber(mods)
           a == <<"ESC", "[">>
           m == ModifierCode(mods)
           l == LetterCode[k]
           z == <<l>>
           t == GetChar(Csi(n), l)
<1>1. /\ n \in 0 .. 99 /\ Flags(n) = mods \ {"MENU"} /\ m \in Seq(Marks) /\ Reads(Csi(0), m, Csi(n))
  BY ModifiersRead
<1>2. n \in Nat
  <2> HIDE DEF n
  <2> QED BY <1>1
<1>3. a \in Seq(Marks) /\ Reads(Start, a, Csi(0))
  BY Introduced
<1>4. z \in Seq(Marks)
  <2>1. l \in Marks
    BY LetterCodes
  <2> HIDE DEF l
  <2> QED BY <2>1
<1> HIDE DEF n, a, m
<1>5. t.codes = <<[key |-> k, flags |-> mods \ {"MENU"}]>>
  BY <1>1, <1>2, AlphaTurn
<1> HIDE DEF l
<1>6. Reads(Csi(n), z, t)
  BY ReadsOne
<1> HIDE DEF z, t
<1>7. Reads(Start, a \o m, Csi(n)) /\ a \o m \in Seq(Marks)
  <2>1. Reads(Start, a \o m, Csi(n))
    BY <1>1, <1>3, ReadsOn
  <2> QED BY <1>1, <1>3, <2>1, ConcatProperties
<1> DEFINE am == a \o m
<1> HIDE DEF am
<1>8. Reads(Start, am \o z, t) /\ am \o z \in Seq(Marks)
  <2>1. am \in Seq(Marks) /\ Reads(Start, am, Csi(n))
    BY <1>7 DEF am
  <2>2. Reads(Start, am \o z, t)
    BY <1>4, <1>6, <2>1, ReadsOn
  <2> QED BY <1>4, <2>1, <2>2, ConcatProperties
<1> DEFINE chars == am \o z
<1> HIDE DEF chars
<1>9. Codes(chars) = t.codes
  BY <1>8, CodesRead DEF chars
<1> QED BY <1>5, <1>9, Zenon DEF chars, am, a, m, z, l

(* A key whose sequence ends in a number and a tilde.                      *)
LEMMA NumberKeyRead ==
  ASSUME NEW k \in DOMAIN NumberCode, NEW mods \in SUBSET ModKeys
  PROVE  Codes(<<"ESC", "[">> \o DigitsOf(NumberCode[k])
               \o (IF mods \subseteq {"MENU"} THEN <<>> ELSE <<";">>) \o ModifierCode(mods) \o <<"~">>)
           = <<Named(k, mods \ {"MENU"})>>
<1> DEFINE n == ModifierNumber(mods)
           i == NumberCode[k]
           a == <<"ESC", "[">>
           b == DigitsOf(NumberCode[k])
           c == IF mods \subseteq {"MENU"} THEN <<>> ELSE <<";">>
           m == ModifierCode(mods)
           z == <<"~">>
           s == IF mods \subseteq {"MENU"} THEN Csi(i) ELSE Semi(i, 0)
           s2 == IF mods \subseteq {"MENU"} THEN Csi(i) ELSE Semi(i, n)
           t == GetChar(s2, "~")
<1>1. /\ n \in 0 .. 99 /\ Flags(n) = mods \ {"MENU"} /\ m \in Seq(Marks)
      /\ \A j \in Nat : Reads(Semi(j, 0), m, Semi(j, n))
  BY ModifiersRead
<1>2. /\ i \in 0 .. 99 /\ b = DigitsOf(i)
      /\ \A j \in Nat : TranslateNumeric(j, i) = Named(k, Flags(j))
  BY NumbersNamed
<1>3. a \in Seq(Marks) /\ Reads(Start, a, Csi(0))
  BY Introduced
<1>4. z \in Seq(Marks) /\ c \in Seq(Marks)
  <2>1. "~" \in Marks /\ ";" \in Marks
    BY DEF Marks
  <2> DEFINE tilde == "~"
             semi == ";"
  <2> HIDE DEF tilde, semi
  <2>2. <<tilde>> \in Seq(Marks) /\ <<semi>> \in Seq(Marks) /\ <<>> \in Seq(Marks)
    <3>1. tilde \in Marks /\ semi \in Marks
      BY <2>1 DEF tilde, semi
    <3> QED BY <3>1
  <2> USE DEF tilde, semi
  <2> QED BY <2>2, Zenon
<1> HIDE DEF n, i, a, b, m
<1>n. i \in Nat /\ n \in Nat
  BY <1>1, <1>2
<1>5. b \in Seq(Marks) /\ Reads(Csi(0), b, Csi(i))
  <2>1. DigitsOf(i) \in Seq(Marks)
    BY <1>2, NumberWritten
  <2>2. Reads(Csi(0), DigitsOf(i), Csi(i))
    BY <1>2, <1>n, NumberRead
  <2> QED BY <1>2, <2>1, <2>2
<1>6. Reads(Csi(i), c, s)
  <2>1. CASE mods \subseteq {"MENU"}
    BY <2>1, ReadsNone, Zenon
  <2>2. CASE ~(mods \subseteq {"MENU"})
    <3>1. GetChar(Csi(i), ";") = Semi(i, 0)
      BY <1>n, EndTurns
    <3>2. Reads(Csi(i), <<";">>, Semi(i, 0))
      BY <3>1, ReadsOne
    <3> QED BY <2>2, <3>2, Zenon
  <2> QED BY <2>1, <2>2
<1>7. Reads(s, m, s2)
  <2>1. CASE mods \subseteq {"MENU"}
    <3>1. m = <<>>
      BY <2>1, Zenon DEF m, ModifierCode
    <3> QED BY <2>1, <3>1, ReadsNone, Zenon
  <2>2. CASE ~(mods \subseteq {"MENU"})
    BY <1>1, <1>n, <2>2, Zenon
  <2> QED BY <2>1, <2>2
<1>8. t.codes = <<Named(k, mods \ {"MENU"})>>
  <2>1. /\ GetChar(Csi(i), "~").codes = <<TranslateNumeric(0, i)>>
        /\ GetChar(Semi(i, n), "~").codes = <<TranslateNumeric(n, i)>>
    BY <1>n, EndTurns
  <2>2. CASE mods \subseteq {"MENU"}
    <3>1. n = 0
      BY <2>2, Zenon DEF n, ModifierNumber
    <3>2. TranslateNumeric(0, i) = Named(k, mods \ {"MENU"})
      BY <1>1, <1>2, <1>n, <3>1, Zenon
    <3> QED BY <2>1, <2>2, <3>2, Zenon
  <2>3. CASE ~(mods \subseteq {"MENU"})
    <3>1. TranslateNumeric(n, i) = Named(k, mods \ {"MENU"})
      BY <1>1, <1>2, <1>n, Zenon
    <3> QED BY <2>1, <2>3, <3>1, Zenon
  <2> QED BY <2>2, <2>3
<1>9. Reads(s2, z, t)
  BY ReadsOne
<1> HIDE DEF c, s, s2, t, z
<1> DEFINE ab == a \o b
           abc == ab \o c
           abcm == abc \o m
           chars == abcm \o z
<1>10. ab \in Seq(Marks) /\ Reads(Start, ab, Csi(i))
  <2>1. Reads(Start, ab, Csi(i))
    BY <1>3, <1>5, ReadsOn
  <2> QED BY <1>3, <1>5, <2>1, ConcatProperties
<1> HIDE DEF ab
<1>11. abc \in Seq(Marks) /\ Reads(Start, abc, s)
  <2>1. Reads(Start, abc, s)
    BY <1>4, <1>6, <1>10, ReadsOn
  <2> QED BY <1>4, <1>10, <2>1, ConcatProperties
<1> HIDE DEF abc
<1>12. abcm \in Seq(Marks) /\ Reads(Start, abcm, s2)
  <2>1. Reads(Start, abcm, s2)
    BY <1>1, <1>7, <1>11, ReadsOn
  <2> QED BY <1>1, <1>11, <2>1, ConcatProperties
<1> HIDE DEF abcm
<1>13. chars \in Seq(Marks) /\ Reads(Start, chars, t)
  <2>1. Reads(Start, chars, t)
    BY <1>4, <1>9, <1>12, ReadsOn
  <2> QED BY <1>4, <1>12, <2>1, ConcatProperties
<1> HIDE DEF chars
<1>14. Codes(chars) = t.codes
  BY <1>13, CodesRead
<1> QED BY <1>8, <1>14, Zenon DEF chars, abcm, abc, ab, a, b, c, m, z

(* A plain key's character is outside a sequence.                          *)
LEMMA CharacterRead ==
  ASSUME NEW key \in PlainKeys, NEW mods
  PROVE  Codes(<<Character(key, mods)>>) = <<Plain(Character(key, mods))>>
<1>1. "ESC" \notin Letter
  BY KeyAssumption
<1>2. key # "ESC"
  BY <1>1 DEF PlainKeys
<1>3. Character(key, mods) # "ESC"
  <2>1. Character(key, mods) \in {"CR", "LF", "CTL", key}
    BY Zenon DEF Character
  <2> QED BY <1>2, <2>1
<1> QED BY <1>3, PlainRead

(* Every key, with any modifiers, is one code, of that key or none.        *)
LEMMA KeyRead ==
  ASSUME NEW key \in Key, NEW mods \in SUBSET ModKeys
  PROVE  Codes(KbdmoToAnsi(key, mods)) = <<KeyCode(key, mods)>>
<1>0. ASSUME key \in PlainKeys \/ key = "ESC" PROVE KeyCode(key, mods) = Plain(Character(key, mods))
  BY <1>0, Zenon DEF KeyCode
<1>1. CASE key \in PlainKeys
  <2>1. KbdmoToAnsi(key, mods) = <<Character(key, mods)>>
    BY <1>1, Zenon DEF KbdmoToAnsi
  <2> QED BY <1>0, <1>1, <2>1, CharacterRead, Zenon
<1>2. CASE key \notin PlainKeys /\ key = "ESC"
  <2>1. "ESC" \notin Letter
    BY KeyAssumption
  <2>2. Character("ESC", mods) = "ESC"
    BY <2>1 DEF Character
  <2>3. KbdmoToAnsi(key, mods) = <<"ESC", "ESC">>
    BY <1>2, Zenon DEF KbdmoToAnsi
  <2>4. KeyCode(key, mods) = Plain("ESC")
    BY <1>0, <1>2, <2>2, Zenon
  <2> QED BY <2>3, <2>4, EscapeRead, Zenon
<1>3. CASE key \notin PlainKeys /\ key # "ESC" /\ key \in DOMAIN LetterCode
  <2>1. key \notin Unknown
    BY <1>3 DEF LetterCode, Unknown
  <2>2. /\ KbdmoToAnsi(key, mods) = <<"ESC", "[">> \o ModifierCode(mods) \o <<LetterCode[key]>>
        /\ KeyCode(key, mods) = [key |-> key, flags |-> mods \ {"MENU"}]
    BY <1>3, <2>1, Zenon DEF KbdmoToAnsi, KeyCode
  <2> QED BY <1>3, <2>2, LetterKeyRead
<1>4. CASE key \notin PlainKeys /\ key # "ESC" /\ key \notin DOMAIN LetterCode
  <2>1. key \in DOMAIN NumberCode
    BY <1>4, Zenon DEF Key
  <2>2. /\ KbdmoToAnsi(key, mods) = <<"ESC", "[">> \o DigitsOf(NumberCode[key])
             \o (IF mods \subseteq {"MENU"} THEN <<>> ELSE <<";">>) \o ModifierCode(mods)
             \o <<"~">>
        /\ KeyCode(key, mods) = Named(key, mods \ {"MENU"})
    BY <1>4, Zenon DEF KbdmoToAnsi, KeyCode, Named
  <2> QED BY <2>1, <2>2, NumberKeyRead
<1> QED BY <1>1, <1>2, <1>3, <1>4

(* Without modifiers the PS/2 driver sends what the Mo keyboard's does.    *)
LEMMA Ps2KeyRead ==
  ASSUME NEW key \in Ps2Key
  PROVE  Codes(KbdToAnsi(key, {})) = <<KeyCode(key, {})>>
<1>1. key \in Key /\ {} \in SUBSET ModKeys
  BY DEF Ps2Key
<1>2. KbdToAnsi(key, {}) = KbdmoToAnsi(key, {})
  <2>1. {} \subseteq {"MENU"} /\ ModifierCode({}) = <<>>
    BY DEF ModifierCode
  <2>2. <<"ESC", "[">> \in Seq(Marks)
    BY Introduced
  <2> DEFINE p == <<"ESC", "[">>
  <2>3. p \o <<>> = p
    BY <2>2, ConcatEmptySeq
  <2> HIDE DEF p
  <2>4. CASE key \in PlainKeys \/ key = "ESC"
    BY <2>4, Zenon DEF KbdToAnsi, KbdmoToAnsi
  <2>5. CASE ~(key \in PlainKeys \/ key = "ESC") /\ key \in DOMAIN LetterCode
    BY <2>1, <2>5, Zenon DEF KbdToAnsi, KbdmoToAnsi
  <2>6. CASE ~(key \in PlainKeys \/ key = "ESC") /\ key \notin DOMAIN LetterCode
    <3> DEFINE d == DigitsOf(NumberCode[key])
               pd == p \o d
               t == <<"~">>
    <3>1. key \in DOMAIN NumberCode
      BY <1>1, <2>6, Zenon DEF Key
    <3>2. d \in Seq(Marks)
      <4>1. NumberCode[key] \in 0 .. 99
        BY <3>1, NumbersNamed
      <4> QED BY <4>1, NumberWritten
    <3>3. KbdToAnsi(key, {}) = (p \o <<>>) \o d \o t
      BY <2>1, <2>6, Zenon DEF KbdToAnsi, p
    <3>4. KbdmoToAnsi(key, {}) = ((p \o d) \o <<>>) \o <<>> \o t
      BY <2>1, <2>6, Zenon DEF KbdmoToAnsi, p
    <3> HIDE DEF d, t
    <3>5. pd \in Seq(Marks)
      BY <2>2, <3>2, ConcatProperties DEF p
    <3> HIDE DEF pd
    <3>6. pd \o <<>> = pd
      BY <3>5, ConcatEmptySeq
    <3> QED BY <2>3, <3>3, <3>4, <3>6, Zenon DEF pd
  <2> QED BY <2>4, <2>5, <2>6
<1> QED BY <1>1, <1>2, KeyRead, Zenon

(* What the CLI hears, as a table.                                         *)
LEMMA HeardIs ==
  ASSUME NEW key \in Key, NEW mods \in SUBSET ModKeys
  PROVE  Heard[key][mods] = <<KeyCode(key, mods)>>
<1> DEFINE Code(k, m) == Codes(KbdmoToAnsi(k, m))
<1>1. Code(key, mods) = <<KeyCode(key, mods)>>
  BY KeyRead
<1>2. Heard = [k \in Key |-> [m \in SUBSET ModKeys |-> Code(k, m)]]
  BY Zenon DEF Heard
<1> HIDE DEF Code
<1>3. Heard[key][mods] = Code(key, mods)
  BY <1>2
<1> QED BY <1>1, <1>3

-----------------------------------------------------------------------------
(* The editor's buffer and history.                                        *)
Typed == Letter \cup {"A", "B", "C", "D"}
Ink == Typed \cup {Space}
Buffers == {l \in [0 .. MaxLine -> Typed \cup {NUL}] : l[MaxLine] = NUL}
Texts == {t \in Seq(Typed) : Len(t) <= MaxLine}

(* The sizes of the command line and its row.                              *)
LEMMA CliSizes ==
  /\ MaxLine \in Nat /\ MaxLine > 0 /\ Depth \in Nat /\ Depth > 0 /\ VisW > Margin
  /\ Margin = 2 /\ NUL \notin Typed /\ Prompt \in Ink /\ Space \in Ink /\ Typed \subseteq Ink
<1>1. MaxLine \in Nat \ {0} /\ Depth \in Nat \ {0} /\ VisW > Margin /\ Prompt \in Letter
      /\ NUL \notin Letter
  BY CliAssumption
<1>2. NUL # "A" /\ NUL # "B" /\ NUL # "C" /\ NUL # "D"
  BY Zenon DEF NUL
<1>3. NUL \notin Typed
  BY <1>1, <1>2, Zenon DEF Typed
<1> QED BY <1>1, <1>3 DEF Margin, Ink, Typed

(* The text ends at the first NUL.                                         *)
EndsAt(line, n) == line[n] = NUL /\ \A k \in 0 .. n - 1 : line[k] # NUL

(* Where the first NUL is, the string ends.                                *)
LEMMA TextIs ==
  ASSUME NEW line, NEW n \in 0 .. MaxLine, EndsAt(line, n)
  PROVE  Text(line) = [k \in 1 .. n |-> line[k - 1]] /\ StrLen(line) = n
<1> DEFINE m == CHOOSE n2 \in 0 .. MaxLine :
                  line[n2] = NUL /\ \A k \in 0 .. n2 - 1 : line[k] # NUL
<1>0. MaxLine \in Nat
  BY CliSizes
<1>1. \A n2 \in 0 .. MaxLine : EndsAt(line, n2) => n2 = n
  BY <1>0 DEF EndsAt
<1>2. m = n
  <2>1. m \in 0 .. MaxLine /\ EndsAt(line, m)
    BY Zenon DEF EndsAt
  <2> HIDE DEF m
  <2> QED BY <1>1, <2>1
<1>3. Text(line) = [k \in 1 .. m |-> line[k - 1]]
  BY Zenon DEF Text
<1> HIDE DEF m
<1>4. Text(line) = [k \in 1 .. n |-> line[k - 1]]
  BY <1>2, <1>3, Zenon
<1>5. Len(Text(line)) = n
  BY <1>0, <1>4
<1> QED BY <1>4, <1>5 DEF StrLen

(* The string in the buffer ends within it.                                *)
LEMMA TextEnds ==
  ASSUME NEW line \in Buffers
  PROVE  /\ StrLen(line) \in 0 .. MaxLine /\ EndsAt(line, StrLen(line))
         /\ Text(line) \in Texts /\ Len(Text(line)) = StrLen(line)
         /\ \A k \in 1 .. StrLen(line) : Text(line)[k] = line[k - 1]
<1> DEFINE T == {n \in Nat : n <= MaxLine /\ line[n] = NUL}
<1>0. MaxLine \in Nat /\ NUL \notin Typed /\ line[MaxLine] = NUL
      /\ line \in [0 .. MaxLine -> Typed \cup {NUL}]
  BY CliSizes DEF Buffers
<1>1. MaxLine \in T
  BY <1>0
<1>2. PICK n \in T : \A m \in T : n <= m
  <2>1. T \subseteq Nat /\ T # {}
    BY <1>1
  <2> HIDE DEF T
  <2> QED BY <2>1, Least
<1>3. n \in 0 .. MaxLine /\ EndsAt(line, n)
  BY <1>0, <1>2 DEF EndsAt
<1>4. Text(line) = [k \in 1 .. n |-> line[k - 1]] /\ StrLen(line) = n
  BY <1>3, TextIs
<1>5. \A k \in 1 .. n : line[k - 1] \in Typed
  <2>1. ASSUME NEW k \in 1 .. n PROVE line[k - 1] \in Typed
    <3>1. k - 1 \in 0 .. n - 1 /\ k - 1 \in 0 .. MaxLine
      BY <1>0, <1>3
    <3>2. line[k - 1] \in Typed \cup {NUL}
      BY <1>0, <3>1
    <3>3. line[k - 1] # NUL
      BY <1>3, <3>1 DEF EndsAt
    <3> QED BY <3>2, <3>3
  <2> QED BY <2>1
<1> DEFINE t == Text(line)
<1>6. t \in Seq(Typed) /\ Len(t) = n /\ \A k \in 1 .. n : t[k] = line[k - 1]
  BY <1>3, <1>4, <1>5
<1> QED BY <1>3, <1>4, <1>6 DEF Texts

(* strcpy puts the text in the buffer.                                     *)
LEMMA StrCpyIs ==
  ASSUME NEW line \in Buffers, NEW text \in Texts
  PROVE  /\ StrCpy(line, text) \in Buffers /\ StrLen(StrCpy(line, text)) = Len(text)
         /\ Text(StrCpy(line, text)) = text
<1> DEFINE l == StrCpy(line, text)
           m == Len(text)
<1>0. /\ MaxLine \in Nat /\ NUL \notin Typed /\ line[MaxLine] = NUL
      /\ line \in [0 .. MaxLine -> Typed \cup {NUL}]
      /\ text \in Seq(Typed) /\ m \in 0 .. MaxLine
  BY CliSizes DEF Buffers, Texts
<1>1. l = [k \in 0 .. MaxLine |-> IF k < m THEN text[k + 1] ELSE IF k = m THEN NUL ELSE line[k]]
  BY DEF StrCpy
<1>2. \A k \in 0 .. m - 1 : text[k + 1] \in Typed
  <2>1. ASSUME NEW k \in 0 .. m - 1 PROVE text[k + 1] \in Typed
    <3>1. k + 1 \in 1 .. m
      BY <1>0
    <3> QED BY <1>0, <3>1
  <2> QED BY <2>1
<1> HIDE DEF l, m
<1>3. l \in [0 .. MaxLine -> Typed \cup {NUL}]
  <2>1. \A k \in 0 .. MaxLine : k < m => k \in 0 .. m - 1
    BY <1>0
  <2>2. \A k \in 0 .. MaxLine :
          (IF k < m THEN text[k + 1] ELSE IF k = m THEN NUL ELSE line[k]) \in Typed \cup {NUL}
    BY <1>0, <1>2, <2>1
  <2> QED BY <1>1, <2>2
<1>4. l[MaxLine] = NUL
  BY <1>0, <1>1
<1>5. EndsAt(l, m)
  BY <1>0, <1>1, <1>2 DEF EndsAt
<1>6. StrLen(l) = m /\ Text(l) = [k \in 1 .. m |-> l[k - 1]]
  BY <1>0, <1>5, TextIs
<1>7. Text(l) = text
  <2> DEFINE t == Text(l)
  <2>1. \A k \in 1 .. m : l[k - 1] = text[k]
    <3>1. ASSUME NEW k \in 1 .. m PROVE l[k - 1] = text[k]
      <4>1. k - 1 \in 0 .. MaxLine /\ k - 1 < m /\ (k - 1) + 1 = k
        BY <1>0
      <4>2. l[k - 1] = text[(k - 1) + 1]
        BY <1>1, <4>1
      <4> QED BY <4>1, <4>2
    <3> QED BY <3>1
  <2>2. text = [k \in 1 .. m |-> text[k]]
    BY <1>0 DEF m
  <2> QED BY <1>6, <2>1, <2>2
<1> QED BY <1>3, <1>4, <1>6, <1>7 DEF l, m, Buffers

(* Closing a gap within the string makes it one shorter.                   *)
LEMMA CloseGapIs ==
  ASSUME NEW line \in Buffers, NEW i \in Nat, i <= StrLen(line)
  PROVE  /\ CloseGap(line, i) \in Buffers
         /\ StrLen(CloseGap(line, i)) = IF i < StrLen(line) THEN StrLen(line) - 1 ELSE StrLen(line)
         /\ \A k \in 0 .. MaxLine :
              CloseGap(line, i)[k] = IF i <= k /\ k < StrLen(line) THEN line[k + 1] ELSE line[k]
<1> DEFINE l == CloseGap(line, i)
           m == StrLen(line)
           n == IF i < m THEN m - 1 ELSE m
<1>0. /\ MaxLine \in Nat /\ line[MaxLine] = NUL /\ m \in 0 .. MaxLine /\ EndsAt(line, m)
      /\ line \in [0 .. MaxLine -> Typed \cup {NUL}]
  BY CliSizes, TextEnds DEF Buffers
<1>1. l = [k \in 0 .. MaxLine |-> IF i <= k /\ k < m THEN line[k + 1] ELSE line[k]]
  BY DEF CloseGap
<1> HIDE DEF l, m
<1>2. l \in [0 .. MaxLine -> Typed \cup {NUL}]
  <2>1. \A k \in 0 .. MaxLine : k < m => k + 1 \in 0 .. MaxLine
    BY <1>0
  <2>2. \A k \in 0 .. MaxLine :
          (IF i <= k /\ k < m THEN line[k + 1] ELSE line[k]) \in Typed \cup {NUL}
    BY <1>0, <2>1
  <2> QED BY <1>1, <2>2
<1>3. l[MaxLine] = NUL
  BY <1>0, <1>1
<1>4. n \in 0 .. MaxLine /\ EndsAt(l, n)
  <2>1. n \in 0 .. MaxLine
    BY <1>0
  <2>2. CASE i < m
    <3>1. m - 1 \in 0 .. MaxLine /\ (m - 1) + 1 = m /\ i <= m - 1 /\ m - 1 < m
      BY <1>0, <2>2
    <3>2. l[m - 1] = line[(m - 1) + 1]
      BY <1>1, <3>1
    <3>3. l[m - 1] = NUL
      BY <1>0, <3>1, <3>2 DEF EndsAt
    <3>4. ASSUME NEW k \in 0 .. (m - 1) - 1 PROVE l[k] # NUL
      <4>1. k \in 0 .. MaxLine /\ k \in 0 .. m - 1 /\ k + 1 \in 0 .. m - 1
        BY <1>0, <3>1
      <4>2. l[k] = IF i <= k /\ k < m THEN line[k + 1] ELSE line[k]
        BY <1>1, <4>1
      <4> QED BY <1>0, <4>1, <4>2 DEF EndsAt
    <3> QED BY <2>1, <2>2, <3>3, <3>4 DEF EndsAt
  <2>3. CASE ~(i < m)
    <3>1. \A k \in 0 .. m : l[k] = line[k]
      BY <1>0, <1>1, <2>3
    <3> QED BY <1>0, <2>1, <2>3, <3>1 DEF EndsAt
  <2> QED BY <2>2, <2>3
<1>5. StrLen(l) = n
  BY <1>4, TextIs
<1> QED BY <1>1, <1>2, <1>3, <1>5 DEF l, m, Buffers

(* An empty buffer holds an empty string.                                  *)
LEMMA BlankIs == Blank \in Buffers /\ StrLen(Blank) = 0 /\ Text(Blank) = <<>>
<1>0. MaxLine \in Nat
  BY CliSizes
<1> DEFINE l == Blank
<1>1. l = [k \in 0 .. MaxLine |-> NUL]
  BY DEF Blank
<1> HIDE DEF l
<1>2. l \in Buffers
  BY <1>0, <1>1 DEF Buffers
<1>3. EndsAt(l, 0) /\ 0 \in 0 .. MaxLine
  BY <1>0, <1>1 DEF EndsAt
<1>4. StrLen(l) = 0
  BY <1>3, TextIs
<1>5. Text(l) \in Seq(Typed) /\ Len(Text(l)) = 0
  BY <1>2, <1>4, TextEnds DEF Texts
<1> QED BY <1>2, <1>4, <1>5 DEF l

-----------------------------------------------------------------------------
(* The whole screen as the region, with nothing below the cursor's row.    *)
CellAt(s, x, y) == s.cells[Offset(x, y)]
BelowBlank(s) ==
  \A x \in 0 .. VisW - 1 : \A y \in s.cursor.y + 1 .. VisH - 1 : CellAt(s, x, y) = Space
Panel(s) == s \in Shows(Ink) /\ s.region = Full
RowBlank(s) == \A x \in 0 .. VisW - 1 : CellAt(s, x, s.cursor.y) = Space
MovedTo(s, x, y, t) ==
  /\ t.cursor.x = x /\ t.cursor.y = y /\ t.cells = s.cells

(* The cells of the whole screen.                                          *)
LEMMA FullIs ==
  /\ InMatrix(Full) /\ Full.x = 0 /\ Full.y = 0 /\ Full.w = VisW /\ Full.h = VisH
  /\ \A x : \A y : InRect(Full, x, y) <=> x \in 0 .. VisW - 1 /\ y \in 0 .. VisH - 1
<1>1. Full.x = 0 /\ Full.y = 0 /\ Full.w = VisW /\ Full.h = VisH
  BY DEF Full
<1>2. InMatrix(Full)
  BY <1>1, Sizes DEF InMatrix
<1>3. \A x : \A y : InRect(Full, x, y) <=> x \in 0 .. VisW - 1 /\ y \in 0 .. VisH - 1
  BY <1>1, Sizes DEF InRect
<1> QED BY <1>1, <1>2, <1>3

(* The cursor of a panel is inside its region.                             *)
LEMMA PanelCursor ==
  ASSUME NEW s, Panel(s)
  PROVE  /\ s.cursor.x \in 0 .. VisW - 1 /\ s.cursor.y \in 0 .. VisH - 1
         /\ s.cells \in Grid(Ink) /\ s \in Loose(Ink) /\ Inside(s)
         /\ Space \in Ink
<1>1. s.cursor \in [x : 0 .. VisW - 1, y : 0 .. VisH - 1] /\ s.cells \in Grid(Ink)
  BY DEF Panel, Shows
<1>2. s \in Loose(Ink)
  BY ShowsLoose DEF Panel
<1>3. Inside(s)
  BY <1>1, FullIs, Sizes DEF Inside, Panel
<1> QED BY <1>1, <1>2, <1>3, CliSizes

(* The cursor goes where it is told, inside the panel.                     *)
LEMMA PanelMoves ==
  ASSUME NEW s, Panel(s), NEW x \in 0 .. VisW - 1, NEW y \in 0 .. VisH - 1
  PROVE  Panel(set_xy(s, x, y)) /\ MovedTo(s, x, y, set_xy(s, x, y))
<1> DEFINE t == set_xy(s, x, y)
           c == [x |-> x, y |-> y]
<1>1. s.region.w = VisW /\ s.region.h = VisH
  BY FullIs DEF Panel
<1>2. t = [s EXCEPT !.cursor = c]
  BY <1>1, Sizes DEF set_xy
<1>3. c \in [x : 0 .. VisW - 1, y : 0 .. VisH - 1] /\ c.x = x /\ c.y = y
  OBVIOUS
<1> HIDE DEF t, c
<1>4. t \in Shows(Ink) /\ t.region = s.region /\ t.cells = s.cells /\ t.cursor = c
  BY <1>2, <1>3 DEF Panel, Shows
<1> QED BY <1>3, <1>4 DEF Panel, MovedTo, t

(* What is below the cursor, with the cells as they were.                  *)
LEMMA SameCellsBelow ==
  ASSUME NEW s, NEW t, Panel(s), Panel(t), t.cells = s.cells, s.cursor.y <= t.cursor.y, BelowBlank(s)
  PROVE  BelowBlank(t)
<1>1. /\ s.cursor.y \in 0 .. VisH - 1 /\ t.cursor.y \in 0 .. VisH - 1
  BY PanelCursor
<1>2. \A y \in t.cursor.y + 1 .. VisH - 1 : y \in s.cursor.y + 1 .. VisH - 1
  BY <1>1, Sizes
<1> QED BY <1>2 DEF BelowBlank, CellAt

(* The next line is blank, on the row below or on one scrolled in.         *)
LEMMA PanelDown ==
  ASSUME NEW s, Panel(s), BelowBlank(s)
  PROVE  /\ Panel(set_xy(s, 0, s.cursor.y + 1)) /\ BelowBlank(set_xy(s, 0, s.cursor.y + 1))
         /\ RowBlank(set_xy(s, 0, s.cursor.y + 1)) /\ set_xy(s, 0, s.cursor.y + 1).cursor.x = 0
<1> DEFINE y == s.cursor.y + 1
           t == set_xy(s, 0, y)
<1>1. s.cursor.y \in 0 .. VisH - 1 /\ s.region.w = VisW /\ s.region.h = VisH /\ s.cells \in Grid(Ink)
  BY PanelCursor, FullIs DEF Panel
<1>2. CASE y < VisH
  <2>1. Panel(t) /\ MovedTo(s, 0, y, t)
    <3>1. y \in 0 .. VisH - 1 /\ 0 \in 0 .. VisW - 1
      BY <1>1, <1>2, Sizes
    <3> DEFINE x == 0
    <3> HIDE DEF y, x
    <3>2. Panel(set_xy(s, x, y)) /\ MovedTo(s, x, y, set_xy(s, x, y))
      BY <3>1, PanelMoves DEF x
    <3> QED BY <3>2 DEF x
  <2> HIDE DEF t
  <2>2. BelowBlank(t)
    BY <1>1, <2>1, SameCellsBelow DEF MovedTo
  <2>3. RowBlank(t)
    <3>1. t.cursor.y \in s.cursor.y + 1 .. VisH - 1
      BY <1>1, <1>2, <2>1, Sizes DEF MovedTo
    <3> QED BY <2>1, <3>1 DEF RowBlank, BelowBlank, MovedTo, CellAt
  <2> QED BY <2>1, <2>2, <2>3 DEF t, MovedTo
<1>3. CASE ~(y < VisH)
  <2> DEFINE one == 1
             zero == 0
             u == scroll(s, zero, one)
             c == [x |-> 0, y |-> VisH - 1]
             g == Scrolled(s.cells, Full, zero, one)
  <2>1. y = VisH /\ y - VisH + 1 = 1
    BY <1>1, <1>3, Sizes
  <2>2. t = [u EXCEPT !.cursor = c]
    <3>1. /\ ~(0 >= s.region.w) /\ ~(0 < 0) /\ ~(y < 0) /\ y >= s.region.h
          /\ y - s.region.h + 1 = 1 /\ s.region.h - 1 = VisH - 1
      BY <1>1, <2>1, Sizes
    <3> HIDE DEF y
    <3> QED BY <3>1, Zenon DEF set_xy
  <2>3. u = [s EXCEPT !.cells = g]
    <3>1. /\ InMatrix(s.region) /\ s.region = Full
          /\ zero \in -s.region.w .. s.region.w /\ one \in -s.region.h .. s.region.h
      BY <1>1, FullIs, Sizes DEF Panel
    <3> HIDE DEF zero, one
    <3>2. scroll(s, zero, one) = [s EXCEPT !.cells = Scrolled(s.cells, s.region, zero, one)]
      BY <1>1, <3>1, ScrollIs
    <3> QED BY <3>1, <3>2, Zenon
  <2>4. Panel(u)
    <3>1. zero \in Int /\ one \in Int
      OBVIOUS
    <3> HIDE DEF zero, one
    <3>2. s \in Shows(Ink) /\ Space \in Ink
      BY PanelCursor DEF Panel
    <3>3. scroll(s, zero, one) \in Shows(Ink) /\ Kept(s, scroll(s, zero, one))
      BY <3>1, <3>2, ScrollKeeps
    <3> QED BY <3>3 DEF Panel, Kept
  <2>5. ASSUME NEW x \in 0 .. VisW - 1 PROVE g[Offset(x, VisH - 1)] = Space
    <3> DEFINE r == Full
               last == VisH - 1
               cells == s.cells
    <3>1. x \in 0 .. MaxW - 1 /\ last \in 0 .. MaxH - 1 /\ InMatrix(r) /\ zero \in Int /\ one \in Int
      BY FullIs, Sizes
    <3>2. InRect(r, x, last) /\ ~InRect(r, x + zero, last + one)
      <4>1. last \in 0 .. VisH - 1 /\ last + one \notin 0 .. VisH - 1
        BY Sizes
      <4> HIDE DEF r, last, zero, one
      <4> QED BY <4>1, FullIs DEF r
    <3> HIDE DEF r, last, cells, zero, one
    <3>3. Scrolled(cells, r, zero, one)[Offset(x, last)] =
            IF ~InRect(r, x, last) THEN cells[Offset(x, last)]
            ELSE IF InRect(r, x + zero, last + one) THEN cells[Offset(x + zero, last + one)] ELSE Space
      BY <3>1, ScrolledAt
    <3>4. Scrolled(cells, r, zero, one)[Offset(x, last)] = Space
      BY <3>2, <3>3, Zenon
    <3> QED BY <3>4 DEF cells, r, last
  <2>6. c \in [x : 0 .. VisW - 1, y : 0 .. VisH - 1] /\ c.x = 0 /\ c.y = VisH - 1
    BY Sizes
  <2> HIDE DEF c, g, t, u
  <2>7. Panel(t) /\ t.cells = g /\ t.cursor = c
    BY <2>2, <2>3, <2>4, <2>6, PanelCursor DEF Panel, Shows
  <2>8. BelowBlank(t)
    <3>1. \A z \in t.cursor.y + 1 .. VisH - 1 : FALSE
      BY <2>6, <2>7, Sizes
    <3> QED BY <3>1 DEF BelowBlank
  <2>9. RowBlank(t)
    BY <2>5, <2>6, <2>7 DEF RowBlank, CellAt
  <2> QED BY <2>6, <2>7, <2>8, <2>9 DEF t
<1> QED BY <1>2, <1>3

(* A column outside the panel leads to one inside, or to the next line.    *)
LEMMA PanelGoes ==
  ASSUME NEW s, Panel(s), BelowBlank(s), NEW x0 \in Int
  PROVE  Panel(set_xy(s, x0, s.cursor.y)) /\ BelowBlank(set_xy(s, x0, s.cursor.y))
<1> DEFINE y == s.cursor.y
           z == 0
<1>1. y \in 0 .. VisH - 1 /\ s.region.w = VisW /\ z \in 0 .. VisW - 1
  BY PanelCursor, FullIs, Sizes DEF Panel
<1>2. ASSUME NEW x \in 0 .. VisW - 1 PROVE Panel(set_xy(s, x, y)) /\ BelowBlank(set_xy(s, x, y))
  <2> DEFINE t == set_xy(s, x, y)
  <2>1. Panel(t) /\ MovedTo(s, x, y, t)
    <3> HIDE DEF y
    <3> QED BY <1>1, PanelMoves
  <2> HIDE DEF t
  <2>2. s.cursor.y <= t.cursor.y
    BY <1>1, <2>1 DEF MovedTo
  <2>3. BelowBlank(t)
    BY <2>1, <2>2, SameCellsBelow DEF MovedTo
  <2> QED BY <2>1, <2>3 DEF t
<1>3. CASE x0 < 0
  <2>1. set_xy(s, x0, y) = set_xy(s, z, y)
    <3>1. ~(x0 >= VisW) /\ ~(z >= VisW) /\ ~(z < 0)
      BY <1>3, Sizes
    <3> HIDE DEF y
    <3> QED BY <1>1, <1>3, <3>1, Zenon DEF set_xy, z
  <2> HIDE DEF z, y
  <2> QED BY <1>1, <1>2, <2>1 DEF y
<1>4. CASE x0 \in 0 .. VisW - 1
  BY <1>2, <1>4
<1>5. CASE x0 >= VisW
  <2> DEFINE t == set_xy(s, z, y + 1)
  <2>1. set_xy(s, x0, y) = t
    <3>1. ~(z >= VisW) /\ ~(z < 0)
      BY Sizes
    <3> HIDE DEF y
    <3> QED BY <1>1, <1>5, <3>1, Zenon DEF set_xy, z
  <2>2. Panel(t) /\ BelowBlank(t)
    BY PanelDown
  <2> QED BY <2>1, <2>2, Zenon
<1> QED BY <1>3, <1>4, <1>5, Sizes

(* A character goes to the cursor's cell.                                  *)
LEMMA PanelPuts ==
  ASSUME NEW s, Panel(s), BelowBlank(s), NEW c \in Ink
  PROVE  /\ Panel(put(s, c)) /\ BelowBlank(put(s, c))
         /\ s.cursor.x + 1 < VisW =>
              /\ put(s, c).cursor.x = s.cursor.x + 1 /\ put(s, c).cursor.y = s.cursor.y
              /\ \A x \in 0 .. VisW - 1 :
                   CellAt(put(s, c), x, s.cursor.y)
                     = IF x = s.cursor.x THEN c ELSE CellAt(s, x, s.cursor.y)
<1> DEFINE cx == s.cursor.x
           cy == s.cursor.y
           o == Offset(cx, cy)
           g == [s.cells EXCEPT ![o] = c]
           t == [s EXCEPT !.cells = g]
<1>1. /\ cx \in 0 .. VisW - 1 /\ cy \in 0 .. VisH - 1 /\ s.region.x = 0 /\ s.region.y = 0
      /\ s.cells \in Grid(Ink) /\ s \in Shows(Ink)
  BY PanelCursor, FullIs DEF Panel
<1>2. cx \in 0 .. MaxW - 1 /\ cy \in 0 .. MaxH - 1 /\ 0 + cx = cx /\ 0 + cy = cy /\ cx + 1 \in Int
  BY <1>1, Sizes
<1>3. o \in Memory
  <2> HIDE DEF cx, cy
  <2> QED BY <1>2, OffsetInside
<1>4. put(s, c) = set_xy(t, cx + 1, cy)
  BY <1>1, <1>2, <1>3, Zenon DEF put
<1>5. g \in Grid(Ink) /\ \A p \in Memory : g[p] = IF p = o THEN c ELSE s.cells[p]
  <2> HIDE DEF o
  <2> QED BY <1>1, <1>3 DEF Grid
<1>6. ASSUME NEW x \in 0 .. VisW - 1, NEW y \in 0 .. VisH - 1
      PROVE  g[Offset(x, y)] = IF x = cx /\ y = cy THEN c ELSE s.cells[Offset(x, y)]
  <2>1. x \in 0 .. MaxW - 1 /\ y \in 0 .. MaxH - 1 /\ y \in Int /\ cy \in Int
    BY <1>2, Sizes
  <2>2. Offset(x, y) \in Memory
    BY <2>1, OffsetInside
  <2>3. Offset(x, y) = o => x = cx /\ y = cy
    <3> HIDE DEF cx, cy
    <3> QED BY <1>2, <2>1, OffsetOnce
  <2> HIDE DEF g
  <2> QED BY <1>5, <2>2, <2>3
<1> HIDE DEF g, o
<1>7. /\ Panel(t) /\ t.cursor = s.cursor /\ t.cells = g
  BY <1>1, <1>5 DEF Panel, Shows
<1>8. BelowBlank(t)
  <2>1. ASSUME NEW x \in 0 .. VisW - 1, NEW y \in cy + 1 .. VisH - 1
        PROVE  g[Offset(x, y)] = Space
    <3>1. y \in 0 .. VisH - 1 /\ y # cy
      BY <1>1
    <3>2. g[Offset(x, y)] = s.cells[Offset(x, y)]
      BY <1>6, <3>1
    <3> QED BY <3>2 DEF BelowBlank, CellAt
  <2> HIDE DEF t
  <2> QED BY <1>7, <2>1 DEF BelowBlank, CellAt
<1> HIDE DEF t
<1> DEFINE u == set_xy(t, cx + 1, cy)
<1>9. Panel(u) /\ BelowBlank(u)
  <2> DEFINE x1 == cx + 1
  <2>1. x1 \in Int
    BY <1>2
  <2> HIDE DEF x1
  <2>2. Panel(set_xy(t, x1, t.cursor.y)) /\ BelowBlank(set_xy(t, x1, t.cursor.y))
    BY <1>7, <1>8, <2>1, PanelGoes
  <2> QED BY <1>7, <2>2 DEF x1
<1>10. ASSUME cx + 1 < VisW PROVE MovedTo(t, cx + 1, cy, u)
  <2> DEFINE x1 == cx + 1
  <2>1. x1 \in 0 .. VisW - 1
    BY <1>1, <1>10, Sizes
  <2> HIDE DEF x1, cy
  <2>2. MovedTo(t, x1, cy, set_xy(t, x1, cy))
    BY <1>1, <1>7, <2>1, PanelMoves
  <2> QED BY <2>2 DEF x1
<1> HIDE DEF u
<1>11. ASSUME cx + 1 < VisW
       PROVE  /\ u.cursor.x = cx + 1 /\ u.cursor.y = cy
              /\ \A x \in 0 .. VisW - 1 : CellAt(u, x, cy) = IF x = cx THEN c ELSE CellAt(s, x, cy)
  BY <1>1, <1>6, <1>7, <1>10, <1>11, Zenon DEF MovedTo, CellAt
<1> QED BY <1>4, <1>9, <1>11, Zenon DEF u

(* The cells from the cursor to the end of its line.                       *)
LEMMA LineFromHas ==
  ASSUME NEW s, Panel(s)
  PROVE  /\ LineFrom(s) \in Areas /\ InMatrix(LineFrom(s))
         /\ LineFrom(s).w = VisW - s.cursor.x /\ LineFrom(s).h = 1
         /\ \A x \in Int : \A y \in Int :
              InRect(LineFrom(s), x, y) <=> y = s.cursor.y /\ s.cursor.x <= x /\ x < VisW
         /\ \A x \in 0 .. VisW - 1 : \A y \in 0 .. VisH - 1 :
              Offset(x, y) \in Cells(LineFrom(s)) <=> y = s.cursor.y /\ s.cursor.x <= x
<1> DEFINE q == LineFrom(s)
           cx == s.cursor.x
           cy == s.cursor.y
<1>1. /\ cx \in 0 .. VisW - 1 /\ cy \in 0 .. VisH - 1 /\ s.region.x = 0 /\ s.region.y = 0
      /\ s.region.w = VisW /\ InMatrix(Full) /\ Full.x = 0 /\ Full.y = 0
      /\ Full.w = VisW /\ Full.h = VisH
  BY PanelCursor, FullIs DEF Panel
<1>2. q.x = cx /\ q.y = cy /\ q.w = VisW - cx /\ q.h = 1
  BY <1>1 DEF LineFrom
<1>3. q \in Areas
  BY <1>1, Sizes DEF LineFrom, Areas
<1> HIDE DEF q
<1>4. InMatrix(q)
  BY <1>1, <1>2, Sizes DEF InMatrix
<1>5. ASSUME NEW x \in Int, NEW y \in Int
      PROVE  InRect(q, x, y) <=> y = cy /\ cx <= x /\ x < VisW
  BY <1>1, <1>2, Sizes DEF InRect
<1>6. ASSUME NEW x \in 0 .. VisW - 1, NEW y \in 0 .. VisH - 1
      PROVE  Offset(x, y) \in Cells(q) <=> y = cy /\ cx <= x
  <2> DEFINE f == Full
  <2>1. x \in f.x .. f.x + f.w - 1 /\ y \in f.y .. f.y + f.h - 1 /\ InMatrix(f)
    BY <1>1, Sizes
  <2> HIDE DEF f
  <2>2. Offset(x, y) \in Cells(q) <=> InRect(q, x, y)
    BY <1>4, <2>1, InPart
  <2>3. x \in Int /\ y \in Int /\ x < VisW
    BY Sizes
  <2> QED BY <1>5, <2>2, <2>3
<1> QED BY <1>2, <1>3, <1>4, <1>5, <1>6 DEF q

OtherRows(s, t) ==
  \A x \in 0 .. VisW - 1 : \A y \in 0 .. VisH - 1 :
    y # s.cursor.y => CellAt(t, x, y) = CellAt(s, x, y)

(* The rows below stay blank if only the cursor's changes.                 *)
LEMMA OtherRowsBelow ==
  ASSUME NEW s, NEW t, Panel(s), OtherRows(s, t), t.cursor = s.cursor, BelowBlank(s)
  PROVE  BelowBlank(t)
<1>1. s.cursor.y \in 0 .. VisH - 1
  BY PanelCursor
<1>2. \A y \in s.cursor.y + 1 .. VisH - 1 : y \in 0 .. VisH - 1 /\ y # s.cursor.y
  BY <1>1, Sizes
<1> QED BY <1>2, Zenon DEF BelowBlank, OtherRows

(* Erasing from the cursor to the end of its line.                         *)
LEMMA PanelClears ==
  ASSUME NEW s, Panel(s)
  PROVE  /\ Panel(txt_clear_line(s, 0)) /\ txt_clear_line(s, 0).cursor = s.cursor
         /\ OtherRows(s, txt_clear_line(s, 0))
         /\ \A x \in 0 .. VisW - 1 :
              CellAt(txt_clear_line(s, 0), x, s.cursor.y)
                = IF s.cursor.x <= x THEN Space ELSE CellAt(s, x, s.cursor.y)
<1> DEFINE q == LineFrom(s)
           t == Erase(s, q)
           u == set_region(t, s.region)
<1>0. s \in Shows(Ink) /\ s \in Loose(Ink) /\ Space \in Ink /\ s.region = Full
      /\ s.cursor.y \in 0 .. VisH - 1 /\ s.cursor.x \in 0 .. VisW - 1
  BY PanelCursor DEF Panel
<1>1. /\ q \in Areas /\ q.w = VisW - s.cursor.x /\ q.h = 1
      /\ \A x \in 0 .. VisW - 1 : \A y \in 0 .. VisH - 1 :
              Offset(x, y) \in Cells(q) <=> y = s.cursor.y /\ s.cursor.x <= x
  BY LineFromHas
<1> HIDE DEF q
<1>2. q.w # 0 /\ q.h # 0
  BY <1>0, <1>1, Sizes
<1>3. txt_clear_line(s, 0) = u
  BY DEF txt_clear_line, q
<1>4. /\ t \in Loose(Ink) /\ t.cursor = s.cursor
      /\ \A o \in Memory : t.cells[o] = IF o \in Cells(q) THEN Space ELSE s.cells[o]
  BY <1>0, <1>1, <1>2, EraseIs
<1> HIDE DEF t
<1>5. u \in Shows(Ink) /\ u.region = s.region /\ u.cells = t.cells /\ u.cursor = t.cursor
  BY <1>0, <1>4, RegionBack
<1> HIDE DEF u
<1>6. ASSUME NEW x \in 0 .. VisW - 1, NEW y \in 0 .. VisH - 1
      PROVE  CellAt(u, x, y) = IF y = s.cursor.y /\ s.cursor.x <= x THEN Space ELSE CellAt(s, x, y)
  <2>1. Offset(x, y) \in Memory
    <3>1. x \in 0 .. MaxW - 1 /\ y \in 0 .. MaxH - 1
      BY Sizes
    <3> QED BY <3>1, OffsetInside
  <2> QED BY <1>1, <1>4, <1>5, <2>1, Zenon DEF CellAt
<1>7. OtherRows(s, u)
  BY <1>6 DEF OtherRows
<1> QED BY <1>0, <1>3, <1>4, <1>5, <1>6, <1>7 DEF Panel

(* Deleting one character moves the rest of the row.                       *)
LEMMA PanelDeletes ==
  ASSUME NEW s, Panel(s)
  PROVE  /\ Panel(DeleteOne(s)) /\ DeleteOne(s).cursor = s.cursor /\ OtherRows(s, DeleteOne(s))
         /\ s.cursor.x > 0 => \A x \in 0 .. VisW - 1 :
              CellAt(DeleteOne(s), x, s.cursor.y)
                = IF x < s.cursor.x THEN CellAt(s, x, s.cursor.y)
                  ELSE IF x + 1 < VisW THEN CellAt(s, x + 1, s.cursor.y) ELSE Space
<1> DEFINE q == LineFrom(s)
           n == IF 1 > s.cursor.x THEN s.cursor.x ELSE 1
           z == 0
           t == set_region(s, q)
           w == scroll(t, n, z)
           u == set_region(w, s.region)
           cy == s.cursor.y
<1>0. s \in Shows(Ink) /\ s \in Loose(Ink) /\ Space \in Ink /\ s.region = Full
      /\ cy \in 0 .. VisH - 1 /\ s.cursor.x \in 0 .. VisW - 1 /\ s.cells \in Grid(Ink)
  BY PanelCursor DEF Panel
<1>1. /\ q \in Areas /\ InMatrix(q) /\ q.w = VisW - s.cursor.x /\ q.h = 1
      /\ \A x \in Int : \A y \in Int :
              InRect(q, x, y) <=> y = cy /\ s.cursor.x <= x /\ x < VisW
  BY LineFromHas
<1>2. DeleteOne(s) = u
  <2>1. 1 > 0
    OBVIOUS
  <2> QED BY <2>1, Zenon DEF DeleteOne, txt_delete
<1>3. n \in Int /\ n \in 0 .. 1 /\ (s.cursor.x > 0 => n = 1) /\ z \in Int
  BY <1>0
<1> HIDE DEF q, n
<1>4. q.w # 0 /\ q.h # 0 /\ n \in -q.w .. q.w /\ z \in -q.h .. q.h
  BY <1>0, <1>1, <1>3, Sizes
<1> HIDE DEF z
<1>5. /\ t \in Loose(Ink) /\ t.region = q /\ t.cells = s.cells /\ t.cursor = s.cursor
  BY <1>0, <1>1, <1>4, SetRegionIs
<1> HIDE DEF t
<1>6. /\ w \in Loose(Ink) /\ w.cursor = t.cursor
  BY <1>0, <1>3, <1>5, ScrollLoose
<1>7. w.cells = Scrolled(s.cells, q, n, z)
  <2> DEFINE g == Scrolled(t.cells, t.region, n, z)
  <2>1. t.cells \in Grid(Ink) /\ InMatrix(t.region) /\ n \in -t.region.w .. t.region.w
        /\ z \in -t.region.h .. t.region.h
    BY <1>0, <1>1, <1>4, <1>5
  <2>2. w = [t EXCEPT !.cells = g]
    BY <2>1, ScrollIs
  <2> HIDE DEF w, g
  <2>3. w.cells = g
    BY <1>5, <2>2 DEF Loose
  <2> QED BY <1>5, <2>3, Zenon DEF g
<1> HIDE DEF w
<1>8. u \in Shows(Ink) /\ u.region = s.region /\ u.cells = w.cells /\ u.cursor = w.cursor
  BY <1>0, <1>6, RegionBack
<1> HIDE DEF u
<1>9. ASSUME NEW x \in 0 .. VisW - 1, NEW y \in 0 .. VisH - 1
      PROVE  CellAt(u, x, y) = IF ~(y = cy /\ s.cursor.x <= x) THEN CellAt(s, x, y)
                               ELSE IF x + n < VisW THEN CellAt(s, x + n, y) ELSE Space
  <2> DEFINE c == s.cells
  <2>1. x \in 0 .. MaxW - 1 /\ y \in 0 .. MaxH - 1 /\ x < VisW /\ x \in Int /\ y \in Int
    BY Sizes
  <2>2. Scrolled(c, q, n, z)[Offset(x, y)] =
          IF ~InRect(q, x, y) THEN c[Offset(x, y)]
          ELSE IF InRect(q, x + n, y + z) THEN c[Offset(x + n, y + z)] ELSE Space
    <3>1. InMatrix(q) /\ n \in Int /\ z \in Int
      BY <1>1, <1>3
    <3> HIDE DEF c
    <3> QED BY <2>1, <3>1, ScrolledAt
  <2>3. InRect(q, x, y) <=> y = cy /\ s.cursor.x <= x
    BY <1>1, <2>1
  <2>4. y + z = y /\ x + n \in Int
    BY <1>3, <2>1 DEF z
  <2>5. y = cy /\ s.cursor.x <= x => (InRect(q, x + n, y) <=> x + n < VisW)
    <3>1. InRect(q, x + n, y) <=> y = cy /\ s.cursor.x <= x + n /\ x + n < VisW
      BY <1>1, <2>1, <2>4
    <3>2. s.cursor.x <= x => s.cursor.x <= x + n
      BY <1>0, <1>3, <2>1
    <3> QED BY <3>1, <3>2
  <2> QED BY <1>7, <1>8, <2>2, <2>3, <2>4, <2>5, Zenon DEF CellAt
<1>10. OtherRows(s, u)
  BY <1>9, Zenon DEF OtherRows
<1>11. ASSUME s.cursor.x > 0, NEW x \in 0 .. VisW - 1
       PROVE  CellAt(u, x, cy) = IF x < s.cursor.x THEN CellAt(s, x, cy)
                                 ELSE IF x + 1 < VisW THEN CellAt(s, x + 1, cy) ELSE Space
  <2>1. n = 1
    BY <1>3, <1>11
  <2>2. x < s.cursor.x <=> ~(s.cursor.x <= x)
    BY <1>0
  <2>3. CellAt(u, x, cy) = IF ~(cy = cy /\ s.cursor.x <= x) THEN CellAt(s, x, cy)
                           ELSE IF x + n < VisW THEN CellAt(s, x + n, cy) ELSE Space
    BY <1>0, <1>9, Zenon
  <2> QED BY <2>1, <2>2, <2>3, Zenon
<1> QED BY <1>0, <1>2, <1>5, <1>6, <1>8, <1>10, <1>11 DEF Panel

(* Printing a text from a panel on.                                        *)
Panels == {s \in Shows(Ink) : s.region = Full /\ BelowBlank(s)}
Writes(s, text, n, t) ==
  s.cursor.x + n < VisW =>
    /\ t.cursor.x = s.cursor.x + n /\ t.cursor.y = s.cursor.y
    /\ \A x \in 0 .. VisW - 1 :
         CellAt(t, x, s.cursor.y) = IF s.cursor.x <= x /\ x < s.cursor.x + n
                                    THEN text[x - s.cursor.x + 1] ELSE CellAt(s, x, s.cursor.y)

(* A panel with nothing below the cursor's row.                            *)
LEMMA PanelsAre == ASSUME NEW s PROVE s \in Panels <=> Panel(s) /\ BelowBlank(s)
BY DEF Panels, Panel

(* Printing puts the characters one by one.                                *)
LEMMA PrintTurns ==
  ASSUME NEW s \in Panels, NEW text \in Seq(Ink)
  PROVE  \E f \in [0 .. Len(text) -> Panels] :
           /\ PrintText(s, text) = f[Len(text)] /\ f[0] = s
           /\ \A n \in 1 .. Len(text) : f[n] = put(f[n - 1], text[n])
<1> DEFINE X == Panels
           m == Len(text)
           step == [p \in X \X (1 .. m) |-> put(p[1], text[p[2]])]
           Loops(g) == g = [n \in 0 .. m |-> IF n = 0 THEN s ELSE put(g[n - 1], text[n])]
           g == CHOOSE g : Loops(g)
<1>1. m \in Nat /\ s \in X
  OBVIOUS
<1>2. step \in [X \X (1 .. m) -> X]
  <2>1. ASSUME NEW c \in X, NEW n \in 1 .. m PROVE put(c, text[n]) \in X
    <3> DEFINE d == text[n]
    <3>1. Panel(c) /\ BelowBlank(c) /\ d \in Ink
      BY PanelsAre
    <3> HIDE DEF d
    <3>2. Panel(put(c, d)) /\ BelowBlank(put(c, d))
      BY <3>1, PanelPuts
    <3> QED BY <3>2, PanelsAre DEF d
  <2> HIDE DEF X, m
  <2> QED BY <2>1
<1>3. PrintText(s, text) = g[m]
  BY DEF PrintText, ForEach
<1> HIDE DEF step
<1>4. PICK f \in [0 .. m -> X] : Turns(f, m, s, step)
  <2> HIDE DEF X, m
  <2> QED BY <1>1, <1>2, TurnsExist
<1>5. f[0] = s
  BY <1>1, <1>4 DEF Turns
<1>6. ASSUME NEW n \in 1 .. m
      PROVE  f[n] = put(f[n - 1], text[n])
  <2>1. f[n] = step[<<f[n - 1], n>>]
    BY <1>1, <1>4 DEF Turns
  <2>2. f[n - 1] \in X
    <3> HIDE DEF X, m
    <3> QED BY <1>1, <1>4
  <2> HIDE DEF X, m
  <2> QED BY <2>1, <2>2 DEF step
<1>7. Loops(f)
  <2>1. f = [n \in 0 .. m |-> f[n]]
    OBVIOUS
  <2>2. \A n \in 0 .. m : n # 0 => n \in 1 .. m
    BY <1>1
  <2> HIDE DEF m
  <2> QED BY <1>5, <1>6, <2>1, <2>2, Zenon
<1>8. Loops(g)
  <2> HIDE DEF Loops
  <2> QED BY <1>7, Zenon
<1> HIDE DEF g
<1>9. f[m] = g[m]
  <2>1. /\ g[0] = s /\ \A n \in 1 .. m : g[n] = put(g[n - 1], text[n])
    <3>1. 0 \in 0 .. m /\ \A n \in 1 .. m : n \in 0 .. m /\ n # 0
      BY <1>1
    <3> HIDE DEF m
    <3> QED BY <1>8, <3>1, Zenon
  <2> HIDE DEF m, X, Loops
  <2>2. SameTurns(f, g, m)
    BY <1>5, <1>6, <2>1, Zenon DEF SameTurns
  <2>3. \A n \in 0 .. m : f[n] = g[n]
    BY <1>1, <2>2, TurnsDetermined, Zenon
  <2>4. m \in 0 .. m
    BY <1>1
  <2> QED BY <2>3, <2>4, Zenon
<1> QED BY <1>3, <1>5, <1>6, <1>9, Zenon

(* One more character of the text is written.                              *)
LEMMA WritesOne ==
  ASSUME NEW s \in Panels, NEW text \in Seq(Ink), NEW n \in Nat, n + 1 <= Len(text),
         NEW t \in Panels, Writes(s, text, n, t)
  PROVE  Writes(s, text, n + 1, put(t, text[n + 1]))
<1> DEFINE cx == s.cursor.x
           cy == s.cursor.y
           c == text[n + 1]
           u == put(t, c)
<1>1. /\ Panel(t) /\ BelowBlank(t) /\ Panel(s) /\ cx \in 0 .. VisW - 1 /\ cy \in 0 .. VisH - 1
      /\ c \in Ink
  BY PanelsAre, PanelCursor
<1> HIDE DEF c
<1>2. SUFFICES ASSUME cx + (n + 1) < VisW
               PROVE  /\ u.cursor.x = cx + (n + 1) /\ u.cursor.y = cy
                      /\ \A x \in 0 .. VisW - 1 :
                           CellAt(u, x, cy) = IF cx <= x /\ x < cx + (n + 1)
                                              THEN text[x - cx + 1] ELSE CellAt(s, x, cy)
  BY DEF Writes, c
<1>3. /\ t.cursor.x = cx + n /\ t.cursor.y = cy
      /\ \A x \in 0 .. VisW - 1 :
           CellAt(t, x, cy) = IF cx <= x /\ x < cx + n THEN text[x - cx + 1] ELSE CellAt(s, x, cy)
  BY <1>1, <1>2, Sizes DEF Writes
<1>4. t.cursor.x + 1 < VisW
  BY <1>1, <1>2, <1>3, Sizes
<1>5. /\ u.cursor.x = t.cursor.x + 1 /\ u.cursor.y = t.cursor.y
      /\ \A x \in 0 .. VisW - 1 :
           CellAt(u, x, cy) = IF x = t.cursor.x THEN c ELSE CellAt(t, x, cy)
  BY <1>1, <1>3, <1>4, PanelPuts
<1> HIDE DEF u
<1>6. ASSUME NEW x \in 0 .. VisW - 1
      PROVE  CellAt(u, x, cy) = IF cx <= x /\ x < cx + (n + 1)
                                THEN text[x - cx + 1] ELSE CellAt(s, x, cy)
  <2>1. CASE x = cx + n
    <3>1. cx <= x /\ x < cx + (n + 1) /\ x - cx + 1 = n + 1
      BY <1>1, <2>1, Sizes
    <3>2. CellAt(u, x, cy) = c
      BY <1>3, <1>5, <2>1
    <3> QED BY <3>1, <3>2, Zenon DEF c
  <2>2. CASE x # cx + n
    <3>1. (cx <= x /\ x < cx + (n + 1)) <=> (cx <= x /\ x < cx + n)
      <4>1. cx \in Int /\ x \in Int
        BY <1>1, Sizes
      <4> HIDE DEF cx
      <4> QED BY <2>2, <4>1
    <3>2. CellAt(u, x, cy) = CellAt(t, x, cy)
      BY <1>3, <1>5, <2>2
    <3> QED BY <1>3, <3>1, <3>2, Zenon
  <2> QED BY <2>1, <2>2
<1>7. u.cursor.x = cx + (n + 1) /\ u.cursor.y = cy
  <2>1. cx \in Int
    BY <1>1, Sizes
  <2> HIDE DEF cx
  <2>2. (cx + n) + 1 = cx + (n + 1)
    BY <2>1
  <2> QED BY <1>3, <1>5, <2>2, Zenon
<1> QED BY <1>6, <1>7

(* A text that fits on the row is written there.                           *)
LEMMA Printed ==
  ASSUME NEW s \in Panels, NEW text \in Seq(Ink)
  PROVE  PrintText(s, text) \in Panels /\ Writes(s, text, Len(text), PrintText(s, text))
<1> DEFINE m == Len(text)
<1>0. m \in Nat
  OBVIOUS
<1>1. PICK f \in [0 .. m -> Panels] :
        /\ PrintText(s, text) = f[m] /\ f[0] = s
        /\ \A n \in 1 .. m : f[n] = put(f[n - 1], text[n])
  BY PrintTurns
<1> DEFINE T == {n \in Nat : n <= m => Writes(s, text, n, f[n])}
<1>2. 0 \in T
  <2>1. s.cursor.x \in 0 .. VisW - 1
    BY PanelsAre, PanelCursor
  <2>2. Writes(s, text, 0, s)
    <3>1. s.cursor.x + 0 = s.cursor.x
      BY <2>1
    <3>2. \A x \in 0 .. VisW - 1 : ~(s.cursor.x <= x /\ x < s.cursor.x + 0)
      BY <2>1, Sizes
    <3> QED BY <3>1, <3>2, Zenon DEF Writes
  <2> QED BY <1>1, <2>2
<1>3. ASSUME NEW n \in Nat, n \in T PROVE n + 1 \in T
  <2> SUFFICES ASSUME n + 1 <= m PROVE Writes(s, text, n + 1, f[n + 1])
    OBVIOUS
  <2>1. n \in 0 .. m /\ n + 1 \in 1 .. m /\ (n + 1) - 1 = n
    BY <1>0
  <2> DEFINE t == f[n]
  <2>2. t \in Panels /\ Writes(s, text, n, t)
    BY <1>1, <1>3, <2>1
  <2>3. f[n + 1] = put(t, text[n + 1])
    BY <1>1, <2>1
  <2> HIDE DEF t, T
  <2>4. Writes(s, text, n + 1, put(t, text[n + 1]))
    BY <2>2, WritesOne
  <2> QED BY <2>3, <2>4, Zenon
<1> HIDE DEF T, m
<1>4. Nat \subseteq T
  BY <1>2, <1>3, Induction
<1>5. Writes(s, text, m, f[m]) /\ f[m] \in Panels
  <2>1. m \in 0 .. m /\ m <= m /\ m \in T
    BY <1>0, <1>4
  <2> QED BY <1>1, <2>1 DEF T
<1> QED BY <1>1, <1>5 DEF m

-----------------------------------------------------------------------------
(* The editor and its screen.                                              *)
Editors == [line : Buffers, i : 0 .. MaxLine, history : 0 .. Depth,
            past : [1 .. Depth -> Texts], screen : Panels]
Placed(e) == e.i <= StrLen(e.line)

\* The cells behind the prompt are those of the buffer.
ShowsLine(s, line) ==
  \A k \in 0 .. VisW - 1 - Margin :
    CellAt(s, Margin + k, s.cursor.y) = IF k < StrLen(line) THEN line[k] ELSE Space

(* Shown, in terms of the buffer's characters.                             *)
LEMMA ShownIs ==
  ASSUME NEW s, NEW line \in Buffers, NEW i
  PROVE  Shown(s, line, i) <=> s.cursor.x = Margin + i /\ ShowsLine(s, line)
<1> DEFINE text == Text(line)
           m == StrLen(line)
<1>1. /\ VisW \in Nat /\ Margin = 2 /\ VisW > Margin /\ m \in Nat /\ Len(text) = m
      /\ \A k \in 1 .. m : text[k] = line[k - 1]
  BY Sizes, CliSizes, TextEnds
<1> HIDE DEF text, m
<1>2. ASSUME NEW x \in Margin .. VisW - 1
      PROVE  Row(s)[x] = CellAt(s, x, s.cursor.y)
  <2>1. x \in 0 .. VisW - 1
    BY <1>1
  <2> QED BY <2>1, Zenon DEF Row, CellAt
<1>3. Shown(s, line, i) <=>
        /\ s.cursor.x = Margin + i
        /\ \A x \in Margin .. VisW - 1 :
             CellAt(s, x, s.cursor.y) = IF x - Margin < m THEN text[x - Margin + 1] ELSE Space
  BY <1>1, <1>2, Zenon DEF Shown, text
<1>4. ASSUME NEW k \in 0 .. VisW - 1 - Margin
      PROVE  /\ Margin + k \in Margin .. VisW - 1 /\ (Margin + k) - Margin = k
             /\ k < m => text[k + 1] = line[k]
  <2>1. k < m => k + 1 \in 1 .. m /\ (k + 1) - 1 = k
    BY <1>1
  <2>2. k < m => text[k + 1] = line[k]
    BY <1>1, <2>1
  <2> QED BY <1>1, <2>2
<1>5. ASSUME NEW x \in Margin .. VisW - 1
      PROVE  /\ x - Margin \in 0 .. VisW - 1 - Margin /\ Margin + (x - Margin) = x
             /\ x - Margin < m => text[x - Margin + 1] = line[x - Margin]
  <2>1. x - Margin \in 0 .. VisW - 1 - Margin /\ Margin + (x - Margin) = x
    BY <1>1
  <2> QED BY <1>4, <2>1
<1>6. ASSUME ShowsLine(s, line), NEW x \in Margin .. VisW - 1
      PROVE  CellAt(s, x, s.cursor.y) = IF x - Margin < m THEN text[x - Margin + 1] ELSE Space
  <2> DEFINE k == x - Margin
  <2>1. k \in 0 .. VisW - 1 - Margin /\ Margin + k = x
    BY <1>5
  <2>2. CellAt(s, Margin + k, s.cursor.y) = IF k < m THEN line[k] ELSE Space
    BY <1>6, <2>1, Zenon DEF ShowsLine, m
  <2> QED BY <1>5, <2>1, <2>2, Zenon
<1>7. ASSUME \A x \in Margin .. VisW - 1 :
               CellAt(s, x, s.cursor.y) = IF x - Margin < m THEN text[x - Margin + 1] ELSE Space
      PROVE  ShowsLine(s, line)
  <2> SUFFICES ASSUME NEW k \in 0 .. VisW - 1 - Margin
               PROVE  CellAt(s, Margin + k, s.cursor.y) = IF k < m THEN line[k] ELSE Space
    BY Zenon DEF ShowsLine, m
  <2> DEFINE x == Margin + k
  <2>1. x \in Margin .. VisW - 1 /\ x - Margin = k
    BY <1>4
  <2>2. CellAt(s, x, s.cursor.y) = IF x - Margin < m THEN text[x - Margin + 1] ELSE Space
    BY <1>7, <2>1, Zenon
  <2> QED BY <1>4, <2>1, <2>2, Zenon
<1> QED BY <1>3, <1>6, <1>7, Zenon

(* A line that fits leaves room for the cursor.                            *)
LEMMA FitsIs ==
  ASSUME NEW line \in Buffers, Fits(line)
  PROVE  StrLen(line) \in Nat /\ Margin + StrLen(line) < VisW
BY TextEnds, CliSizes DEF Fits

(* A move of the cursor alone.                                             *)
LEMMA GoesPanel ==
  ASSUME NEW s \in Panels, NEW x0 \in Int
  PROVE  /\ set_xy(s, x0, s.cursor.y) \in Panels
         /\ x0 \in 0 .. VisW - 1
              => /\ set_xy(s, x0, s.cursor.y).cursor.x = x0
                 /\ set_xy(s, x0, s.cursor.y).cursor.y = s.cursor.y
                 /\ set_xy(s, x0, s.cursor.y).cells = s.cells
<1> DEFINE y == s.cursor.y
           t == set_xy(s, x0, y)
<1>1. Panel(s) /\ BelowBlank(s)
  BY PanelsAre
<1>2. t \in Panels
  <2>1. Panel(t) /\ BelowBlank(t)
    BY <1>1, PanelGoes
  <2> QED BY <2>1, PanelsAre
<1>3. ASSUME x0 \in 0 .. VisW - 1 PROVE MovedTo(s, x0, y, t)
  <2>1. y \in 0 .. VisH - 1
    BY <1>1, PanelCursor
  <2> HIDE DEF y
  <2> QED BY <1>1, <1>3, <2>1, PanelMoves
<1> QED BY <1>2, <1>3, Zenon DEF MovedTo

(* A row shows what it did while its cells are the same.                   *)
LEMMA SameCellsShow ==
  ASSUME NEW s, NEW t, NEW line, ShowsLine(s, line), t.cells = s.cells, t.cursor.y = s.cursor.y
  PROVE  ShowsLine(t, line)
BY Zenon DEF ShowsLine, CellAt

(* The row is blank behind the prompt, and the cursor after it.            *)
LEMMA ClearedLine ==
  ASSUME NEW s \in Panels
  PROVE  /\ ClearAfterPrompt(s) \in Panels /\ ClearAfterPrompt(s).cursor.x = Margin
         /\ \A k \in 0 .. VisW - 1 - Margin :
              CellAt(ClearAfterPrompt(s), Margin + k, ClearAfterPrompt(s).cursor.y) = Space
<1> DEFINE x == Margin
           t == set_xy(s, x, s.cursor.y)
           u == txt_clear_line(t, 0)
<1>1. x \in 0 .. VisW - 1 /\ x \in Int /\ Margin = 2
  BY CliSizes, Sizes
<1>2. ClearAfterPrompt(s) = u
  BY DEF ClearAfterPrompt, GoTo
<1> HIDE DEF x
<1>3. t \in Panels /\ t.cursor.x = x
  BY <1>1, GoesPanel
<1> HIDE DEF t
<1>4. Panel(t) /\ BelowBlank(t)
  BY <1>3, PanelsAre
<1>5. /\ Panel(u) /\ u.cursor = t.cursor /\ OtherRows(t, u)
      /\ \A z \in 0 .. VisW - 1 :
           CellAt(u, z, t.cursor.y) = IF t.cursor.x <= z THEN Space ELSE CellAt(t, z, t.cursor.y)
  BY <1>4, PanelClears
<1> HIDE DEF u
<1>6. BelowBlank(u)
  BY <1>4, <1>5, OtherRowsBelow
<1>7. ASSUME NEW k \in 0 .. VisW - 1 - Margin PROVE CellAt(u, Margin + k, u.cursor.y) = Space
  <2> DEFINE z == Margin + k
  <2>1. z \in 0 .. VisW - 1 /\ Margin <= z
    BY <1>1, Sizes
  <2> HIDE DEF z
  <2>2. CellAt(u, z, u.cursor.y) = Space
    BY <1>3, <1>5, <2>1 DEF x
  <2> QED BY <2>2 DEF z
<1>8. u \in Panels
  BY <1>5, <1>6, PanelsAre
<1> QED BY <1>2, <1>3, <1>5, <1>7, <1>8 DEF x

(* Deleting at a place of the text does to the row what closing the gap    *)
(* does to the buffer.                                                     *)
LEMMA GapClosed ==
  ASSUME NEW s \in Panels, NEW line \in Buffers, NEW j \in Nat, j <= StrLen(line)
  PROVE  /\ DeleteOne(s) \in Panels /\ DeleteOne(s).cursor = s.cursor
         /\ s.cursor.x = Margin + j /\ ShowsLine(s, line) /\ Fits(line)
              => ShowsLine(DeleteOne(s), CloseGap(line, j))
<1> DEFINE t == DeleteOne(s)
           l == CloseGap(line, j)
           m == StrLen(line)
           y == s.cursor.y
<1>1. Panel(s) /\ BelowBlank(s)
  BY PanelsAre
<1>2. /\ Panel(t) /\ t.cursor = s.cursor /\ OtherRows(s, t)
      /\ s.cursor.x > 0 => \A x \in 0 .. VisW - 1 :
           CellAt(t, x, y) = IF x < s.cursor.x THEN CellAt(s, x, y)
                             ELSE IF x + 1 < VisW THEN CellAt(s, x + 1, y) ELSE Space
  BY <1>1, PanelDeletes
<1> HIDE DEF t
<1>3. t \in Panels
  BY <1>1, <1>2, OtherRowsBelow, PanelsAre
<1>4. /\ l \in Buffers /\ StrLen(l) = (IF j < m THEN m - 1 ELSE m)
      /\ \A k \in 0 .. MaxLine : l[k] = IF j <= k /\ k < m THEN line[k + 1] ELSE line[k]
  BY CloseGapIs
<1> HIDE DEF l
<1>5. ASSUME s.cursor.x = Margin + j, ShowsLine(s, line), Fits(line) PROVE ShowsLine(t, l)
  <2>1. /\ m \in Nat /\ Margin + m < VisW /\ Margin = 2 /\ VisW \in Nat
        /\ m <= MaxLine /\ MaxLine \in Nat
    BY <1>5, FitsIs, CliSizes, Sizes, TextEnds
  <2>2. s.cursor.x > 0
    BY <1>5, <2>1
  <2> HIDE DEF m, y
  <2>3. ASSUME NEW k \in 0 .. VisW - 1 - Margin
        PROVE  CellAt(s, Margin + k, y) = IF k < m THEN line[k] ELSE Space
    BY <1>5, Zenon DEF ShowsLine, m, y
  <2>4. ASSUME NEW k \in 0 .. VisW - 1 - Margin
        PROVE  CellAt(t, Margin + k, y) = IF k < StrLen(l) THEN l[k] ELSE Space
    <3>1. /\ Margin + k \in 0 .. VisW - 1 /\ (Margin + k < Margin + j <=> k < j)
          /\ (Margin + k) + 1 = Margin + (k + 1)
          /\ (Margin + (k + 1) < VisW <=> k + 1 \in 0 .. VisW - 1 - Margin)
      BY <2>1
    <3>2. CellAt(t, Margin + k, y) =
            IF k < j THEN CellAt(s, Margin + k, y)
            ELSE IF k + 1 \in 0 .. VisW - 1 - Margin THEN CellAt(s, Margin + (k + 1), y) ELSE Space
      BY <1>2, <1>5, <2>2, <3>1, Zenon
    <3>3. CASE k < j
      <4>1. k < m /\ k < StrLen(l) /\ k \in 0 .. MaxLine /\ ~(j <= k)
        BY <1>4, <2>1, <3>3 DEF m
      <4> QED BY <1>4, <2>3, <3>2, <3>3, <4>1, Zenon
    <3>4. CASE ~(k < j) /\ k + 1 \in 0 .. VisW - 1 - Margin
      <4>1. CellAt(t, Margin + k, y) = IF k + 1 < m THEN line[k + 1] ELSE Space
        BY <2>3, <3>2, <3>4, Zenon
      <4>2. k < StrLen(l) <=> k + 1 < m
        BY <1>4, <2>1, <3>4 DEF m
      <4>3. k + 1 < m => k \in 0 .. MaxLine /\ j <= k /\ k < m
        BY <2>1, <3>4
      <4> QED BY <1>4, <4>1, <4>2, <4>3, Zenon
    <3>5. CASE ~(k < j) /\ k + 1 \notin 0 .. VisW - 1 - Margin
      <4>1. ~(k < StrLen(l))
        BY <1>4, <2>1, <3>5 DEF m
      <4> QED BY <3>2, <3>5, <4>1, Zenon
    <3> QED BY <3>3, <3>4, <3>5
  <2> QED BY <1>2, <2>4, Zenon DEF ShowsLine, y
<1> QED BY <1>2, <1>3, <1>5 DEF t, l

-----------------------------------------------------------------------------
(* What every operation of the editor keeps, and that a line which fits    *)
(* stays shown as it is held.                                              *)
Alike(e) == Shown(e.screen, e.line, e.i)
With(e, l, j, h, s) == [e EXCEPT !.line = l, !.i = j, !.history = h, !.screen = s]
Holds(e, l, j, s) ==
  Alike(e) /\ Fits(e.line) /\ Fits(l) /\ ~TailHidden(e.line)
    => s.cursor.x = Margin + j /\ ShowsLine(s, l)
Sound(e, e2) ==
  /\ e2 \in Editors /\ Placed(e2) /\ e2.past = e.past
  /\ Alike(e) /\ Fits(e.line) /\ Fits(e2.line) /\ ~TailHidden(e.line) => Alike(e2)

(* The parts of an editor.                                                 *)
LEMMA EditorHas ==
  ASSUME NEW e \in Editors
  PROVE  /\ e.line \in Buffers /\ e.i \in 0 .. MaxLine /\ e.history \in 0 .. Depth
         /\ e.past \in [1 .. Depth -> Texts] /\ e.screen \in Panels
         /\ Alike(e) <=> e.screen.cursor.x = Margin + e.i /\ ShowsLine(e.screen, e.line)
<1>1. /\ e.line \in Buffers /\ e.i \in 0 .. MaxLine /\ e.history \in 0 .. Depth
      /\ e.past \in [1 .. Depth -> Texts] /\ e.screen \in Panels
  BY DEF Editors
<1> QED BY <1>1, ShownIs DEF Alike

(* An operation is sound that leaves the row as it leaves the buffer.      *)
LEMMA WithSound ==
  ASSUME NEW e \in Editors, NEW l \in Buffers, NEW j \in Nat, j <= StrLen(l),
         NEW h \in 0 .. Depth, NEW s \in Panels, Holds(e, l, j, s)
  PROVE  Sound(e, With(e, l, j, h, s))
<1> DEFINE e2 == With(e, l, j, h, s)
<1>1. j \in 0 .. MaxLine
  BY TextEnds, CliSizes
<1>2. /\ e2 \in Editors /\ e2.line = l /\ e2.i = j /\ e2.past = e.past /\ e2.screen = s
  BY <1>1 DEF With, Editors
<1> HIDE DEF e2
<1>3. Alike(e2) <=> s.cursor.x = Margin + j /\ ShowsLine(s, l)
  BY <1>2, EditorHas
<1> QED BY <1>2, <1>3 DEF Sound, Placed, Holds, e2

(* So is one that does nothing.                                            *)
LEMMA SoundSame == ASSUME NEW e \in Editors, Placed(e) PROVE Sound(e, e)
BY DEF Sound

(* The escape key.                                                         *)
LEMMA EscapeSound == ASSUME NEW e \in Editors PROVE Sound(e, EscapeKey(e))
<1> DEFINE s == ClearAfterPrompt(e.screen)
           l == Blank
<1>1. /\ s \in Panels /\ s.cursor.x = Margin
      /\ \A k \in 0 .. VisW - 1 - Margin : CellAt(s, Margin + k, s.cursor.y) = Space
  BY EditorHas, ClearedLine
<1>2. l \in Buffers /\ StrLen(l) = 0
  BY BlankIs
<1>3. EscapeKey(e) = [e EXCEPT !.line = l, !.i = 0, !.screen = s]
  BY DEF EscapeKey
<1> HIDE DEF s, l
<1>4. EscapeKey(e) = With(e, l, 0, e.history, s)
  BY <1>3 DEF With, Editors
<1>5. Holds(e, l, 0, s)
  <2>1. ShowsLine(s, l)
    <3>1. \A k \in 0 .. VisW - 1 - Margin : ~(k < StrLen(l))
      BY <1>2, Sizes, CliSizes
    <3> QED BY <1>1, <3>1, Zenon DEF ShowsLine
  <2> QED BY <1>1, <2>1, CliSizes DEF Holds
<1>6. e.history \in 0 .. Depth /\ 0 \in Nat /\ 0 <= StrLen(l)
  BY <1>2, EditorHas
<1> DEFINE zero == 0
           h == e.history
<1> HIDE DEF zero, h
<1>7. Sound(e, With(e, l, zero, h, s))
  BY <1>1, <1>2, <1>5, <1>6, WithSound DEF zero, h
<1> QED BY <1>4, <1>7 DEF zero, h

(* The delete key.                                                         *)
LEMMA DeleteSound == ASSUME NEW e \in Editors, Placed(e) PROVE Sound(e, DeleteKey(e))
<1> DEFINE s == DeleteOne(e.screen)
           l == CloseGap(e.line, e.i)
           j == e.i
           h == e.history
<1>1. /\ e.line \in Buffers /\ j \in Nat /\ h \in 0 .. Depth /\ e.screen \in Panels
      /\ j <= StrLen(e.line) /\ StrLen(e.line) \in Nat
  BY EditorHas, CliSizes, TextEnds DEF Placed
<1>2. DeleteKey(e) = [e EXCEPT !.line = l, !.screen = s]
  BY DEF DeleteKey
<1> HIDE DEF j
<1>3. l \in Buffers /\ j <= StrLen(l)
  <2>1. /\ l \in Buffers
        /\ StrLen(l) = IF j < StrLen(e.line) THEN StrLen(e.line) - 1 ELSE StrLen(e.line)
    BY <1>1, CloseGapIs DEF j
  <2> QED BY <1>1, <2>1
<1>4. /\ s \in Panels /\ s.cursor = e.screen.cursor
      /\ e.screen.cursor.x = Margin + j /\ ShowsLine(e.screen, e.line) /\ Fits(e.line)
           => ShowsLine(s, l)
  BY <1>1, GapClosed DEF j
<1> HIDE DEF l, s, h
<1>5. Holds(e, l, j, s)
  BY <1>4, EditorHas DEF Holds, j
<1>6. DeleteKey(e) = With(e, l, j, h, s)
  BY <1>2 DEF With, Editors, j, h
<1> QED BY <1>1, <1>3, <1>4, <1>5, <1>6, WithSound

(* The backspace key.                                                      *)
LEMMA BackspaceSound == ASSUME NEW e \in Editors, Placed(e) PROVE Sound(e, Backspace(e))
<1>1. CASE e.i > 0
  <2> DEFINE j == e.i - 1
             x0 == e.screen.cursor.x + (-1)
             t == set_xy(e.screen, x0, e.screen.cursor.y)
             s == DeleteOne(t)
             l == CloseGap(e.line, j)
             h == e.history
  <2>1. /\ e.line \in Buffers /\ j \in Nat /\ h \in 0 .. Depth /\ e.screen \in Panels
        /\ j <= StrLen(e.line) /\ StrLen(e.line) \in Nat /\ e.i \in Nat /\ j < StrLen(e.line)
    BY <1>1, EditorHas, CliSizes, TextEnds DEF Placed
  <2>2. Backspace(e) = [e EXCEPT !.i = j, !.line = l, !.screen = s]
    BY <1>1 DEF Backspace, GoBy
  <2>3. e.screen.cursor.x \in 0 .. VisW - 1 /\ x0 \in Int
    <3>1. e.screen.cursor.x \in 0 .. VisW - 1
      BY <2>1, PanelsAre, PanelCursor
    <3> QED BY <3>1, Sizes
  <2> HIDE DEF j, x0
  <2>4. /\ t \in Panels
        /\ x0 \in 0 .. VisW - 1
             => t.cursor.x = x0 /\ t.cursor.y = e.screen.cursor.y /\ t.cells = e.screen.cells
    BY <2>1, <2>3, GoesPanel
  <2>5. l \in Buffers /\ j <= StrLen(l)
    <3>1. /\ l \in Buffers
          /\ StrLen(l) = IF j < StrLen(e.line) THEN StrLen(e.line) - 1 ELSE StrLen(e.line)
      BY <2>1, CloseGapIs
    <3> QED BY <2>1, <3>1
  <2> HIDE DEF t
  <2>6. /\ s \in Panels /\ s.cursor = t.cursor
        /\ t.cursor.x = Margin + j /\ ShowsLine(t, e.line) /\ Fits(e.line) => ShowsLine(s, l)
    BY <2>1, <2>4, GapClosed
  <2> HIDE DEF l, s, h
  <2>7. Holds(e, l, j, s)
    <3> SUFFICES ASSUME Alike(e), Fits(e.line)
                 PROVE  s.cursor.x = Margin + j /\ ShowsLine(s, l)
      BY DEF Holds
    <3>1. e.screen.cursor.x = Margin + e.i /\ ShowsLine(e.screen, e.line)
      BY EditorHas
    <3>2. x0 = Margin + j /\ x0 \in 0 .. VisW - 1
      BY <2>1, <2>3, <3>1, CliSizes, Sizes DEF j, x0
    <3>3. ShowsLine(t, e.line)
      BY <2>4, <3>1, <3>2, SameCellsShow
    <3> QED BY <2>4, <2>6, <3>2, <3>3
  <2>8. Backspace(e) = With(e, l, j, h, s)
    BY <2>2 DEF With, Editors, h
  <2> QED BY <2>1, <2>5, <2>6, <2>7, <2>8, WithSound
<1>2. CASE ~(e.i > 0)
  BY <1>2, SoundSame DEF Backspace
<1> QED BY <1>1, <1>2

(* A move of the cursor alone, to a place of the text.                     *)
LEMMA MoveSound ==
  ASSUME NEW e \in Editors, NEW j \in Nat, j <= StrLen(e.line), NEW x0 \in Int,
         Alike(e) /\ Fits(e.line) => x0 = Margin + j
  PROVE  Sound(e, [e EXCEPT !.i = j, !.screen = set_xy(@, x0, @.cursor.y)])
<1> DEFINE t == e.screen
           s == set_xy(t, x0, t.cursor.y)
           l == e.line
           h == e.history
<1>1. /\ l \in Buffers /\ h \in 0 .. Depth /\ t \in Panels /\ StrLen(l) \in Nat
  BY EditorHas, TextEnds, CliSizes
<1>2. [e EXCEPT !.i = j, !.screen = set_xy(@, x0, @.cursor.y)] = With(e, l, j, h, s)
  BY DEF With, Editors
<1> HIDE DEF t
<1>3. /\ s \in Panels
      /\ x0 \in 0 .. VisW - 1 => s.cursor.x = x0 /\ s.cursor.y = t.cursor.y /\ s.cells = t.cells
  BY <1>1, GoesPanel
<1> HIDE DEF l, s, h
<1>4. Holds(e, l, j, s)
  <2> SUFFICES ASSUME Alike(e), Fits(l) PROVE s.cursor.x = Margin + j /\ ShowsLine(s, l)
    BY DEF Holds
  <2>1. ShowsLine(t, l)
    BY EditorHas DEF t, l
  <2>2. x0 = Margin + j /\ x0 \in 0 .. VisW - 1
    <3>1. x0 = Margin + j /\ j <= StrLen(l) /\ StrLen(l) \in Nat /\ Margin + StrLen(l) < VisW
      BY <1>1, FitsIs DEF l
    <3> QED BY <3>1, CliSizes, Sizes
  <2>3. ShowsLine(s, l)
    BY <1>3, <2>1, <2>2, SameCellsShow
  <2> QED BY <1>3, <2>2, <2>3
<1> QED BY <1>1, <1>2, <1>3, <1>4, WithSound DEF l

(* The left key, with CTRL or without.                                     *)
LEMMA LeftSound == ASSUME NEW e \in Editors, Placed(e), NEW ctrl PROVE Sound(e, Left(e, ctrl))
<1>0. /\ e.line \in Buffers /\ e.i \in Nat /\ e.screen \in Panels
      /\ e.i <= StrLen(e.line) /\ StrLen(e.line) \in Nat
      /\ Alike(e) <=> e.screen.cursor.x = Margin + e.i /\ ShowsLine(e.screen, e.line)
  BY EditorHas, CliSizes, TextEnds DEF Placed
<1>1. CASE ctrl
  <2> DEFINE j == 0
             x0 == Margin
  <2>1. Left(e, ctrl) = [e EXCEPT !.i = j, !.screen = set_xy(@, x0, @.cursor.y)]
    BY <1>1 DEF Left, GoTo
  <2>2. x0 \in Int /\ j \in Nat /\ j <= StrLen(e.line) /\ x0 = Margin + j
    BY <1>0, CliSizes
  <2> HIDE DEF j, x0
  <2>3. Sound(e, [e EXCEPT !.i = j, !.screen = set_xy(@, x0, @.cursor.y)])
    BY <2>2, MoveSound
  <2> QED BY <2>1, <2>3
<1>2. CASE ~ctrl /\ e.i > 0
  <2> DEFINE j == e.i - 1
             x0 == e.screen.cursor.x + (-1)
  <2>1. Left(e, ctrl) = [e EXCEPT !.i = j, !.screen = set_xy(@, x0, @.cursor.y)]
    BY <1>2 DEF Left, GoBy
  <2>2. e.screen.cursor.x \in 0 .. VisW - 1
    BY <1>0, PanelsAre, PanelCursor
  <2>3. /\ x0 \in Int /\ j \in Nat /\ j <= StrLen(e.line)
        /\ Alike(e) => x0 = Margin + j
    BY <1>0, <1>2, <2>2, CliSizes, Sizes
  <2> HIDE DEF j, x0
  <2>4. Sound(e, [e EXCEPT !.i = j, !.screen = set_xy(@, x0, @.cursor.y)])
    BY <2>3, MoveSound
  <2> QED BY <2>1, <2>4
<1>3. CASE ~ctrl /\ ~(e.i > 0)
  BY <1>3, SoundSame DEF Left
<1> QED BY <1>1, <1>2, <1>3

(* The right key, with CTRL or without.                                    *)
LEMMA RightSound == ASSUME NEW e \in Editors, Placed(e), NEW ctrl PROVE Sound(e, Right(e, ctrl))
<1>0. /\ e.line \in Buffers /\ e.i \in Nat /\ e.screen \in Panels
      /\ e.i <= StrLen(e.line) /\ StrLen(e.line) \in Nat /\ EndsAt(e.line, StrLen(e.line))
      /\ Alike(e) <=> e.screen.cursor.x = Margin + e.i /\ ShowsLine(e.screen, e.line)
  BY EditorHas, CliSizes, TextEnds DEF Placed
<1>1. CASE ctrl
  <2> DEFINE j == StrLen(e.line)
             x0 == Margin + StrLen(e.line)
  <2>1. Right(e, ctrl) = [e EXCEPT !.i = j, !.screen = set_xy(@, x0, @.cursor.y)]
    BY <1>1 DEF Right, GoTo
  <2>2. x0 \in Int /\ j \in Nat /\ j <= StrLen(e.line) /\ x0 = Margin + j
    BY <1>0, CliSizes
  <2> HIDE DEF j, x0
  <2>3. Sound(e, [e EXCEPT !.i = j, !.screen = set_xy(@, x0, @.cursor.y)])
    BY <2>2, MoveSound
  <2> QED BY <2>1, <2>3
<1>2. CASE ~ctrl /\ e.line[e.i] # NUL
  <2> DEFINE j == e.i + 1
             x0 == e.screen.cursor.x + 1
  <2>1. Right(e, ctrl) = [e EXCEPT !.i = j, !.screen = set_xy(@, x0, @.cursor.y)]
    BY <1>2 DEF Right, GoBy
  <2>2. e.screen.cursor.x \in 0 .. VisW - 1
    BY <1>0, PanelsAre, PanelCursor
  <2>3. e.i # StrLen(e.line)
    BY <1>0, <1>2 DEF EndsAt
  <2>4. /\ x0 \in Int /\ j \in Nat /\ j <= StrLen(e.line)
        /\ Alike(e) => x0 = Margin + j
    BY <1>0, <2>2, <2>3, CliSizes, Sizes
  <2> HIDE DEF j, x0
  <2>5. Sound(e, [e EXCEPT !.i = j, !.screen = set_xy(@, x0, @.cursor.y)])
    BY <2>4, MoveSound
  <2> QED BY <2>1, <2>5
<1>3. CASE ~ctrl /\ e.line[e.i] = NUL
  BY <1>3, SoundSame DEF Right
<1> QED BY <1>1, <1>2, <1>3

(* A character typed at a place of the text.                               *)
LEMMA TypedLine ==
  ASSUME NEW line \in Buffers, NEW i \in Nat, i <= StrLen(line), i < MaxLine, NEW c \in Typed
  PROVE  /\ [line EXCEPT ![i] = c] \in Buffers /\ i + 1 <= StrLen([line EXCEPT ![i] = c])
         /\ ~TailHidden(line) => StrLen([line EXCEPT ![i] = c]) =
                                   IF i = StrLen(line) THEN i + 1 ELSE StrLen(line)
<1> DEFINE l == [line EXCEPT ![i] = c]
           m == StrLen(line)
           n == IF i = m THEN i + 1 ELSE m
<1>0. /\ MaxLine \in Nat /\ NUL \notin Typed /\ line[MaxLine] = NUL /\ m \in 0 .. MaxLine
      /\ EndsAt(line, m) /\ line \in [0 .. MaxLine -> Typed \cup {NUL}] /\ i \in 0 .. MaxLine
  BY CliSizes, TextEnds DEF Buffers
<1> HIDE DEF m
<1>1. /\ l \in [0 .. MaxLine -> Typed \cup {NUL}] /\ l[i] = c
      /\ \A k \in 0 .. MaxLine : k # i => l[k] = line[k]
  BY <1>0
<1> HIDE DEF l
<1>2. l \in Buffers
  BY <1>0, <1>1 DEF Buffers
<1>3. c # NUL
  BY <1>0
<1>4. i + 1 <= StrLen(l)
  <2> DEFINE p == StrLen(l)
  <2>1. p \in 0 .. MaxLine /\ l[p] = NUL
    BY <1>2, TextEnds DEF EndsAt
  <2> HIDE DEF p
  <2>2. p # i
    BY <1>1, <1>3, <2>1
  <2>3. ~(p < i)
    <3> SUFFICES ASSUME p < i PROVE FALSE
      OBVIOUS
    <3>1. p \in 0 .. m - 1
      BY <1>0, <2>1 DEF m
    <3>2. line[p] # NUL
      BY <1>0, <3>1, Zenon DEF EndsAt
    <3> QED BY <1>1, <2>1, <2>2, <3>2
  <2>4. i + 1 <= p
    BY <1>0, <2>1, <2>2, <2>3
  <2> QED BY <2>4 DEF p
<1>5. ASSUME ~TailHidden(line) PROVE StrLen(l) = n
  <2>1. n \in 0 .. MaxLine
    BY <1>0
  <2>2. l[n] = NUL
    <3>1. CASE i = m
      <4>1. n = m + 1 /\ n \in m + 1 .. MaxLine /\ n \in 0 .. MaxLine /\ n # i /\ m < MaxLine
        BY <1>0, <3>1
      <4> HIDE DEF n
      <4>2. line[n] = NUL
        BY <1>5, <4>1, Zenon DEF TailHidden, m
      <4> QED BY <1>1, <4>1, <4>2
    <3>2. CASE i # m
      BY <1>0, <1>1, <3>2 DEF EndsAt
    <3> QED BY <3>1, <3>2
  <2>3. ASSUME NEW k \in 0 .. n - 1 PROVE l[k] # NUL
    <3>1. CASE k = i
      BY <1>1, <1>3, <3>1
    <3>2. CASE k # i
      <4>1. k \in 0 .. m - 1 /\ k \in 0 .. MaxLine
        BY <1>0, <3>2 DEF m
      <4>2. line[k] # NUL /\ l[k] = line[k]
        BY <1>0, <1>1, <3>2, <4>1, Zenon DEF EndsAt
      <4> QED BY <4>2
    <3> QED BY <3>1, <3>2
  <2> HIDE DEF n
  <2>4. EndsAt(l, n)
    BY <2>2, <2>3, Zenon DEF EndsAt
  <2> QED BY <2>1, <2>4, TextIs
<1> QED BY <1>2, <1>4, <1>5 DEF l, m

(* A character typed.                                                      *)
LEMMA TypeSound ==
  ASSUME NEW e \in Editors, Placed(e), NEW c \in Typed
  PROVE  Sound(e, Type(e, c))
<1>1. CASE e.i < MaxLine
  <2> DEFINE i == e.i
             line == e.line
             j == i + 1
             t == e.screen
             s == put(t, c)
             l == [line EXCEPT ![i] = c]
             h == e.history
             m == StrLen(line)
  <2>1. /\ line \in Buffers /\ i \in Nat /\ h \in 0 .. Depth /\ t \in Panels
        /\ i <= m /\ m \in Nat /\ m <= MaxLine /\ i < MaxLine /\ MaxLine \in Nat
    BY <1>1, EditorHas, CliSizes, TextEnds DEF Placed
  <2>2. Type(e, c) = With(e, l, j, h, s)
    BY <1>1 DEF Type, With, Editors
  <2> HIDE DEF line, i
  <2>3. /\ l \in Buffers /\ j <= StrLen(l) /\ j \in Nat
        /\ ~TailHidden(line) => StrLen(l) = IF i = m THEN i + 1 ELSE m
    BY <2>1, TypedLine
  <2>4. c \in Ink
    BY CliSizes
  <2> HIDE DEF t
  <2>5. Panel(t) /\ BelowBlank(t)
    BY <2>1, PanelsAre
  <2>6. /\ Panel(s) /\ BelowBlank(s)
        /\ t.cursor.x + 1 < VisW =>
             /\ s.cursor.x = t.cursor.x + 1 /\ s.cursor.y = t.cursor.y
             /\ \A x \in 0 .. VisW - 1 :
                  CellAt(s, x, t.cursor.y) = IF x = t.cursor.x THEN c ELSE CellAt(t, x, t.cursor.y)
    BY <2>4, <2>5, PanelPuts
  <2>7. \A k \in 0 .. MaxLine : l[k] = IF k = i THEN c ELSE line[k]
    <3>1. line \in [0 .. MaxLine -> Typed \cup {NUL}]
      BY <2>1 DEF Buffers
    <3> QED BY <3>1
  <2> HIDE DEF s, l, j, h, m
  <2>8. s \in Panels
    BY <2>6, PanelsAre
  <2>9. Holds(e, l, j, s)
    <3> SUFFICES ASSUME Alike(e), Fits(l), ~TailHidden(line)
                 PROVE  s.cursor.x = Margin + j /\ ShowsLine(s, l)
      BY DEF Holds, line
    <3>1. t.cursor.x = Margin + i /\ ShowsLine(t, line)
      BY EditorHas DEF t, i, line
    <3>2. /\ StrLen(l) = (IF i = m THEN i + 1 ELSE m) /\ j = i + 1
          /\ StrLen(l) \in Nat /\ Margin + StrLen(l) < VisW /\ Margin = 2 /\ VisW \in Nat
      BY <2>3, FitsIs, CliSizes, Sizes DEF j
    <3>3. t.cursor.x + 1 < VisW /\ t.cursor.x + 1 = Margin + j
      BY <2>1, <2>3, <3>1, <3>2
    <3>4. ASSUME NEW k \in 0 .. VisW - 1 - Margin
          PROVE  CellAt(s, Margin + k, s.cursor.y) = IF k < StrLen(l) THEN l[k] ELSE Space
      <4>1. /\ Margin + k \in 0 .. VisW - 1 /\ (Margin + k = Margin + i <=> k = i)
            /\ k < StrLen(l) => k \in 0 .. MaxLine
        BY <2>1, <3>2
      <4>2. CellAt(t, Margin + k, t.cursor.y) = IF k < m THEN line[k] ELSE Space
        BY <3>1, Zenon DEF ShowsLine, m
      <4>3. CellAt(s, Margin + k, s.cursor.y)
              = IF k = i THEN c ELSE CellAt(t, Margin + k, t.cursor.y)
        BY <2>6, <3>1, <3>3, <4>1, Zenon
      <4>4. CASE k = i
        <5>1. k < StrLen(l)
          BY <2>1, <3>2, <4>4
        <5> QED BY <2>7, <4>1, <4>3, <4>4, <5>1, Zenon
      <4>5. CASE k # i
        <5>1. k < StrLen(l) <=> k < m
          BY <2>1, <3>2, <4>5
        <5> QED BY <2>7, <4>1, <4>2, <4>3, <4>5, <5>1, Zenon
      <4> QED BY <4>4, <4>5
    <3>5. ShowsLine(s, l)
      BY <3>4, Zenon DEF ShowsLine
    <3> QED BY <2>6, <3>3, <3>5
  <2> QED BY <2>1, <2>2, <2>3, <2>8, <2>9, WithSound
<1>2. CASE ~(e.i < MaxLine)
  BY <1>2, SoundSame DEF Type
<1> QED BY <1>1, <1>2

(* A line of the history recalled.                                         *)
LEMMA RecallSound ==
  ASSUME NEW e \in Editors, NEW n \in 0 .. Depth - 1, NEW h \in 0 .. Depth
  PROVE  Sound(e, [Recall(e, n) EXCEPT !.history = h])
<1> DEFINE text == e.past[n + 1]
           j == Len(text)
           l == StrCpy(e.line, text)
           t == ClearAfterPrompt(e.screen)
           s == PrintText(t, text)
<1>1. e.line \in Buffers /\ e.screen \in Panels /\ text \in Texts
  <2>1. n + 1 \in 1 .. Depth
    BY CliSizes
  <2> QED BY <2>1, EditorHas
<1>2. [Recall(e, n) EXCEPT !.history = h] = With(e, l, j, h, s)
  <2>1. Recall(e, n) = [e EXCEPT !.line = l, !.i = j, !.screen = s]
    BY DEF Recall
  <2> HIDE DEF l, j, s
  <2> QED BY <2>1 DEF With, Editors
<1> HIDE DEF text
<1>3. text \in Seq(Typed) /\ text \in Seq(Ink) /\ j \in Nat
  <2>1. text \in Seq(Typed) /\ Typed \subseteq Ink
    BY <1>1, CliSizes DEF Texts
  <2> QED BY <2>1
<1>4. l \in Buffers /\ StrLen(l) = j /\ Text(l) = text
  BY <1>1, StrCpyIs
<1>5. /\ t \in Panels /\ t.cursor.x = Margin
      /\ \A k \in 0 .. VisW - 1 - Margin : CellAt(t, Margin + k, t.cursor.y) = Space
  BY <1>1, ClearedLine
<1> HIDE DEF t
<1>6. s \in Panels /\ Writes(t, text, j, s)
  BY <1>3, <1>5, Printed
<1>7. \A k \in 0 .. j - 1 : l[k] = text[k + 1]
  <2>1. ASSUME NEW k \in 0 .. j - 1 PROVE l[k] = text[k + 1]
    <3>1. k + 1 \in 1 .. StrLen(l) /\ (k + 1) - 1 = k
      BY <1>3, <1>4
    <3>2. Text(l)[k + 1] = l[(k + 1) - 1]
      BY <1>4, <3>1, TextEnds
    <3> QED BY <1>4, <3>1, <3>2, Zenon
  <2> QED BY <2>1
<1> HIDE DEF l, s, j
<1>8. Holds(e, l, j, s)
  <2> SUFFICES ASSUME Fits(l) PROVE s.cursor.x = Margin + j /\ ShowsLine(s, l)
    BY DEF Holds
  <2>1. Margin + j < VisW /\ Margin = 2 /\ VisW \in Nat
    BY <1>4, FitsIs, CliSizes, Sizes
  <2>2. /\ s.cursor.x = Margin + j /\ s.cursor.y = t.cursor.y
        /\ \A x \in 0 .. VisW - 1 :
             CellAt(s, x, t.cursor.y) = IF Margin <= x /\ x < Margin + j
                                        THEN text[x - Margin + 1] ELSE CellAt(t, x, t.cursor.y)
    BY <1>5, <1>6, <2>1, Zenon DEF Writes
  <2>3. ASSUME NEW k \in 0 .. VisW - 1 - Margin
        PROVE  CellAt(s, Margin + k, s.cursor.y) = IF k < StrLen(l) THEN l[k] ELSE Space
    <3>1. /\ Margin + k \in 0 .. VisW - 1 /\ Margin <= Margin + k
          /\ (Margin + k < Margin + j <=> k < j) /\ (Margin + k) - Margin + 1 = k + 1
          /\ k < j => k \in 0 .. j - 1
      BY <1>3, <2>1
    <3>2. CellAt(s, Margin + k, t.cursor.y) = IF k < j THEN text[k + 1] ELSE Space
      <4>1. CellAt(t, Margin + k, t.cursor.y) = Space
        BY <1>5
      <4> QED BY <2>2, <3>1, <4>1, Zenon
    <3> QED BY <1>4, <1>7, <2>2, <3>1, <3>2, Zenon
  <2> QED BY <2>2, <2>3, Zenon DEF ShowsLine
<1>9. j \in Nat /\ j <= StrLen(l)
  BY <1>3, <1>4
<1> QED BY <1>2, <1>4, <1>6, <1>8, <1>9, WithSound

(* The up key.                                                             *)
LEMMA UpSound == ASSUME NEW e \in Editors, Placed(e) PROVE Sound(e, Up(e))
<1> DEFINE n == e.history
           h == e.history + 1
<1>1. CASE e.history < Depth /\ e.past[e.history + 1] # <<>>
  <2>1. n \in 0 .. Depth - 1 /\ h \in 0 .. Depth
    BY <1>1, EditorHas, CliSizes
  <2>2. Up(e) = [Recall(e, n) EXCEPT !.history = h]
    <3>1. Recall(e, n).history = e.history
      BY DEF Recall, Editors
    <3> DEFINE r == Recall(e, n)
    <3>2. Up(e) = [r EXCEPT !.history = @ + 1]
      BY <1>1, Zenon DEF Up
    <3> HIDE DEF r
    <3> QED BY <3>1, <3>2 DEF r
  <2> HIDE DEF n, h
  <2> QED BY <2>1, <2>2, RecallSound
<1>2. CASE ~(e.history < Depth /\ e.past[e.history + 1] # <<>>)
  BY <1>2, SoundSame DEF Up
<1> QED BY <1>1, <1>2

(* The down key.                                                           *)
LEMMA DownSound == ASSUME NEW e \in Editors, Placed(e) PROVE Sound(e, Down(e))
<1> DEFINE n == e.history - 1
<1>1. CASE e.history > 0
  <2>1. n \in 0 .. Depth - 1 /\ n \in 0 .. Depth
    BY <1>1, EditorHas, CliSizes
  <2>2. Down(e) = [Recall(e, n) EXCEPT !.history = n]
    <3>1. Recall(e, n).history = e.history
      BY DEF Recall, Editors
    <3> DEFINE r == Recall(e, n)
    <3>2. Down(e) = [r EXCEPT !.history = @ - 1]
      BY <1>1, Zenon DEF Down
    <3> HIDE DEF r
    <3> QED BY <3>1, <3>2 DEF r
  <2> HIDE DEF n
  <2> QED BY <2>1, <2>2, RecallSound
<1>2. CASE ~(e.history > 0)
  BY <1>2, SoundSame DEF Down
<1> QED BY <1>1, <1>2

(* One key code, whatever it is.                                           *)
LEMMA EditSound == ASSUME NEW e \in Editors, Placed(e), NEW code PROVE Sound(e, Edit(e, code))
<1> DEFINE ctrl == "CTRL" \in code.flags
           key == code.key
<1>1. CASE key \in Letter \cup {"C", "D", "A", "B"}
  <2>1. key \in Typed
    BY <1>1 DEF Typed
  <2>2. Edit(e, code) = Type(e, key)
    BY <1>1, Zenon DEF Edit
  <2> HIDE DEF key
  <2> QED BY <2>1, <2>2, TypeSound
<1>2. CASE key \notin Letter \cup {"C", "D", "A", "B"}
  <2>1. \/ Edit(e, code) = EscapeKey(e) \/ Edit(e, code) = Backspace(e)
        \/ Edit(e, code) = DeleteKey(e) \/ Edit(e, code) = Left(e, ctrl)
        \/ Edit(e, code) = Right(e, ctrl) \/ Edit(e, code) = Up(e)
        \/ Edit(e, code) = Down(e) \/ Edit(e, code) = e
    <3>1. Edit(e, code) =
            IF key = "ESC" THEN EscapeKey(e) ELSE IF key = "BS" THEN Backspace(e)
            ELSE IF key = "DEL" THEN DeleteKey(e) ELSE IF key = "LEFT" THEN Left(e, ctrl)
            ELSE IF key = "RIGHT" THEN Right(e, ctrl) ELSE IF key = "UP" THEN Up(e)
            ELSE IF key = "DOWN" THEN Down(e) ELSE e
      BY <1>2, Zenon DEF Edit
    <3> QED BY <3>1, Zenon
  <2> HIDE DEF ctrl
  <2> QED BY <2>1, EscapeSound, BackspaceSound, DeleteSound, LeftSound, RightSound,
             UpSound, DownSound, SoundSame, Zenon
<1> QED BY <1>1, <1>2

(* The loop over the codes of a key, of which there is one.                *)
LEMMA EditOne == ASSUME NEW e, NEW code PROVE ForEach(Edit, <<code>>, e) = Edit(e, code)
<1> DEFINE q == <<code>>
           f == [n \in 0 .. 1 |-> IF n = 0 THEN e ELSE Edit(e, code)]
           Loops(g) == g = [n \in 0 .. Len(q) |-> IF n = 0 THEN e ELSE Edit(g[n - 1], q[n])]
           g == CHOOSE g : Loops(g)
<1>1. Len(q) = 1 /\ q[1] = code
  OBVIOUS
<1>2. ForEach(Edit, q, e) = g[Len(q)]
  BY Zenon DEF ForEach
<1> HIDE DEF q
<1>3. Loops(f)
  <2>1. \A n \in 0 .. 1 : n # 0 => n = 1 /\ n - 1 = 0 /\ n - 1 \in 0 .. 1
    OBVIOUS
  <2>2. \A n \in 0 .. 1 : (IF n = 0 THEN e ELSE Edit(e, code))
                          = (IF n = 0 THEN e ELSE Edit(f[n - 1], q[n]))
    BY <1>1, <2>1, Zenon
  <2>3. f = [n \in 0 .. 1 |-> IF n = 0 THEN e ELSE Edit(f[n - 1], q[n])]
    BY <2>2, Zenon
  <2> QED BY <1>1, <2>3, Zenon
<1>4. Loops(g)
  <2> HIDE DEF Loops, f
  <2> QED BY <1>3, Zenon
<1> HIDE DEF g, f
<1>5. 1 \in 0 .. 1 /\ 0 \in 0 .. 1 /\ 1 # 0 /\ 1 - 1 = 0
  OBVIOUS
<1>6. g[0] = e /\ g[1] = Edit(g[0], code)
  BY <1>1, <1>4, <1>5, Zenon
<1> QED BY <1>1, <1>2, <1>6, Zenon DEF q

(* A prompt on a blank row is an empty line shown.                         *)
LEMMA PromptShows ==
  ASSUME NEW s \in Panels, s.cursor.x = 0, RowBlank(s)
  PROVE  /\ ShowPrompt(s) \in Panels /\ ShowPrompt(s).cursor.x = Margin
         /\ ShowsLine(ShowPrompt(s), Blank)
<1> DEFINE b == Space
           text == <<Prompt, b>>
           t == PrintText(s, text)
<1>1. /\ VisW \in Nat /\ Margin = 2 /\ VisW > 2 /\ b \in Ink /\ Prompt \in Ink
  BY CliSizes, Sizes
<1>2. ShowPrompt(s) = t
  BY Zenon DEF ShowPrompt
<1> HIDE DEF b
<1>3. text \in Seq(Ink) /\ Len(text) = 2 /\ text[2] = b
  BY <1>1
<1> HIDE DEF text
<1>4. t \in Panels /\ Writes(s, text, 2, t)
  BY <1>3, Printed
<1> HIDE DEF t
<1>5. /\ t.cursor.x = 0 + 2 /\ t.cursor.y = s.cursor.y
      /\ \A x \in 0 .. VisW - 1 :
           CellAt(t, x, s.cursor.y) = IF 0 <= x /\ x < 0 + 2
                                      THEN text[x - 0 + 1] ELSE CellAt(s, x, s.cursor.y)
  <2>1. 0 + 2 < VisW
    BY <1>1
  <2> QED BY <1>4, <2>1, Zenon DEF Writes
<1>6. ShowsLine(t, Blank)
  <2>1. ASSUME NEW k \in 0 .. VisW - 1 - Margin
        PROVE  CellAt(t, Margin + k, t.cursor.y) = IF k < StrLen(Blank) THEN Blank[k] ELSE Space
    <3>1. Margin + k \in 0 .. VisW - 1 /\ ~(Margin + k < 0 + 2) /\ ~(k < 0)
      BY <1>1
    <3>2. CellAt(t, Margin + k, t.cursor.y) = Space
      BY <1>5, <3>1, Zenon DEF RowBlank
    <3>3. StrLen(Blank) = 0
      BY BlankIs
    <3> QED BY <3>1, <3>2, <3>3, Zenon
  <2> QED BY <2>1, Zenon DEF ShowsLine
<1> QED BY <1>1, <1>2, <1>4, <1>5, <1>6

(* A newline leads to a blank row.                                         *)
LEMMA NewlineIs ==
  ASSUME NEW s \in Panels
  PROVE  newline(s) \in Panels /\ newline(s).cursor.x = 0 /\ RowBlank(newline(s))
<1>1. Panel(s) /\ BelowBlank(s)
  BY PanelsAre
<1>2. newline(s) = set_xy(s, 0, s.cursor.y + 1)
  BY DEF newline
<1> DEFINE t == newline(s)
<1>3. Panel(t) /\ BelowBlank(t) /\ RowBlank(t) /\ t.cursor.x = 0
  BY <1>1, <1>2, PanelDown
<1> HIDE DEF t
<1>4. t \in Panels
  BY <1>3, PanelsAre
<1> QED BY <1>3, <1>4 DEF t

(* The prompt after a line is of an empty line, shown.                     *)
LEMMA NextLineReady ==
  ASSUME NEW e \in Editors
  PROVE  /\ NextLine(e) \in Editors /\ Placed(NextLine(e)) /\ Alike(NextLine(e))
         /\ NextLine(e).past = e.past
<1> DEFINE t == newline(newline(e.screen))
           s == ShowPrompt(t)
           l == Blank
           z == 0
           e2 == NextLine(e)
<1>1. t \in Panels /\ t.cursor.x = 0 /\ RowBlank(t)
  <2> DEFINE u == newline(e.screen)
  <2>1. u \in Panels
    BY EditorHas, NewlineIs
  <2> HIDE DEF u
  <2>2. newline(u) \in Panels /\ newline(u).cursor.x = 0 /\ RowBlank(newline(u))
    BY <2>1, NewlineIs
  <2> QED BY <2>2 DEF u
<1>2. e2 = With(e, l, z, z, s)
  <2>1. e2 = [e EXCEPT !.line = l, !.i = z, !.history = z, !.screen = s]
    BY DEF NextLine
  <2> QED BY <2>1 DEF With
<1> HIDE DEF t, e2
<1>3. s \in Panels /\ s.cursor.x = Margin /\ ShowsLine(s, l)
  BY <1>1, PromptShows
<1>4. l \in Buffers /\ StrLen(l) = 0 /\ z \in 0 .. Depth /\ z \in Nat /\ z <= StrLen(l) /\ z = 0
  BY BlankIs, CliSizes
<1> HIDE DEF s, l, z
<1>5. Holds(e, l, z, s)
  BY <1>3, <1>4, CliSizes DEF Holds
<1>6. Sound(e, With(e, l, z, z, s))
  BY <1>3, <1>4, <1>5, WithSound
<1>7. e2.screen = s /\ e2.line = l /\ e2.i = z
  BY <1>2 DEF With, Editors
<1>8. Alike(e2)
  <2>1. e2 \in Editors
    BY <1>2, <1>6 DEF Sound
  <2> QED BY <1>3, <1>4, <1>7, <2>1, EditorHas, CliSizes
<1> QED BY <1>2, <1>6, <1>8 DEF Sound, e2

(* Every key of the Mo keyboard, with any modifiers, becomes one code to   *)
(* the editor, that key's or none, every key of the PS/2 keyboard without  *)
(* modifiers too, and a key the CLI does not know does nothing to a line.  *)
THEOREM KeysAreUnderstood == CliSpec => []KeysUnderstood
<1>1. KeysUnderstood
  <2>1. KeysHeard
    <3>1. \A key \in Key, mods \in SUBSET ModKeys :
            Codes(KbdmoToAnsi(key, mods)) = <<KeyCode(key, mods)>>
      BY KeyRead
    <3> DEFINE Code(k, m) == Codes(KbdmoToAnsi(k, m))
               Coded(k, m) == <<KeyCode(k, m)>>
    <3>2. \A key \in Key, mods \in SUBSET ModKeys : Code(key, mods) = Coded(key, mods)
      BY <3>1
    <3>3. Heard = [key \in Key |-> [mods \in SUBSET ModKeys |-> Code(key, mods)]]
      BY Zenon DEF Heard
    <3> HIDE DEF Code, Coded
    <3>4. Heard = [key \in Key |-> [mods \in SUBSET ModKeys |-> Coded(key, mods)]]
      BY <3>2, <3>3
    <3> QED BY <3>4, Zenon DEF KeysHeard, Coded
  <2>2. Ps2KeysHeard
    BY Ps2KeyRead, Zenon DEF Ps2KeysHeard
  <2>3. ASSUME NEW key \in Unknown \cup {"RETURN"}, NEW mods \in EditMods,
               KeyCode(key, mods).key # "CR"
        PROVE  ForEach(Edit, Heard[key][mods], Editor) = Editor
    <3> DEFINE code == KeyCode(key, mods)
    <3>1. mods \in SUBSET ModKeys
      BY DEF EditMods, ModKeys, FlagKeys
    <3>2. key \in Key
      BY DEF Key, Unknown, NumberCode, PlainKeys
    <3>3. ForEach(Edit, Heard[key][mods], Editor) = Edit(Editor, code)
      BY <3>1, <3>2, HeardIs, EditOne, Zenon
    <3>4. code.key \in {"none", "LF"}
      <4>1. CASE key = "RETURN"
        <5>1. code = Plain(Character(key, mods))
          BY <4>1 DEF KeyCode, PlainKeys
        <5>2. Character(key, mods) \in {"CR", "LF"}
          BY <4>1, Zenon DEF Character
        <5> QED BY <2>3, <5>1, <5>2 DEF Plain
      <4>2. CASE key # "RETURN"
        <5>1. key \in Unknown
          BY <2>3, <4>2
        <5>2. key \in DOMAIN NumberCode /\ key \notin {"ESC", "BS", "RETURN"}
          BY <5>1 DEF Unknown, NumberCode
        <5>3. key \notin Letter
          BY <5>2, KeyAssumption
        <5>4. code = Nothing
          BY <5>1, <5>2, <5>3 DEF KeyCode, PlainKeys
        <5> QED BY <5>4 DEF Nothing, Plain
      <4> QED BY <4>1, <4>2
    <3> HIDE DEF code
    <3>5. code.key \notin Letter \cup {"C", "D", "A", "B"}
      BY <3>4, KeyAssumption, Zenon
    <3>6. Edit(Editor, code) = Editor
      BY <3>4, <3>5 DEF Edit
    <3> QED BY <3>3, <3>6
  <2> QED BY <2>1, <2>2, <2>3, Zenon DEF KeysUnderstood
<1> QED BY <1>1, PTL

-----------------------------------------------------------------------------
(* The invariant of the command line: its editor and its screen.           *)
EditorTyped == Editor \in Editors
AtAPlace == Placed(Editor)
CliInv == EditorTyped /\ AtAPlace

(* The editor after a step is the one the step says.                       *)
LEMMA BecomesIs ==
  ASSUME NEW e \in Editors, EditorBecomes(e)
  PROVE  Editor' = e /\ cli'.past = e.past /\ cli'.line = e.line /\ cli'.i = e.i /\ screen' = e.screen
<1>1. /\ screen' = e.screen
      /\ cli' = [line |-> e.line, i |-> e.i, history |-> e.history, past |-> e.past]
  BY DEF EditorBecomes
<1>2. /\ cli'.line = e.line /\ cli'.i = e.i /\ cli'.history = e.history /\ cli'.past = e.past
  BY <1>1
<1>3. Editor' = [line |-> e.line, i |-> e.i, history |-> e.history, past |-> e.past,
                 screen |-> e.screen]
  BY <1>1, <1>2 DEF Editor
<1>4. e = [line |-> e.line, i |-> e.i, history |-> e.history, past |-> e.past,
           screen |-> e.screen]
  BY DEF Editors
<1> QED BY <1>1, <1>2, <1>3, <1>4, Zenon

(* The editor before the first key.                                        *)
LEMMA CliStarts == CliInit => CliInv /\ cli.past = [n \in 1 .. Depth |-> <<>>] /\ entered = <<>>
<1> SUFFICES ASSUME CliInit PROVE CliInv
  BY DEF CliInit
<1> DEFINE b == Space
           cells == [o \in Memory |-> b]
           c == [x |-> 0, y |-> 0]
           s == [cells |-> cells, region |-> Full, cursor |-> c, wild |-> FALSE]
<1>1. /\ screen = ShowPrompt(s)
      /\ cli = [line |-> Blank, i |-> 0, history |-> 0, past |-> [n \in 1 .. Depth |-> <<>>]]
  BY DEF CliInit
<1>2. b \in Ink
  BY CliSizes
<1>3. c \in [x : 0 .. VisW - 1, y : 0 .. VisH - 1] /\ c.x = 0 /\ c.y = 0
  BY Sizes
<1>4. cells \in Grid(Ink) /\ \A o \in Memory : cells[o] = b
  <2> HIDE DEF b
  <2> QED BY <1>2 DEF Grid
<1> HIDE DEF cells, c
<1>5. /\ s \in Shows(Ink) /\ s.region = Full /\ s.cursor = c /\ s.cells = cells
  BY <1>3, <1>4, FullFacts DEF Shows
<1> HIDE DEF s
<1>6. \A x \in 0 .. VisW - 1 : \A y \in 0 .. VisH - 1 : CellAt(s, x, y) = b
  <2>1. \A x \in 0 .. VisW - 1 : \A y \in 0 .. VisH - 1 : x \in 0 .. MaxW - 1 /\ y \in 0 .. MaxH - 1
    BY Sizes
  <2>2. \A x \in 0 .. MaxW - 1 : \A y \in 0 .. MaxH - 1 : Offset(x, y) \in Memory
    BY OffsetInside
  <2> QED BY <1>4, <1>5, <2>1, <2>2, Zenon DEF CellAt
<1>7. s \in Panels /\ s.cursor.x = 0 /\ RowBlank(s)
  <2>1. /\ \A y \in s.cursor.y + 1 .. VisH - 1 : y \in 0 .. VisH - 1
        /\ s.cursor.y \in 0 .. VisH - 1
    BY <1>3, <1>5, Sizes
  <2>2. BelowBlank(s) /\ RowBlank(s)
    BY <1>6, <2>1, Zenon DEF BelowBlank, RowBlank
  <2> QED BY <1>3, <1>5, <2>2 DEF Panels
<1>8. screen \in Panels
  BY <1>1, <1>7, PromptShows
<1>9. <<>> \in Texts
  BY CliSizes DEF Texts
<1> DEFINE l == Blank
           past == [n \in 1 .. Depth |-> <<>>]
<1>10. l \in Buffers /\ StrLen(l) = 0 /\ past \in [1 .. Depth -> Texts]
  BY <1>9, BlankIs
<1>11. cli = [line |-> l, i |-> 0, history |-> 0, past |-> past]
  BY <1>1
<1> HIDE DEF l, past
<1>12. cli.line = l /\ cli.i = 0 /\ cli.history = 0 /\ cli.past = past
  BY <1>11
<1>13. Editor \in Editors /\ Editor.i = 0 /\ Editor.line = l
  BY <1>8, <1>10, <1>12, CliSizes DEF Editor, Editors
<1> QED BY <1>10, <1>13 DEF CliInv, EditorTyped, AtAPlace, Placed

(* A key that edits the line.                                              *)
LEMMA EditKeySound ==
  ASSUME CliInv, NEW key \in Key, NEW mods \in EditMods, EditKey(key, mods)
  PROVE  Sound(Editor, Editor') /\ cli'.past = cli.past /\ entered' = entered
<1> DEFINE e == Editor
           code == KeyCode(key, mods)
           e2 == Edit(e, code)
<1>1. e \in Editors /\ Placed(e) /\ e.past = cli.past
  BY DEF CliInv, EditorTyped, AtAPlace, Editor
<1>2. mods \in SUBSET ModKeys
  BY DEF EditMods, ModKeys, FlagKeys
<1>3. Heard[key][mods] = <<code>>
  BY <1>2, HeardIs
<1>4. EditorBecomes(ForEach(Edit, <<code>>, e)) /\ entered' = entered
  BY <1>3, Zenon DEF EditKey
<1> HIDE DEF e, code
<1>5. ForEach(Edit, <<code>>, e) = e2
  BY EditOne
<1>6. Sound(e, e2)
  BY <1>1, EditSound
<1> HIDE DEF e2
<1>7. e2 \in Editors /\ EditorBecomes(e2) /\ e2.past = e.past
  BY <1>4, <1>5, <1>6, Zenon DEF Sound
<1>8. Editor' = e2 /\ cli'.past = e2.past
  BY <1>7, BecomesIs
<1> QED BY <1>1, <1>4, <1>6, <1>7, <1>8, Zenon DEF e

(* A line that ends: the history, and the editor at the next prompt.       *)
LEMMA EnterReady ==
  ASSUME CliInv, Enter
  PROVE  /\ Editor' \in Editors /\ Placed(Editor') /\ Alike(Editor')
         /\ cli'.past = Remember(cli.past, Text(cli.line))
         /\ entered' = <<Text(cli.line)>> \o entered /\ Text(cli.line) \in Texts
<1> DEFINE e == Editor
           text == Text(cli.line)
           p == Remember(cli.past, text)
           e1 == [e EXCEPT !.past = p]
           e2 == NextLine(e1)
<1>1. /\ e \in Editors /\ e.past = cli.past /\ e.line = cli.line
  BY DEF CliInv, EditorTyped, Editor
<1>2. text \in Texts
  BY <1>1, EditorHas, TextEnds
<1>3. EditorBecomes(NextLine([e EXCEPT !.past = Remember(@, text)])) /\ entered' = <<text>> \o entered
  BY Zenon DEF Enter
<1> HIDE DEF e, text
<1>4. [e EXCEPT !.past = Remember(@, text)] = e1
  BY <1>1
<1>5. p \in [1 .. Depth -> Texts]
  <2>1. cli.past \in [1 .. Depth -> Texts] /\ Depth \in Nat
    BY <1>1, EditorHas, CliSizes
  <2>2. \A n \in 1 .. Depth : n # 1 => n - 1 \in 1 .. Depth
    BY <2>1
  <2>3. \A n \in 1 .. Depth : (IF n = 1 THEN text ELSE cli.past[n - 1]) \in Texts
    BY <1>2, <2>1, <2>2, Zenon
  <2> QED BY <2>3 DEF Remember
<1> HIDE DEF p
<1>6. e1 \in Editors /\ e1.past = p
  BY <1>1, <1>5 DEF Editors
<1> HIDE DEF e1
<1>7. e2 \in Editors /\ Placed(e2) /\ Alike(e2) /\ e2.past = p
  BY <1>6, NextLineReady
<1>8. EditorBecomes(e2)
  BY <1>3, <1>4, Zenon
<1> HIDE DEF e2
<1>9. Editor' = e2 /\ cli'.past = e2.past
  BY <1>7, <1>8, BecomesIs
<1> QED BY <1>2, <1>3, <1>7, <1>9, Zenon DEF text, p

(* A line interrupted: the same, but for the history.                      *)
LEMMA InterruptedReady ==
  ASSUME CliInv, Interrupted
  PROVE  /\ Editor' \in Editors /\ Placed(Editor') /\ Alike(Editor')
         /\ cli'.past = cli.past /\ entered' = entered
<1> DEFINE e == Editor
           t == newline(e.screen)
           e1 == [e EXCEPT !.screen = t]
           e2 == NextLine(e1)
<1>1. e \in Editors /\ e.past = cli.past
  BY DEF CliInv, EditorTyped, Editor
<1>2. EditorBecomes(NextLine([e EXCEPT !.screen = newline(@)])) /\ entered' = entered
  BY Zenon DEF Interrupted
<1> HIDE DEF e
<1>3. [e EXCEPT !.screen = newline(@)] = e1
  BY <1>1
<1>4. t \in Panels
  BY <1>1, EditorHas, NewlineIs
<1> HIDE DEF t
<1>5. e1 \in Editors /\ e1.past = e.past
  BY <1>1, <1>4 DEF Editors
<1> HIDE DEF e1
<1>6. e2 \in Editors /\ Placed(e2) /\ Alike(e2) /\ e2.past = e.past
  BY <1>5, NextLineReady
<1>7. EditorBecomes(e2)
  BY <1>2, <1>3, Zenon
<1> HIDE DEF e2
<1>8. Editor' = e2 /\ cli'.past = e2.past
  BY <1>6, <1>7, BecomesIs
<1> QED BY <1>1, <1>2, <1>6, <1>8, Zenon

(* Every step keeps the editor.                                            *)
LEMMA CliStep == CliInv /\ [CliNext]_cliVars => CliInv'
<1> SUFFICES ASSUME CliInv, [CliNext]_cliVars PROVE CliInv'
  OBVIOUS
<1>1. CASE \E key \in Key, mods \in EditMods : EditKey(key, mods)
  <2>1. PICK key \in Key, mods \in EditMods : EditKey(key, mods)
    BY <1>1
  <2>2. Sound(Editor, Editor')
    BY <2>1, EditKeySound
  <2> QED BY <2>2, Zenon DEF Sound, CliInv, EditorTyped, AtAPlace, Placed
<1>2. CASE Enter
  BY <1>2, EnterReady, Zenon DEF CliInv, EditorTyped, AtAPlace, Placed
<1>3. CASE Interrupted
  BY <1>3, InterruptedReady, Zenon DEF CliInv, EditorTyped, AtAPlace, Placed
<1>4. CASE UNCHANGED cliVars
  BY <1>4 DEF cliVars, CliInv, EditorTyped, AtAPlace, Placed, Editor
<1> QED BY <1>1, <1>2, <1>3, <1>4 DEF CliNext

(* The buffer stays a string that ends, the place is within it, and the    *)
(* screen is the whole panel with nothing below the line that is edited    *)
(* (cli_readline, cli_repl): what the two theorems below rest on.          *)
THEOREM EditorKept == CliSpec => []CliInv
<1>1. CliInit => CliInv
  BY CliStarts
<1>2. CliInv /\ [CliNext]_cliVars => CliInv'
  BY CliStep
<1> QED BY <1>1, <1>2, PTL DEF CliSpec

(* A line that fits on the row, with no bytes behind its end, is shown     *)
(* after every key as it is in the buffer (cli_readline, cli_repl).        *)
THEOREM LineShown == CliSpec => ShownAsHeld
<1> DEFINE Keeps == Shown(screen, cli.line, cli.i) /\ Fits(cli.line) /\ Fits(cli'.line)
                      /\ ~TailHidden(cli.line)
                    => Shown(screen', cli'.line, cli'.i)
<1>1. CliInv /\ [CliNext]_cliVars => [Keeps]_cliVars
  <2> SUFFICES ASSUME CliInv, CliNext PROVE Keeps
    OBVIOUS
  <2>1. Editor.screen = screen /\ Editor.line = cli.line /\ Editor.i = cli.i
    BY DEF Editor
  <2>2. Editor'.screen = screen' /\ Editor'.line = cli'.line /\ Editor'.i = cli'.i
    BY DEF Editor
  <2>3. CASE \E key \in Key, mods \in EditMods : EditKey(key, mods)
    <3>1. PICK key \in Key, mods \in EditMods : EditKey(key, mods)
      BY <2>3
    <3>2. Sound(Editor, Editor')
      BY <3>1, EditKeySound
    <3> QED BY <2>1, <2>2, <3>2, Zenon DEF Sound, Alike
  <2>4. CASE Enter
    BY <2>2, <2>4, EnterReady, Zenon DEF Alike
  <2>5. CASE Interrupted
    BY <2>2, <2>5, InterruptedReady, Zenon DEF Alike
  <2> QED BY <2>3, <2>4, <2>5 DEF CliNext
<1> HIDE DEF Keeps
<1>2. CliSpec => []CliInv
  BY EditorKept
<1>3. CliSpec => [][Keeps]_cliVars
  BY <1>1, <1>2, PTL DEF CliSpec
<1> QED BY <1>3 DEF ShownAsHeld, Keeps

Remembered == entered \in Seq(Texts) /\ HistoryNewestFirst

(* Every step keeps the history.                                           *)
LEMMA RememberStep == CliInv /\ Remembered /\ [CliNext]_cliVars => Remembered'
<1> SUFFICES ASSUME CliInv, Remembered, [CliNext]_cliVars PROVE Remembered'
  OBVIOUS
<1>1. CASE cli'.past = cli.past /\ entered' = entered
  BY <1>1, Zenon DEF Remembered, HistoryNewestFirst
<1>2. CASE Enter
  <2> DEFINE text == Text(cli.line)
             p == cli.past
  <2>1. cli'.past = Remember(p, text) /\ entered' = <<text>> \o entered /\ text \in Texts
    BY <1>2, EnterReady
  <2>2. /\ entered \in Seq(Texts) /\ Depth \in Nat
        /\ \A n \in 1 .. Depth : p[n] = IF n <= Len(entered) THEN entered[n] ELSE <<>>
    BY CliSizes DEF Remembered, HistoryNewestFirst
  <2> HIDE DEF text, p
  <2>3. /\ entered' \in Seq(Texts) /\ Len(entered') = Len(entered) + 1 /\ entered'[1] = text
        /\ \A n \in 1 .. Len(entered) : entered'[n + 1] = entered[n]
    <3> DEFINE q == <<text>>
    <3>1. q \in Seq(Texts) /\ Len(q) = 1 /\ q[1] = text
      BY <2>1
    <3> HIDE DEF q
    <3>2. entered' = q \o entered
      BY <2>1 DEF q
    <3> DEFINE m == Len(entered)
               r == q \o entered
    <3>3. m \in Nat /\ entered \in Seq(Texts)
      BY <2>2
    <3>4. /\ r \in Seq(Texts) /\ Len(r) = Len(q) + m
          /\ \A n \in 1 .. Len(q) + m : r[n] = IF n <= Len(q) THEN q[n] ELSE entered[n - Len(q)]
      BY <3>1, <3>3, ConcatProperties
    <3> HIDE DEF r, m
    <3>5. Len(r) = m + 1 /\ \A n \in 1 .. m + 1 : r[n] = IF n <= 1 THEN q[n] ELSE entered[n - 1]
      BY <3>1, <3>3, <3>4
    <3>6. r[1] = text
      BY <3>1, <3>3, <3>5
    <3>7. \A n \in 1 .. m : r[n + 1] = entered[n]
      <4>1. ASSUME NEW n \in 1 .. m PROVE r[n + 1] = entered[n]
        <5>1. n + 1 \in 1 .. m + 1 /\ ~(n + 1 <= 1) /\ (n + 1) - 1 = n
          BY <3>3
        <5> QED BY <3>5, <5>1, Zenon
      <4> QED BY <4>1
    <3> QED BY <3>2, <3>4, <3>5, <3>6, <3>7, Zenon DEF r, m
  <2>4. ASSUME NEW n \in 1 .. Depth
        PROVE  cli'.past[n] = IF n <= Len(entered') THEN entered'[n] ELSE <<>>
    <3>1. cli'.past[n] = IF n = 1 THEN text ELSE p[n - 1]
      BY <2>1 DEF Remember
    <3>2. CASE n = 1
      <4>1. n <= Len(entered')
        BY <2>2, <2>3, <3>2
      <4> QED BY <2>3, <3>1, <3>2, <4>1, Zenon
    <3>3. CASE n # 1
      <4>1. n - 1 \in 1 .. Depth /\ (n - 1) + 1 = n /\ (n <= Len(entered') <=> n - 1 <= Len(entered))
        BY <2>2, <2>3, <3>3
      <4>2. n - 1 <= Len(entered) => n - 1 \in 1 .. Len(entered)
        BY <2>2, <4>1
      <4>3. n - 1 <= Len(entered) => entered'[n] = entered[n - 1]
        BY <2>3, <4>1, <4>2
      <4> QED BY <2>2, <3>1, <3>3, <4>1, <4>3, Zenon
    <3> QED BY <3>2, <3>3
  <2> QED BY <2>3, <2>4, Zenon DEF Remembered, HistoryNewestFirst
<1>3. CASE Interrupted
  BY <1>1, <1>3, InterruptedReady
<1>4. CASE \E key \in Key, mods \in EditMods : EditKey(key, mods)
  <2>1. PICK key \in Key, mods \in EditMods : EditKey(key, mods)
    BY <1>4
  <2> QED BY <1>1, <2>1, EditKeySound
<1>5. CASE UNCHANGED cliVars
  BY <1>1, <1>5, Zenon DEF cliVars
<1> QED BY <1>2, <1>3, <1>4, <1>5 DEF CliNext

(* The history is the last lines entered, newest first, whatever was       *)
(* recalled, edited or interrupted between (cli_repl).                     *)
THEOREM HistoryIsNewestFirst == CliSpec => []HistoryNewestFirst
<1>1. CliInit => Remembered
  <2> SUFFICES ASSUME CliInit PROVE Remembered
    OBVIOUS
  <2>1. cli.past = [n \in 1 .. Depth |-> <<>>] /\ entered = <<>>
    BY CliStarts
  <2>2. \A n \in 1 .. Depth : ~(n <= Len(entered))
    BY <2>1, CliSizes
  <2>3. entered \in Seq(Texts)
    BY <2>1
  <2> QED BY <2>1, <2>2, <2>3, Zenon DEF Remembered, HistoryNewestFirst
<1>2. CliInv /\ Remembered /\ [CliNext]_cliVars => Remembered'
  BY RememberStep
<1>3. Remembered => HistoryNewestFirst
  BY DEF Remembered
<1>4. CliSpec => []CliInv
  BY EditorKept
<1> QED BY <1>1, <1>2, <1>3, <1>4, PTL DEF CliSpec

=============================================================================
