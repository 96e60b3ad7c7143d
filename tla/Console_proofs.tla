--------------------------- MODULE Console_proofs ---------------------------
(***************************************************************************)
(* Proofs about the console, and about the A2560K's keyboard that it reads,*)
(* for any keys, characters and channels, and a buffer of any size.        *)
(*                                                                         *)
(* The keyboard: a modifier of one key is set, after each code still       *)
(* waiting, as its key was when the code was made; the BREAK key being no  *)
(* modifier, BREAK is decided by the modifiers really held.  Its           *)
(* characters: each make code waiting in the ring stands for a press that  *)
(* was typed after all the presses taken (Queued), so that whatever the    *)
(* ring loses, the one taken next comes after them.                        *)
(*                                                                         *)
(* The console: what is in the escape buffer is a sequence that has begun  *)
(* and has not ended, so that what ends it makes a whole one, and what is  *)
(* done of the output, with the buffer, is what was written (Owes).  Its   *)
(* keys: each channel has had some of the first keys, and what it reads or *)
(* peeks at next comes after all of them (Shared).                         *)
(***************************************************************************)
EXTENDS KeyboardMo, ConsoleAnsi, SequenceTheorems, WellFoundedInduction, TLAPS

-----------------------------------------------------------------------------
(* Facts about FlattenSeq, by induction over the length of a sequence: a   *)
(* set that holds 0 and, with a number, the next one holds every number.   *)
Below == {p \in Nat \X Nat : p[1] < p[2]}

LEMMA BelowWF == IsWellFoundedOn(Below, Nat)
<1>1. Below = OpToRel(<, Nat)
  BY DEF Below, OpToRel
<1> QED
  BY <1>1, NatLessThanWellFounded

LEMMA Least ==
  ASSUME NEW T, T \subseteq Nat, T # {}
  PROVE  \E n \in T : \A m \in T : n <= m
<1>1. PICK n \in T : \A m \in T : <<m, n>> \notin Below
  BY BelowWF, WFMin
<1>2. \A m \in T : ~(m < n)
  BY <1>1 DEF Below
<1> QED
  BY <1>2

LEMMA Induction ==
  ASSUME NEW T, 0 \in T, \A n \in Nat : n \in T => n + 1 \in T
  PROVE  Nat \subseteq T
<1>1. SUFFICES ASSUME Nat \ T # {} PROVE FALSE
  OBVIOUS
<1>2. PICK n \in Nat \ T : \A m \in Nat \ T : n <= m
  BY <1>1, Least
<1>3. n # 0 /\ n - 1 \in Nat
  BY <1>2
<1>4. n - 1 \in T
  BY <1>2, <1>3
<1> QED
  BY <1>2, <1>3, <1>4

(* f adds up the first n of s.                                             *)
Adds(f, s, n) ==
  /\ f = [i \in 1 .. n |-> f[i]]
  /\ \A i \in 1 .. n : f[i] = IF i = 1 THEN s[i] ELSE f[i - 1] \o s[i]

LEMMA AddsExists ==
  ASSUME NEW X, NEW s \in Seq(Seq(X)), NEW n \in Nat, n <= Len(s)
  PROVE  \E f \in [1 .. n -> Seq(X)] : Adds(f, s, n)
<1> DEFINE T == {k \in Nat : k <= Len(s) => \E f \in [1 .. k -> Seq(X)] : Adds(f, s, k)}
<1>1. 0 \in T
  <2> DEFINE g == [i \in 1 .. 0 |-> <<>>]
  <2>1. g \in [1 .. 0 -> Seq(X)] /\ Adds(g, s, 0)
    BY DEF Adds
  <2> QED BY <2>1
<1>2. ASSUME NEW k \in Nat, k \in T PROVE k + 1 \in T
  <2> SUFFICES ASSUME k + 1 <= Len(s) PROVE \E f \in [1 .. k + 1 -> Seq(X)] : Adds(f, s, k + 1)
    OBVIOUS
  <2>1. PICK f \in [1 .. k -> Seq(X)] : Adds(f, s, k)
    BY <1>2
  <2>2. s[k + 1] \in Seq(X)
    BY Len(s) \in Nat
  <2> DEFINE g == [i \in 1 .. k + 1 |-> IF i <= k THEN f[i] ELSE
                     IF k = 0 THEN s[1] ELSE f[k] \o s[k + 1]]
  <2>3. g \in [1 .. k + 1 -> Seq(X)]
    <3> SUFFICES ASSUME NEW i \in 1 .. k + 1 PROVE g[i] \in Seq(X)
      OBVIOUS
    <3>1. CASE i <= k
      BY <3>1
    <3>2. CASE i = k + 1 /\ k = 0
      BY <2>2, <3>2
    <3>3. CASE i = k + 1 /\ k > 0
      <4>1. f[k] \in Seq(X)
        BY <3>3
      <4>2. f[k] \o s[k + 1] \in Seq(X)
        BY <4>1, <2>2
      <4> QED BY <3>3, <4>2
    <3> QED BY <3>1, <3>2, <3>3
  <2>4. \A i \in 1 .. k + 1 : g[i] = IF i = 1 THEN s[i] ELSE g[i - 1] \o s[i]
    <3> SUFFICES ASSUME NEW i \in 1 .. k + 1
                 PROVE  g[i] = IF i = 1 THEN s[i] ELSE g[i - 1] \o s[i]
      OBVIOUS
    <3>1. CASE i <= k
      <4>1. f[i] = IF i = 1 THEN s[i] ELSE f[i - 1] \o s[i]
        <5>1. i \in 1 .. k
          BY <3>1
        <5> QED BY <2>1, <5>1, Zenon DEF Adds
      <4>2. g[i] = f[i] /\ (i # 1 => g[i - 1] = f[i - 1])
        BY <3>1
      <4> QED BY <4>1, <4>2
    <3>2. CASE i = k + 1
      <4>1. g[i] = IF k = 0 THEN s[1] ELSE f[k] \o s[k + 1]
        BY <3>2
      <4>2. k # 0 => g[i - 1] = f[k]
        BY <3>2
      <4> QED BY <3>2, <4>1, <4>2
    <3> QED BY <3>1, <3>2
  <2> HIDE DEF g
  <2>5. Adds(g, s, k + 1)
    BY <2>3, <2>4 DEF Adds
  <2> QED BY <2>3, <2>5
<1> HIDE DEF T
<1>3. Nat \subseteq T
  BY <1>1, <1>2, Induction
<1> QED BY <1>3 DEF T

(* There is one such function.                                             *)
LEMMA AddsUnique ==
  ASSUME NEW s, NEW n \in Nat, NEW f, NEW g, Adds(f, s, n), Adds(g, s, n)
  PROVE  f = g
<1> DEFINE T == {k \in Nat : k \in 1 .. n => f[k] = g[k]}
<1>1. 0 \in T
  OBVIOUS
<1>2. ASSUME NEW k \in Nat, k \in T PROVE k + 1 \in T
  <2> SUFFICES ASSUME NEW j \in 1 .. n, j = k + 1 PROVE f[j] = g[j]
    OBVIOUS
  <2>1. /\ f[j] = IF j = 1 THEN s[j] ELSE f[j - 1] \o s[j]
        /\ g[j] = IF j = 1 THEN s[j] ELSE g[j - 1] \o s[j]
    BY Zenon DEF Adds
  <2>2. j # 1 => f[j - 1] = g[j - 1]
    BY <1>2
  <2> QED BY <2>1, <2>2, Zenon
<1> HIDE DEF T
<1>3. Nat \subseteq T
  BY <1>1, <1>2, Induction
<1>4. \A k \in 1 .. n : f[k] = g[k]
  BY <1>3 DEF T
<1>5. f = [k \in 1 .. n |-> f[k]] /\ g = [k \in 1 .. n |-> g[k]]
  BY Zenon DEF Adds
<1>6. [k \in 1 .. n |-> f[k]] = [k \in 1 .. n |-> g[k]]
  BY <1>4, Zenon
<1> QED BY <1>5, <1>6, Zenon

LEMMA FlattenIs ==
  ASSUME NEW X, NEW s \in Seq(Seq(X)), s # <<>>, NEW f, Adds(f, s, Len(s))
  PROVE  FlattenSeq(s) = f[Len(s)]
<1> DEFINE Fl == CHOOSE h : h = [i \in 1 .. Len(s) |-> IF i = 1 THEN s[i] ELSE h[i - 1] \o s[i]]
<1>1. f = [i \in 1 .. Len(s) |-> IF i = 1 THEN s[i] ELSE f[i - 1] \o s[i]]
  BY DEF Adds
<1>2. Fl = [i \in 1 .. Len(s) |-> IF i = 1 THEN s[i] ELSE Fl[i - 1] \o s[i]]
  BY <1>1
<1>3. Adds(Fl, s, Len(s))
  <2> HIDE DEF Fl
  <2> QED BY <1>2 DEF Adds
<1>4. Len(s) \in Nat /\ Len(s) # 0
  OBVIOUS
<1>5. Fl = f
  <2> HIDE DEF Fl
  <2> QED BY <1>3, <1>4, AddsUnique
<1>6. FlattenSeq(s) = Fl[Len(s)]
  BY <1>4 DEF FlattenSeq
<1> QED BY <1>5, <1>6

(* Flattening sequences of sequences: of none, of one more, of two one     *)
(* after the other, and of empty ones.                                     *)
LEMMA FlattenNone == FlattenSeq(<<>>) = <<>>
<1>1. Len(<<>>) = 0
  OBVIOUS
<1> QED BY <1>1, Zenon DEF FlattenSeq

LEMMA FlattenTyped ==
  ASSUME NEW X, NEW s \in Seq(Seq(X))
  PROVE  FlattenSeq(s) \in Seq(X)
<1>1. CASE s = <<>>
  <2>1. <<>> \in Seq(X)
    OBVIOUS
  <2> QED BY <1>1, <2>1, FlattenNone, Zenon
<1>2. CASE s # <<>>
  <2>1. Len(s) \in Nat /\ Len(s) \in 1 .. Len(s) /\ Len(s) <= Len(s)
    BY <1>2
  <2>2. PICK f \in [1 .. Len(s) -> Seq(X)] : Adds(f, s, Len(s))
    BY <2>1, AddsExists, Zenon
  <2>3. FlattenSeq(s) = f[Len(s)]
    BY <1>2, <2>2, FlattenIs
  <2> QED BY <2>1, <2>3
<1> QED BY <1>1, <1>2

LEMMA FlattenAppend ==
  ASSUME NEW X, NEW s \in Seq(Seq(X)), NEW x \in Seq(X)
  PROVE  FlattenSeq(Append(s, x)) = FlattenSeq(s) \o x
<1> DEFINE t == Append(s, x)
<1>1. /\ t \in Seq(Seq(X)) /\ t # <<>> /\ Len(t) = Len(s) + 1 /\ Len(s) \in Nat
      /\ t[Len(s) + 1] = x /\ \A i \in 1 .. Len(s) : t[i] = s[i]
  <2>1. /\ t \in Seq(Seq(X)) /\ t # <<>> /\ Len(t) = Len(s) + 1
        /\ t[Len(s) + 1] = x /\ \A i \in 1 .. Len(s) : t[i] = s[i]
    <3> DEFINE Y == Seq(X)
    <3>1. s \in Seq(Y) /\ x \in Y
      OBVIOUS
    <3> HIDE DEF Y
    <3>2. /\ Append(s, x) \in Seq(Y) /\ Append(s, x) # <<>> /\ Len(Append(s, x)) = Len(s) + 1
          /\ Append(s, x)[Len(s) + 1] = x /\ \A i \in 1 .. Len(s) : Append(s, x)[i] = s[i]
      BY <3>1, AppendProperties
    <3> QED BY <3>2, Zenon DEF Y
  <2> QED BY <2>1
<1> HIDE DEF t
<1>2. PICK f \in [1 .. Len(t) -> Seq(X)] : Adds(f, t, Len(t))
  <2>1. Len(t) \in Nat /\ Len(t) <= Len(t)
    BY <1>1
  <2> QED BY <1>1, <2>1, AddsExists, Zenon
<1>3. FlattenSeq(t) = f[Len(t)]
  BY <1>1, <1>2, FlattenIs
<1>4. \A i \in 1 .. Len(t) : f[i] = IF i = 1 THEN t[i] ELSE f[i - 1] \o t[i]
  BY <1>2, Zenon DEF Adds
<1>5. CASE s = <<>>
  <2>1. Len(t) = 1 /\ Len(t) \in 1 .. Len(t)
    BY <1>1, <1>5
  <2>2. f[Len(t)] = t[Len(t)]
    BY <1>4, <2>1, Zenon
  <2>3. t[Len(t)] = x
    BY <1>1
  <2>4. FlattenSeq(s) \o x = x
    BY <1>5, FlattenNone
  <2> QED BY <1>3, <2>2, <2>3, <2>4, Zenon DEF t
<1>6. CASE s # <<>>
  <2>1. Len(t) \in 1 .. Len(t) /\ Len(t) # 1 /\ Len(t) - 1 = Len(s)
    BY <1>1, <1>6
  <2>2. f[Len(t)] = f[Len(t) - 1] \o t[Len(t)]
    BY <1>4, <2>1, Zenon
  <2> DEFINE g == [i \in 1 .. Len(s) |-> f[i]]
  <2>3. Adds(g, s, Len(s))
    <3>1. \A i \in 1 .. Len(s) : g[i] = f[i]
      OBVIOUS
    <3>2. g = [i \in 1 .. Len(s) |-> g[i]]
      OBVIOUS
    <3> HIDE DEF g
    <3>3. \A i \in 1 .. Len(s) : g[i] = IF i = 1 THEN s[i] ELSE g[i - 1] \o s[i]
      <4> SUFFICES ASSUME NEW i \in 1 .. Len(s)
                   PROVE  g[i] = IF i = 1 THEN s[i] ELSE g[i - 1] \o s[i]
        OBVIOUS
      <4>1. i \in 1 .. Len(t) /\ t[i] = s[i]
        BY <1>1
      <4>2. f[i] = IF i = 1 THEN t[i] ELSE f[i - 1] \o t[i]
        BY <1>4, <4>1, Zenon
      <4>3. g[i] = f[i] /\ (i # 1 => g[i - 1] = f[i - 1])
        <5>1. i # 1 => i - 1 \in 1 .. Len(s)
          BY <1>1
        <5> QED BY <3>1, <5>1, Zenon
      <4> QED BY <4>1, <4>2, <4>3, Zenon
    <3> QED BY <3>2, <3>3, Zenon DEF Adds
  <2>4. g[Len(s)] = f[Len(s)]
    BY <1>1, <1>6
  <2> HIDE DEF g
  <2>5. FlattenSeq(s) = g[Len(s)]
    BY <1>6, <2>3, FlattenIs
  <2>6. t[Len(t)] = x
    BY <1>1
  <2> QED BY <1>3, <2>1, <2>2, <2>4, <2>5, <2>6, Zenon DEF t
<1> QED BY <1>5, <1>6

LEMMA Regroup ==
  ASSUME NEW X, NEW a \in Seq(X), NEW b \in Seq(X), NEW x \in Seq(X)
  PROVE  (a \o b) \o x = a \o (b \o x)
OBVIOUS

-----------------------------------------------------------------------------
(* The A2560K's keyboard.  A modifier of one key is set, before the i-th   *)
(* waiting code, as it was after the code before it.                       *)
KeyMods == HeldMods(Key)

CodeType ==
  /\ held \subseteq Key /\ mods \subseteq KeyMods
  /\ device \in Seq({"make", "break"} \X Key) /\ really \in Seq(SUBSET KeyMods)
  /\ Len(device) = Len(really)

SetBefore(n, i) == IF i = 1 THEN n \in mods ELSE n \in really[i - 1]

SetAfter(k, n, i) ==
  IF device[i][2] = k THEN device[i][1] = "make" ELSE SetBefore(n, i)

Followed(k, n) == \A i \in 1 .. Len(device) : n \in really[i] <=> SetAfter(k, n, i)

AtLastHeld(k, n) == SetBefore(n, Len(device) + 1) <=> k \in held

MoInv ==
  /\ CodeType
  /\ \A k \in Key, n \in KeyMods : IsSole(k, n) => Followed(k, n) /\ AtLastHeld(k, n)

LEMMA HeldSole ==
  ASSUME NEW k, NEW n, IsSole(k, n), NEW h
  PROVE  n \in HeldMods(h) <=> k \in h
  BY DEF IsSole, HeldMods

LEMMA SoleIsOfKey ==
  ASSUME NEW k, NEW n, IsSole(k, n)
  PROVE  n \in KeyMods
  BY KeyboardAssumption DEF KeyboardAssumption, IsSole, KeyMods, HeldMods

LEMMA HeldTyped ==
  ASSUME NEW h
  PROVE  HeldMods(h) \subseteq KeyMods
  BY KeyboardAssumption DEF KeyboardAssumption, HeldMods, KeyMods

(* A key goes down or up.                                                  *)
KeyMoves(code, k, h) ==
  /\ held' = h
  /\ device' = Append(device, <<code, k>>)
  /\ really' = Append(really, HeldMods(h))
  /\ mods' = mods

LEMMA MoveKeepsSole ==
  ASSUME CodeType, NEW code \in {"make", "break"}, NEW j \in Key, NEW h,
         h = (IF code = "make" THEN held \cup {j} ELSE held \ {j}),
         KeyMoves(code, j, h), NEW k \in Key, NEW n \in KeyMods, IsSole(k, n),
         Followed(k, n), AtLastHeld(k, n)
  PROVE  (Followed(k, n) /\ AtLastHeld(k, n))'
<1>1. PICK len \in Nat : /\ len = Len(device) /\ len = Len(really)
                         /\ Len(device') = len + 1 /\ Len(really') = len + 1
  BY DEF CodeType, KeyMoves
<1>2. \A i \in 1 .. len : device'[i] = device[i] /\ really'[i] = really[i]
  BY <1>1 DEF CodeType, KeyMoves
<1>3. device'[len + 1] = <<code, j>> /\ really'[len + 1] = HeldMods(h)
  BY <1>1 DEF CodeType, KeyMoves
<1>4. n \in HeldMods(h) <=> k \in h
  BY HeldSole
<1>5. \A i \in 1 .. len + 1 : SetBefore(n, i)' <=> SetBefore(n, i)
  BY <1>1, <1>2 DEF SetBefore, KeyMoves
<1>6. k \in h <=> IF j = k THEN code = "make" ELSE k \in held
  OBVIOUS
<1>7. n \in really'[len + 1] <=> SetAfter(k, n, len + 1)'
  <2>1. SetBefore(n, len + 1)' <=> k \in held
    BY <1>1, <1>5 DEF AtLastHeld
  <2> QED
    BY <2>1, <1>3, <1>4, <1>6 DEF SetAfter
<1>8. \A i \in 1 .. len : n \in really'[i] <=> SetAfter(k, n, i)'
  BY <1>1, <1>2, <1>5 DEF Followed, SetAfter
<1>9. Followed(k, n)'
  BY <1>1, <1>7, <1>8 DEF Followed
<1>10. AtLastHeld(k, n)'
  <2>1. SetBefore(n, len + 2)' <=> n \in really'[len + 1]
    BY <1>1 DEF SetBefore
  <2>2. held' = h
    BY DEF KeyMoves
  <2> QED
    BY <1>1, <1>3, <1>4, <2>1, <2>2 DEF AtLastHeld
<1> QED
  BY <1>9, <1>10

(* The handler takes the first code.                                       *)
LEMMA Taken ==
  ASSUME CodeType, Enqueue
  PROVE  /\ device # <<>> /\ Len(device) >= 1
         /\ Head(device) = device[1] /\ Head(really) = really[1]
         /\ device[1] \in {"make", "break"} \X Key
         /\ mods' = MakeBreak(device[1][2], device[1][1], mods)
         /\ held' = held /\ device' = Tail(device) /\ really' = Tail(really)
<1>1. device # <<>> /\ held' = held /\ device' = Tail(device) /\ really' = Tail(really)
  BY DEF Enqueue
<1>2. mods' = MakeBreak(Head(device)[2], Head(device)[1], mods)
  BY DEF Enqueue
<1>3. Len(device) >= 1 /\ Head(device) = device[1] /\ Head(really) = really[1]
  BY <1>1 DEF CodeType
<1>4. device[1] \in {"make", "break"} \X Key
  BY <1>3 DEF CodeType
<1> QED
  BY <1>1, <1>2, <1>3, <1>4

LEMMA TakenTyped ==
  ASSUME CodeType, Enqueue
  PROVE  /\ device' \in Seq({"make", "break"} \X Key) /\ really' \in Seq(SUBSET KeyMods)
         /\ Len(device') = Len(device) - 1 /\ Len(really') = Len(really) - 1
         /\ \A i \in 1 .. Len(device') : device'[i] = device[i + 1]
         /\ \A i \in 1 .. Len(really') : really'[i] = really[i + 1]
<1>1. /\ device \in Seq({"make", "break"} \X Key) /\ device # <<>>
      /\ really \in Seq(SUBSET KeyMods) /\ really # <<>>
  BY Taken DEF CodeType
<1>2. /\ Tail(device) \in Seq({"make", "break"} \X Key) /\ Len(Tail(device)) = Len(device) - 1
      /\ Tail(really) \in Seq(SUBSET KeyMods) /\ Len(Tail(really)) = Len(really) - 1
      /\ \A i \in 1 .. Len(Tail(device)) : Tail(device)[i] = device[i + 1]
      /\ \A i \in 1 .. Len(Tail(really)) : Tail(really)[i] = really[i + 1]
  BY <1>1, HeadTailProperties
<1>3. device' = Tail(device) /\ really' = Tail(really)
  BY Taken
<1> QED
  BY <1>2, <1>3, Zenon

(* A modifier of one key is, after the code, as it was when the code was   *)
(* made.                                                                   *)
LEMMA TakenModifiers ==
  ASSUME CodeType, Enqueue, NEW k \in Key, NEW n \in KeyMods, IsSole(k, n), Followed(k, n)
  PROVE  n \in mods' <=> n \in really[1]
<1>1. n \in really[1] <=> SetAfter(k, n, 1)
  <2>1. 1 \in 1 .. Len(device)
    BY Taken DEF CodeType
  <2> QED
    BY <2>1 DEF Followed
<1>2. SetBefore(n, 1) <=> n \in mods
  BY DEF SetBefore
<1>3. device[1][1] \in {"make", "break"} /\ mods' = MakeBreak(device[1][2], device[1][1], mods)
  BY Taken
<1>4. CASE device[1][2] = k
  BY <1>1, <1>3, <1>4 DEF SetAfter, MakeBreak, IsSole
<1>5. CASE device[1][2] # k
  <2>1. n \in mods' <=> n \in mods
    BY <1>3, <1>5 DEF MakeBreak, IsSole
  <2> QED
    BY <1>1, <1>2, <1>5, <2>1 DEF SetAfter
<1> QED
  BY <1>4, <1>5

LEMMA EnqueueKeepsSole ==
  ASSUME CodeType, Enqueue, NEW k \in Key, NEW n \in KeyMods, IsSole(k, n),
         Followed(k, n), AtLastHeld(k, n)
  PROVE  (Followed(k, n) /\ AtLastHeld(k, n))'
<1>1. PICK len \in Nat : /\ len >= 1 /\ len = Len(device) /\ len = Len(really)
                         /\ Len(device') = len - 1 /\ Len(really') = len - 1
  <2>1. Len(device) \in Nat /\ Len(device) = Len(really) /\ Len(device) >= 1
    BY Taken DEF CodeType
  <2> QED
    BY <2>1, TakenTyped
<1>2. \A i \in 1 .. len - 1 : device'[i] = device[i + 1] /\ really'[i] = really[i + 1]
  BY <1>1, TakenTyped
<1>3. n \in mods' <=> n \in really[1]
  BY TakenModifiers
<1>4. \A i \in 1 .. len : SetBefore(n, i)' <=> SetBefore(n, i + 1)
  BY <1>1, <1>2, <1>3 DEF SetBefore
<1>5. \A i \in 1 .. len - 1 : n \in really'[i] <=> SetAfter(k, n, i)'
  BY <1>1, <1>2, <1>4 DEF Followed, SetAfter
<1>6. SetBefore(n, len)' <=> k \in held'
  BY <1>1, <1>4, Taken DEF AtLastHeld
<1> QED
  BY <1>1, <1>5, <1>6 DEF Followed, AtLastHeld

(* BREAK is decided by the modifiers before the code, which are those      *)
(* after it: its key is no modifier.                                       *)
LEMMA EnqueueKeepsBreak ==
  ASSUME SoleBreakKeys, MoInv, BreakFlagged, Enqueue
  PROVE  BreakFlagged'
<1>1. CodeType /\ brk = broke
  BY DEF MoInv, BreakFlagged
<1> DEFINE key == device[1][2]
<1>2. /\ brk' = (brk \/ BreakTyped(key, device[1][1], mods))
      /\ broke' = (broke \/ (device[1][1] = "make" /\ \E n \in really[1] : <<key, n>> \in BreakKeys))
  BY <1>1, Taken DEF Enqueue
<1>3. ASSUME NEW n, <<key, n>> \in BreakKeys
      PROVE  n \in really[1] <=> n \in mods
  <2>1. key \notin DOMAIN ModOf
    BY <1>3 DEF SoleBreakKeys
  <2>2. PICK k \in Key : IsSole(k, n)
    BY <1>3 DEF SoleBreakKeys
  <2>3. key # k
    BY <2>1, <2>2 DEF IsSole
  <2>4. n \in really[1] <=> SetAfter(k, n, 1)
    <3>1. n \in KeyMods
      BY <2>2, SoleIsOfKey
    <3> QED
      BY <1>1, <2>2, <3>1, Taken DEF MoInv, Followed
  <2> QED
    BY <2>3, <2>4 DEF SetAfter, SetBefore
<1>4. BreakTyped(key, device[1][1], mods)
        <=> device[1][1] = "make" /\ \E n \in really[1] : <<key, n>> \in BreakKeys
  BY <1>3 DEF BreakTyped
<1> QED
  BY <1>1, <1>2, <1>4 DEF BreakFlagged

LEMMA CodeTypeKept ==
  ASSUME CodeType, [MoNext]_moVars
  PROVE  CodeType'
<1>1. ASSUME NEW k \in Key, Press(k) PROVE CodeType'
  BY <1>1, HeldTyped DEF Press, CodeType
<1>2. ASSUME NEW k \in Key, Release(k) PROVE CodeType'
  BY <1>2, HeldTyped DEF Release, CodeType
<1>3. CASE Enqueue
  <2>1. Len(device') = Len(really') /\ held' \subseteq Key
    BY <1>3, Taken, TakenTyped DEF CodeType
  <2>2. mods' \subseteq KeyMods
    <3>1. mods' \subseteq mods \cup HeldMods({device[1][2]})
      BY <1>3, Taken DEF MakeBreak, HeldMods
    <3> QED
      BY <3>1, HeldTyped DEF CodeType
  <2> QED
    BY <1>3, <2>1, <2>2, TakenTyped DEF CodeType
<1>4. CASE UNCHANGED <<held, device, mods, really>>
  BY <1>4 DEF CodeType
<1> QED
  BY <1>1, <1>2, <1>3, <1>4 DEF MoNext, moVars, Irq, IrqDone, GetExpanded, SkipBreak, GetKey,
     TestBreak

(* The chain is kept, whatever keys there are.                             *)
THEOREM MoInvariance == MoSpec => []MoInv
<1>1. MoInit => MoInv
  <2> SUFFICES ASSUME MoInit PROVE MoInv
    OBVIOUS
  <2>1. held = {} /\ device = <<>> /\ really = <<>> /\ mods = {}
    BY DEF MoInit
  <2>2. CodeType
    BY <2>1 DEF CodeType
  <2>3. \A k, n : Followed(k, n) /\ AtLastHeld(k, n)
    BY <2>1 DEF Followed, AtLastHeld, SetBefore
  <2> QED
    BY <2>2, <2>3 DEF MoInv
<1>2. MoInv /\ [MoNext]_moVars => MoInv'
  <2> SUFFICES ASSUME MoInv, [MoNext]_moVars PROVE MoInv'
    OBVIOUS
  <2>1. CodeType'
    BY CodeTypeKept DEF MoInv
  <2>2. ASSUME NEW j \in Key, Press(j) \/ Release(j) PROVE MoInv'
    <3>1. PICK code \in {"make", "break"} :
            KeyMoves(code, j, IF code = "make" THEN held \cup {j} ELSE held \ {j})
      BY <2>2 DEF Press, Release, KeyMoves
    <3> QED
      BY <2>1, <3>1, MoveKeepsSole DEF MoInv
  <2>3. CASE Enqueue
    BY <2>1, <2>3, EnqueueKeepsSole DEF MoInv
  <2>4. CASE UNCHANGED <<held, device, mods, really>>
    BY <2>1, <2>4 DEF MoInv, Followed, AtLastHeld, SetBefore, SetAfter
  <2>5. CASE Irq \/ IrqDone \/ SkipBreak
    BY <2>4, <2>5 DEF Irq, IrqDone, SkipBreak
  <2>6. CASE GetExpanded \/ GetKey \/ TestBreak \/ UNCHANGED moVars
    BY <2>4, <2>6 DEF GetExpanded, GetKey, TestBreak, moVars
  <2> QED
    BY <2>2, <2>3, <2>5, <2>6 DEF MoNext
<1> QED
  BY <1>1, <1>2, PTL DEF MoSpec

(* kbdmo_break tells of every BREAK typed since it was asked last, and of  *)
(* nothing else, if each modifier of a BREAK is that of one key.           *)
THEOREM BreaksAreFlagged ==
  ASSUME SoleBreakKeys
  PROVE  MoSpec => []BreakFlagged
<1>1. MoInit => BreakFlagged
  BY DEF MoInit, BreakFlagged
<1>2. MoInv /\ BreakFlagged /\ [MoNext]_moVars => BreakFlagged'
  <2> SUFFICES ASSUME MoInv, BreakFlagged, [MoNext]_moVars PROVE BreakFlagged'
    OBVIOUS
  <2>1. CASE Enqueue
    BY <2>1, EnqueueKeepsBreak
  <2>2. ASSUME NEW j \in Key, Press(j) \/ Release(j) PROVE BreakFlagged'
    BY <2>2 DEF Press, Release, history, BreakFlagged
  <2>3. CASE Irq \/ IrqDone \/ SkipBreak
    BY <2>3 DEF Irq, IrqDone, SkipBreak, history, BreakFlagged
  <2>4. CASE GetExpanded \/ GetKey \/ TestBreak \/ UNCHANGED moVars
    BY <2>4 DEF GetExpanded, GetKey, TestBreak, moVars, BreakFlagged
  <2> QED
    BY <2>1, <2>2, <2>3, <2>4 DEF MoNext
<1> QED
  BY <1>1, <1>2, MoInvariance, PTL DEF MoSpec

-----------------------------------------------------------------------------
(* What the A2560K's keyboard returns.  A make code that waits stands for  *)
(* a press typed with its modifiers, after every press taken.              *)
MoChar   == (SUBSET KeyMods) \X Key \X Nat
MoPress  == (SUBSET KeyMods) \X Key
RingCode == (SUBSET KeyMods) \X {"make", "break"} \X Key \X Nat

QueueType ==
  /\ scBuf \in Seq(RingCode) /\ typed \in Seq(MoPress) /\ taken \in Seq(Nat)
  /\ got \in Seq(MoChar) /\ charBuf \in Seq(MoChar)

Waits(w, made, gone) ==
  w[2] = "make" => /\ w[4] \in 1 .. Len(made) /\ made[w[4]] = <<w[1], w[3]>>
                   /\ \A j \in 1 .. Len(gone) : gone[j] < w[4]

Queued ==
  /\ \A i \in 1 .. Len(scBuf) : Waits(scBuf[i], typed, taken)
  /\ \A i, j \in 1 .. Len(scBuf) :
       i < j /\ scBuf[i][2] = "make" /\ scBuf[j][2] = "make" => scBuf[i][4] < scBuf[j][4]
  /\ \A j \in 1 .. Len(taken) : taken[j] \in 1 .. Len(typed)

OrderInv == QueueType /\ Queued /\ KeysInOrder

LEMMA CharsTyped ==
  ASSUME NEW m \in SUBSET KeyMods, NEW k \in Key
  PROVE  Chars(m, k) \in Seq(MoChar)
  BY KeyboardAssumption DEF KeyboardAssumption, Chars, MoChar

(* The modifiers kept are those held when the code was made.               *)
LEMMA ModifiersAreReal ==
  ASSUME SoleModifiers, MoInv, Enqueue
  PROVE  mods' = really[1] /\ mods' \in SUBSET KeyMods
<1>1. CodeType /\ CodeType'
  BY CodeTypeKept DEF MoInv, MoNext
<1>2. really[1] \subseteq KeyMods
  BY <1>1, Taken DEF CodeType
<1>3. ASSUME NEW n \in KeyMods PROVE n \in mods' <=> n \in really[1]
  <2>1. PICK k \in Key : IsSole(k, n)
    BY KeyboardAssumption DEF KeyboardAssumption, SoleModifiers, KeyMods, HeldMods
  <2> QED
    BY <1>1, <2>1, TakenModifiers DEF MoInv
<1> QED
  BY <1>1, <1>2, <1>3 DEF CodeType

(* The code handled: what it adds to the presses, and the four things the  *)
(* ring may do with it.                                                    *)
Handled(w) ==
  /\ typed' = IF w[2] = "make" THEN Append(typed, <<w[1], w[3]>>) ELSE typed
  /\ w[4] = Len(typed')
  /\ scBuf' \in {scBuf, <<>>, <<w>>, Append(scBuf, w)}
  /\ ~crowded' => ~crowded /\ scBuf' = Append(scBuf, w)
  /\ UNCHANGED <<got, taken, charBuf>>

LEMMA EnqueueHandles ==
  ASSUME SoleModifiers, MoInv, QueueType, Enqueue
  PROVE  \E w \in RingCode : Handled(w)
<1> DEFINE m == mods'
           code == device[1][1]
           k == device[1][2]
           w == <<m, code, k, Len(typed')>>
<1>1. /\ m \in SUBSET KeyMods /\ really[1] = m /\ code \in {"make", "break"} /\ k \in Key
      /\ Head(device)[1] = code /\ Head(device)[2] = k /\ Head(really) = m
  BY Taken, ModifiersAreReal DEF MoInv
<1>2. typed' = IF code = "make" THEN Append(typed, <<m, k>>) ELSE typed
  BY <1>1 DEF Enqueue
<1>3. Ring!Put(w)
  BY <1>1 DEF Enqueue
<1>4. crowded' = (crowded \/ Len(scBuf) >= ScSize - 1) /\ UNCHANGED <<got, taken, charBuf>>
  BY DEF Enqueue, taking
<1>5. Len(typed') \in Nat
  BY <1>1, <1>2 DEF QueueType, MoPress
<1>6. w \in RingCode
  BY <1>1, <1>5 DEF RingCode
<1>7. w[1] = m /\ w[2] = code /\ w[3] = k /\ w[4] = Len(typed')
  OBVIOUS
<1> HIDE DEF w, m, code, k
<1>8. scBuf' \in {scBuf, <<>>, <<w>>, Append(scBuf, w)}
  BY <1>3 DEF Ring!Put
<1>9. ~crowded' => ~crowded /\ scBuf' = Append(scBuf, w)
  <2>1. Len(scBuf) \in Nat /\ ScSize \in Nat
    BY KeyboardAssumption DEF QueueType, KeyboardAssumption
  <2>2. ~(Len(scBuf) >= ScSize - 1) => scBuf' = Append(scBuf, w)
    BY <1>3, <2>1 DEF Ring!Put
  <2> QED
    BY <1>4, <2>2, Zenon
<1> QED
  BY <1>2, <1>4, <1>6, <1>7, <1>8, <1>9 DEF Handled

(* The presses typed before keep their numbers.                            *)
LEMMA TypedGrows ==
  ASSUME QueueType, NEW w \in RingCode, Handled(w)
  PROVE  /\ typed' \in Seq(MoPress) /\ 1 .. Len(typed) \subseteq 1 .. Len(typed')
         /\ \A n \in 1 .. Len(typed) : typed'[n] = typed[n]
         /\ \A n \in 1 .. Len(typed') : n \in 1 .. Len(typed) \/ (w[2] = "make" /\ n = w[4])
         /\ w[2] = "make" => /\ w[4] \in 1 .. Len(typed') /\ typed'[w[4]] = <<w[1], w[3]>>
                             /\ \A n \in 1 .. Len(typed) : n < w[4]
<1> DEFINE press == <<w[1], w[3]>>
<1>1. press \in MoPress
  BY DEF RingCode, MoPress
<1>2. typed \in Seq(MoPress) /\ w[4] = Len(typed')
      /\ typed' = IF w[2] = "make" THEN Append(typed, press) ELSE typed
  BY DEF QueueType, Handled
<1> HIDE DEF press
<1>3. CASE w[2] = "make"
  <2>1. /\ typed' \in Seq(MoPress) /\ Len(typed') = Len(typed) + 1
        /\ typed'[Len(typed) + 1] = press /\ \A n \in 1 .. Len(typed) : typed'[n] = typed[n]
        /\ Len(typed) \in Nat
    BY <1>1, <1>2, <1>3
  <2> QED
    BY <1>2, <1>3, <2>1 DEF press
<1>4. CASE w[2] # "make"
  BY <1>2, <1>4
<1> QED
  BY <1>3, <1>4

LEMMA HandledQueued ==
  ASSUME QueueType, Queued, NEW w \in RingCode, Handled(w)
  PROVE  QueueType' /\ Queued'
<1>1. QueueType'
  <2>1. scBuf' \in Seq(RingCode)
    <3>1. scBuf' \in {scBuf, <<>>, <<w>>, Append(scBuf, w)}
      BY DEF Handled
    <3>2. \A S : \A v \in S, q \in Seq(S) : Append(q, v) \in Seq(S) /\ <<v>> \in Seq(S)
      OBVIOUS
    <3>3. scBuf \in Seq(RingCode) /\ <<>> \in Seq(RingCode)
      BY DEF QueueType
    <3> QED
      BY <3>1, <3>2, <3>3, Zenon
  <2> QED
    BY <2>1, TypedGrows DEF QueueType, Handled
<1>2. taken' = taken
  BY DEF Handled
<1>3. \A j \in 1 .. Len(taken) : taken[j] \in 1 .. Len(typed)
  BY DEF Queued
<1>4. Waits(w, typed', taken')
  BY <1>2, <1>3, TypedGrows, Zenon DEF Waits
<1>5. \A i \in 1 .. Len(scBuf) : Waits(scBuf[i], typed', taken')
  BY <1>2, TypedGrows DEF Queued, Waits
<1>6. \A i \in 1 .. Len(scBuf) : scBuf[i][2] = "make" /\ w[2] = "make" => scBuf[i][4] < w[4]
  BY TypedGrows DEF Queued, Waits
<1>7. scBuf \in Seq(RingCode)
  BY DEF QueueType
<1>8. \A j \in 1 .. Len(taken') : taken'[j] \in 1 .. Len(typed')
  BY <1>2, <1>3, TypedGrows
<1>9. CASE scBuf' = scBuf
  BY <1>1, <1>5, <1>8, <1>9 DEF Queued
<1>10. CASE scBuf' = <<>>
  BY <1>1, <1>8, <1>10 DEF Queued
<1>11. CASE scBuf' = <<w>>
  <2>1. 1 .. Len(scBuf') = {1} /\ scBuf'[1] = w
    BY <1>11
  <2>2. \A i \in 1 .. Len(scBuf') : Waits(scBuf'[i], typed', taken')
    BY <1>4, <2>1
  <2> QED
    BY <1>1, <1>8, <2>1, <2>2 DEF Queued
<1>12. CASE scBuf' = Append(scBuf, w)
  <2>1. /\ Len(scBuf) \in Nat /\ Len(scBuf') = Len(scBuf) + 1
        /\ scBuf'[Len(scBuf) + 1] = w /\ \A i \in 1 .. Len(scBuf) : scBuf'[i] = scBuf[i]
    BY <1>7, <1>12
  <2>2. \A i \in 1 .. Len(scBuf') : i \in 1 .. Len(scBuf) \/ i = Len(scBuf) + 1
    BY <2>1
  <2>3. \A i \in 1 .. Len(scBuf') : Waits(scBuf'[i], typed', taken')
    BY <1>4, <1>5, <2>1, <2>2
  <2>4. ASSUME NEW i \in 1 .. Len(scBuf'), NEW j \in 1 .. Len(scBuf'), i < j,
               scBuf'[i][2] = "make", scBuf'[j][2] = "make"
        PROVE  scBuf'[i][4] < scBuf'[j][4]
    <3>1. i \in 1 .. Len(scBuf) /\ scBuf'[i] = scBuf[i]
      BY <2>1, <2>4
    <3>2. CASE j \in 1 .. Len(scBuf)
      BY <2>1, <2>4, <3>1, <3>2 DEF Queued
    <3>3. CASE j = Len(scBuf) + 1
      BY <1>6, <2>1, <2>4, <3>1, <3>3
    <3> QED
      BY <2>2, <3>2, <3>3
  <2> QED
    BY <1>1, <1>8, <2>3, <2>4 DEF Queued
<1> QED
  BY <1>1, <1>9, <1>10, <1>11, <1>12 DEF Handled

(* Whatever the ring does with a code, what was read stays read; and the   *)
(* press waits if the code had a free slot.                                *)
LEMMA HandledInOrder ==
  ASSUME QueueType, Queued, KeysInOrder, NEW w \in RingCode, Handled(w)
  PROVE  KeysInOrder'
<1>1. UNCHANGED <<got, taken, charBuf>>
  BY DEF Handled
<1>2. TakenChars' = TakenChars
  <2>1. \A i \in 1 .. Len(taken) : typed'[taken[i]] = typed[taken[i]]
    BY TypedGrows DEF Queued
  <2> QED
    BY <1>1, <2>1, Zenon DEF TakenChars
<1>3. got' \o charBuf' = FlattenSeq(TakenChars')
  BY <1>1, <1>2, Zenon DEF KeysInOrder
<1>4. ASSUME ~crowded', NEW n \in 1 .. Len(typed') PROVE Kept(n)'
  <2>1. ~crowded /\ scBuf' = Append(scBuf, w)
    BY <1>4 DEF Handled
  <2>2. /\ Len(scBuf) + 1 \in 1 .. Len(scBuf') /\ scBuf'[Len(scBuf) + 1] = w
        /\ \A i \in 1 .. Len(scBuf) : i \in 1 .. Len(scBuf') /\ scBuf'[i] = scBuf[i]
    BY <2>1 DEF QueueType
  <2>3. CASE n \in 1 .. Len(typed)
    <3>1. Kept(n)
      BY <2>1, <2>3 DEF KeysInOrder
    <3> QED
      BY <1>1, <2>2, <3>1 DEF Kept
  <2>4. CASE w[2] = "make" /\ n = w[4]
    BY <2>2, <2>4 DEF Kept
  <2> QED
    BY <1>4, <2>3, <2>4, TypedGrows
<1> QED
  BY <1>1, <1>3, <1>4 DEF KeysInOrder

LEMMA EnqueueKeepsOrder ==
  ASSUME SoleModifiers, MoInv, OrderInv, Enqueue
  PROVE  OrderInv'
<1>1. PICK w \in RingCode : Handled(w)
  BY EnqueueHandles DEF OrderInv
<1> QED
  BY <1>1, HandledQueued, HandledInOrder DEF OrderInv

(* The first character expanded is returned.                               *)
LEMMA GetExpandedKeepsOrder ==
  ASSUME OrderInv, GetExpanded
  PROVE  OrderInv'
<1>1. QueueType /\ charBuf # <<>> /\ UNCHANGED <<scBuf, typed, taken, crowded>>
  BY DEF OrderInv, GetExpanded
<1>2. got' = Append(got, Head(charBuf)) /\ charBuf' = Tail(charBuf)
  BY DEF GetExpanded
<1>3. got \in Seq(MoChar) /\ charBuf \in Seq(MoChar)
  BY <1>1 DEF QueueType
<1>4. /\ Append(got, Head(charBuf)) \o Tail(charBuf) = got \o charBuf
      /\ Append(got, Head(charBuf)) \in Seq(MoChar) /\ Tail(charBuf) \in Seq(MoChar)
  BY <1>1, <1>3
<1>5. QueueType' /\ Queued'
  BY <1>1, <1>2, <1>4 DEF OrderInv, QueueType, Queued, Waits
<1>6. TakenChars' = TakenChars /\ \A n : Kept(n) => Kept(n)'
  BY <1>1 DEF TakenChars, Kept
<1>7. got' \o charBuf' = FlattenSeq(TakenChars')
  BY <1>2, <1>4, <1>6, Zenon DEF OrderInv, KeysInOrder
<1> QED
  BY <1>1, <1>5, <1>6, <1>7 DEF OrderInv, KeysInOrder

(* The oldest code is taken out.                                           *)
LEMMA FirstOut ==
  ASSUME QueueType, scBuf # <<>>, Ring!Get
  PROVE  /\ scBuf' \in Seq(RingCode) /\ Head(scBuf) = scBuf[1] /\ 1 \in 1 .. Len(scBuf)
         /\ scBuf[1] \in RingCode
         /\ \A i \in 1 .. Len(scBuf') : /\ i + 1 \in 1 .. Len(scBuf) /\ scBuf'[i] = scBuf[i + 1]
                                     /\ i \in Nat /\ i > 0
         /\ \A i \in 1 .. Len(scBuf) : i # 1 => i - 1 \in 1 .. Len(scBuf') /\ scBuf'[i - 1] = scBuf[i]
<1>1. scBuf' = Tail(scBuf) /\ scBuf \in Seq(RingCode)
  BY DEF Ring!Get, QueueType
<1> QED
  BY <1>1

LEMMA SkipBreakKeepsOrder ==
  ASSUME OrderInv, SkipBreak
  PROVE  OrderInv'
<1>1. /\ QueueType /\ scBuf # <<>> /\ Head(scBuf)[2] = "break" /\ Ring!Get
      /\ UNCHANGED <<got, charBuf, typed, taken, crowded>>
  BY DEF OrderInv, SkipBreak, history, taking
<1>2. QueueType'
  BY <1>1, FirstOut DEF QueueType
<1>3. Queued'
  <2>1. \A i \in 1 .. Len(scBuf') : Waits(scBuf'[i], typed', taken')
    BY <1>1, FirstOut DEF OrderInv, Queued, Waits
  <2>2. ASSUME NEW i \in 1 .. Len(scBuf'), NEW j \in 1 .. Len(scBuf'), i < j,
               scBuf'[i][2] = "make", scBuf'[j][2] = "make"
        PROVE  scBuf'[i][4] < scBuf'[j][4]
    <3>1. /\ i + 1 \in 1 .. Len(scBuf) /\ j + 1 \in 1 .. Len(scBuf) /\ i + 1 < j + 1
          /\ scBuf'[i] = scBuf[i + 1] /\ scBuf'[j] = scBuf[j + 1]
      BY <1>1, <2>2, FirstOut
    <3> QED
      BY <2>2, <3>1 DEF OrderInv, Queued
  <2> QED
    BY <1>1, <2>1, <2>2 DEF OrderInv, Queued, Waits
<1>4. ASSUME NEW n, Kept(n) PROVE Kept(n)'
  <2>1. CASE \E i \in 1 .. Len(taken) : taken[i] = n
    BY <1>1, <2>1 DEF Kept
  <2>2. ASSUME NEW i \in 1 .. Len(scBuf), scBuf[i][2] = "make", scBuf[i][4] = n
        PROVE  Kept(n)'
    <3>1. i # 1
      BY <1>1, <2>2, FirstOut
    <3> QED
      BY <1>1, <2>2, <3>1, FirstOut DEF Kept
  <2> QED
    BY <1>4, <2>1, <2>2 DEF Kept
<1>5. TakenChars' = TakenChars
  BY <1>1 DEF TakenChars
<1>6. got' \o charBuf' = FlattenSeq(TakenChars')
  BY <1>1, <1>5, Zenon DEF OrderInv, KeysInOrder
<1> QED
  BY <1>1, <1>2, <1>3, <1>4, <1>6 DEF OrderInv, KeysInOrder

(* A make code is taken: its press is the newest taken, and its characters *)
(* come last.                                                              *)
LEMMA GetKeyKeepsQueue ==
  ASSUME OrderInv, GetKey
  PROVE  QueueType' /\ Queued' /\ taken' = Append(taken, scBuf[1][4])
<1> DEFINE key == scBuf[1]
           chars == Chars(key[1], key[3])
<1>1. /\ QueueType /\ Queued /\ scBuf # <<>> /\ Ring!Get /\ charBuf = <<>> /\ typed' = typed
  BY DEF OrderInv, GetKey
<1>2. /\ key \in RingCode /\ key[2] = "make" /\ taken' = Append(taken, key[4])
      /\ IF chars = <<>> THEN UNCHANGED <<got, charBuf>>
         ELSE got' = Append(got, Head(chars)) /\ charBuf' = Tail(chars)
  BY <1>1, FirstOut DEF GetKey
<1>3. Waits(key, typed, taken) /\ key[4] \in 1 .. Len(typed)
  BY <1>1, <1>2, FirstOut DEF Queued, Waits
<1>4. chars \in Seq(MoChar) /\ key[4] \in Nat
  BY <1>2, CharsTyped DEF RingCode
<1> HIDE DEF key, chars
<1>5. got' \in Seq(MoChar) /\ charBuf' \in Seq(MoChar) /\ taken' \in Seq(Nat)
  <2>1. got \in Seq(MoChar) /\ charBuf \in Seq(MoChar) /\ taken \in Seq(Nat)
    BY <1>1 DEF QueueType
  <2>2. taken' \in Seq(Nat)
    BY <1>2, <1>4, <2>1
  <2>3. CASE chars = <<>>
    BY <1>2, <2>1, <2>2, <2>3
  <2>4. CASE chars # <<>>
    <3>1. Head(chars) \in MoChar /\ Tail(chars) \in Seq(MoChar)
      BY <1>4, <2>4
    <3>2. Append(got, Head(chars)) \in Seq(MoChar)
      BY <2>1, <3>1
    <3> QED
      BY <1>2, <2>2, <2>4, <3>1, <3>2, Zenon
  <2> QED
    BY <2>3, <2>4
<1>6. QueueType'
  BY <1>1, <1>5, FirstOut DEF QueueType
<1>7. /\ taken \in Seq(Nat)
      /\ \A j \in 1 .. Len(taken') : \/ j \in 1 .. Len(taken) /\ taken'[j] = taken[j]
                                     \/ taken'[j] = key[4]
  BY <1>1, <1>2, <1>4 DEF QueueType
<1>8. ASSUME NEW i \in 1 .. Len(scBuf') PROVE Waits(scBuf'[i], typed', taken')
  <2>1. i + 1 \in 1 .. Len(scBuf) /\ 1 \in 1 .. Len(scBuf) /\ 1 < i + 1 /\ scBuf'[i] = scBuf[i + 1]
    BY <1>1, <1>8, FirstOut
  <2>2. Waits(scBuf[i + 1], typed, taken)
    BY <1>1, <2>1 DEF Queued
  <2>3. scBuf[i + 1][2] = "make" => key[4] < scBuf[i + 1][4]
    BY <1>1, <1>2, <2>1 DEF Queued, key
  <2> QED
    BY <1>1, <1>7, <2>1, <2>2, <2>3 DEF Waits
<1>9. ASSUME NEW i \in 1 .. Len(scBuf'), NEW j \in 1 .. Len(scBuf'), i < j,
             scBuf'[i][2] = "make", scBuf'[j][2] = "make"
      PROVE  scBuf'[i][4] < scBuf'[j][4]
  <2>1. /\ i + 1 \in 1 .. Len(scBuf) /\ j + 1 \in 1 .. Len(scBuf) /\ i + 1 < j + 1
        /\ scBuf'[i] = scBuf[i + 1] /\ scBuf'[j] = scBuf[j + 1]
    BY <1>1, <1>9, FirstOut
  <2> QED
    BY <1>1, <1>9, <2>1 DEF Queued
<1>10. \A j \in 1 .. Len(taken') : taken'[j] \in 1 .. Len(typed')
  BY <1>1, <1>3, <1>7 DEF Queued
<1> QED
  BY <1>2, <1>6, <1>8, <1>9, <1>10 DEF Queued, key

LEMMA GetKeyReturns ==
  ASSUME OrderInv, GetKey
  PROVE  got' \o charBuf' = FlattenSeq(TakenChars')
<1> DEFINE key == scBuf[1]
           chars == Chars(key[1], key[3])
<1>1. /\ QueueType /\ Queued /\ scBuf # <<>> /\ Ring!Get /\ charBuf = <<>> /\ typed' = typed
  BY DEF OrderInv, GetKey
<1>2. /\ key \in RingCode /\ key[2] = "make" /\ taken' = Append(taken, key[4])
      /\ IF chars = <<>> THEN UNCHANGED <<got, charBuf>>
         ELSE got' = Append(got, Head(chars)) /\ charBuf' = Tail(chars)
  BY <1>1, FirstOut DEF GetKey
<1>3. typed[key[4]] = <<key[1], key[3]>>
  BY <1>1, <1>2, FirstOut DEF Queued, Waits
<1>4. chars \in Seq(MoChar) /\ key[4] \in Nat
  BY <1>2, CharsTyped DEF RingCode
<1>5. chars = Chars(typed[key[4]][1], typed[key[4]][2])
  BY <1>3
<1> HIDE DEF chars, key
<1> DEFINE s == TakenChars
           t == TakenChars'
<1>6. s \in Seq(Seq(MoChar)) /\ Len(s) = Len(taken)
  <2> DEFINE Y == Seq(MoChar)
  <2>1. ASSUME NEW i \in 1 .. Len(taken)
        PROVE  Chars(typed[taken[i]][1], typed[taken[i]][2]) \in Y
    <3>1. typed[taken[i]] \in MoPress
      BY <1>1 DEF Queued, QueueType
    <3> QED
      BY <3>1, CharsTyped DEF MoPress
  <2>2. taken \in Seq(Nat)
    BY <1>1 DEF QueueType
  <2> HIDE DEF Y
  <2>3. s \in Seq(Y) /\ Len(s) = Len(taken)
    BY <2>1, <2>2 DEF TakenChars
  <2> QED
    BY <2>3 DEF Y
<1>7. t = Append(s, chars)
  <2>1. /\ taken \in Seq(Nat) /\ Len(taken) \in Nat
        /\ Len(taken') = Len(taken) + 1
        /\ taken'[Len(taken) + 1] = key[4] /\ \A i \in 1 .. Len(taken) : taken'[i] = taken[i]
    BY <1>1, <1>2, <1>4 DEF QueueType
  <2>2. t = [i \in 1 .. Len(taken) + 1 |-> Chars(typed[taken'[i]][1], typed[taken'[i]][2])]
    BY <1>1, <2>1, Zenon DEF TakenChars
  <2>3. \A i \in 1 .. Len(taken) : s[i] = Chars(typed[taken'[i]][1], typed[taken'[i]][2])
    BY <2>1 DEF TakenChars
  <2> HIDE DEF s, t
  <2> DEFINE Y == Seq(MoChar)
  <2>4. chars \in Y /\ s \in Seq(Y)
    BY <1>4, <1>6
  <2> HIDE DEF Y
  <2>5. Append(s, chars) = [i \in 1 .. Len(taken) + 1 |-> IF i <= Len(taken) THEN s[i] ELSE chars]
    <3> DEFINE u == Append(s, chars)
    <3>1. u \in Seq(Y) /\ Len(u) = Len(taken) + 1 /\ u[Len(taken) + 1] = chars
          /\ \A i \in 1 .. Len(taken) : u[i] = s[i]
      BY <1>6, <2>1, <2>4
    <3> HIDE DEF u
    <3>2. u = [i \in 1 .. Len(taken) + 1 |-> u[i]]
      BY <3>1
    <3>3. \A i \in 1 .. Len(taken) + 1 : u[i] = IF i <= Len(taken) THEN s[i] ELSE chars
      BY <2>1, <3>1
    <3>4. u = [i \in 1 .. Len(taken) + 1 |-> IF i <= Len(taken) THEN s[i] ELSE chars]
      BY <3>2, <3>3
    <3> QED
      BY <3>4 DEF u
  <2>6. \A i \in 1 .. Len(taken) + 1 :
          Chars(typed[taken'[i]][1], typed[taken'[i]][2]) = IF i <= Len(taken) THEN s[i] ELSE chars
    BY <1>5, <2>1, <2>3
  <2> QED
    BY <2>2, <2>5, <2>6
<1>8. got \o charBuf = FlattenSeq(s) /\ got \in Seq(MoChar)
  BY <1>1 DEF OrderInv, KeysInOrder, QueueType
<1> HIDE DEF s, t
<1>9. FlattenSeq(t) = FlattenSeq(s) \o chars
  BY <1>4, <1>6, <1>7, FlattenAppend
<1>10. got \o <<>> = got
  BY <1>8
<1>11. got' \o charBuf' = got \o chars
  <2>1. CASE chars = <<>>
    BY <1>1, <1>2, <2>1
  <2>2. CASE chars # <<>>
    <3>1. Append(got, Head(chars)) \o Tail(chars) = got \o chars
      BY <1>4, <1>8, <2>2
    <3> QED
      BY <1>2, <2>2, <3>1
  <2> QED
    BY <2>1, <2>2
<1> QED
  BY <1>1, <1>8, <1>9, <1>10, <1>11, Zenon DEF t

LEMMA GetKeyKeepsOrder ==
  ASSUME OrderInv, GetKey
  PROVE  OrderInv'
<1>1. /\ QueueType /\ Queued /\ scBuf # <<>> /\ Ring!Get
      /\ scBuf[1][2] = "make" /\ UNCHANGED <<typed, crowded>>
  BY FirstOut DEF OrderInv, GetKey
<1>2. QueueType' /\ Queued' /\ taken' = Append(taken, scBuf[1][4])
  BY GetKeyKeepsQueue
<1>3. got' \o charBuf' = FlattenSeq(TakenChars')
  BY GetKeyReturns
<1>4. /\ taken \in Seq(Nat) /\ Len(taken) \in Nat
      /\ Len(taken') = Len(taken) + 1 /\ taken'[Len(taken) + 1] = scBuf[1][4]
      /\ \A i \in 1 .. Len(taken) : taken'[i] = taken[i]
  <2>1. scBuf[1][4] \in Nat /\ taken \in Seq(Nat)
    BY <1>1, FirstOut DEF RingCode, QueueType
  <2> QED
    BY <1>2, <2>1
<1>5. ASSUME NEW i \in 1 .. Len(taken'), NEW j \in 1 .. Len(taken'), i < j
      PROVE  taken'[i] < taken'[j]
  <2>1. i \in 1 .. Len(taken) /\ taken'[i] = taken[i]
    BY <1>4, <1>5
  <2>2. CASE j \in 1 .. Len(taken)
    BY <1>4, <1>5, <2>1, <2>2 DEF OrderInv, KeysInOrder
  <2>3. CASE j = Len(taken) + 1
    BY <1>1, <1>4, <2>1, <2>3, FirstOut DEF Queued, Waits
  <2> QED
    BY <1>4, <2>2, <2>3
<1>6. ASSUME NEW n, Kept(n) PROVE Kept(n)'
  <2>1. CASE \E i \in 1 .. Len(taken) : taken[i] = n
    BY <1>4, <2>1 DEF Kept
  <2>2. ASSUME NEW i \in 1 .. Len(scBuf), scBuf[i][2] = "make", scBuf[i][4] = n
        PROVE  Kept(n)'
    <3>1. CASE i = 1
      BY <1>4, <2>2, <3>1 DEF Kept
    <3>2. CASE i # 1
      BY <1>1, <2>2, <3>2, FirstOut DEF Kept
    <3> QED
      BY <3>1, <3>2
  <2> QED
    BY <1>6, <2>1, <2>2 DEF Kept
<1> QED
  BY <1>1, <1>2, <1>3, <1>5, <1>6 DEF OrderInv, KeysInOrder

(* kbdmo_getc returns the characters of the presses it takes, in order and *)
(* complete, each with the modifiers held when its key went down, if each  *)
(* modifier is that of one key; whatever the ring lost, and with no press  *)
(* missing as long as each code found a free slot.                         *)
THEOREM KeysStayInOrder ==
  ASSUME SoleModifiers
  PROVE  MoSpec => []KeysInOrder
<1>1. MoInit => OrderInv
  <2> SUFFICES ASSUME MoInit PROVE OrderInv
    OBVIOUS
  <2>1. scBuf = <<>> /\ typed = <<>> /\ taken = <<>> /\ got = <<>> /\ charBuf = <<>>
    BY DEF MoInit
  <2>2. TakenChars = <<>> /\ QueueType /\ Queued
    BY <2>1 DEF TakenChars, QueueType, Queued
  <2>3. got \o charBuf = FlattenSeq(TakenChars)
    <3>1. <<>> \o <<>> = <<>>
      OBVIOUS
    <3> QED
      BY <2>1, <2>2, <3>1, FlattenNone, Zenon
  <2> QED
    BY <2>1, <2>2, <2>3 DEF OrderInv, KeysInOrder
<1>2. MoInv /\ OrderInv /\ [MoNext]_moVars => OrderInv'
  <2> SUFFICES ASSUME MoInv, OrderInv, [MoNext]_moVars PROVE OrderInv'
    OBVIOUS
  <2>1. CASE UNCHANGED <<scBuf, typed, taken, crowded, got, charBuf>>
    <3>1. QueueType' /\ Queued'
      BY <2>1 DEF OrderInv, QueueType, Queued, Waits
    <3>2. TakenChars' = TakenChars /\ \A n : Kept(n) => Kept(n)'
      BY <2>1 DEF TakenChars, Kept
    <3>3. got' \o charBuf' = FlattenSeq(TakenChars')
      BY <2>1, <3>2, Zenon DEF OrderInv, KeysInOrder
    <3> QED
      BY <2>1, <3>1, <3>2, <3>3 DEF OrderInv, KeysInOrder
  <2>2. ASSUME NEW k \in Key, Press(k) \/ Release(k) PROVE OrderInv'
    BY <2>1, <2>2 DEF Press, Release, moRings, history, taking
  <2>3. CASE Irq \/ IrqDone \/ TestBreak \/ UNCHANGED moVars
    BY <2>1, <2>3 DEF Irq, IrqDone, TestBreak, moRings, history, taking, moVars
  <2>4. CASE Enqueue
    BY <2>4, EnqueueKeepsOrder
  <2>5. CASE GetExpanded \/ SkipBreak \/ GetKey
    BY <2>5, GetExpandedKeepsOrder, SkipBreakKeepsOrder, GetKeyKeepsOrder
  <2> QED
    BY <2>2, <2>3, <2>4, <2>5 DEF MoNext
<1>3. OrderInv => KeysInOrder
  BY DEF OrderInv
<1> QED
  BY <1>1, <1>2, <1>3, MoInvariance, PTL DEF MoSpec

-----------------------------------------------------------------------------
(* The console channels.  What a channel's data may be.                    *)
Keys == {None} \cup {KeyOf(n) : n \in Nat} \cup {Output(c) : c \in Char}
Kinds == {"shown", "ran", "dropped"}
Done == [kind : Kinds, text : Seq(Char)]

ConData ==
  [ansi : BOOLEAN, buf : Seq(Char), key : Keys, done : Seq(Done), mixed : BOOLEAN,
   grown : BOOLEAN, written : Seq(Char), read : Seq(Keys), gone : Seq(Keys)]

(* A sequence that has not ended.                                          *)
Unfinished(b) ==
  /\ Len(b) > 0 /\ b[1] = "esc"
  /\ \A n \in 2 .. Len(b) : b[n] \notin Final \cup {"esc"}

RunsWhole(done) == \A n \in 1 .. Len(done) : done[n].kind = "ran" <=> Whole(done[n].text)

(* Of the output, more is still to come.                                   *)
Owes(s, more) ==
  /\ s.buf = <<>> \/ Unfinished(s.buf)
  /\ RunsWhole(s.done)
  /\ ~s.mixed => Text(s.done) \o s.buf \o more = s.written

LEMMA TextTyped ==
  ASSUME NEW d \in Seq(Done)
  PROVE  /\ [n \in DOMAIN d |-> d[n].text] \in Seq(Seq(Char))
         /\ Text(d) \in Seq(Char)
<1> DEFINE Y == Seq(Char)
           t == [n \in DOMAIN d |-> d[n].text]
<1>1. \A n \in 1 .. Len(d) : d[n].text \in Y
  <2>1. ASSUME NEW n \in 1 .. Len(d) PROVE d[n].text \in Y
    <3>1. d[n] \in Done
      OBVIOUS
    <3> QED
      BY <3>1 DEF Done
  <2> QED
    BY <2>1
<1>2. d \in Seq(Done)
  OBVIOUS
<1> HIDE DEF Y
<1>3. t \in Seq(Y)
  BY <1>1, <1>2
<1>4. t \in Seq(Seq(Char))
  BY <1>3 DEF Y
<1> HIDE DEF t
<1>5. FlattenSeq(t) \in Seq(Char)
  BY <1>4, FlattenTyped
<1> QED
  BY <1>4, <1>5, Zenon DEF Text, t

LEMMA TextAppend ==
  ASSUME NEW d \in Seq(Done), NEW r \in Done
  PROVE  Text(Append(d, r)) = Text(d) \o r.text
<1> DEFINE Y == Seq(Char)
           t == [n \in DOMAIN d |-> d[n].text]
           u == [n \in DOMAIN Append(d, r) |-> Append(d, r)[n].text]
           x == r.text
           w == Append(t, x)
<1>1. t \in Seq(Y) /\ Len(t) = Len(d) /\ Len(d) \in Nat /\ \A n \in 1 .. Len(d) : t[n] = d[n].text
  BY TextTyped
<1>2. /\ DOMAIN Append(d, r) = 1 .. Len(d) + 1 /\ Append(d, r)[Len(d) + 1] = r
      /\ \A n \in 1 .. Len(d) : Append(d, r)[n] = d[n]
  OBVIOUS
<1>3. x \in Y
  BY DEF Done
<1>4. u = [n \in 1 .. Len(d) + 1 |-> Append(d, r)[n].text]
  BY <1>2
<1> HIDE DEF Y, t, u
<1>5. \A n \in 1 .. Len(d) + 1 : Append(d, r)[n].text = IF n <= Len(d) THEN t[n] ELSE x
  BY <1>1, <1>2
<1> HIDE DEF x
<1>6. /\ w \in Seq(Y) /\ Len(w) = Len(d) + 1 /\ w[Len(d) + 1] = x
      /\ \A n \in 1 .. Len(d) : w[n] = t[n]
  BY <1>1, <1>3
<1> HIDE DEF w
<1>7. w = [n \in 1 .. Len(d) + 1 |-> w[n]]
  BY <1>6
<1>8. \A n \in 1 .. Len(d) + 1 : w[n] = IF n <= Len(d) THEN t[n] ELSE x
  BY <1>1, <1>6
<1>9. u = w
  BY <1>4, <1>5, <1>7, <1>8
<1>10. FlattenSeq(Append(t, x)) = FlattenSeq(t) \o x
  BY <1>1, <1>3, FlattenAppend DEF Y
<1> QED
  BY <1>9, <1>10, Zenon DEF Text, t, u, w, x

(* Something is done with a text.                                          *)
LEMMA EndsIs ==
  ASSUME NEW s \in ConData, NEW k \in Kinds, NEW t \in Seq(Char),
         RunsWhole(s.done), k = "ran" <=> Whole(t)
  PROVE  /\ Ends(s, k, t) \in ConData
         /\ RunsWhole(Ends(s, k, t).done)
         /\ Text(Ends(s, k, t).done) = Text(s.done) \o t
         /\ Ends(s, k, t).ansi = s.ansi /\ Ends(s, k, t).buf = s.buf
         /\ Ends(s, k, t).key = s.key /\ Ends(s, k, t).mixed = s.mixed
         /\ Ends(s, k, t).grown = s.grown /\ Ends(s, k, t).written = s.written
         /\ Ends(s, k, t).read = s.read /\ Ends(s, k, t).gone = s.gone
<1> DEFINE r == [kind |-> k, text |-> t]
           e == Ends(s, k, t)
<1>1. r \in Done /\ s.done \in Seq(Done) /\ r.kind = k /\ r.text = t
  BY DEF ConData, Done
<1>2. e = [s EXCEPT !.done = Append(s.done, r)]
  BY DEF Ends
<1> HIDE DEF r, e
<1>3. Append(s.done, r) \in Seq(Done)
  BY <1>1
<1>4. /\ e \in ConData /\ e.done = Append(s.done, r) /\ e.ansi = s.ansi /\ e.buf = s.buf
      /\ e.key = s.key /\ e.mixed = s.mixed /\ e.grown = s.grown /\ e.written = s.written
      /\ e.read = s.read /\ e.gone = s.gone
  BY <1>2, <1>3 DEF ConData
<1>5. Text(e.done) = Text(s.done) \o t
  BY <1>1, <1>4, TextAppend
<1>6. RunsWhole(e.done)
  <2> SUFFICES ASSUME NEW n \in 1 .. Len(e.done)
               PROVE  e.done[n].kind = "ran" <=> Whole(e.done[n].text)
    BY DEF RunsWhole
  <2>1. \/ n \in 1 .. Len(s.done) /\ e.done[n] = s.done[n]
        \/ e.done[n] = r
    BY <1>1, <1>4
  <2> QED
    BY <1>1, <2>1 DEF RunsWhole
<1> QED
  BY <1>4, <1>5, <1>6, Zenon DEF e

LEMMA FlushIs ==
  ASSUME NEW s \in ConData, s.ansi \/ s.buf = <<>>, ~Whole(s.buf), RunsWhole(s.done)
  PROVE  /\ Flush(s) \in ConData
         /\ Flush(s).buf = <<>> /\ RunsWhole(Flush(s).done)
         /\ Text(Flush(s).done) = Text(s.done) \o s.buf
         /\ Flush(s).ansi = s.ansi /\ Flush(s).mixed = s.mixed
         /\ Flush(s).grown = s.grown /\ Flush(s).written = s.written
         /\ Flush(s).read = s.read /\ Flush(s).gone = s.gone
         /\ Flush(s).key = IF s.ansi /\ Len(s.buf) > BufSize THEN None ELSE s.key
<1> DEFINE t == IF s.ansi /\ s.buf # <<>> THEN Ends(s, "shown", s.buf) ELSE s
           f == Flush(s)
<1>1. s.buf \in Seq(Char) /\ "shown" \in Kinds /\ s.key \in Keys /\ None \in Keys
  BY DEF ConData, Kinds, Keys
<1>2. /\ t \in ConData /\ RunsWhole(t.done) /\ Text(t.done) = Text(s.done) \o s.buf
      /\ t.ansi = s.ansi /\ t.key = s.key /\ t.mixed = s.mixed /\ t.grown = s.grown
      /\ t.written = s.written /\ t.read = s.read /\ t.gone = s.gone
  <2>1. CASE s.ansi /\ s.buf # <<>>
    BY <1>1, <2>1, EndsIs
  <2>2. CASE s.buf = <<>>
    <3>1. t = s
      BY <2>2
    <3>2. Text(s.done) \in Seq(Char)
      BY TextTyped DEF ConData
    <3>3. Text(s.done) \o <<>> = Text(s.done)
      BY <3>2
    <3> QED
      BY <2>2, <3>1, <3>3, Zenon
  <2> QED
    BY <2>1, <2>2
<1> DEFINE k == IF s.ansi /\ Len(s.buf) > BufSize THEN None ELSE s.key
<1>3. f = [t EXCEPT !.buf = <<>>, !.key = k]
  <2>1. f = [t EXCEPT !.buf = <<>>, !.key = IF s.ansi /\ Len(s.buf) > BufSize THEN None ELSE t.key]
    BY Zenon DEF Flush
  <2> QED
    BY <1>2, <2>1, Zenon
<1>4. k \in Keys
  BY <1>1
<1> HIDE DEF t, f, k
<1>5. /\ f \in ConData /\ f.buf = <<>> /\ f.key = k /\ f.done = t.done /\ f.ansi = t.ansi
      /\ f.mixed = t.mixed /\ f.grown = t.grown /\ f.written = t.written
      /\ f.read = t.read /\ f.gone = t.gone
  <2>1. t \in ConData /\ <<>> \in Seq(Char)
    BY <1>2
  <2> QED
    BY <1>3, <1>4, <2>1 DEF ConData
<1> QED
  BY <1>2, <1>5, Zenon DEF f, k

(* A letter ends a sequence: it is run if it is one, and printed if not.   *)
LEMMA MatchIs ==
  ASSUME NEW s \in ConData, s.ansi, NEW b \in Seq(Char), NEW c \in Final, c \in Char, Unfinished(b),
         s.buf = Append(b, c), RunsWhole(s.done)
  PROVE  /\ MatchPattern(s) \in ConData
         /\ MatchPattern(s).buf = <<>> /\ RunsWhole(MatchPattern(s).done)
         /\ Text(MatchPattern(s).done) = Text(s.done) \o s.buf
         /\ MatchPattern(s).ansi = s.ansi /\ MatchPattern(s).mixed = s.mixed
         /\ MatchPattern(s).grown = s.grown /\ MatchPattern(s).written = s.written
         /\ MatchPattern(s).read = s.read /\ MatchPattern(s).gone = s.gone
         /\ MatchPattern(s).key = s.key \/ (Len(s.buf) > BufSize /\ MatchPattern(s).key = None)
<1> DEFINE m == MatchPattern(s)
           known == s.buf[2] = "[" /\ Last(s.buf) \in Known
<1>1. /\ s.buf \in Seq(Char) /\ Len(s.buf) = Len(b) + 1 /\ Len(s.buf) >= 2
      /\ s.buf[Len(s.buf)] = c /\ \A n \in 1 .. Len(b) : s.buf[n] = b[n]
      /\ Last(s.buf) = c
  BY DEF Unfinished, Last
<1>2. "[" \notin Final
  BY DEF Final
<1>3. known <=> Whole(s.buf)
  <2>1. known => Len(s.buf) > 2
    BY <1>1, <1>2
  <2>2. s.buf[1] = "esc" /\ \A n \in 2 .. Len(s.buf) - 1 : s.buf[n] \notin Final \cup {"esc"}
    BY <1>1 DEF Unfinished
  <2> QED
    BY <2>1, <2>2 DEF Whole
<1>4. CASE known
  <2> DEFINE e == Ends(s, "ran", s.buf)
  <2>1. m = [e EXCEPT !.buf = <<>>]
    BY <1>4 DEF MatchPattern
  <2>2. /\ e \in ConData /\ RunsWhole(e.done) /\ Text(e.done) = Text(s.done) \o s.buf
        /\ e.ansi = s.ansi /\ e.key = s.key /\ e.mixed = s.mixed /\ e.grown = s.grown
        /\ e.written = s.written /\ e.read = s.read /\ e.gone = s.gone
    <3>1. "ran" \in Kinds
      BY DEF Kinds
    <3>2. Whole(s.buf)
      BY <1>3, <1>4
    <3>3. s.buf \in Seq(Char)
      BY <1>1
    <3> HIDE DEF known
    <3> QED
      BY <3>1, <3>2, <3>3, EndsIs
  <2> HIDE DEF m, e
  <2>3. /\ m \in ConData /\ m.buf = <<>> /\ m.key = e.key /\ m.done = e.done /\ m.ansi = e.ansi
        /\ m.mixed = e.mixed /\ m.grown = e.grown /\ m.written = e.written
        /\ m.read = e.read /\ m.gone = e.gone
    <3>1. e \in ConData /\ <<>> \in Seq(Char)
      BY <2>2
    <3> QED
      BY <2>1, <3>1 DEF ConData
  <2> QED
    BY <2>2, <2>3, Zenon DEF m
<1>5. CASE ~known
  <2>1. m = Flush(s)
    BY <1>5 DEF MatchPattern
  <2>2. ~Whole(s.buf)
    BY <1>3, <1>5
  <2> HIDE DEF known
  <2> QED
    BY <2>1, <2>2, FlushIs, Zenon
<1> QED
  BY <1>4, <1>5, Zenon

(* While no sequence has grown out of its buffer, the peeked key is safe.  *)
KeepsKey(s, p) ==
  ~p.grown => /\ ~s.grown
              /\ Len(s.buf) <= BufSize => p.key = s.key /\ Len(p.buf) <= BufSize

(* ansi_process_c leaves nothing undone but what it has in the buffer.     *)
LEMMA ProcessIs ==
  ASSUME NEW s \in ConData, NEW c \in Char, s.ansi, Owes(s, <<c>>)
  PROVE  /\ ProcessC(s, c) \in ConData /\ Owes(ProcessC(s, c), <<>>)
         /\ ProcessC(s, c).ansi = s.ansi /\ ProcessC(s, c).mixed = s.mixed
         /\ ProcessC(s, c).written = s.written
         /\ ProcessC(s, c).read = s.read /\ ProcessC(s, c).gone = s.gone
         /\ KeepsKey(s, ProcessC(s, c))
<1> DEFINE p == ProcessC(s, c)
           d == Text(s.done)
<1>1. /\ s.buf \in Seq(Char) /\ s.done \in Seq(Done) /\ s.written \in Seq(Char)
      /\ <<c>> \in Seq(Char) /\ <<>> \in Seq(Char) /\ Len(<<c>>) = 1 /\ <<c>>[1] = c
  BY DEF ConData
<1>2. d \in Seq(Char)
  BY <1>1, TextTyped
<1>3. RunsWhole(s.done) /\ (s.buf = <<>> \/ Unfinished(s.buf))
  BY DEF Owes
<1>4. ~s.mixed => d \o s.buf \o <<c>> = s.written
  BY DEF Owes
<1>5. ~Whole(s.buf)
  BY <1>1, <1>3 DEF Unfinished, Whole, Last, Known, Final
<1> HIDE DEF d
<1>0. BufSize \in Nat /\ 1 <= BufSize
  BY ConsoleAssumption DEF ConsoleAssumption
<1>6. CASE c = "esc" /\ s.buf = <<>>
  <2>1. p = [s EXCEPT !.buf = <<c>>]
    BY <1>6 DEF ProcessC
  <2> HIDE DEF p
  <2>2. /\ p \in ConData /\ p.buf = <<c>> /\ p.done = s.done /\ p.ansi = s.ansi
        /\ p.mixed = s.mixed /\ p.written = s.written /\ p.read = s.read /\ p.gone = s.gone
        /\ p.key = s.key /\ p.grown = s.grown
    BY <1>1, <2>1 DEF ConData
  <2>3. Unfinished(p.buf)
    BY <1>1, <1>6, <2>2 DEF Unfinished
  <2>4. d \o s.buf \o <<c>> = d \o <<c>> \o <<>>
    BY <1>1, <1>2, <1>6
  <2>5. Owes(p, <<>>)
    BY <1>3, <1>4, <2>2, <2>3, <2>4, Zenon DEF Owes, d
  <2>6. KeepsKey(s, p)
    BY <1>0, <1>1, <2>2 DEF KeepsKey
  <2> QED
    BY <2>2, <2>5, <2>6, Zenon DEF p
<1>7. CASE c = "esc" /\ s.buf # <<>>
  <2> DEFINE e == Ends(s, "dropped", s.buf)
  <2>1. p = [e EXCEPT !.buf = <<c>>]
    BY <1>7 DEF ProcessC
  <2>2. /\ e \in ConData /\ RunsWhole(e.done) /\ Text(e.done) = d \o s.buf
        /\ e.ansi = s.ansi /\ e.mixed = s.mixed /\ e.written = s.written
        /\ e.read = s.read /\ e.gone = s.gone /\ e.key = s.key /\ e.grown = s.grown
    <3>1. "dropped" \in Kinds /\ ("dropped" = "ran" <=> Whole(s.buf))
      BY <1>5 DEF Kinds
    <3> QED
      BY <1>1, <1>3, <3>1, EndsIs DEF d
  <2> HIDE DEF p, e
  <2>3. /\ p \in ConData /\ p.buf = <<c>> /\ p.done = e.done /\ p.ansi = e.ansi
        /\ p.mixed = e.mixed /\ p.written = e.written /\ p.read = e.read /\ p.gone = e.gone
        /\ p.key = e.key /\ p.grown = e.grown
    BY <1>1, <2>1, <2>2 DEF ConData
  <2>4. Unfinished(p.buf)
    BY <1>1, <1>7, <2>3 DEF Unfinished
  <2>5. d \o s.buf \o <<c>> = d \o s.buf \o <<c>> \o <<>>
    BY <1>1, <1>2
  <2>6. Owes(p, <<>>)
    BY <1>4, <2>2, <2>3, <2>4, <2>5, Zenon DEF Owes
  <2>7. KeepsKey(s, p)
    BY <1>0, <1>1, <2>2, <2>3 DEF KeepsKey
  <2> QED
    BY <2>2, <2>3, <2>6, <2>7, Zenon DEF p
<1>8. CASE c # "esc" /\ s.buf = <<>>
  <2> DEFINE e == Ends(s, "shown", <<c>>)
  <2>1. p = e
    BY <1>8 DEF ProcessC
  <2>2. "shown" \in Kinds /\ ("shown" = "ran" <=> Whole(<<c>>))
    BY DEF Kinds, Whole
  <2> HIDE DEF p
  <2>6. /\ e \in ConData /\ RunsWhole(e.done) /\ Text(e.done) = d \o <<c>>
        /\ e.ansi = s.ansi /\ e.buf = s.buf /\ e.mixed = s.mixed /\ e.written = s.written
        /\ e.read = s.read /\ e.gone = s.gone /\ e.key = s.key /\ e.grown = s.grown
    <3>1. <<c>> \in Seq(Char)
      BY <1>1
    <3> QED
      BY <1>3, <2>2, <3>1, EndsIs DEF d
  <2> HIDE DEF e
  <2>3. /\ p \in ConData /\ RunsWhole(p.done) /\ Text(p.done) = d \o <<c>>
        /\ p.ansi = s.ansi /\ p.buf = s.buf /\ p.mixed = s.mixed /\ p.written = s.written
        /\ p.read = s.read /\ p.gone = s.gone /\ p.key = s.key /\ p.grown = s.grown
    BY <2>1, <2>6, Zenon
  <2>4. d \o s.buf \o <<c>> = d \o <<c>> \o s.buf \o <<>>
    BY <1>1, <1>2, <1>8
  <2>5. Owes(p, <<>>)
    BY <1>3, <1>4, <2>3, <2>4, Zenon DEF Owes
  <2>7. KeepsKey(s, p)
    BY <2>3 DEF KeepsKey
  <2> QED
    BY <2>3, <2>5, <2>7, Zenon DEF p
<1>9. CASE c # "esc" /\ s.buf # <<>>
  <2> DEFINE b == Append(s.buf, c)
             t == [s EXCEPT !.buf = Append(@, c), !.grown = @ \/ Len(s.buf) >= BufSize,
                            !.key = IF Len(s.buf) = BufSize THEN Output(c) ELSE @]
             g == s.grown \/ Len(s.buf) >= BufSize
             k == IF Len(s.buf) = BufSize THEN Output(c) ELSE s.key
  <2>1. /\ b \in Seq(Char) /\ g \in BOOLEAN
        /\ Len(b) = Len(s.buf) + 1 /\ b[Len(b)] = c /\ \A n \in 1 .. Len(s.buf) : b[n] = s.buf[n]
    BY <1>1 DEF ConData
  <2>2. k \in Keys
    BY DEF ConData, Keys
  <2>3. p = IF c \in Final THEN MatchPattern(t) ELSE t
    BY <1>9 DEF ProcessC
  <2>4. t = [s EXCEPT !.buf = b, !.grown = g, !.key = k]
    OBVIOUS
  <2> HIDE DEF p, t, b, g, k
  <2>5. /\ t \in ConData /\ t.buf = b /\ t.done = s.done /\ t.ansi = s.ansi
        /\ t.mixed = s.mixed /\ t.written = s.written /\ t.read = s.read /\ t.gone = s.gone
        /\ t.grown = g /\ t.key = k
    BY <2>1, <2>2, <2>4 DEF ConData
  <2>10. ~g => ~s.grown /\ Len(b) <= BufSize /\ k = s.key
    BY <1>0, <1>1, <2>1 DEF g, k
  <2>6. d \o s.buf \o <<c>> = d \o b
    <3> DEFINE x == <<c>>
               y == s.buf
    <3>1. d \in Seq(Char) /\ y \in Seq(Char) /\ x \in Seq(Char)
      BY <1>1, <1>2
    <3>2. b = y \o x
      BY <1>1 DEF b
    <3> HIDE DEF x, y
    <3>3. (d \o y) \o x = d \o (y \o x)
      BY <3>1, Regroup
    <3> QED
      BY <3>2, <3>3, Zenon DEF x, y
  <2>7. d \o b = d \o b \o <<>>
    BY <1>2, <2>1
  <2>8. CASE c \notin Final
    <3>1. p = t
      BY <2>3, <2>8
    <3>2. Unfinished(t.buf)
      <4>1. Len(b) > 0 /\ b[1] = "esc"
        BY <1>1, <1>3, <1>9, <2>1 DEF Unfinished
      <4>2. ASSUME NEW n \in 2 .. Len(b) PROVE b[n] \notin Final \cup {"esc"}
        <5>1. CASE n <= Len(s.buf)
          BY <1>1, <1>3, <1>9, <2>1, <5>1 DEF Unfinished
        <5>2. CASE n = Len(b)
          BY <1>9, <2>1, <2>8, <5>2
        <5> QED
          BY <1>1, <2>1, <5>1, <5>2
      <4> QED
        BY <2>5, <4>1, <4>2 DEF Unfinished
    <3>3. Owes(t, <<>>)
      BY <1>3, <1>4, <2>5, <2>6, <2>7, <3>2, Zenon DEF Owes, d
    <3>4. KeepsKey(s, p)
      BY <2>5, <2>10, <3>1, Zenon DEF KeepsKey
    <3> QED
      BY <2>5, <3>1, <3>3, <3>4, Zenon DEF p
  <2>9. CASE c \in Final
    <3>1. p = MatchPattern(t)
      BY <2>3, <2>9
    <3>2. /\ p \in ConData /\ p.buf = <<>> /\ RunsWhole(p.done)
          /\ Text(p.done) = Text(t.done) \o t.buf
          /\ p.ansi = t.ansi /\ p.mixed = t.mixed /\ p.written = t.written
          /\ p.read = t.read /\ p.gone = t.gone /\ p.grown = t.grown
          /\ p.key = t.key \/ Len(t.buf) > BufSize
      <4>1. t.buf = Append(s.buf, c) /\ Unfinished(s.buf) /\ RunsWhole(t.done) /\ t.ansi
        BY <1>3, <1>9, <2>5 DEF b
      <4> QED
        BY <1>1, <2>5, <2>9, <3>1, <4>1, MatchIs
    <3>3. Text(p.done) \o p.buf \o <<>> = d \o b
      <4>1. Text(p.done) = d \o b /\ d \o b \in Seq(Char)
        BY <1>2, <2>1, <2>5, <3>2 DEF d
      <4>2. d \o b \o <<>> \o <<>> = d \o b
        BY <4>1
      <4> QED
        BY <3>2, <4>1, <4>2, Zenon
    <3>4. Owes(p, <<>>)
      BY <1>4, <2>5, <2>6, <3>2, <3>3, Zenon DEF Owes
    <3>5. KeepsKey(s, p)
      BY <1>0, <2>1, <2>5, <2>10, <3>2 DEF KeepsKey
    <3> QED
      BY <2>5, <3>2, <3>4, <3>5, Zenon DEF p
  <2> QED
    BY <2>8, <2>9
<1> QED
  BY <1>6, <1>7, <1>8, <1>9

(* con_write_b.                                                            *)
LEMMA WriteIs ==
  ASSUME NEW s \in ConData, NEW c \in Char, Owes(s, <<>>)
  PROVE  /\ WriteB(s, c) \in ConData /\ Owes(WriteB(s, c), <<>>)
         /\ WriteB(s, c).read = s.read /\ WriteB(s, c).gone = s.gone
         /\ KeepsKey(s, WriteB(s, c))
<1> DEFINE t == [s EXCEPT !.written = Append(@, c)]
           w == Append(s.written, c)
           d == Text(s.done)
<1>1. /\ s.buf \in Seq(Char) /\ s.done \in Seq(Done) /\ s.written \in Seq(Char)
      /\ <<c>> \in Seq(Char) /\ w \in Seq(Char) /\ w = s.written \o <<c>>
  BY DEF ConData
<1>2. d \in Seq(Char)
  BY <1>1, TextTyped
<1>3. RunsWhole(s.done) /\ (s.buf = <<>> \/ Unfinished(s.buf))
  BY DEF Owes
<1>4. ~s.mixed => d \o s.buf \o <<>> = s.written
  BY DEF Owes
<1> HIDE DEF d
<1>5. d \o s.buf \o <<>> = d \o s.buf
  BY <1>1, <1>2
<1>6. ~s.mixed => d \o s.buf \o <<c>> = w
  BY <1>1, <1>4, <1>5, Zenon
<1>7. t = [s EXCEPT !.written = w]
  OBVIOUS
<1>8. WriteB(s, c) = IF s.ansi THEN ProcessC(t, c)
                     ELSE [Ends(t, "shown", <<c>>) EXCEPT !.mixed = @ \/ s.buf # <<>>]
  BY DEF WriteB
<1> HIDE DEF t, w
<1>9. /\ t \in ConData /\ t.buf = s.buf /\ t.done = s.done /\ t.ansi = s.ansi
      /\ t.mixed = s.mixed /\ t.written = w /\ t.read = s.read /\ t.gone = s.gone
      /\ t.key = s.key /\ t.grown = s.grown
  BY <1>1, <1>7 DEF ConData
<1>10. Owes(t, <<c>>)
  BY <1>3, <1>6, <1>9, Zenon DEF Owes, d
<1>11. CASE s.ansi
  <2>1. WriteB(s, c) = ProcessC(t, c)
    BY <1>8, <1>11
  <2>2. /\ ProcessC(t, c) \in ConData /\ Owes(ProcessC(t, c), <<>>)
        /\ ProcessC(t, c).read = t.read /\ ProcessC(t, c).gone = t.gone
        /\ KeepsKey(t, ProcessC(t, c))
    BY <1>9, <1>10, <1>11, ProcessIs, Zenon
  <2>3. KeepsKey(s, ProcessC(t, c))
    BY <1>9, <2>2, Zenon DEF KeepsKey
  <2> QED
    BY <1>9, <2>1, <2>2, <2>3, Zenon
<1>12. CASE ~s.ansi
  <2> DEFINE e == Ends(t, "shown", <<c>>)
             p == WriteB(s, c)
             mixed == s.mixed \/ s.buf # <<>>
  <2>1. "shown" \in Kinds /\ ("shown" = "ran" <=> Whole(<<c>>)) /\ RunsWhole(t.done)
    BY <1>3, <1>9 DEF Kinds, Whole
  <2>2. /\ e \in ConData /\ RunsWhole(e.done) /\ Text(e.done) = d \o <<c>>
        /\ e.buf = s.buf /\ e.mixed = s.mixed /\ e.written = w /\ e.read = s.read
        /\ e.gone = s.gone /\ e.key = s.key /\ e.grown = s.grown
    <3>1. /\ e \in ConData /\ RunsWhole(e.done) /\ Text(e.done) = Text(t.done) \o <<c>>
          /\ e.buf = t.buf /\ e.mixed = t.mixed /\ e.written = t.written
          /\ e.read = t.read /\ e.gone = t.gone /\ e.key = t.key /\ e.grown = t.grown
      BY <1>1, <1>9, <2>1, EndsIs
    <3> QED
      BY <1>9, <3>1, Zenon DEF d
  <2>3. p = [e EXCEPT !.mixed = mixed]
    BY <1>8, <1>12, <2>2
  <2>4. mixed \in BOOLEAN
    BY DEF ConData
  <2> HIDE DEF e, p, mixed
  <2>5. /\ p \in ConData /\ p.buf = s.buf /\ p.done = e.done /\ p.mixed = mixed /\ p.written = w
        /\ p.read = e.read /\ p.gone = e.gone /\ p.key = e.key /\ p.grown = e.grown
    BY <2>2, <2>3, <2>4 DEF ConData
  <2>6. ~mixed => s.buf = <<>> /\ ~s.mixed
    BY DEF mixed
  <2>7. s.buf = <<>> => d \o s.buf \o <<c>> = d \o <<c>> \o s.buf \o <<>>
    BY <1>1, <1>2
  <2>8. ~p.mixed => Text(p.done) \o p.buf \o <<>> = p.written
    BY <1>6, <2>2, <2>5, <2>6, <2>7, Zenon
  <2>9. Owes(p, <<>>)
    BY <1>3, <2>2, <2>5, <2>8, Zenon DEF Owes
  <2>10. KeepsKey(s, p)
    BY <2>2, <2>5, Zenon DEF KeepsKey
  <2> QED
    BY <2>2, <2>5, <2>9, <2>10, Zenon DEF p
<1> QED
  BY <1>11, <1>12

(* con_close and con_open.                                                 *)
LEMMA ReopenIs ==
  ASSUME NEW s \in ConData, Owes(s, <<>>)
  PROVE  /\ Opened(Closed(s)) \in ConData /\ Owes(Opened(Closed(s)), <<>>)
         /\ Opened(Closed(s)).buf = <<>> /\ Opened(Closed(s)).key = None
         /\ Opened(Closed(s)).grown = s.grown /\ Opened(Closed(s)).read = s.read
         /\ (~s.ansi \/ Len(s.buf) <= BufSize) =>
              Opened(Closed(s)).gone = IF s.key = None THEN s.gone ELSE Append(s.gone, s.key)
<1> DEFINE d == Text(s.done)
           t == Closed(s)
           u == Opened(t)
           gone == IF t.key = None THEN t.gone ELSE Append(t.gone, t.key)
<1>1. /\ s.buf \in Seq(Char) /\ s.done \in Seq(Done) /\ RunsWhole(s.done)
      /\ s.buf = <<>> \/ Unfinished(s.buf)
  BY DEF ConData, Owes
<1>2. ~Whole(s.buf)
  BY <1>1 DEF Unfinished, Whole, Last, Known, Final
<1>3. d \in Seq(Char)
  BY <1>1, TextTyped
<1>4. /\ t \in ConData /\ RunsWhole(t.done) /\ Text(t.done) = d \o s.buf
      /\ t.mixed = s.mixed /\ t.grown = s.grown /\ t.written = s.written
      /\ t.read = s.read /\ t.gone = s.gone
      /\ t.key = IF s.ansi /\ Len(s.buf) > BufSize THEN None ELSE s.key
  <2>1. CASE s.buf # <<>> /\ ~s.ansi
    <3> DEFINE e == Ends(s, "dropped", s.buf)
    <3>1. t = e
      BY <2>1 DEF Closed
    <3>2. "dropped" \in Kinds /\ ("dropped" = "ran" <=> Whole(s.buf))
      BY <1>2 DEF Kinds
    <3>3. /\ e \in ConData /\ RunsWhole(e.done) /\ Text(e.done) = d \o s.buf
          /\ e.mixed = s.mixed /\ e.grown = s.grown /\ e.written = s.written
          /\ e.read = s.read /\ e.gone = s.gone /\ e.key = s.key
      BY <1>1, <3>2, EndsIs
    <3> HIDE DEF e, t
    <3> QED
      BY <2>1, <3>1, <3>3, Zenon
  <2>2. CASE ~(s.buf # <<>> /\ ~s.ansi)
    <3>1. t = Flush(s)
      BY <2>2 DEF Closed
    <3> HIDE DEF t
    <3>2. s.ansi \/ s.buf = <<>>
      BY <2>2 DEF ConData
    <3> QED
      BY <1>1, <1>2, <3>1, <3>2, FlushIs
  <2> QED
    BY <2>1, <2>2
<1> HIDE DEF d
<1>5. u = [t EXCEPT !.ansi = TRUE, !.buf = <<>>, !.key = None, !.gone = gone]
  BY DEF Opened
<1> HIDE DEF u, t
<1>6. gone \in Seq(Keys)
  <2>1. t.gone \in Seq(Keys) /\ t.key \in Keys
    BY <1>4 DEF ConData
  <2> QED
    BY <2>1
<1>7. gone = IF t.key = None THEN s.gone ELSE Append(s.gone, t.key)
  BY <1>4
<1> HIDE DEF gone
<1>8. /\ u \in ConData /\ u.buf = <<>> /\ u.key = None /\ u.gone = gone /\ u.done = t.done
      /\ u.mixed = t.mixed /\ u.grown = t.grown /\ u.written = t.written /\ u.read = t.read
  <2>1. t \in ConData /\ <<>> \in Seq(Char) /\ None \in Keys
    BY <1>4 DEF Keys
  <2> QED
    BY <1>5, <1>6, <2>1 DEF ConData
<1>9. d \o s.buf \o <<>> = d \o s.buf /\ d \o s.buf \o <<>> \o <<>> = d \o s.buf
  BY <1>1, <1>3
<1>10. ~s.mixed => d \o s.buf \o <<>> = s.written
  BY DEF Owes, d
<1>11. Owes(u, <<>>)
  BY <1>4, <1>8, <1>9, <1>10, Zenon DEF Owes
<1>12. ~s.ansi \/ Len(s.buf) <= BufSize => t.key = s.key
  BY <1>1, <1>4, ConsoleAssumption DEF ConsoleAssumption
<1> QED
  BY <1>4, <1>7, <1>8, <1>11, <1>12, Zenon DEF t, u

(* con_read_b and con_has_input leave the output alone.                    *)
LEMMA KeysOnly ==
  ASSUME NEW s \in ConData, Owes(s, <<>>), NEW t \in ConData,
         t.buf = s.buf, t.done = s.done, t.mixed = s.mixed, t.written = s.written
  PROVE  Owes(t, <<>>)
  BY Zenon DEF Owes

TypedKey == {KeyOf(n) : n \in Nat}

ConInv ==
  /\ con \in [Chan -> ConData] /\ kbd \in Seq(TypedKey) /\ keysTyped \in Nat
  /\ \A ch \in Chan : Owes(con[ch], <<>>)

LEMMA TakeIs ==
  ASSUME NEW s \in ConData, NEW k \in Keys
  PROVE  /\ Take(s, k) \in ConData
         /\ Take(s, k).read = Append(s.read, IF s.key = None THEN k ELSE s.key)
         /\ Take(s, k).key = None
         /\ Take(s, k).buf = s.buf /\ Take(s, k).done = s.done /\ Take(s, k).mixed = s.mixed
         /\ Take(s, k).written = s.written /\ Take(s, k).gone = s.gone
         /\ Take(s, k).grown = s.grown
<1> DEFINE x == IF s.key = None THEN k ELSE s.key
           t == Take(s, k)
           rd == Append(s.read, x)
<1>1. x \in Keys /\ s.read \in Seq(Keys) /\ None \in Keys
  BY DEF ConData, Keys
<1>2. CASE s.key # None
  <2>1. t = [s EXCEPT !.read = rd, !.key = None]
    BY <1>2 DEF Take
  <2> HIDE DEF t, rd
  <2>2. rd \in Seq(Keys)
    BY <1>1 DEF rd
  <2>3. /\ t \in ConData /\ t.read = rd /\ t.key = None /\ t.buf = s.buf /\ t.done = s.done
        /\ t.mixed = s.mixed /\ t.written = s.written /\ t.gone = s.gone /\ t.grown = s.grown
    BY <1>1, <2>1, <2>2 DEF ConData
  <2> QED
    BY <2>3, Zenon DEF t, rd
<1>3. CASE s.key = None
  <2>1. t = [s EXCEPT !.read = rd]
    BY <1>3 DEF Take
  <2> HIDE DEF t, rd
  <2>2. rd \in Seq(Keys)
    BY <1>1 DEF rd
  <2>3. /\ t \in ConData /\ t.read = rd /\ t.key = None /\ t.buf = s.buf /\ t.done = s.done
        /\ t.mixed = s.mixed /\ t.written = s.written /\ t.gone = s.gone /\ t.grown = s.grown
    BY <1>1, <1>3, <2>1, <2>2 DEF ConData
  <2> QED
    BY <2>3, Zenon DEF t, rd
<1> QED
  BY <1>2, <1>3

LEMMA InitConInv == ConInit => ConInv
<1> SUFFICES ASSUME ConInit PROVE ConInv
  OBVIOUS
<1> DEFINE s == [ansi |-> TRUE, buf |-> <<>>, key |-> None, done |-> <<>>, mixed |-> FALSE,
                 grown |-> FALSE, written |-> <<>>, read |-> <<>>, gone |-> <<>>]
<1>1. con = [ch \in Chan |-> s] /\ kbd = <<>> /\ keysTyped = 0
  BY DEF ConInit
<1>2. s \in ConData
  BY DEF ConData, Keys
<1>3. Text(<<>>) = <<>>
  <2>1. [n \in DOMAIN <<>> |-> <<>>[n].text] = <<>>
    OBVIOUS
  <2> QED
    BY <2>1, FlattenNone DEF Text
<1>4. Owes(s, <<>>)
  <2>1. <<>> \o <<>> \o <<>> = <<>>
    OBVIOUS
  <2>2. s.buf = <<>> /\ s.done = <<>> /\ s.written = <<>>
    OBVIOUS
  <2>3. RunsWhole(<<>>)
    BY DEF RunsWhole
  <2> HIDE DEF s
  <2> QED
    BY <1>3, <2>1, <2>2, <2>3, Zenon DEF Owes
<1>5. kbd \in Seq(TypedKey) /\ keysTyped \in Nat
  BY <1>1
<1> HIDE DEF s
<1> QED
  BY <1>1, <1>2, <1>4, <1>5 DEF ConInv

(* One channel's data changes, to what is right.                           *)
LEMMA OneChannel ==
  ASSUME con \in [Chan -> ConData], \A ch \in Chan : Owes(con[ch], <<>>),
         NEW c \in Chan, NEW u \in ConData, Owes(u, <<>>), con' = [con EXCEPT ![c] = u]
  PROVE  con' \in [Chan -> ConData] /\ \A ch \in Chan : Owes(con'[ch], <<>>)
<1>1. \A ch \in Chan : con'[ch] = IF ch = c THEN u ELSE con[ch]
  OBVIOUS
<1> QED
  BY <1>1

LEMMA HeadKey ==
  ASSUME kbd \in Seq(TypedKey), kbd # <<>>
  PROVE  Head(kbd) \in TypedKey /\ Head(kbd) \in Keys /\ Tail(kbd) \in Seq(TypedKey)
<1>1. Head(kbd) \in TypedKey /\ Tail(kbd) \in Seq(TypedKey)
  OBVIOUS
<1> QED
  BY <1>1 DEF TypedKey, Keys

LEMMA ConStep == ConInv /\ [ConNext]_conVars => ConInv'
<1> SUFFICES ASSUME ConInv, [ConNext]_conVars PROVE ConInv'
  OBVIOUS
<1>1. /\ con \in [Chan -> ConData] /\ kbd \in Seq(TypedKey) /\ keysTyped \in Nat
      /\ \A ch \in Chan : con[ch] \in ConData /\ Owes(con[ch], <<>>)
  BY DEF ConInv
<1>2. ASSUME NEW ch \in Written, NEW c \in Char, Write(ch, c) PROVE ConInv'
  <2>1. ch \in Chan /\ con' = [con EXCEPT ![ch] = WriteB(con[ch], c)]
    BY <1>2, ConsoleAssumption DEF ConsoleAssumption, Write
  <2>2. UNCHANGED <<kbd, keysTyped>>
    BY <1>2 DEF Write
  <2>3. WriteB(con[ch], c) \in ConData /\ Owes(WriteB(con[ch], c), <<>>)
    BY <1>1, <2>1, WriteIs
  <2>4. con' \in [Chan -> ConData] /\ \A x \in Chan : Owes(con'[x], <<>>)
    BY <1>1, <2>1, <2>3, OneChannel
  <2> QED
    BY <1>1, <2>2, <2>4 DEF ConInv
<1>3. ASSUME NEW ch \in Written, NEW on \in BOOLEAN, Ioctrl(ch, on) PROVE ConInv'
  <2> DEFINE s == con[ch]
             u == [s EXCEPT !.ansi = on]
  <2>1. ch \in Chan /\ con' = [con EXCEPT ![ch] = u] /\ UNCHANGED <<kbd, keysTyped>>
    BY <1>1, <1>3, ConsoleAssumption DEF ConsoleAssumption, Ioctrl
  <2>2. s \in ConData /\ Owes(s, <<>>)
    BY <1>1, <2>1
  <2>3. u = [s EXCEPT !.ansi = on]
    OBVIOUS
  <2> HIDE DEF s, u
  <2>4. /\ u \in ConData /\ u.buf = s.buf /\ u.done = s.done /\ u.mixed = s.mixed
        /\ u.written = s.written
    BY <2>2, <2>3 DEF ConData
  <2>5. Owes(u, <<>>)
    BY <2>2, <2>4, KeysOnly
  <2>6. con' \in [Chan -> ConData] /\ \A x \in Chan : Owes(con'[x], <<>>)
    BY <1>1, <2>1, <2>4, <2>5, OneChannel
  <2> QED
    BY <1>1, <2>1, <2>6 DEF ConInv
<1>4. ASSUME NEW ch \in Chan, Reopen(ch) PROVE ConInv'
  <2> DEFINE u == Opened(Closed(con[ch]))
  <2>1. con' = [con EXCEPT ![ch] = u] /\ UNCHANGED <<kbd, keysTyped>>
    BY <1>4 DEF Reopen
  <2>3. u \in ConData /\ Owes(u, <<>>)
    BY <1>1, ReopenIs
  <2> HIDE DEF u
  <2>4. con' \in [Chan -> ConData] /\ \A x \in Chan : Owes(con'[x], <<>>)
    BY <1>1, <2>1, <2>3, OneChannel
  <2> QED
    BY <1>1, <2>1, <2>4 DEF ConInv
<1>5. ASSUME NEW ch \in Chan, Read(ch) PROVE ConInv'
  <2> DEFINE k == IF kbd = <<>> THEN None ELSE Head(kbd)
             u == Take(con[ch], k)
  <2>1. con' = [con EXCEPT ![ch] = u] /\ UNCHANGED keysTyped
    BY <1>5 DEF Read
  <2>2. k \in Keys
    <3>1. None \in Keys
      BY DEF Keys
    <3> QED
      BY <1>1, <3>1, HeadKey
  <2>3. kbd' \in Seq(TypedKey)
    <3>1. con[ch].key # None \/ kbd # <<>>
      BY <1>5 DEF Read
    <3>2. kbd' = IF con[ch].key # None THEN kbd ELSE Tail(kbd)
      BY <1>5 DEF Read
    <3> QED
      BY <1>1, <3>1, <3>2, HeadKey
  <2> HIDE DEF k
  <2>4. /\ u \in ConData /\ u.buf = con[ch].buf /\ u.done = con[ch].done
        /\ u.mixed = con[ch].mixed /\ u.written = con[ch].written
    BY <1>1, <2>2, TakeIs
  <2> HIDE DEF u
  <2>5. Owes(u, <<>>)
    BY <1>1, <2>4, KeysOnly
  <2>6. con' \in [Chan -> ConData] /\ \A x \in Chan : Owes(con'[x], <<>>)
    BY <1>1, <2>1, <2>4, <2>5, OneChannel
  <2> QED
    BY <1>1, <2>1, <2>3, <2>6 DEF ConInv
<1>6. ASSUME NEW ch \in Chan, Peek(ch) PROVE ConInv'
  <2> DEFINE s == con[ch]
             k == Head(kbd)
             u == [s EXCEPT !.key = k]
  <2>1. con' = [con EXCEPT ![ch] = u] /\ UNCHANGED keysTyped /\ kbd' = Tail(kbd) /\ kbd # <<>>
    BY <1>6 DEF Peek
  <2>2. s \in ConData /\ Owes(s, <<>>) /\ k \in Keys /\ Tail(kbd) \in Seq(TypedKey)
    BY <1>1, <2>1, HeadKey
  <2>3. u = [s EXCEPT !.key = k]
    OBVIOUS
  <2> HIDE DEF s, k, u
  <2>4. /\ u \in ConData /\ u.buf = s.buf /\ u.done = s.done /\ u.mixed = s.mixed
        /\ u.written = s.written
    BY <2>2, <2>3 DEF ConData
  <2>5. Owes(u, <<>>)
    BY <2>2, <2>4, KeysOnly
  <2>6. con' \in [Chan -> ConData] /\ \A x \in Chan : Owes(con'[x], <<>>)
    BY <1>1, <2>1, <2>4, <2>5, OneChannel
  <2> QED
    BY <1>1, <2>1, <2>2, <2>6 DEF ConInv
<1>7. CASE Type
  <2>1. keysTyped' \in Nat /\ UNCHANGED con /\ kbd' = Append(kbd, KeyOf(keysTyped'))
    BY <1>1, <1>7 DEF Type
  <2>2. KeyOf(keysTyped') \in TypedKey
    BY <2>1 DEF TypedKey
  <2> QED
    BY <1>1, <2>1, <2>2 DEF ConInv
<1>8. CASE UNCHANGED conVars
  BY <1>8 DEF conVars, ConInv
<1> QED
  BY <1>2, <1>3, <1>4, <1>5, <1>6, <1>7, <1>8 DEF ConNext

THEOREM ConInvariance == ConSpec => []ConInv
  BY InitConInv, ConStep, PTL DEF ConSpec

(* Every character written reaches the screen once and in order, and       *)
(* exactly the whole sequences act, whatever is written and switched.      *)
THEOREM OutputIsHandled == ConSpec => []OutputHandled
<1>1. ConInv => OutputHandled
  <2> SUFFICES ASSUME ConInv PROVE OutputInOrder /\ RunsSequences
    BY DEF OutputHandled
  <2>1. ASSUME NEW ch \in Chan
        PROVE  /\ ~con[ch].mixed => Text(con[ch].done) \o con[ch].buf = con[ch].written
               /\ \A n \in DOMAIN con[ch].done :
                    con[ch].done[n].kind = "ran" <=> Whole(con[ch].done[n].text)
    <3> DEFINE s == con[ch]
               d == Text(s.done)
    <3>1. s \in ConData /\ Owes(s, <<>>)
      BY DEF ConInv
    <3>2. s.done \in Seq(Done) /\ s.buf \in Seq(Char)
      BY <3>1 DEF ConData
    <3>3. d \in Seq(Char)
      BY <3>2, TextTyped
    <3>4. ~s.mixed => d \o s.buf \o <<>> = s.written
      BY <3>1 DEF Owes
    <3>5. RunsWhole(s.done)
      BY <3>1 DEF Owes
    <3> HIDE DEF s
    <3>6. \A n \in DOMAIN s.done : s.done[n].kind = "ran" <=> Whole(s.done[n].text)
      BY <3>2, <3>5 DEF RunsWhole
    <3> HIDE DEF d
    <3>7. d \o s.buf \o <<>> = d \o s.buf
      BY <3>2, <3>3
    <3>8. ~s.mixed => d \o s.buf = s.written
      BY <3>4, <3>7, Zenon
    <3> QED
      BY <3>6, <3>8 DEF s, d
  <2> QED
    BY <2>1 DEF OutputInOrder, RunsSequences
<1> QED
  BY <1>1, ConInvariance, PTL

-----------------------------------------------------------------------------
(* The keys.  What each channel has had, h, and has lost, g, of the first  *)
(* m typed.                                                                *)
Held(h) == {h[i] : i \in 1 .. Len(h)}

Increasing(h) == \A i, j \in 1 .. Len(h) : i < j => h[i].n < h[j].n

Typed(m) == {KeyOf(n) : n \in 1 .. m}

Shared(h, g, m) ==
  /\ h \in [Chan -> Seq(TypedKey)] /\ g \in [Chan -> SUBSET TypedKey]
  /\ \A ch \in Chan : Increasing(h[ch])
  /\ \A a, b \in Chan : a # b => Held(h[a]) \cap (Held(h[b]) \cup g[b]) = {}
  /\ UNION {Held(h[ch]) \cup g[ch] : ch \in Chan} = Typed(m)

LEMMA HeldAppend ==
  ASSUME NEW r \in Seq(TypedKey), NEW k \in TypedKey
  PROVE  /\ Append(r, k) \in Seq(TypedKey)
         /\ Held(Append(r, k)) = Held(r) \cup {k}
         /\ Increasing(Append(r, k)) <=>
              Increasing(r) /\ \A i \in 1 .. Len(r) : r[i].n < k.n
<1> DEFINE s == Append(r, k)
<1>1. /\ s \in Seq(TypedKey) /\ Len(r) \in Nat /\ Len(s) = Len(r) + 1 /\ s[Len(r) + 1] = k
      /\ \A i \in 1 .. Len(r) : s[i] = r[i]
  OBVIOUS
<1> HIDE DEF s
<1>2. 1 .. Len(s) = (1 .. Len(r)) \cup {Len(r) + 1}
  BY <1>1
<1>3. Held(s) = Held(r) \cup {k}
  BY <1>1, <1>2 DEF Held
<1>4. Increasing(s) => Increasing(r) /\ \A i \in 1 .. Len(r) : r[i].n < k.n
  <2> SUFFICES ASSUME Increasing(s)
               PROVE  Increasing(r) /\ \A i \in 1 .. Len(r) : r[i].n < k.n
    OBVIOUS
  <2>1. \A i, j \in 1 .. Len(s) : i < j => s[i].n < s[j].n
    BY DEF Increasing
  <2>2. \A i, j \in 1 .. Len(r) : i < j => r[i].n < r[j].n
    BY <1>1, <1>2, <2>1
  <2>3. \A i \in 1 .. Len(r) : s[i].n < s[Len(r) + 1].n
    BY <1>1, <1>2, <2>1
  <2> QED
    BY <1>1, <2>2, <2>3 DEF Increasing
<1>5. Increasing(r) /\ (\A i \in 1 .. Len(r) : r[i].n < k.n) => Increasing(s)
  <2> SUFFICES ASSUME Increasing(r), \A i \in 1 .. Len(r) : r[i].n < k.n,
                      NEW i \in 1 .. Len(s), NEW j \in 1 .. Len(s), i < j
               PROVE  s[i].n < s[j].n
    BY DEF Increasing
  <2>1. i \in 1 .. Len(r) /\ s[i] = r[i]
    BY <1>1
  <2>2. CASE j = Len(r) + 1
    BY <1>1, <2>1, <2>2
  <2>3. CASE j # Len(r) + 1
    <3>1. j \in 1 .. Len(r) /\ s[j] = r[j]
      BY <1>1, <2>3
    <3> QED
      BY <2>1, <3>1 DEF Increasing
  <2> QED
    BY <2>2, <2>3
<1> QED
  BY <1>1, <1>3, <1>4, <1>5 DEF s

(* A channel has the next key.                                             *)
LEMMA Fetched ==
  ASSUME NEW h, NEW g, NEW m \in Nat, Shared(h, g, m), NEW c \in Chan, NEW k, NEW u,
         k = KeyOf(m + 1), u = [h EXCEPT ![c] = Append(h[c], k)]
  PROVE  Shared(u, g, m + 1)
<1>1. /\ h \in [Chan -> Seq(TypedKey)] /\ g \in [Chan -> SUBSET TypedKey]
      /\ h[c] \in Seq(TypedKey) /\ k \in TypedKey /\ k.n = m + 1
  <2>1. m + 1 \in Nat
    OBVIOUS
  <2> QED
    BY <2>1 DEF Shared, TypedKey, KeyOf
<1>2. \A ch \in Chan : Held(h[ch]) \cup g[ch] \subseteq Typed(m)
  BY DEF Shared
<1>3. k \notin Typed(m) /\ Typed(m + 1) = Typed(m) \cup {k}
  <2>1. 1 .. m + 1 = (1 .. m) \cup {m + 1} /\ m + 1 \notin 1 .. m
    OBVIOUS
  <2>2. \A n \in 1 .. m : KeyOf(n).n = n
    BY DEF KeyOf
  <2>3. k \notin Typed(m)
    BY <1>1, <2>1, <2>2 DEF Typed
  <2>4. Typed(m + 1) = Typed(m) \cup {k}
    BY <2>1 DEF Typed
  <2> QED
    BY <2>3, <2>4
<1>4. \A i \in 1 .. Len(h[c]) : h[c][i].n < k.n
  <2> SUFFICES ASSUME NEW i \in 1 .. Len(h[c]) PROVE h[c][i].n < k.n
    OBVIOUS
  <2>1. h[c][i] \in Typed(m)
    BY <1>2 DEF Held
  <2>2. PICK n \in 1 .. m : h[c][i] = KeyOf(n)
    BY <2>1 DEF Typed
  <2>3. h[c][i].n = n
    BY <2>2 DEF KeyOf
  <2> QED
    BY <1>1, <2>3
<1>5. /\ u[c] \in Seq(TypedKey) /\ Held(u[c]) = Held(h[c]) \cup {k} /\ Increasing(u[c])
  <2>1. u[c] = Append(h[c], k)
    BY <1>1
  <2>2. Increasing(h[c])
    BY DEF Shared
  <2> QED
    BY <1>1, <1>4, <2>1, <2>2, HeldAppend, Zenon
<1>6. \A ch \in Chan : ch # c => u[ch] = h[ch]
  BY <1>1
<1>7. u \in [Chan -> Seq(TypedKey)]
  <2>1. Append(h[c], k) \in Seq(TypedKey)
    BY <1>1
  <2> QED
    BY <1>1, <2>1
<1>8. \A ch \in Chan : Increasing(u[ch])
  BY <1>5, <1>6 DEF Shared
<1>9. ASSUME NEW a \in Chan, NEW b \in Chan, a # b
      PROVE  Held(u[a]) \cap (Held(u[b]) \cup g[b]) = {}
  <2>1. Held(h[a]) \cap (Held(h[b]) \cup g[b]) = {}
    BY <1>9 DEF Shared
  <2>2. k \notin Held(h[a]) /\ k \notin Held(h[b]) /\ k \notin g[b]
    BY <1>2, <1>3
  <2>3. Held(u[a]) = Held(h[a]) \/ (a = c /\ Held(u[a]) = Held(h[a]) \cup {k})
    BY <1>5, <1>6
  <2>4. Held(u[b]) = Held(h[b]) \/ (b = c /\ Held(u[b]) = Held(h[b]) \cup {k})
    BY <1>5, <1>6
  <2> QED
    BY <1>9, <2>1, <2>2, <2>3, <2>4, Zenon
<1>10. UNION {Held(u[ch]) \cup g[ch] : ch \in Chan} = Typed(m + 1)
  <2>1. UNION {Held(h[ch]) \cup g[ch] : ch \in Chan} = Typed(m)
    BY DEF Shared
  <2>2. UNION {Held(u[ch]) \cup g[ch] : ch \in Chan}
          = (UNION {Held(h[ch]) \cup g[ch] : ch \in Chan}) \cup {k}
    BY <1>5, <1>6
  <2> QED
    BY <1>3, <2>1, <2>2, Zenon
<1> QED
  BY <1>1, <1>7, <1>8, <1>9, <1>10, Zenon DEF Shared

(* A channel loses the key it had last.                                    *)
LEMMA Lost ==
  ASSUME NEW h, NEW g, NEW m \in Nat, Shared(h, g, m), NEW c \in Chan,
         NEW r \in Seq(TypedKey), NEW k \in TypedKey, h[c] = Append(r, k),
         NEW u, u = [h EXCEPT ![c] = r], NEW v, v = [g EXCEPT ![c] = g[c] \cup {k}]
  PROVE  Shared(u, v, m)
<1>1. /\ h \in [Chan -> Seq(TypedKey)] /\ g \in [Chan -> SUBSET TypedKey]
      /\ Held(h[c]) = Held(r) \cup {k} /\ Increasing(r)
  <2>1. Increasing(h[c])
    BY DEF Shared
  <2> QED
    BY <2>1, HeldAppend DEF Shared
<1>2. \A ch \in Chan : u[ch] = IF ch = c THEN r ELSE h[ch]
  BY <1>1
<1>3. \A ch \in Chan : v[ch] = IF ch = c THEN g[c] \cup {k} ELSE g[ch]
  BY <1>1
<1>4. u \in [Chan -> Seq(TypedKey)] /\ v \in [Chan -> SUBSET TypedKey]
  BY <1>1
<1>5. \A ch \in Chan : Increasing(u[ch])
  BY <1>1, <1>2 DEF Shared
<1>6. ASSUME NEW a \in Chan, NEW b \in Chan, a # b
      PROVE  Held(u[a]) \cap (Held(u[b]) \cup v[b]) = {}
  <2>1. Held(h[a]) \cap (Held(h[b]) \cup g[b]) = {}
    BY <1>6 DEF Shared
  <2>2. Held(u[a]) \subseteq Held(h[a])
    BY <1>1, <1>2
  <2>3. Held(u[b]) \cup v[b] \subseteq Held(h[b]) \cup g[b]
    BY <1>1, <1>2, <1>3
  <2> QED
    BY <2>1, <2>2, <2>3, Zenon
<1>7. \A ch \in Chan : Held(u[ch]) \cup v[ch] = Held(h[ch]) \cup g[ch]
  BY <1>1, <1>2, <1>3
<1>8. UNION {Held(u[ch]) \cup v[ch] : ch \in Chan} = Typed(m)
  <2>1. {Held(u[ch]) \cup v[ch] : ch \in Chan} = {Held(h[ch]) \cup g[ch] : ch \in Chan}
    BY <1>7
  <2> QED
    BY <2>1 DEF Shared
<1> QED
  BY <1>4, <1>5, <1>6, <1>8, Zenon DEF Shared

LEMMA HasHadIs ==
  ASSUME NEW s \in ConData
  PROVE  HasHad(s) = IF s.key = None THEN s.read ELSE Append(s.read, s.key)
<1> DEFINE r == s.read
           k == s.key
<1>1. r \in Seq(Keys) /\ k \in Keys
  BY DEF ConData
<1>2. HasHad(s) = r \o (IF k = None THEN <<>> ELSE <<k>>)
  BY DEF HasHad
<1> HIDE DEF r, k
<1>3. r \o <<>> = r /\ r \o <<k>> = Append(r, k)
  BY <1>1
<1>4. HasHad(s) = IF k = None THEN r ELSE Append(r, k)
  BY <1>2, <1>3, Zenon
<1> QED
  BY <1>4 DEF r, k

LEMMA HadTyped ==
  ASSUME NEW r \in Seq(Keys), NEW k \in Keys, Append(r, k) \in Seq(TypedKey)
  PROVE  r \in Seq(TypedKey) /\ k \in TypedKey
<1> DEFINE s == Append(r, k)
<1>1. /\ Len(r) \in Nat /\ Len(s) = Len(r) + 1 /\ s[Len(r) + 1] = k
      /\ \A i \in 1 .. Len(r) : s[i] = r[i]
  OBVIOUS
<1> HIDE DEF s
<1>2. \A i \in 1 .. Len(s) : s[i] \in TypedKey
  BY DEF s
<1>3. \A i \in 1 .. Len(r) : r[i] \in TypedKey
  BY <1>1, <1>2
<1>4. k \in TypedKey
  BY <1>1, <1>2
<1> QED
  BY <1>3, <1>4

Hads == [ch \in Chan |-> HasHad(con[ch])]

Losses == [ch \in Chan |-> ToSet(con[ch].gone)]

(* The keys not yet fetched are the last of those typed.                   *)
Waiting ==
  /\ Len(kbd) <= keysTyped
  /\ \A i \in 1 .. Len(kbd) : kbd[i] = KeyOf(keysTyped - Len(kbd) + i)

KeyInv ==
  /\ Waiting
  /\ InBounds => /\ \A ch \in Chan : Len(con[ch].buf) <= BufSize
                 /\ Shared(Hads, Losses, keysTyped - Len(kbd))

LEMMA InitKeyInv == ConInit => KeyInv
<1> SUFFICES ASSUME ConInit PROVE KeyInv
  OBVIOUS
<1>1. kbd = <<>> /\ keysTyped = 0 /\ Len(kbd) = 0 /\ keysTyped - Len(kbd) = 0
  <2>1. kbd = <<>> /\ keysTyped = 0
    BY Zenon DEF ConInit
  <2>2. Len(<<>>) = 0 /\ 0 - 0 = 0
    OBVIOUS
  <2> QED
    BY <2>1, <2>2, Zenon
<1>2. Waiting
  BY <1>1 DEF Waiting
<1>3. \A ch \in Chan : con[ch].buf = <<>> /\ con[ch].key = None /\ con[ch].read = <<>>
                       /\ con[ch].gone = <<>>
  <2> DEFINE s == [ansi |-> TRUE, buf |-> <<>>, key |-> None, done |-> <<>>, mixed |-> FALSE,
                   grown |-> FALSE, written |-> <<>>, read |-> <<>>, gone |-> <<>>]
  <2>1. con = [ch \in Chan |-> s]
    BY Zenon DEF ConInit
  <2>2. s.buf = <<>> /\ s.key = None /\ s.read = <<>> /\ s.gone = <<>>
    OBVIOUS
  <2> HIDE DEF s
  <2>3. \A ch \in Chan : con[ch] = s
    BY <2>1
  <2> QED
    BY <2>2, <2>3, Zenon
<1>4. \A ch \in Chan : Hads[ch] = <<>>
  <2>1. <<>> \o <<>> = <<>>
    OBVIOUS
  <2> QED
    BY <1>3, <2>1, Zenon DEF Hads, HasHad
<1>5. \A ch \in Chan : Losses[ch] = {}
  <2>1. ToSet(<<>>) = {}
    BY DEF ToSet
  <2> QED
    BY <1>3, <2>1, Zenon DEF Losses
<1>6. Hads \in [Chan -> Seq(TypedKey)] /\ Losses \in [Chan -> SUBSET TypedKey]
  <2>1. Hads = [ch \in Chan |-> <<>>] /\ Losses = [ch \in Chan |-> {}]
    BY <1>4, <1>5, Zenon DEF Hads, Losses
  <2> QED
    BY <2>1
<1>7. Held(<<>>) = {} /\ Increasing(<<>>) /\ Typed(0) = {}
  BY DEF Held, Increasing, Typed
<1>8. Shared(Hads, Losses, 0)
  <2>1. \A ch \in Chan : Increasing(Hads[ch])
    BY <1>4, <1>7, Zenon
  <2>2. \A ch \in Chan : Held(Hads[ch]) = {}
    BY <1>4, <1>7, Zenon
  <2>3. UNION {Held(Hads[ch]) \cup Losses[ch] : ch \in Chan} = Typed(0)
    BY <1>5, <1>7, <2>2
  <2>4. \A a, b \in Chan : a # b => Held(Hads[a]) \cap (Held(Hads[b]) \cup Losses[b]) = {}
    BY <2>2
  <2> QED
    BY <1>6, <2>1, <2>3, <2>4, Zenon DEF Shared
<1>9. \A ch \in Chan : Len(con[ch].buf) <= BufSize
  BY <1>3, ConsoleAssumption DEF ConsoleAssumption
<1> QED
  BY <1>1, <1>2, <1>8, <1>9 DEF KeyInv

(* A channel's data changes: it has had the same keys, the next one too,   *)
(* or has lost its last.                                                   *)
LEMMA OneHas ==
  ASSUME con \in [Chan -> ConData], NEW c \in Chan, NEW u \in ConData,
         con' = [con EXCEPT ![c] = u]
  PROVE  /\ Hads' = [Hads EXCEPT ![c] = HasHad(u)]
         /\ Losses' = [Losses EXCEPT ![c] = ToSet(u.gone)]
         /\ InBounds' => InBounds \/ con[c].grown
         /\ InBounds' => ~u.grown
         /\ (\A ch \in Chan : Len(con[ch].buf) <= BufSize) /\ Len(u.buf) <= BufSize
              => \A ch \in Chan : Len(con'[ch].buf) <= BufSize
<1>1. \A ch \in Chan : con'[ch] = IF ch = c THEN u ELSE con[ch]
  OBVIOUS
<1>2. Hads' = [ch \in Chan |-> HasHad(con'[ch])] /\ Losses' = [ch \in Chan |-> ToSet(con'[ch].gone)]
  BY DEF Hads, Losses
<1>3. [Hads EXCEPT ![c] = HasHad(u)] = [ch \in Chan |-> IF ch = c THEN HasHad(u) ELSE HasHad(con[ch])]
  BY DEF Hads
<1>4. [Losses EXCEPT ![c] = ToSet(u.gone)]
        = [ch \in Chan |-> IF ch = c THEN ToSet(u.gone) ELSE ToSet(con[ch].gone)]
  BY DEF Losses
<1>5. Hads' = [Hads EXCEPT ![c] = HasHad(u)]
  BY <1>1, <1>2, <1>3
<1>6. Losses' = [Losses EXCEPT ![c] = ToSet(u.gone)]
  BY <1>1, <1>2, <1>4
<1> QED
  BY <1>1, <1>5, <1>6 DEF InBounds

(* The same keys.                                                          *)
LEMMA SameKeys ==
  ASSUME ConInv, KeyInv, NEW c \in Chan, NEW u \in ConData, con' = [con EXCEPT ![c] = u],
         UNCHANGED <<kbd, keysTyped>>,
         ~u.grown => ~con[c].grown
                     /\ (Len(con[c].buf) <= BufSize => Len(u.buf) <= BufSize
                           /\ HasHad(u) = HasHad(con[c]) /\ u.gone = con[c].gone)
  PROVE  KeyInv'
<1>1. con \in [Chan -> ConData]
  BY DEF ConInv
<1>2. Waiting'
  BY DEF KeyInv, Waiting
<1>3. ASSUME InBounds' PROVE (\A ch \in Chan : Len(con[ch].buf) <= BufSize)'
                             /\ Shared(Hads, Losses, keysTyped - Len(kbd))'
  <2>1. InBounds /\ ~con[c].grown /\ ~u.grown
    BY <1>1, <1>3, OneHas
  <2>2. /\ \A ch \in Chan : Len(con[ch].buf) <= BufSize
        /\ Shared(Hads, Losses, keysTyped - Len(kbd))
    BY <2>1 DEF KeyInv
  <2>3. Len(u.buf) <= BufSize /\ HasHad(u) = HasHad(con[c]) /\ u.gone = con[c].gone
    BY <2>1, <2>2
  <2>4. Hads' = [Hads EXCEPT ![c] = HasHad(u)] /\ Losses' = [Losses EXCEPT ![c] = ToSet(u.gone)]
    BY <1>1, OneHas
  <2>5. Hads' = Hads
    BY <2>3, <2>4 DEF Hads
  <2>6. Losses' = Losses
    BY <2>3, <2>4 DEF Losses
  <2>7. (\A ch \in Chan : Len(con[ch].buf) <= BufSize)'
    BY <1>1, <2>2, <2>3, OneHas
  <2> QED
    BY <2>2, <2>5, <2>6, <2>7
<1> QED
  BY <1>2, <1>3 DEF KeyInv

(* The next key.                                                           *)
LEMMA NextKey ==
  ASSUME ConInv, KeyInv, NEW c \in Chan, NEW u \in ConData, con' = [con EXCEPT ![c] = u],
         kbd # <<>>, kbd' = Tail(kbd), UNCHANGED keysTyped,
         u.grown = con[c].grown, u.buf = con[c].buf, u.gone = con[c].gone,
         HasHad(con[c]) \in Seq(TypedKey) => HasHad(u) = Append(HasHad(con[c]), Head(kbd))
  PROVE  KeyInv'
<1> DEFINE m == keysTyped - Len(kbd)
<1>1. con \in [Chan -> ConData] /\ kbd \in Seq(TypedKey) /\ keysTyped \in Nat
  BY DEF ConInv
<1>2. /\ Waiting /\ Len(kbd) \in Nat /\ Len(kbd) > 0 /\ Len(kbd') = Len(kbd) - 1
      /\ \A i \in 1 .. Len(kbd) - 1 : kbd'[i] = kbd[i + 1]
      /\ Head(kbd) = kbd[1]
  BY <1>1 DEF KeyInv
<1>3. m \in Nat /\ m + 1 = keysTyped' - Len(kbd')
  BY <1>1, <1>2 DEF Waiting
<1>4. Head(kbd) = KeyOf(m + 1)
  BY <1>2 DEF Waiting
<1>5. Waiting'
  <2>1. Len(kbd') <= keysTyped'
    BY <1>1, <1>2 DEF Waiting
  <2>2. ASSUME NEW i \in 1 .. Len(kbd') PROVE kbd'[i] = KeyOf(keysTyped' - Len(kbd') + i)
    <3>1. kbd'[i] = kbd[i + 1] /\ i + 1 \in 1 .. Len(kbd)
      BY <1>2
    <3>2. kbd[i + 1] = KeyOf(keysTyped - Len(kbd) + (i + 1))
      BY <1>2, <3>1 DEF Waiting
    <3>3. keysTyped - Len(kbd) + (i + 1) = keysTyped' - Len(kbd') + i
      BY <1>1, <1>2
    <3> QED
      BY <3>1, <3>2, <3>3
  <2> QED
    BY <2>1, <2>2 DEF Waiting
<1>6. ASSUME InBounds' PROVE (\A ch \in Chan : Len(con[ch].buf) <= BufSize)'
                             /\ Shared(Hads, Losses, keysTyped - Len(kbd))'
  <2>1. InBounds
    BY <1>1, <1>6, OneHas
  <2>2. (\A ch \in Chan : Len(con[ch].buf) <= BufSize) /\ Shared(Hads, Losses, m)
    BY <2>1 DEF KeyInv
  <2>3. Hads' = [Hads EXCEPT ![c] = HasHad(u)] /\ Losses' = [Losses EXCEPT ![c] = ToSet(u.gone)]
    BY <1>1, OneHas
  <2>4. Hads[c] = HasHad(con[c]) /\ Losses[c] = ToSet(con[c].gone)
    BY DEF Hads, Losses
  <2>5. Losses' = Losses
    BY <2>3, <2>4 DEF Losses
  <2>6. HasHad(con[c]) \in Seq(TypedKey)
    BY <2>2, <2>4 DEF Shared
  <2>7. Hads' = [Hads EXCEPT ![c] = Append(Hads[c], Head(kbd))]
    BY <2>3, <2>4, <2>6
  <2> HIDE DEF m
  <2>8. Shared(Hads', Losses, m + 1)
    BY <1>3, <1>4, <2>2, <2>7, Fetched
  <2>9. (\A ch \in Chan : Len(con[ch].buf) <= BufSize)'
    BY <1>1, <2>2, OneHas
  <2> QED
    BY <1>3, <2>5, <2>8, <2>9
<1> QED
  BY <1>5, <1>6 DEF KeyInv

LEMMA SetAppend ==
  ASSUME NEW r \in Seq(Keys), NEW k \in Keys
  PROVE  ToSet(Append(r, k)) = ToSet(r) \cup {k}
<1> DEFINE s == Append(r, k)
<1>1. /\ Len(r) \in Nat /\ DOMAIN s = 1 .. Len(r) + 1 /\ s[Len(r) + 1] = k
      /\ DOMAIN r = 1 .. Len(r) /\ \A i \in 1 .. Len(r) : s[i] = r[i]
  OBVIOUS
<1> HIDE DEF s
<1>2. 1 .. Len(r) + 1 = (1 .. Len(r)) \cup {Len(r) + 1}
  BY <1>1
<1>3. ToSet(s) = ToSet(r) \cup {k}
  BY <1>1, <1>2 DEF ToSet
<1> QED
  BY <1>3 DEF s

(* A peeked key is lost when its channel is opened anew.                   *)
LEMMA KeyLost ==
  ASSUME ConInv, KeyInv, NEW c \in Chan, Reopen(c)
  PROVE  KeyInv'
<1> DEFINE s == con[c]
           u == Opened(Closed(s))
           m == keysTyped - Len(kbd)
<1>1. /\ con \in [Chan -> ConData] /\ s \in ConData /\ Owes(s, <<>>) /\ keysTyped \in Nat
      /\ kbd \in Seq(TypedKey) /\ Waiting
  BY DEF ConInv, KeyInv
<1>2. con' = [con EXCEPT ![c] = u] /\ UNCHANGED <<kbd, keysTyped>>
  BY DEF Reopen
<1>3. /\ u \in ConData /\ u.buf = <<>> /\ u.key = None /\ u.grown = s.grown /\ u.read = s.read
      /\ Len(s.buf) <= BufSize =>
           u.gone = IF s.key = None THEN s.gone ELSE Append(s.gone, s.key)
  BY <1>1, ReopenIs, Zenon
<1>4. HasHad(u) = u.read /\ Len(u.buf) <= BufSize
  <2>1. Len(u.buf) = 0
    BY <1>3
  <2> QED
    BY <1>3, <2>1, HasHadIs, ConsoleAssumption DEF ConsoleAssumption
<1>5. s.read \in Seq(Keys) /\ s.key \in Keys /\ s.gone \in Seq(Keys)
  BY <1>1 DEF ConData
<1> HIDE DEF s, u, m
<1>6. CASE s.key = None
  <2>1. HasHad(u) = HasHad(s)
    BY <1>1, <1>3, <1>4, <1>6, HasHadIs
  <2>2. ~u.grown => ~s.grown /\ (Len(s.buf) <= BufSize => Len(u.buf) <= BufSize
                                   /\ HasHad(u) = HasHad(s) /\ u.gone = s.gone)
    BY <1>3, <1>4, <1>6, <2>1
  <2> QED
    BY <1>2, <1>3, <2>2, SameKeys DEF s
<1>7. CASE s.key # None
  <2>1. Waiting'
    BY <1>1, <1>2 DEF Waiting
  <2>2. ASSUME InBounds' PROVE (\A ch \in Chan : Len(con[ch].buf) <= BufSize)'
                               /\ Shared(Hads, Losses, keysTyped - Len(kbd))'
    <3>1. InBounds
      BY <1>1, <1>2, <1>3, <2>2, OneHas DEF s
    <3>2. (\A ch \in Chan : Len(con[ch].buf) <= BufSize) /\ Shared(Hads, Losses, m)
      BY <3>1 DEF KeyInv, m
    <3>3. u.gone = Append(s.gone, s.key) /\ HasHad(s) = Append(s.read, s.key)
      BY <1>1, <1>3, <1>7, <3>2, HasHadIs DEF s
    <3>4. Hads[c] = Append(s.read, s.key) /\ Losses[c] = ToSet(s.gone)
      BY <3>3 DEF Hads, Losses, s
    <3>5. s.read \in Seq(TypedKey) /\ s.key \in TypedKey
      <4>1. Hads[c] \in Seq(TypedKey)
        BY <3>2 DEF Shared
      <4> QED
        BY <1>5, <3>4, <4>1, HadTyped
    <3>6. Hads' = [Hads EXCEPT ![c] = s.read] /\ Losses' = [Losses EXCEPT ![c] = ToSet(u.gone)]
      <4>1. Hads' = [Hads EXCEPT ![c] = HasHad(u)] /\ Losses' = [Losses EXCEPT ![c] = ToSet(u.gone)]
        BY <1>1, <1>2, <1>3, OneHas
      <4>2. HasHad(u) = s.read
        BY <1>3, <1>4, Zenon
      <4> QED
        BY <4>1, <4>2
    <3>7. ToSet(u.gone) = Losses[c] \cup {s.key}
      BY <1>5, <3>3, <3>4, SetAppend
    <3>8. m \in Nat
      BY <1>1 DEF m, Waiting
    <3>9. Shared(Hads', Losses', m)
      <4> DEFINE h == Hads
                 g == Losses
                 v == Hads'
                 w == Losses'
                 r == s.read
                 k == s.key
      <4>1. /\ Shared(h, g, m) /\ r \in Seq(TypedKey) /\ k \in TypedKey /\ h[c] = Append(r, k)
            /\ v = [h EXCEPT ![c] = r] /\ w = [g EXCEPT ![c] = g[c] \cup {k}]
        <5>1. w = [Losses EXCEPT ![c] = Losses[c] \cup {s.key}]
          BY <3>6, <3>7
        <5> QED
          BY <3>2, <3>4, <3>5, <3>6, <5>1, Zenon
      <4> HIDE DEF h, g, v, w, r, k
      <4>2. Shared(v, w, m)
        BY <3>8, <4>1, Lost
      <4> QED
        BY <4>2 DEF v, w
    <3>10. (\A ch \in Chan : Len(con[ch].buf) <= BufSize)'
      BY <1>1, <1>2, <1>3, <1>4, <3>2, OneHas
    <3> QED
      BY <1>2, <3>9, <3>10 DEF m
  <2> QED
    BY <2>1, <2>2 DEF KeyInv
<1> QED
  BY <1>6, <1>7

LEMMA KeyStep == ConInv /\ KeyInv /\ [ConNext]_conVars => KeyInv'
<1> SUFFICES ASSUME ConInv, KeyInv, [ConNext]_conVars PROVE KeyInv'
  OBVIOUS
<1>1. /\ con \in [Chan -> ConData] /\ kbd \in Seq(TypedKey) /\ keysTyped \in Nat
      /\ \A ch \in Chan : con[ch] \in ConData /\ Owes(con[ch], <<>>)
  BY DEF ConInv
<1>2. ASSUME NEW ch \in Written, NEW c \in Char, Write(ch, c) PROVE KeyInv'
  <2> DEFINE s == con[ch]
             u == WriteB(s, c)
  <2>1. ch \in Chan /\ con' = [con EXCEPT ![ch] = u] /\ UNCHANGED <<kbd, keysTyped>>
    BY <1>2, ConsoleAssumption DEF ConsoleAssumption, Write
  <2>2. s \in ConData /\ Owes(s, <<>>)
    BY <1>1, <2>1
  <2> HIDE DEF s
  <2>3. u \in ConData /\ u.read = s.read /\ u.gone = s.gone /\ KeepsKey(s, u)
    BY <2>2, WriteIs
  <2> HIDE DEF u
  <2>4. ~u.grown => ~s.grown /\ (Len(s.buf) <= BufSize => Len(u.buf) <= BufSize
                                   /\ HasHad(u) = HasHad(s) /\ u.gone = s.gone)
    BY <2>3, Zenon DEF KeepsKey, HasHad
  <2> QED
    BY <2>1, <2>3, <2>4, SameKeys DEF s
<1>3. ASSUME NEW ch \in Written, NEW on \in BOOLEAN, Ioctrl(ch, on) PROVE KeyInv'
  <2> DEFINE s == con[ch]
             u == [s EXCEPT !.ansi = on]
  <2>1. ch \in Chan /\ con' = [con EXCEPT ![ch] = u] /\ UNCHANGED <<kbd, keysTyped>>
    BY <1>1, <1>3, ConsoleAssumption DEF ConsoleAssumption, Ioctrl
  <2>2. s \in ConData
    BY <1>1, <2>1
  <2>3. u = [s EXCEPT !.ansi = on]
    OBVIOUS
  <2> HIDE DEF s, u
  <2>4. /\ u \in ConData /\ u.buf = s.buf /\ u.key = s.key /\ u.read = s.read
        /\ u.gone = s.gone /\ u.grown = s.grown
    BY <2>2, <2>3 DEF ConData
  <2>5. ~u.grown => ~s.grown /\ (Len(s.buf) <= BufSize => Len(u.buf) <= BufSize
                                   /\ HasHad(u) = HasHad(s) /\ u.gone = s.gone)
    BY <2>4, Zenon DEF HasHad
  <2> QED
    BY <2>1, <2>4, <2>5, SameKeys DEF s
<1>4. ASSUME NEW ch \in Chan, Reopen(ch) PROVE KeyInv'
  BY <1>4, KeyLost
<1>5. ASSUME NEW ch \in Chan, Read(ch) PROVE KeyInv'
  <2> DEFINE s == con[ch]
             k == IF kbd = <<>> THEN None ELSE Head(kbd)
             u == Take(s, k)
  <2>1. /\ con' = [con EXCEPT ![ch] = u] /\ UNCHANGED keysTyped
        /\ s.key # None \/ kbd # <<>>
        /\ kbd' = IF s.key # None THEN kbd ELSE Tail(kbd)
    BY <1>5 DEF Read
  <2>2. s \in ConData /\ k \in Keys
    <3>1. None \in Keys
      BY DEF Keys
    <3> QED
      BY <1>1, <3>1, HeadKey
  <2>3. kbd # <<>> => k = Head(kbd)
    OBVIOUS
  <2> HIDE DEF s, k
  <2>4. /\ u \in ConData /\ u.read = Append(s.read, IF s.key = None THEN k ELSE s.key)
        /\ u.key = None /\ u.buf = s.buf /\ u.gone = s.gone /\ u.grown = s.grown
    BY <2>2, TakeIs
  <2> HIDE DEF u
  <2>5. HasHad(u) = u.read
    BY <2>4, HasHadIs
  <2>6. CASE s.key # None
    <3>1. HasHad(u) = HasHad(s)
      BY <2>2, <2>4, <2>5, <2>6, HasHadIs
    <3>2. UNCHANGED <<kbd, keysTyped>>
      BY <2>1, <2>6
    <3>3. ~u.grown => ~s.grown /\ (Len(s.buf) <= BufSize => Len(u.buf) <= BufSize
                                     /\ HasHad(u) = HasHad(s) /\ u.gone = s.gone)
      BY <2>4, <3>1, Zenon
    <3> QED
      BY <2>1, <2>4, <3>2, <3>3, SameKeys DEF s
  <2>7. CASE s.key = None
    <3>1. kbd # <<>> /\ kbd' = Tail(kbd) /\ k = Head(kbd)
      BY <2>1, <2>3, <2>7
    <3>2. HasHad(s) = s.read
      BY <2>2, <2>7, HasHadIs
    <3>3. HasHad(u) = Append(HasHad(s), Head(kbd))
      BY <2>4, <2>5, <2>7, <3>1, <3>2
    <3> QED
      BY <2>1, <2>4, <3>1, <3>3, NextKey DEF s
  <2> QED
    BY <2>6, <2>7
<1>6. ASSUME NEW ch \in Chan, Peek(ch) PROVE KeyInv'
  <2> DEFINE s == con[ch]
             k == Head(kbd)
             u == [s EXCEPT !.key = k]
  <2>1. /\ con' = [con EXCEPT ![ch] = u] /\ UNCHANGED keysTyped /\ kbd' = Tail(kbd) /\ kbd # <<>>
        /\ s.key = None
    BY <1>6 DEF Peek
  <2>2. s \in ConData /\ k \in Keys /\ k \in TypedKey
    BY <1>1, <2>1, HeadKey
  <2>3. u = [s EXCEPT !.key = k] /\ k # None
    <3>1. k # None
      <4>1. PICK n \in Nat : k = KeyOf(n)
        BY <2>2 DEF TypedKey
      <4>2. k.from = "keyboard"
        BY <4>1 DEF KeyOf
      <4>3. None.from = "none"
        BY DEF None
      <4> QED
        BY <4>2, <4>3
    <3> QED
      BY <3>1
  <2> HIDE DEF s, k, u
  <2>4. /\ u \in ConData /\ u.buf = s.buf /\ u.read = s.read /\ u.key = k
        /\ u.gone = s.gone /\ u.grown = s.grown
    BY <2>2, <2>3 DEF ConData
  <2>5. HasHad(s) = s.read /\ HasHad(u) = Append(s.read, k)
    BY <2>1, <2>2, <2>3, <2>4, HasHadIs
  <2>6. HasHad(u) = Append(HasHad(s), Head(kbd))
    BY <2>5 DEF k
  <2> QED
    BY <2>1, <2>4, <2>6, NextKey DEF s
<1>7. CASE Type
  <2>1. keysTyped' = keysTyped + 1 /\ UNCHANGED con /\ kbd' = Append(kbd, KeyOf(keysTyped'))
    BY <1>7 DEF Type
  <2>2. /\ Len(kbd) \in Nat /\ Len(kbd') = Len(kbd) + 1 /\ kbd'[Len(kbd) + 1] = KeyOf(keysTyped')
        /\ \A i \in 1 .. Len(kbd) : kbd'[i] = kbd[i]
    BY <1>1, <2>1
  <2>3. Waiting
    BY DEF KeyInv
  <2>4. Waiting'
    <3>1. Len(kbd') <= keysTyped'
      BY <1>1, <2>1, <2>2, <2>3 DEF Waiting
    <3>2. ASSUME NEW i \in 1 .. Len(kbd') PROVE kbd'[i] = KeyOf(keysTyped' - Len(kbd') + i)
      <4>1. CASE i \in 1 .. Len(kbd)
        <5>1. kbd[i] = KeyOf(keysTyped - Len(kbd) + i)
          BY <2>3, <4>1 DEF Waiting
        <5>2. keysTyped - Len(kbd) + i = keysTyped' - Len(kbd') + i
          BY <1>1, <2>1, <2>2
        <5> QED
          BY <2>2, <4>1, <5>1, <5>2
      <4>2. CASE i = Len(kbd) + 1
        <5>1. keysTyped' - Len(kbd') + i = keysTyped'
          BY <1>1, <2>1, <2>2, <4>2
        <5> QED
          BY <2>2, <4>2, <5>1
      <4> QED
        BY <2>2, <4>1, <4>2
    <3> QED
      BY <3>1, <3>2 DEF Waiting
  <2>5. keysTyped' - Len(kbd') = keysTyped - Len(kbd)
    BY <1>1, <2>1, <2>2
  <2>6. Hads' = Hads /\ Losses' = Losses /\ (InBounds' <=> InBounds)
    BY <2>1 DEF Hads, Losses, InBounds
  <2> QED
    BY <2>1, <2>4, <2>5, <2>6 DEF KeyInv
<1>8. CASE UNCHANGED conVars
  BY <1>8 DEF conVars, KeyInv, Waiting, InBounds, Hads, Losses
<1> QED
  BY <1>2, <1>3, <1>4, <1>5, <1>6, <1>7, <1>8 DEF ConNext

(* No key is read twice or by two channels, none but a peeked one is lost, *)
(* and each channel reads its keys in order, for any number of channels,   *)
(* keys and characters.                                                    *)
THEOREM KeysAreReadOnce == ConSpec => []KeysOnce
<1>1. ConInv /\ KeyInv => KeysOnce
  <2> SUFFICES ASSUME ConInv, KeyInv, InBounds
               PROVE  LET Gone(ch) == ToSet(con[ch].gone)
                          Had(ch) == ToSet(HasHad(con[ch]))
                      IN /\ \A ch \in Chan : \A i, j \in DOMAIN HasHad(con[ch]) :
                              i < j => HasHad(con[ch])[i].n < HasHad(con[ch])[j].n
                         /\ \A a, b \in Chan : a # b => Had(a) \cap (Had(b) \cup Gone(b)) = {}
                         /\ (UNION {Had(ch) \cup Gone(ch) : ch \in Chan}) \cup ToSet(kbd)
                              = {KeyOf(n) : n \in 1 .. keysTyped}
    BY DEF KeysOnce
  <2> DEFINE m == keysTyped - Len(kbd)
  <2>1. Shared(Hads, Losses, m) /\ Waiting /\ kbd \in Seq(TypedKey) /\ keysTyped \in Nat
    BY DEF ConInv, KeyInv
  <2>2. \A ch \in Chan : /\ Hads[ch] = HasHad(con[ch]) /\ Losses[ch] = ToSet(con[ch].gone)
                         /\ Hads[ch] \in Seq(TypedKey)
    BY <2>1 DEF Hads, Losses, Shared
  <2>3. \A ch \in Chan : /\ DOMAIN HasHad(con[ch]) = 1 .. Len(HasHad(con[ch]))
                         /\ ToSet(HasHad(con[ch])) = Held(Hads[ch])
    BY <2>2 DEF ToSet, Held
  <2>4. \A ch \in Chan : \A i, j \in DOMAIN HasHad(con[ch]) :
          i < j => HasHad(con[ch])[i].n < HasHad(con[ch])[j].n
    BY <2>1, <2>2, <2>3, Zenon DEF Shared, Increasing
  <2>5. \A a, b \in Chan : a # b =>
          ToSet(HasHad(con[a])) \cap (ToSet(HasHad(con[b])) \cup ToSet(con[b].gone)) = {}
    BY <2>1, <2>2, <2>3, Zenon DEF Shared
  <2>6. UNION {ToSet(HasHad(con[ch])) \cup ToSet(con[ch].gone) : ch \in Chan} = Typed(m)
    <3>1. \A ch \in Chan : ToSet(HasHad(con[ch])) \cup ToSet(con[ch].gone) = Held(Hads[ch]) \cup Losses[ch]
      BY <2>2, <2>3
    <3>2. {ToSet(HasHad(con[ch])) \cup ToSet(con[ch].gone) : ch \in Chan}
            = {Held(Hads[ch]) \cup Losses[ch] : ch \in Chan}
      BY <3>1
    <3> QED
      BY <2>1, <3>2, Zenon DEF Shared
  <2>7. Typed(m) \cup ToSet(kbd) = {KeyOf(n) : n \in 1 .. keysTyped}
    <3>1. ToSet(kbd) = {KeyOf(m + i) : i \in 1 .. Len(kbd)}
      BY <2>1 DEF ToSet, Waiting
    <3>2. Len(kbd) \in Nat /\ m \in Nat /\ keysTyped = m + Len(kbd)
      BY <2>1 DEF Waiting
    <3> DEFINE l == Len(kbd)
    <3> HIDE DEF m, l
    <3>3. {KeyOf(m + i) : i \in 1 .. l} = {KeyOf(n) : n \in m + 1 .. m + l}
      <4>1. ASSUME NEW n \in m + 1 .. m + l PROVE \E i \in 1 .. l : n = m + i
        <5>1. n - m \in 1 .. l /\ n = m + (n - m)
          BY <3>2 DEF l
        <5> QED
          BY <5>1
      <4>2. \A i \in 1 .. l : m + i \in m + 1 .. m + l
        BY <3>2 DEF l
      <4> QED
        BY <4>1, <4>2, Zenon
    <3>4. 1 .. keysTyped = (1 .. m) \cup (m + 1 .. m + l)
      BY <3>2 DEF l
    <3> QED
      BY <3>1, <3>3, <3>4, Zenon DEF Typed, l
  <2> HIDE DEF m
  <2> QED
    BY <2>4, <2>5, <2>6, <2>7, Zenon
<1> QED
  BY <1>1, ConInvariance, InitKeyInv, KeyStep, PTL DEF ConSpec
=============================================================================
