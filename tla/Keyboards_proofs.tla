-------------------------- MODULE Keyboards_proofs --------------------------
(***************************************************************************)
(* Proofs about the word ring, for a ring of any size and any number of    *)
(* words put, and about the PS/2 keyboard and mouse that use it, for any   *)
(* keys and packets the assumptions allow.                                 *)
(*                                                                         *)
(* The ring: rb_word_get advances tail before it has loaded the word,      *)
(* which gives the slot to the interrupt handler.  That the handler does   *)
(* not take it is due to the one slot the full test leaves free: with tail *)
(* just past the slot, a head that has come round to it makes the ring     *)
(* full.                                                                   *)
(*                                                                         *)
(* The keyboard: a stroke of several bytes leads to IDLE from any state,   *)
(* and a single byte brings the machine nearer to it (Rank), so that       *)
(* Settled strokes are enough; from IDLE a stroke goes through the states  *)
(* of its own sequence.                                                    *)
(***************************************************************************)
EXTENDS Ps2Keyboard, SequenceTheorems, TLAPS

(* Between advancing tail and wrapping it, tail is one past the slot the   *)
(* word is in.                                                             *)
TailPastSlot == pc \in {"fetch", "wrap"} => tail = slot + 1

(* The word rb_word_get is about to load is still the oldest.              *)
SlotHoldsOldest == pc = "fetch" => buffer[slot] = oldest

IInv == TypeOK /\ TailPastSlot /\ SlotHoldsOldest /\ FetchedIsOldest

-----------------------------------------------------------------------------
(* The first of the words stored is the one at tail.                       *)
LEMMA HeadOfContents ==
  ASSUME TypeOK, pc = "advance"
  PROVE  Head(Contents) = buffer[tail]
<1>1. Size \in Nat /\ Size > 1 /\ tail \in 0 .. Size - 1 /\ head \in 0 .. Size - 1
  BY RingAssumption DEF TypeOK, Slot
<1>2. (head - tail - 1) % Size \in 0 .. Size - 1
  BY <1>1
<1>3. Count \in Nat /\ Count >= 1
  BY <1>1, <1>2 DEF Count
<1>4. tail % Size = tail
  BY <1>1
<1>5. Contents[1] = buffer[tail]
  <2>1. Contents[1] = buffer[(tail + 1 - 1) % Size]
    BY <1>3 DEF Contents
  <2>2. tail + 1 - 1 = tail
    BY <1>1
  <2> QED BY <1>4, <2>1, <2>2
<1>6. Head(Contents) = Contents[1]
  BY <1>3 DEF Contents
<1> QED BY <1>5, <1>6

(* rb_word_put stores a word at head and wraps it; it is the whole of the  *)
(* handler's access to the ring.                                           *)
LEMMA PutKeeps ==
  ASSUME IInv, RbWordPut
  PROVE  IInv'
<1> USE RingAssumption DEF IInv, TypeOK, Slot, Word
<1>1. /\ puts < MaxPuts /\ puts' = puts + 1
      /\ UNCHANGED <<tail, pc, slot, data, oldest>>
  BY DEF RbWordPut
<1>2. CASE PutDropped
  BY <1>1, <1>2 DEF PutDropped, TailPastSlot, SlotHoldsOldest, FetchedIsOldest
<1>3. CASE PutStored(puts + 1)
  <2>1. /\ head + 1 # tail
        /\ buffer' = [buffer EXCEPT ![head] = puts + 1]
        /\ head' = (IF head + 1 >= Size THEN 0 ELSE head + 1)
        /\ queued' = queued + 1
    BY <1>3 DEF PutStored, RbFull, Wrap
  <2>2. TypeOK'
    BY <1>1, <2>1
  <2>3. TailPastSlot'
    BY <1>1 DEF TailPastSlot
  <2>4. SlotHoldsOldest'
    BY <1>1, <2>1 DEF SlotHoldsOldest, TailPastSlot
  <2>5. FetchedIsOldest'
    BY <1>1 DEF FetchedIsOldest
  <2> QED BY <2>2, <2>3, <2>4, <2>5
<1> QED BY <1>2, <1>3 DEF RbWordPut

(* Each access of rb_word_get keeps the word it is fetching.               *)
LEMMA GetKeeps ==
  ASSUME IInv, RbWordGet
  PROVE  IInv'
<1> USE RingAssumption
    DEF IInv, TypeOK, Slot, Word, TailPastSlot, SlotHoldsOldest, FetchedIsOldest
<1>1. CASE GetEmpty
  BY <1>1 DEF GetEmpty
<1>2. CASE GetBegin
  BY <1>2 DEF GetBegin
<1>3. CASE GetAdvance
  <2>1. Head(Contents) = buffer[tail]
    BY <1>3, HeadOfContents DEF GetAdvance
  <2>2. tail \in 0 .. Size - 1 /\ buffer[tail] \in Word \cup {0}
    BY <1>3 DEF GetAdvance
  <2>3. /\ slot' = tail /\ tail' = tail + 1 /\ oldest' = buffer[tail]
        /\ queued' = queued - 1 /\ pc' = "fetch"
        /\ UNCHANGED <<buffer, head, data, puts>>
    BY <1>3, <2>1 DEF GetAdvance
  <2> HIDE DEF Contents
  <2> QED BY <2>2, <2>3
<1>4. CASE GetFetch
  BY <1>4 DEF GetFetch
<1>5. CASE GetWrap
  BY <1>5 DEF GetWrap, Wrap
<1> QED BY <1>1, <1>2, <1>3, <1>4, <1>5 DEF RbWordGet

-----------------------------------------------------------------------------
(* The invariant holds, wherever the handler interrupts rb_word_get.       *)
THEOREM Invariance == Spec => []IInv
<1>1. Init => IInv
  BY RingAssumption DEF Init, RbInit, IInv, TypeOK, Slot, Word, TailPastSlot,
     SlotHoldsOldest, FetchedIsOldest
<1>2. IInv /\ [Next]_vars => IInv'
  <2> SUFFICES ASSUME IInv, [Next]_vars PROVE IInv'
    OBVIOUS
  <2>1. CASE RbWordPut
    BY <2>1, PutKeeps
  <2>2. CASE RbWordGet
    BY <2>2, GetKeeps
  <2>3. CASE UNCHANGED vars
    BY <2>3 DEF vars, IInv, TypeOK, TailPastSlot, SlotHoldsOldest, FetchedIsOldest
  <2> QED BY <2>1, <2>2, <2>3 DEF Next
<1> QED BY <1>1, <1>2, PTL DEF Spec

(* The indexes and words are of their types; tail runs past the last slot  *)
(* only inside rb_word_get.                                                *)
THEOREM TypeCorrect == Spec => []TypeOK
<1>1. IInv => TypeOK
  BY DEF IInv
<1> QED BY <1>1, Invariance, PTL

(* rb_word_get returns the word that was the oldest when it advanced tail, *)
(* however often the handler ran in between.                               *)
THEOREM OldestFetched == Spec => []FetchedIsOldest
<1>1. IInv => FetchedIsOldest
  BY DEF IInv
<1> QED BY <1>1, Invariance, PTL

-----------------------------------------------------------------------------
(* The ring as a queue.  Index arithmetic first: what % gives within one   *)
(* turn of the ring, either way.                                           *)
LEMMA OneTurn ==
  ASSUME NEW a \in Int
  PROVE  /\ 0 <= a /\ a < Size => a % Size = a
         /\ Size <= a /\ a < Size + Size => a % Size = a - Size
         /\ -Size <= a /\ a < 0 => a % Size = a + Size
BY RingAssumption

(* The slot of the i-th word from tail t on.                               *)
At(t, i) == IF t + i - 1 < Size THEN t + i - 1 ELSE t + i - 1 - Size

(* The n words from tail t on in b.                                        *)
Window(b, t, n) == [i \in 1 .. n |-> b[(t + i - 1) % Size]]

Words == Word \cup {0}

LEMMA AtIs ==
  ASSUME NEW t \in 0 .. Size, NEW i \in 1 .. Size
  PROVE  (t + i - 1) % Size = At(t, i) /\ At(t, i) \in Slot
<1>1. /\ t + i - 1 \in Int /\ 0 <= t + i - 1 /\ t + i - 1 < Size + Size
      /\ Size \in Nat
  BY RingAssumption
<1>2. (t + i - 1) % Size = At(t, i)
  BY <1>1, OneTurn DEF At
<1>3. At(t, i) \in Slot
  BY <1>1 DEF At, Slot
<1> QED BY <1>2, <1>3

LEMMA WindowIs ==
  ASSUME NEW b \in [Slot -> Words], NEW t \in 0 .. Size, NEW n \in 0 .. Size
  PROVE  /\ Window(b, t, n) \in Seq(Words) /\ Len(Window(b, t, n)) = n
         /\ \A i \in 1 .. n : Window(b, t, n)[i] = b[At(t, i)]
<1>1. n \in Nat /\ 1 .. n \subseteq 1 .. Size
  BY RingAssumption
<1>2. Window(b, t, n) = [i \in 1 .. n |-> b[At(t, i)]]
  BY <1>1, AtIs DEF Window
<1>3. \A i \in 1 .. n : b[At(t, i)] \in Words
  BY <1>1, AtIs
<1> QED BY <1>1, <1>2, <1>3

(* A word put in the slot after the last is appended.                      *)
LEMMA WindowGrows ==
  ASSUME NEW b \in [Slot -> Words], NEW t \in 0 .. Size, NEW n \in 0 .. Size - 1,
         NEW w \in Words
  PROVE  Window([b EXCEPT ![At(t, n + 1)] = w], t, n + 1) = Append(Window(b, t, n), w)
<1> DEFINE c == [b EXCEPT ![At(t, n + 1)] = w]
<1>1. Size \in Nat /\ Size > 1 /\ n \in 0 .. Size /\ n + 1 \in 1 .. Size
  BY RingAssumption
<1>2. At(t, n + 1) \in Slot /\ c \in [Slot -> Words]
  BY <1>1, AtIs
<1>3. \A i \in 1 .. n : At(t, i) \in Slot /\ At(t, i) # At(t, n + 1)
  BY <1>1 DEF At, Slot
<1>4. c[At(t, n + 1)] = w /\ \A i \in 1 .. n : c[At(t, i)] = b[At(t, i)]
  BY <1>2, <1>3
<1> HIDE DEF c
<1>5. /\ Window(c, t, n + 1) \in Seq(Words) /\ Len(Window(c, t, n + 1)) = n + 1
      /\ \A i \in 1 .. n + 1 : Window(c, t, n + 1)[i] = c[At(t, i)]
  <2>1. n + 1 \in 0 .. Size
    BY <1>1
  <2> QED BY <1>2, <2>1, WindowIs
<1>6. /\ Window(b, t, n) \in Seq(Words) /\ Len(Window(b, t, n)) = n
      /\ \A i \in 1 .. n : Window(b, t, n)[i] = b[At(t, i)]
  BY <1>1, WindowIs
<1>7. /\ Append(Window(b, t, n), w) \in Seq(Words)
      /\ Len(Append(Window(b, t, n), w)) = n + 1
      /\ \A i \in 1 .. n : Append(Window(b, t, n), w)[i] = Window(b, t, n)[i]
      /\ Append(Window(b, t, n), w)[n + 1] = w
  BY <1>6, AppendProperties
<1>8. \A i \in 1 .. n + 1 : Window(c, t, n + 1)[i] = Append(Window(b, t, n), w)[i]
  <2> SUFFICES ASSUME NEW i \in 1 .. n + 1
               PROVE  c[At(t, i)] = Append(Window(b, t, n), w)[i]
    BY <1>5
  <2>1. CASE i = n + 1
    BY <1>4, <1>7, <2>1
  <2>2. CASE i # n + 1
    <3>1. i \in 1 .. n
      BY <1>1, <2>2
    <3> QED BY <1>4, <1>6, <1>7, <3>1
  <2> QED BY <2>1, <2>2
<1>9. Window(c, t, n + 1) = Append(Window(b, t, n), w)
  BY <1>5, <1>7, <1>8, SeqEqual
<1> QED BY <1>9 DEF c

(* Advancing tail takes the first word off.                                *)
LEMMA WindowShrinks ==
  ASSUME NEW b \in [Slot -> Words], NEW t \in Slot, NEW n \in 1 .. Size
  PROVE  Window(b, t + 1, n - 1) = Tail(Window(b, t, n)) /\ Window(b, t, n) # << >>
<1>1. /\ Size \in Nat /\ Size > 1 /\ t \in 0 .. Size /\ t + 1 \in 0 .. Size
      /\ n \in 0 .. Size /\ n - 1 \in 0 .. Size
  BY RingAssumption DEF Slot
<1>2. /\ Window(b, t, n) \in Seq(Words) /\ Len(Window(b, t, n)) = n
      /\ \A i \in 1 .. n : Window(b, t, n)[i] = b[At(t, i)]
  BY <1>1, WindowIs
<1>3. /\ Window(b, t + 1, n - 1) \in Seq(Words) /\ Len(Window(b, t + 1, n - 1)) = n - 1
      /\ \A i \in 1 .. n - 1 : Window(b, t + 1, n - 1)[i] = b[At(t + 1, i)]
  BY <1>1, WindowIs
<1>4. Window(b, t, n) # << >>
  BY <1>1, <1>2, EmptySeq
<1>5. /\ Tail(Window(b, t, n)) \in Seq(Words)
      /\ Len(Tail(Window(b, t, n))) = n - 1
      /\ \A i \in 1 .. n - 1 : Tail(Window(b, t, n))[i] = Window(b, t, n)[i + 1]
  BY <1>2, <1>4, HeadTailProperties
<1>6. \A i \in 1 .. n - 1 : i + 1 \in 1 .. n /\ At(t + 1, i) = At(t, i + 1)
  BY <1>1 DEF At
<1>7. \A i \in 1 .. n - 1 : Window(b, t + 1, n - 1)[i] = Tail(Window(b, t, n))[i]
  BY <1>2, <1>3, <1>5, <1>6
<1> QED BY <1>3, <1>4, <1>5, <1>7, SeqEqual

(* With tail past the last slot the words are those from slot 0 on.        *)
LEMMA WindowWraps ==
  ASSUME NEW b \in [Slot -> Words], NEW n \in 0 .. Size
  PROVE  Window(b, 0, n) = Window(b, Size, n)
<1>1. 0 \in 0 .. Size /\ Size \in 0 .. Size /\ Size \in Nat
  BY RingAssumption
<1>2. \A i \in 1 .. n : At(0, i) = At(Size, i)
  BY <1>1 DEF At
<1>3. /\ Window(b, 0, n) \in Seq(Words) /\ Len(Window(b, 0, n)) = n
      /\ \A i \in 1 .. n : Window(b, 0, n)[i] = b[At(0, i)]
  BY <1>1, WindowIs
<1>4. /\ Window(b, Size, n) \in Seq(Words) /\ Len(Window(b, Size, n)) = n
      /\ \A i \in 1 .. n : Window(b, Size, n)[i] = b[At(Size, i)]
  BY <1>1, WindowIs
<1>5. \A i \in 1 .. n : Window(b, 0, n)[i] = Window(b, Size, n)[i]
  BY <1>2, <1>3, <1>4
<1> QED BY <1>3, <1>4, <1>5, SeqEqual

(* How many words there are: as many as from tail to head, or all of them  *)
(* when head has caught up with a tail that is about to be advanced.       *)
Stored(h, t, getting) ==
  IF (IF getting THEN h > t ELSE h >= t) THEN h - t ELSE h - t + Size

Getting == pc = "advance"

LEMMA CountIs ==
  ASSUME NEW h \in Slot, NEW t \in 0 .. Size
  PROVE  /\ (h - t) % Size = Stored(h, t, FALSE)
         /\ t # Size => ((h - t - 1) % Size) + 1 = Stored(h, t, TRUE)
<1>1. Size \in Nat /\ Size > 1 /\ h \in Int /\ t \in Int /\ h - t \in Int /\ h - t - 1 \in Int
      /\ 0 <= h /\ h < Size /\ 0 <= t /\ t <= Size
  BY RingAssumption DEF Slot
<1>2. (h - t) % Size = IF h >= t THEN h - t ELSE h - t + Size
  BY <1>1, OneTurn
<1>3. ASSUME t # Size
      PROVE  (h - t - 1) % Size = IF h > t THEN h - t - 1 ELSE h - t - 1 + Size
  BY <1>1, <1>3, OneTurn
<1>4. ASSUME t # Size
      PROVE  ((h - t - 1) % Size) + 1 = IF h > t THEN h - t ELSE h - t + Size
  BY <1>1, <1>3, <1>4
<1> QED BY <1>2, <1>4 DEF Stored

(* The ring's words, before and after a step, in those terms.              *)
LEMMA ContentsIs ==
  /\ TypeOK => Contents = Window(buffer, tail, Stored(head, tail, Getting))
  /\ TypeOK' => Contents' = Window(buffer', tail', Stored(head', tail', Getting'))
<1>1. ASSUME TypeOK PROVE Count = Stored(head, tail, Getting)
  <2>1. head \in Slot /\ tail \in 0 .. Size /\ (pc = "advance" => tail # Size)
    BY <1>1, RingAssumption DEF TypeOK, Slot
  <2>2. CASE pc = "advance"
    BY <2>1, <2>2, CountIs DEF Count, Getting, Stored
  <2>3. CASE pc # "advance"
    BY <2>1, <2>3, CountIs DEF Count, Getting, Stored
  <2> QED BY <2>2, <2>3
<1>2. ASSUME TypeOK' PROVE Count' = Stored(head', tail', Getting')
  <2>1. head' \in Slot /\ tail' \in 0 .. Size /\ (pc' = "advance" => tail' # Size)
    BY <1>2, RingAssumption DEF TypeOK, Slot
  <2>2. CASE pc' = "advance"
    BY <2>1, <2>2, CountIs DEF Count, Getting, Stored
  <2>3. CASE pc' # "advance"
    BY <2>1, <2>3, CountIs DEF Count, Getting, Stored
  <2> QED BY <2>2, <2>3
<1> QED BY <1>1, <1>2 DEF Contents, Window

-----------------------------------------------------------------------------
(* Every step of the ring is one of the queue, or none.                    *)

LEMMA QueueInit == Init => Queue!Init
<1> SUFFICES ASSUME Init PROVE Contents = << >>
  BY DEF Queue!Init
<1>1. Count = 0
  <2>1. (0 - 0) % Size = 0
    BY RingAssumption
  <2> QED BY <2>1 DEF Init, RbInit, Count
<1>2. Contents = [i \in 1 .. 0 |-> buffer[(tail + i - 1) % Size]]
  BY <1>1 DEF Contents
<1>3. 1 .. 0 = {}
  OBVIOUS
<1> QED BY <1>2, <1>3

(* rb_word_put adds a word at the end; when one fewer than all the slots   *)
(* are taken and tail is 0, head wraps onto it and every word is gone, and *)
(* when head has caught up with rb_word_get only the new word is left.     *)
LEMMA PutIsPut ==
  ASSUME IInv, TypeOK', RbWordPut, PutStored(puts + 1)
  PROVE  Queue!Next
<1> DEFINE w == puts + 1
           n == Stored(head, tail, Getting)
           m == Stored(head', tail', Getting')
<1>1. /\ Size \in Nat /\ Size > 1
      /\ head \in Slot /\ head \in Int /\ 0 <= head /\ head < Size
      /\ tail \in 0 .. Size /\ (pc = "advance" => tail # Size)
      /\ buffer \in [Slot -> Words]
      /\ w \in Word /\ w \in Words
  BY RingAssumption DEF IInv, TypeOK, Slot, Word, Words, RbWordPut
<1>2. /\ head + 1 # tail
      /\ buffer' = [buffer EXCEPT ![head] = w]
      /\ head' = (IF head + 1 >= Size THEN 0 ELSE head + 1)
      /\ tail' = tail /\ (Getting' <=> Getting)
  BY DEF PutStored, RbFull, Wrap, RbWordPut, Getting
<1>3. Contents = Window(buffer, tail, n) /\ Contents' = Window(buffer', tail, m)
  BY <1>2, ContentsIs DEF IInv
<1>4. n \in 0 .. Size /\ (~Getting => n < Size)
  BY <1>1 DEF Stored, Getting
<1>5. Len(Contents) = n
  BY <1>1, <1>3, <1>4, WindowIs
<1>6. n < Size => At(tail, n + 1) = head
  BY <1>1, <1>2 DEF At, Stored, Getting
<1>7. CASE n < Size /\ m = n + 1
  <2>1. n \in 0 .. Size - 1
    BY <1>1, <1>4, <1>7
  <2> HIDE DEF n, m, w
  <2>2. Contents' = Append(Contents, w)
    BY <1>1, <1>2, <1>3, <1>6, <1>7, <2>1, WindowGrows
  <2>3. n < Size - 1 \/ n = Size - 1
    BY <1>1, <2>1
  <2>4. Queue!Put(w)
    BY <1>5, <2>2, <2>3 DEF Queue!Put
  <2> QED BY <1>1, <2>4 DEF Queue!Next
<1>8. CASE n = Size - 1 /\ m = 0
  <2> HIDE DEF n, m, w
  <2>1. Contents' = << >>
    <3>1. Contents' = [i \in 1 .. 0 |-> buffer'[(tail + i - 1) % Size]]
      BY <1>3, <1>8 DEF Window
    <3>2. 1 .. 0 = {}
      OBVIOUS
    <3> QED BY <3>1, <3>2
  <2>2. Queue!Put(w)
    BY <1>5, <1>8, <2>1 DEF Queue!Put
  <2> QED BY <1>1, <2>2 DEF Queue!Next
<1>9. CASE n = Size /\ m = 1
  <2>1. head = tail
    BY <1>1, <1>9 DEF Stored, Getting
  <2> HIDE DEF n, m, w
  <2>2. At(tail, 1) = tail /\ buffer'[tail] = w
    BY <1>1, <1>2, <2>1 DEF At
  <2>3. buffer' \in [Slot -> Words]
    BY <1>1, <1>2
  <2>4. /\ Window(buffer', tail, 1) \in Seq(Words) /\ Len(Window(buffer', tail, 1)) = 1
        /\ Window(buffer', tail, 1)[1] = w
    <3>1. 1 \in 0 .. Size /\ 1 \in 1 .. 1
      BY <1>1
    <3>2. /\ Window(buffer', tail, 1) \in Seq(Words) /\ Len(Window(buffer', tail, 1)) = 1
          /\ \A i \in 1 .. 1 : Window(buffer', tail, 1)[i] = buffer'[At(tail, i)]
      BY <1>1, <2>3, <3>1, WindowIs
    <3> QED BY <2>2, <3>1, <3>2
  <2>5. Contents' = << w >>
    BY <1>1, <1>3, <1>9, <2>4
  <2>6. Queue!Put(w)
    BY <1>1, <1>5, <1>9, <2>5 DEF Queue!Put
  <2> QED BY <1>1, <2>6 DEF Queue!Next
<1>10. (n < Size /\ m = n + 1) \/ (n = Size - 1 /\ m = 0) \/ (n = Size /\ m = 1)
  <2>1. CASE Getting
    BY <1>1, <1>2, <2>1 DEF Stored, Getting
  <2>2. CASE ~Getting
    BY <1>1, <1>2, <2>2 DEF Stored, Getting
  <2> QED BY <2>1, <2>2
<1> QED BY <1>7, <1>8, <1>9, <1>10

(* Advancing tail is the queue's Get; the other accesses of rb_word_get    *)
(* change none of the words stored.                                        *)
LEMMA GetIsGet ==
  ASSUME IInv, TypeOK', RbWordGet
  PROVE  Queue!Next \/ Contents' = Contents
<1>1. /\ Size \in Nat /\ Size > 1
      /\ head \in Slot /\ head \in Int /\ 0 <= head /\ head < Size
      /\ tail \in 0 .. Size
      /\ buffer \in [Slot -> Words]
  BY RingAssumption DEF IInv, TypeOK, Slot, Words
<1>2. /\ Contents = Window(buffer, tail, Stored(head, tail, Getting))
      /\ Contents' = Window(buffer', tail', Stored(head', tail', Getting'))
  BY ContentsIs DEF IInv
<1>3. CASE GetEmpty
  BY <1>3 DEF GetEmpty, Contents, Count
<1>4. CASE GetBegin
  <2>1. /\ UNCHANGED <<buffer, head, tail>> /\ head # tail
        /\ pc # "advance" /\ pc' = "advance"
    BY <1>4 DEF GetBegin, RbEmpty
  <2>2. Stored(head', tail', Getting') = Stored(head, tail, Getting)
    BY <1>1, <2>1 DEF Stored, Getting
  <2> QED BY <1>2, <2>1, <2>2
<1>5. CASE GetAdvance
  <2> DEFINE n == Stored(head, tail, Getting)
  <2>1. /\ UNCHANGED <<buffer, head>> /\ tail' = tail + 1
        /\ pc = "advance" /\ pc' = "fetch" /\ tail \in Slot
    BY <1>5, <1>1 DEF GetAdvance, IInv, TypeOK
  <2>2. n \in 1 .. Size /\ Stored(head', tail', Getting') = n - 1
    BY <1>1, <2>1 DEF Stored, Getting, Slot
  <2> HIDE DEF n
  <2>3. Contents' = Tail(Contents) /\ Contents # << >>
    BY <1>1, <1>2, <2>1, <2>2, WindowShrinks DEF n
  <2> QED BY <2>3 DEF Queue!Next, Queue!Get
<1>6. CASE GetFetch
  <2>1. UNCHANGED <<buffer, head, tail>> /\ pc # "advance" /\ pc' # "advance"
    BY <1>6 DEF GetFetch
  <2>2. Stored(head', tail', Getting') = Stored(head, tail, Getting)
    BY <2>1 DEF Stored, Getting
  <2> QED BY <1>2, <2>1, <2>2
<1>7. CASE GetWrap
  <2>1. /\ UNCHANGED <<buffer, head>> /\ pc # "advance" /\ pc' # "advance"
        /\ tail' = (IF tail >= Size THEN 0 ELSE tail)
    BY <1>7 DEF GetWrap, Wrap
  <2>2. CASE tail = Size
    <3>1. /\ Stored(head, tail, Getting) = head
          /\ Stored(head', tail', Getting') = head
          /\ tail' = 0 /\ head \in 0 .. Size
      BY <1>1, <2>1, <2>2 DEF Stored, Getting
    <3> QED BY <1>1, <1>2, <2>1, <2>2, <3>1, WindowWraps
  <2>3. CASE tail # Size
    <3>1. tail' = tail
      BY <1>1, <2>1, <2>3
    <3>2. Stored(head', tail', Getting') = Stored(head, tail, Getting)
      BY <2>1, <3>1 DEF Stored, Getting
    <3> QED BY <1>2, <2>1, <3>1, <3>2
  <2> QED BY <2>2, <2>3
<1> QED BY <1>3, <1>4, <1>5, <1>6, <1>7 DEF RbWordGet

(* The ring, put to by the handler inside any access of rb_word_get, is    *)
(* the queue the drivers rely on.                                          *)
THEOREM Refinement == Spec => ImplementsWordQueue
<1>1. IInv /\ TypeOK' /\ [Next]_vars => [Queue!Next]_Contents
  <2> SUFFICES ASSUME IInv, TypeOK', [Next]_vars
               PROVE  Queue!Next \/ Contents' = Contents
    OBVIOUS
  <2>1. CASE RbWordPut
    <3>1. CASE PutDropped
      BY <2>1, <3>1 DEF RbWordPut, PutDropped, Contents, Count
    <3>2. CASE PutStored(puts + 1)
      BY <2>1, <3>2, PutIsPut
    <3> QED BY <2>1, <3>1, <3>2 DEF RbWordPut
  <2>2. CASE RbWordGet
    BY <2>2, GetIsGet
  <2>3. CASE UNCHANGED vars
    BY <2>3 DEF vars, Contents, Count
  <2> QED BY <2>1, <2>2, <2>3 DEF Next
<1>2. Spec => Queue!Init /\ [][Queue!Next]_Contents
  BY <1>1, QueueInit, Invariance, TypeCorrect, PTL DEF Spec
<1> QED BY <1>2 DEF ImplementsWordQueue, Queue!Spec

-----------------------------------------------------------------------------
(* The states, and how many whole strokes may pass before the machine has  *)
(* left one for IDLE, each stroke being a single byte.                     *)
State == {"IDLE", "E0", "E02A", "E02AE0", "E0B7", "E0B7E0", "E1", "E11D", "E11D45",
          "E11D45E1", "E11D45E19D"}

Rank(st) ==
  IF st = "IDLE" THEN 0 ELSE IF st = "E1" THEN 3
  ELSE IF st \in {"E0", "E11D", "E11D45E1"} THEN 2 ELSE 1

-----------------------------------------------------------------------------
(* The machine: a byte the state expects, and any other.                   *)
LEMMA OneForAByte ==
  ASSUME NEW st \in State, NEW c \in Chain[st], NEW d \in Chain[st], c[1] = d[1]
  PROVE  c = d
  BY DEF State, Chain

LEMMA Expected ==
  ASSUME NEW st \in State, NEW p \in Chain[st]
  PROVE  Outcome(st, p[1]) = <<p[2], p[3]>>
<1> DEFINE d == CHOOSE c \in Chain[st] : c[1] = p[1]
<1>1. d \in Chain[st] /\ d[1] = p[1]
  OBVIOUS
<1>2. d = p
  BY <1>1, OneForAByte
<1>3. Outcome(st, p[1]) = <<d[2], d[3]>>
  BY DEF Outcome
<1> HIDE DEF d
<1> QED
  BY <1>2, <1>3

LEMMA Unexpected ==
  ASSUME NEW st \in State, NEW b, \A c \in Chain[st] : c[1] # b
  PROVE  Outcome(st, b) = <<"IDLE", Lookup(st, b)>>
  BY DEF Outcome

(* The steps of the sequences.                                             *)
LEMMA Steps ==
  /\ Outcome("IDLE", 224) = <<"E0", 0>> /\ Outcome("IDLE", 225) = <<"E1", 0>>
  /\ Outcome("E0", 42) = <<"E02A", 0>> /\ Outcome("E0", 183) = <<"E0B7", 0>>
  /\ Outcome("E02A", 224) = <<"E02AE0", 0>> /\ Outcome("E02AE0", 55) = <<"IDLE", 96>>
  /\ Outcome("E0B7", 224) = <<"E0B7E0", 0>> /\ Outcome("E0B7E0", 170) = <<"IDLE", 208>>
  /\ Outcome("E1", 29) = <<"E11D", 0>> /\ Outcome("E11D", 69) = <<"E11D45", 0>>
  /\ Outcome("E11D45", 225) = <<"E11D45E1", 0>>
  /\ Outcome("E11D45E1", 157) = <<"E11D45E19D", 0>>
  /\ Outcome("E11D45E19D", 197) = <<"IDLE", 97>>
<1>1. \A st \in State : \A p \in Chain[st] : Outcome(st, p[1]) = <<p[2], p[3]>>
  BY Expected
<1>2. /\ <<224, "E0", 0>> \in Chain["IDLE"] /\ <<225, "E1", 0>> \in Chain["IDLE"]
      /\ <<42, "E02A", 0>> \in Chain["E0"] /\ <<183, "E0B7", 0>> \in Chain["E0"]
      /\ <<224, "E02AE0", 0>> \in Chain["E02A"] /\ <<55, "IDLE", 96>> \in Chain["E02AE0"]
      /\ <<224, "E0B7E0", 0>> \in Chain["E0B7"] /\ <<170, "IDLE", 208>> \in Chain["E0B7E0"]
      /\ <<29, "E11D", 0>> \in Chain["E1"] /\ <<69, "E11D45", 0>> \in Chain["E11D"]
      /\ <<225, "E11D45E1", 0>> \in Chain["E11D45"]
      /\ <<157, "E11D45E19D", 0>> \in Chain["E11D45E1"]
      /\ <<197, "IDLE", 97>> \in Chain["E11D45E19D"]
  BY DEF Chain
<1> QED
  BY <1>1, <1>2 DEF State

(* Every other byte leads to IDLE.                                         *)
Expects(st, b) ==
  \/ st = "IDLE" /\ b \in {224, 225}
  \/ st = "E0" /\ b \in {42, 183}
  \/ st \in {"E02A", "E0B7"} /\ b = 224
  \/ st = "E02AE0" /\ b = 55
  \/ st = "E0B7E0" /\ b = 170
  \/ st = "E1" /\ b = 29
  \/ st = "E11D" /\ b = 69
  \/ st = "E11D45" /\ b = 225
  \/ st = "E11D45E1" /\ b = 157
  \/ st = "E11D45E19D" /\ b = 197

LEMMA Others ==
  ASSUME NEW st \in State, NEW b \in Nat, ~Expects(st, b)
  PROVE  Outcome(st, b) = <<"IDLE", Lookup(st, b)>> /\ Outcome(st, b)[1] = "IDLE"
<1>1. \A c \in Chain[st] : c[1] # b
  BY DEF State, Chain, Expects
<1> QED
  BY <1>1, Unexpected

(* A single byte that is no prefix brings the machine nearer to IDLE.      *)
LEMMA OneByteNearer ==
  ASSUME NEW st \in State, NEW b \in Nat, b \notin {224, 225}
  PROVE  /\ Outcome(st, b)[1] \in State
         /\ Rank(st) = 0 => Rank(Outcome(st, b)[1]) = 0
         /\ Rank(st) # 0 => Rank(Outcome(st, b)[1]) < Rank(st)
         /\ Rank(Outcome(st, b)[1]) \in Nat /\ Rank(st) \in 0 .. 3
<1>1. CASE ~Expects(st, b)
  BY <1>1, Others DEF Rank, State
<1>2. CASE Expects(st, b)
  <2>1. \/ st = "E0" /\ b \in {42, 183}
        \/ (st = "E02AE0" /\ b = 55) \/ (st = "E0B7E0" /\ b = 170)
        \/ (st = "E11D45E19D" /\ b = 197)
        \/ st = "E1" /\ b = 29
        \/ st = "E11D" /\ b = 69
        \/ st = "E11D45E1" /\ b = 157
    BY <1>2 DEF Expects
  <2>2. CASE st = "E0" /\ b \in {42, 183}
    <3>1. Outcome(st, b)[1] \in {"E02A", "E0B7"}
      BY <2>2, Steps
    <3> QED
      BY <2>2, <3>1 DEF Rank, State
  <2>3. CASE (st = "E02AE0" /\ b = 55) \/ (st = "E0B7E0" /\ b = 170)
            \/ (st = "E11D45E19D" /\ b = 197)
    <3>1. Outcome(st, b)[1] = "IDLE"
      BY <2>3, Steps
    <3> QED
      BY <2>3, <3>1 DEF Rank, State
  <2>4. CASE st = "E1" /\ b = 29
    <3>1. Outcome(st, b)[1] = "E11D"
      BY <2>4, Steps
    <3> QED
      BY <2>4, <3>1 DEF Rank, State
  <2>5. CASE st = "E11D" /\ b = 69
    <3>1. Outcome(st, b)[1] = "E11D45"
      BY <2>5, Steps
    <3> QED
      BY <2>5, <3>1 DEF Rank, State
  <2>6. CASE st = "E11D45E1" /\ b = 157
    <3>1. Outcome(st, b)[1] = "E11D45E19D"
      BY <2>6, Steps
    <3> QED
      BY <2>6, <3>1 DEF Rank, State
  <2> QED
    BY <2>1, <2>2, <2>3, <2>4, <2>5, <2>6
<1> QED
  BY <1>1, <1>2

(* What the bytes of the longer strokes lead to from any state.            *)
AfterPrefix == {"IDLE", "E0", "E02AE0", "E0B7E0"}

LEMMA PrefixLeads ==
  ASSUME NEW st \in State
  PROVE  /\ Outcome(st, 224)[1] \in AfterPrefix
         /\ Outcome(st, 225)[1] \in {"IDLE", "E1", "E11D45E1"}
<1>1. CASE st \in {"IDLE", "E02A", "E0B7", "E11D45"}
  BY <1>1, Steps, Others DEF AfterPrefix, State, Expects
<1>2. CASE st \notin {"IDLE", "E02A", "E0B7", "E11D45"}
  <2>1. Outcome(st, 224)[1] = "IDLE" /\ Outcome(st, 225)[1] = "IDLE"
    BY <1>2, Others DEF Expects
  <2> QED
    BY <2>1 DEF AfterPrefix
<1> QED
  BY <1>1, <1>2

(* A prefixed key ends in IDLE, from wherever its prefix led.              *)
LEMMA PrefixedEnds ==
  ASSUME NEW st \in AfterPrefix, NEW b \in Nat, b \notin {42, 183, 224, 225}
  PROVE  Outcome(st, b)[1] = "IDLE"
<1>1. CASE (st = "E02AE0" /\ b = 55) \/ (st = "E0B7E0" /\ b = 170)
  BY <1>1, Steps
<1>2. CASE ~((st = "E02AE0" /\ b = 55) \/ (st = "E0B7E0" /\ b = 170))
  <2>1. ~Expects(st, b) /\ st \in State
    BY <1>2 DEF Expects, AfterPrefix, State
  <2> QED
    BY <2>1, Others
<1> QED
  BY <1>1, <1>2

LEMMA FakeLeads ==
  ASSUME NEW st \in AfterPrefix
  PROVE  /\ Outcome(st, 42)[1] \in {"IDLE", "E02A"}
         /\ Outcome(st, 183)[1] \in {"IDLE", "E0B7"}
<1>1. CASE st = "E0"
  BY <1>1, Steps
<1>2. CASE st # "E0"
  <2>1. Outcome(st, 42)[1] = "IDLE" /\ Outcome(st, 183)[1] = "IDLE"
    BY <1>2, Others DEF AfterPrefix, State, Expects
  <2> QED
    BY <2>1
<1> QED
  BY <1>1, <1>2

(* The codes that are queued.                                              *)
LEMMA Bytes ==
  /\ \A b \in 0 .. 127 : Base(b) = b /\ ~IsBreak(b) /\ Broken(b) = 0
  /\ \A b \in 0 .. 127 : Base(b + 128) = b /\ IsBreak(b + 128) /\ Broken(b + 128) = 128
<1>1. \A b \in 0 .. 127 : Base(b) = b /\ Base(b + 128) = b
  BY DEF Base
<1>2. \A b \in 0 .. 127 : ~IsBreak(b) /\ IsBreak(b + 128)
  BY DEF IsBreak
<1> QED
  BY <1>1, <1>2 DEF Broken

LEMMA PlainLooked ==
  ASSUME NEW c \in 1 .. 88
  PROVE  Lookup("IDLE", c) = c /\ Lookup("IDLE", c + 128) = c + 128
<1>1. /\ Base(c) = c /\ Broken(c) = 0
      /\ Base(c + 128) = c /\ Broken(c + 128) = 128
  BY Bytes
<1> QED
  BY <1>1 DEF Lookup, Set1Base

LEMMA PrefixedLooked ==
  ASSUME NEW b \in 1 .. 127, Set1E0(b) \in 1 .. 127
  PROVE  /\ Lookup("E0", b) = Set1E0(b)
         /\ Lookup("E0", b + 128) = Set1E0(b) + 128
<1>1. /\ Base(b) = b /\ Broken(b) = 0
      /\ Base(b + 128) = b /\ Broken(b + 128) = 128
  BY Bytes
<1>2. Set1E0(b + 128) = Set1E0(b)
  BY <1>1 DEF Set1E0
<1> QED
  BY <1>1, <1>2 DEF Lookup

-----------------------------------------------------------------------------
(* Where a stroke has come to.  Ahead: its bytes still to come, and that   *)
(* the machine is where the sequence of the stroke has it - exactly, and   *)
(* with nothing queued yet, after Settled whole strokes.                   *)
InStep == whole = Settled

Ahead(bytes, states, exactly) ==
  line = bytes /\ state \in states /\ (InStep => state = exactly)

Begun(bytes) == line = bytes /\ Rank(state) + whole <= Settled

OfPrefixed(b) == Begun(<<224, b>>) \/ Ahead(<<b>>, AfterPrefix, "E0")

OfPrintMake ==
  \/ Begun(<<224, 42, 224, 55>>)
  \/ Ahead(<<42, 224, 55>>, AfterPrefix, "E0")
  \/ Ahead(<<224, 55>>, {"IDLE", "E02A"}, "E02A")
  \/ Ahead(<<55>>, {"E0", "E02AE0"}, "E02AE0")

OfPrintBreak ==
  \/ Begun(<<224, 183, 224, 170>>)
  \/ Ahead(<<183, 224, 170>>, AfterPrefix, "E0")
  \/ Ahead(<<224, 170>>, {"IDLE", "E0B7"}, "E0B7")
  \/ Ahead(<<170>>, {"E0", "E0B7E0"}, "E0B7E0")

OfPause ==
  \/ Begun(<<225, 29, 69, 225, 157, 197>>)
  \/ Ahead(<<29, 69, 225, 157, 197>>, {"IDLE", "E1", "E11D45E1"}, "E1")
  \/ Ahead(<<69, 225, 157, 197>>, {"IDLE", "E11D"}, "E11D")
  \/ Ahead(<<225, 157, 197>>, {"IDLE", "E11D45"}, "E11D45")
  \/ Ahead(<<157, 197>>, {"E1", "E11D45E1"}, "E11D45E1")
  \/ Ahead(<<197>>, {"IDLE", "E11D45E19D"}, "E11D45E19D")

Pressed(k) ==
  /\ meant = <<k.code>> /\ (k \in down \/ k.code = 97)
  /\ \/ \E c \in 1 .. 88 : k.code = c /\ Begun(<<c>>)
     \/ \E b \in (1 .. 127) \ {42, 55, 96, 97} :
          k.code = Set1E0(b) /\ k.code \in (1 .. 127) \ {96} /\ OfPrefixed(b)
     \/ k.code = 96 /\ OfPrintMake
     \/ k.code = 97 /\ OfPause

Released(k) ==
  /\ meant = <<k.code + 128>>
  /\ \/ \E c \in 1 .. 88 : k.code = c /\ Begun(<<c + 128>>)
     \/ \E b \in (1 .. 127) \ {42, 55, 96, 97} :
          k.code = Set1E0(b) /\ k.code \in (1 .. 127) \ {96} /\ OfPrefixed(b + 128)
     \/ k.code = 96 /\ OfPrintBreak

(* A stroke of which no byte was lost.                                     *)
Stroking ==
  whole > 0 /\ line # <<>> =>
    /\ \E k \in Keys : Pressed(k) \/ Released(k)
    /\ InStep => queuing = <<>>

(* Between strokes the machine gets nearer to IDLE with each.              *)
Resting ==
  line = <<>> =>
    /\ whole > 0 /\ whole < Settled => Rank(state) + whole < Settled
    /\ InStep => state = "IDLE" /\ queuing = [n \in DOMAIN meant |-> DriverCode(meant[n])]

(* A flag is held by a key that is down, or about to be cleared.           *)
FlagsHeld ==
  ~lost => \A f \in modifiers \cap {"shift", "ctrl", "alt"} :
             \/ \E k \in down : Held(k.code) = f
             \/ line # <<>> /\ \E k \in Keys : Released(k) /\ Held(k.code) = f

KeyboardType ==
  /\ state \in State /\ whole \in 0 .. Settled
  /\ line \in Seq(1 .. 255) /\ down \subseteq Keys
  /\ (\A k \in down : k.break # <<>>)
  /\ lost \in BOOLEAN /\ (~lost => InStep)

KeyboardInv == port = "keyboard" => KeyboardType /\ Stroking /\ Resting /\ FlagsHeld

-----------------------------------------------------------------------------
(* What the handler does with a byte.                                      *)
Queues(code) ==
  IF Base(code) = 0 THEN modifiers' = modifiers /\ queuing' = queuing
  ELSE modifiers' = ModifiersAfter(modifiers, code) /\ queuing' = Append(queuing, code)

LEMMA Handled ==
  ASSUME KbdHandleIrq, Base(Head(line)) # 0
  PROVE  /\ state' = Outcome(state, Head(line))[1]
         /\ Queues(Outcome(state, Head(line))[2])
  BY DEF KbdHandleIrq, EnqueueScan, Queues

LEMMA Alongside ==
  ASSUME KbdHandleIrq
  PROVE  /\ line' = Tail(line) /\ line # <<>> /\ port = "keyboard"
         /\ UNCHANGED <<port, down, lost, whole, meant>>
  BY DEF KbdHandleIrq

LEMMA StatesStay ==
  ASSUME NEW st \in State, NEW b \in Nat
  PROVE  Outcome(st, b)[1] \in State
<1>1. CASE Expects(st, b)
  BY <1>1, Steps DEF Expects, State
<1>2. CASE ~Expects(st, b)
  BY <1>2, Others DEF State
<1> QED
  BY <1>1, <1>2

(* A byte of a stroke that is not its last.                                *)
Comes(states, exactly) ==
  state' \in states /\ (InStep => state' = exactly /\ UNCHANGED <<modifiers, queuing>>)

LEMMA Onward ==
  ASSUME NEW states, NEW exactly, NEW b, NEW nexts, NEW next,
         KbdHandleIrq, Head(line) = b, Base(b) # 0,
         state \in states, InStep => state = exactly,
         \A st \in states : Outcome(st, b)[1] \in nexts,
         Outcome(exactly, b) = <<next, 0>>
  PROVE  Comes(nexts, next)
<1>2. state' = Outcome(state, b)[1] /\ Queues(Outcome(state, b)[2])
  BY Handled
<1>4. state' \in nexts /\ (InStep => state' = next)
  BY <1>2
<1>5. InStep => Queues(0)
  BY <1>2
<1>6. Base(0) = 0
  BY DEF Base
<1> QED
  BY <1>4, <1>5, <1>6 DEF Comes, Queues

LEMMA Lists ==
  /\ \A a : Head(<<a>>) = a /\ Tail(<<a>>) = <<>>
  /\ \A a, b : Head(<<a, b>>) = a /\ Tail(<<a, b>>) = <<b>>
  /\ \A a, b, c : Head(<<a, b, c>>) = a /\ Tail(<<a, b, c>>) = <<b, c>>
  /\ \A a, b, c, d : Head(<<a, b, c, d>>) = a /\ Tail(<<a, b, c, d>>) = <<b, c, d>>
  /\ \A a, b, c, d, e : Head(<<a, b, c, d, e>>) = a /\ Tail(<<a, b, c, d, e>>) = <<b, c, d, e>>
  /\ \A a, b, c, d, e, f : /\ Head(<<a, b, c, d, e, f>>) = a
                           /\ Tail(<<a, b, c, d, e, f>>) = <<b, c, d, e, f>>
  OBVIOUS

(* The last byte of a stroke.                                              *)
EndedWith(code) ==
  /\ line' = <<>>
  /\ whole > 0 /\ whole < Settled => Rank(state') + whole < Settled
  /\ InStep => /\ state' = "IDLE" /\ queuing' = Append(queuing, code)
               /\ modifiers' = ModifiersAfter(modifiers, code)

LEMMA AtLast ==
  ASSUME NEW states, NEW exactly, NEW b, NEW code,
         KbdHandleIrq, Ahead(<<b>>, states, exactly), Base(b) # 0, whole \in 0 .. Settled,
         \A st \in states : Outcome(st, b)[1] = "IDLE",
         Outcome(exactly, b) = <<"IDLE", code>>, Base(code) # 0
  PROVE  EndedWith(code)
<1>1. line = <<b>> /\ state \in states /\ (InStep => state = exactly)
  BY DEF Ahead
<1>2. Head(line) = b /\ Tail(line) = <<>>
  BY <1>1, Lists
<1>3. state' = Outcome(state, b)[1] /\ Queues(Outcome(state, b)[2])
  BY <1>2, Handled
<1>4. line' = <<>>
  BY <1>2, Alongside
<1>5. state' = "IDLE" /\ Rank(state') = 0
  BY <1>1, <1>3 DEF Rank
<1>6. InStep => Queues(code)
  BY <1>1, <1>3
<1>7. whole > 0 /\ whole < Settled => Rank(state') + whole < Settled
  BY <1>5 DEF Settled
<1> QED
  BY <1>4, <1>5, <1>6, <1>7 DEF EndedWith, Queues

-----------------------------------------------------------------------------
(* A byte of a stroke leaves it under way, with nothing queued in step, or *)
(* ends it with its code.                                                  *)
GoesOn(stroke) == stroke /\ line' # <<>> /\ (InStep => UNCHANGED <<modifiers, queuing>>)

LEMMA StartsAtRest ==
  ASSUME NEW bytes, Begun(bytes), KeyboardType
  PROVE  line = bytes /\ state \in State /\ (InStep => state = "IDLE")
  BY DEF Begun, InStep, Rank, State, Settled, KeyboardType

LEMMA PrefixedGoesOn ==
  ASSUME NEW b \in 1 .. 255, NEW code, b \notin {42, 183, 224, 225}, Base(b) # 0,
         Outcome("E0", b) = <<"IDLE", code>>, Base(code) # 0,
         KbdHandleIrq, KeyboardType, OfPrefixed(b)
  PROVE  GoesOn(OfPrefixed(b)') \/ EndedWith(code)
<1>1. CASE Begun(<<224, b>>)
  <2>1. \A st \in State : Outcome(st, 224)[1] \in AfterPrefix
    BY PrefixLeads
  <2>2. line = <<224, b>> /\ state \in State /\ (InStep => state = "IDLE")
    BY <1>1, StartsAtRest
  <2>3. Head(line) = 224 /\ line' = <<b>> /\ whole' = whole
    BY <2>2, Lists, Alongside
  <2>4. Base(224) # 0
    BY DEF Base
  <2>5. Outcome("IDLE", 224) = <<"E0", 0>>
    BY Steps
  <2>6. Comes(AfterPrefix, "E0")
    BY <2>1, <2>2, <2>3, <2>4, <2>5, Onward
  <2> QED
    BY <2>3, <2>6 DEF OfPrefixed, GoesOn, Comes, Ahead, InStep
<1>2. CASE Ahead(<<b>>, AfterPrefix, "E0")
  <2>1. \A st \in AfterPrefix : Outcome(st, b)[1] = "IDLE"
    BY PrefixedEnds
  <2> QED
    BY <1>2, <2>1, AtLast DEF KeyboardType
<1> QED
  BY <1>1, <1>2 DEF OfPrefixed
LEMMA PrintMakeGoesOn ==
  ASSUME KbdHandleIrq, KeyboardType, OfPrintMake
  PROVE  GoesOn(OfPrintMake') \/ EndedWith(96)
<1>1. Base(42) # 0 /\ Base(55) # 0 /\ Base(96) # 0 /\ Base(224) # 0
  BY DEF Base
<1>2. CASE Begun(<<224, 42, 224, 55>>)
  <2>1. \A st \in State : Outcome(st, 224)[1] \in AfterPrefix
    BY FakeLeads, PrefixLeads, Steps, Others DEF Expects, State, AfterPrefix
  <2>2. line = <<224, 42, 224, 55>> /\ state \in State /\ (InStep => state = "IDLE")
    BY <1>2, StartsAtRest
  <2>3. Head(line) = 224 /\ line' = <<42, 224, 55>> /\ whole' = whole
    BY <2>2, Lists, Alongside
  <2>4. Outcome("IDLE", 224) = <<"E0", 0>>
    BY Steps
  <2>5. Comes(AfterPrefix, "E0")
    BY <1>1, <2>1, <2>2, <2>3, <2>4, Onward
  <2> QED
    BY <2>3, <2>5 DEF OfPrintMake, GoesOn, Comes, Ahead, InStep
<1>3. CASE Ahead(<<42, 224, 55>>, AfterPrefix, "E0")
  <2>1. \A st \in AfterPrefix : Outcome(st, 42)[1] \in {"IDLE", "E02A"}
    BY FakeLeads, PrefixLeads, Steps, Others DEF Expects, State, AfterPrefix
  <2>2. line = <<42, 224, 55>> /\ state \in AfterPrefix /\ (InStep => state = "E0")
    BY <1>3 DEF Ahead
  <2>3. Head(line) = 42 /\ line' = <<224, 55>> /\ whole' = whole
    BY <2>2, Lists, Alongside
  <2>4. Outcome("E0", 42) = <<"E02A", 0>>
    BY Steps
  <2>5. Comes({"IDLE", "E02A"}, "E02A")
    BY <1>1, <2>1, <2>2, <2>3, <2>4, Onward
  <2> QED
    BY <2>3, <2>5 DEF OfPrintMake, GoesOn, Comes, Ahead, InStep
<1>4. CASE Ahead(<<224, 55>>, {"IDLE", "E02A"}, "E02A")
  <2> DEFINE S == {"IDLE", "E02A"}
  <2>1. \A st \in S : Outcome(st, 224)[1] \in {"E0", "E02AE0"}
    BY FakeLeads, PrefixLeads, Steps, Others DEF Expects, State, AfterPrefix
  <2>2. line = <<224, 55>> /\ state \in S /\ (InStep => state = "E02A")
    BY <1>4 DEF Ahead
  <2>3. Head(line) = 224 /\ line' = <<55>> /\ whole' = whole
    BY <2>2, Lists, Alongside
  <2>4. Outcome("E02A", 224) = <<"E02AE0", 0>>
    BY Steps
  <2> HIDE DEF S
  <2>5. Comes({"E0", "E02AE0"}, "E02AE0")
    BY <1>1, <2>1, <2>2, <2>3, <2>4, Onward
  <2> QED
    BY <2>3, <2>5 DEF OfPrintMake, GoesOn, Comes, Ahead, InStep
<1>5. CASE Ahead(<<55>>, {"E0", "E02AE0"}, "E02AE0")
  <2>1. \A st \in {"E0", "E02AE0"} : Outcome(st, 55)[1] = "IDLE"
    BY FakeLeads, PrefixLeads, Steps, Others DEF Expects, State, AfterPrefix
  <2>2. Outcome("E02AE0", 55) = <<"IDLE", 96>>
    BY Steps
  <2> QED
    BY <1>1, <1>5, <2>1, <2>2, AtLast DEF KeyboardType
<1> QED
  BY <1>2, <1>3, <1>4, <1>5 DEF OfPrintMake

LEMMA PrintBreakGoesOn ==
  ASSUME KbdHandleIrq, KeyboardType, OfPrintBreak
  PROVE  GoesOn(OfPrintBreak') \/ EndedWith(208)
<1>1. Base(170) # 0 /\ Base(183) # 0 /\ Base(208) # 0 /\ Base(224) # 0
  BY DEF Base
<1>2. CASE Begun(<<224, 183, 224, 170>>)
  <2>1. \A st \in State : Outcome(st, 224)[1] \in AfterPrefix
    BY FakeLeads, PrefixLeads, Steps, Others DEF Expects, State, AfterPrefix
  <2>2. line = <<224, 183, 224, 170>> /\ state \in State /\ (InStep => state = "IDLE")
    BY <1>2, StartsAtRest
  <2>3. Head(line) = 224 /\ line' = <<183, 224, 170>> /\ whole' = whole
    BY <2>2, Lists, Alongside
  <2>4. Outcome("IDLE", 224) = <<"E0", 0>>
    BY Steps
  <2>5. Comes(AfterPrefix, "E0")
    BY <1>1, <2>1, <2>2, <2>3, <2>4, Onward
  <2> QED
    BY <2>3, <2>5 DEF OfPrintBreak, GoesOn, Comes, Ahead, InStep
<1>3. CASE Ahead(<<183, 224, 170>>, AfterPrefix, "E0")
  <2>1. \A st \in AfterPrefix : Outcome(st, 183)[1] \in {"IDLE", "E0B7"}
    BY FakeLeads, PrefixLeads, Steps, Others DEF Expects, State, AfterPrefix
  <2>2. line = <<183, 224, 170>> /\ state \in AfterPrefix /\ (InStep => state = "E0")
    BY <1>3 DEF Ahead
  <2>3. Head(line) = 183 /\ line' = <<224, 170>> /\ whole' = whole
    BY <2>2, Lists, Alongside
  <2>4. Outcome("E0", 183) = <<"E0B7", 0>>
    BY Steps
  <2>5. Comes({"IDLE", "E0B7"}, "E0B7")
    BY <1>1, <2>1, <2>2, <2>3, <2>4, Onward
  <2> QED
    BY <2>3, <2>5 DEF OfPrintBreak, GoesOn, Comes, Ahead, InStep
<1>4. CASE Ahead(<<224, 170>>, {"IDLE", "E0B7"}, "E0B7")
  <2> DEFINE S == {"IDLE", "E0B7"}
  <2>1. \A st \in S : Outcome(st, 224)[1] \in {"E0", "E0B7E0"}
    BY FakeLeads, PrefixLeads, Steps, Others DEF Expects, State, AfterPrefix
  <2>2. line = <<224, 170>> /\ state \in S /\ (InStep => state = "E0B7")
    BY <1>4 DEF Ahead
  <2>3. Head(line) = 224 /\ line' = <<170>> /\ whole' = whole
    BY <2>2, Lists, Alongside
  <2>4. Outcome("E0B7", 224) = <<"E0B7E0", 0>>
    BY Steps
  <2> HIDE DEF S
  <2>5. Comes({"E0", "E0B7E0"}, "E0B7E0")
    BY <1>1, <2>1, <2>2, <2>3, <2>4, Onward
  <2> QED
    BY <2>3, <2>5 DEF OfPrintBreak, GoesOn, Comes, Ahead, InStep
<1>5. CASE Ahead(<<170>>, {"E0", "E0B7E0"}, "E0B7E0")
  <2>1. \A st \in {"E0", "E0B7E0"} : Outcome(st, 170)[1] = "IDLE"
    BY FakeLeads, PrefixLeads, Steps, Others DEF Expects, State, AfterPrefix
  <2>2. Outcome("E0B7E0", 170) = <<"IDLE", 208>>
    BY Steps
  <2> QED
    BY <1>1, <1>5, <2>1, <2>2, AtLast DEF KeyboardType
<1> QED
  BY <1>2, <1>3, <1>4, <1>5 DEF OfPrintBreak

LEMMA PauseGoesOn ==
  ASSUME KbdHandleIrq, KeyboardType, OfPause
  PROVE  GoesOn(OfPause') \/ EndedWith(97)
<1>1. Base(29) # 0 /\ Base(69) # 0 /\ Base(97) # 0 /\ Base(157) # 0 /\ Base(197) # 0 /\ Base(225) # 0
  BY DEF Base
<1>2. CASE Begun(<<225, 29, 69, 225, 157, 197>>)
  <2>1. \A st \in State : Outcome(st, 225)[1] \in {"IDLE", "E1", "E11D45E1"}
    BY FakeLeads, PrefixLeads, Steps, Others DEF Expects, State, AfterPrefix
  <2>2. line = <<225, 29, 69, 225, 157, 197>> /\ state \in State /\ (InStep => state = "IDLE")
    BY <1>2, StartsAtRest
  <2>3. Head(line) = 225 /\ line' = <<29, 69, 225, 157, 197>> /\ whole' = whole
    BY <2>2, Lists, Alongside
  <2>4. Outcome("IDLE", 225) = <<"E1", 0>>
    BY Steps
  <2>5. Comes({"IDLE", "E1", "E11D45E1"}, "E1")
    BY <1>1, <2>1, <2>2, <2>3, <2>4, Onward
  <2> QED
    BY <2>3, <2>5 DEF OfPause, GoesOn, Comes, Ahead, InStep
<1>3. CASE Ahead(<<29, 69, 225, 157, 197>>, {"IDLE", "E1", "E11D45E1"}, "E1")
  <2> DEFINE S == {"IDLE", "E1", "E11D45E1"}
  <2>1. \A st \in S : Outcome(st, 29)[1] \in {"IDLE", "E11D"}
    BY FakeLeads, PrefixLeads, Steps, Others DEF Expects, State, AfterPrefix
  <2>2. line = <<29, 69, 225, 157, 197>> /\ state \in S /\ (InStep => state = "E1")
    BY <1>3 DEF Ahead
  <2>3. Head(line) = 29 /\ line' = <<69, 225, 157, 197>> /\ whole' = whole
    BY <2>2, Lists, Alongside
  <2>4. Outcome("E1", 29) = <<"E11D", 0>>
    BY Steps
  <2> HIDE DEF S
  <2>5. Comes({"IDLE", "E11D"}, "E11D")
    BY <1>1, <2>1, <2>2, <2>3, <2>4, Onward
  <2> QED
    BY <2>3, <2>5 DEF OfPause, GoesOn, Comes, Ahead, InStep
<1>4. CASE Ahead(<<69, 225, 157, 197>>, {"IDLE", "E11D"}, "E11D")
  <2> DEFINE S == {"IDLE", "E11D"}
  <2>1. \A st \in S : Outcome(st, 69)[1] \in {"IDLE", "E11D45"}
    BY FakeLeads, PrefixLeads, Steps, Others DEF Expects, State, AfterPrefix
  <2>2. line = <<69, 225, 157, 197>> /\ state \in S /\ (InStep => state = "E11D")
    BY <1>4 DEF Ahead
  <2>3. Head(line) = 69 /\ line' = <<225, 157, 197>> /\ whole' = whole
    BY <2>2, Lists, Alongside
  <2>4. Outcome("E11D", 69) = <<"E11D45", 0>>
    BY Steps
  <2> HIDE DEF S
  <2>5. Comes({"IDLE", "E11D45"}, "E11D45")
    BY <1>1, <2>1, <2>2, <2>3, <2>4, Onward
  <2> QED
    BY <2>3, <2>5 DEF OfPause, GoesOn, Comes, Ahead, InStep
<1>5. CASE Ahead(<<225, 157, 197>>, {"IDLE", "E11D45"}, "E11D45")
  <2> DEFINE S == {"IDLE", "E11D45"}
  <2>1. \A st \in S : Outcome(st, 225)[1] \in {"E1", "E11D45E1"}
    BY FakeLeads, PrefixLeads, Steps, Others DEF Expects, State, AfterPrefix
  <2>2. line = <<225, 157, 197>> /\ state \in S /\ (InStep => state = "E11D45")
    BY <1>5 DEF Ahead
  <2>3. Head(line) = 225 /\ line' = <<157, 197>> /\ whole' = whole
    BY <2>2, Lists, Alongside
  <2>4. Outcome("E11D45", 225) = <<"E11D45E1", 0>>
    BY Steps
  <2> HIDE DEF S
  <2>5. Comes({"E1", "E11D45E1"}, "E11D45E1")
    BY <1>1, <2>1, <2>2, <2>3, <2>4, Onward
  <2> QED
    BY <2>3, <2>5 DEF OfPause, GoesOn, Comes, Ahead, InStep
<1>6. CASE Ahead(<<157, 197>>, {"E1", "E11D45E1"}, "E11D45E1")
  <2> DEFINE S == {"E1", "E11D45E1"}
  <2>1. \A st \in S : Outcome(st, 157)[1] \in {"IDLE", "E11D45E19D"}
    BY FakeLeads, PrefixLeads, Steps, Others DEF Expects, State, AfterPrefix
  <2>2. line = <<157, 197>> /\ state \in S /\ (InStep => state = "E11D45E1")
    BY <1>6 DEF Ahead
  <2>3. Head(line) = 157 /\ line' = <<197>> /\ whole' = whole
    BY <2>2, Lists, Alongside
  <2>4. Outcome("E11D45E1", 157) = <<"E11D45E19D", 0>>
    BY Steps
  <2> HIDE DEF S
  <2>5. Comes({"IDLE", "E11D45E19D"}, "E11D45E19D")
    BY <1>1, <2>1, <2>2, <2>3, <2>4, Onward
  <2> QED
    BY <2>3, <2>5 DEF OfPause, GoesOn, Comes, Ahead, InStep
<1>7. CASE Ahead(<<197>>, {"IDLE", "E11D45E19D"}, "E11D45E19D")
  <2>1. \A st \in {"IDLE", "E11D45E19D"} : Outcome(st, 197)[1] = "IDLE"
    BY FakeLeads, PrefixLeads, Steps, Others DEF Expects, State, AfterPrefix
  <2>2. Outcome("E11D45E19D", 197) = <<"IDLE", 97>>
    BY Steps
  <2> QED
    BY <1>1, <1>7, <2>1, <2>2, AtLast DEF KeyboardType
<1> QED
  BY <1>2, <1>3, <1>4, <1>5, <1>6, <1>7 DEF OfPause

LEMMA PlainEnds ==
  ASSUME NEW b \in 1 .. 255, b \notin {224, 225}, Base(b) # 0, Lookup("IDLE", b) = b,
         KbdHandleIrq, KeyboardType, Begun(<<b>>)
  PROVE  EndedWith(b)
<1>1. line = <<b>> /\ state \in State /\ (InStep => state = "IDLE")
  BY StartsAtRest
<1>2. Head(line) = b /\ line' = <<>>
  BY <1>1, Lists, Alongside
<1>3. state' = Outcome(state, b)[1] /\ Queues(Outcome(state, b)[2])
  BY <1>2, Handled
<1>4. Outcome("IDLE", b) = <<"IDLE", b>>
  BY Others DEF Expects, State
<1>5. InStep => state' = "IDLE" /\ Queues(b)
  BY <1>1, <1>3, <1>4
<1>6. whole > 0 /\ whole < Settled => Rank(state') + whole < Settled
  <2>1. /\ Rank(state) = 0 => Rank(state') = 0
        /\ Rank(state) # 0 => Rank(state') < Rank(state)
        /\ Rank(state') \in Nat /\ Rank(state) \in 0 .. 3
    BY <1>1, <1>3, OneByteNearer
  <2>2. Rank(state) + whole <= Settled /\ whole \in 0 .. Settled
    BY DEF Begun, KeyboardType
  <2> QED
    BY <2>1, <2>2 DEF Settled
<1> QED
  BY <1>2, <1>5, <1>6 DEF EndedWith, Queues

LEMMA PressedGoesOn ==
  ASSUME NEW k \in Keys, KbdHandleIrq, KeyboardType, Pressed(k)
  PROVE  GoesOn(Pressed(k)') \/ EndedWith(DriverCode(k.code))
<1>1. meant' = meant /\ down' = down
  BY Alongside
<1>2. meant = <<k.code>> /\ (k \in down \/ k.code = 97)
  BY DEF Pressed
<1>3. ASSUME NEW c \in 1 .. 88, k.code = c, Begun(<<c>>)
      PROVE  EndedWith(DriverCode(k.code))
  <2>1. c \in 1 .. 255 /\ c \notin {224, 225} /\ Base(c) # 0 /\ Lookup("IDLE", c) = c
    BY PlainLooked, Bytes
  <2>2. EndedWith(c)
    BY <2>1, <1>3, PlainEnds
  <2> QED
    BY <2>2, <1>3 DEF DriverCode
<1>4. ASSUME NEW b \in (1 .. 127) \ {42, 55, 96, 97}, k.code = Set1E0(b),
             k.code \in (1 .. 127) \ {96}, OfPrefixed(b)
      PROVE  GoesOn(Pressed(k)') \/ EndedWith(DriverCode(k.code))
  <2>1. b \in 1 .. 255 /\ b \notin {42, 183, 224, 225} /\ Base(b) # 0 /\ Base(k.code) # 0
    BY <1>4, Bytes
  <2>2. Outcome("E0", b) = <<"IDLE", k.code>>
    <3>1. "E0" \in State /\ b \in Nat /\ ~Expects("E0", b)
      BY <1>4 DEF Expects, State
    <3>2. Outcome("E0", b) = <<"IDLE", Lookup("E0", b)>>
      BY <3>1, Others
    <3>3. b \in 1 .. 127 /\ Set1E0(b) \in 1 .. 127
      BY <1>4
    <3>4. Lookup("E0", b) = k.code
      BY <1>4, <3>3, PrefixedLooked
    <3> QED
      BY <3>2, <3>4
  <2>3. GoesOn(OfPrefixed(b)') \/ EndedWith(k.code)
    BY <2>1, <2>2, <1>4, PrefixedGoesOn
  <2>4. DriverCode(k.code) = k.code
    BY <1>4 DEF DriverCode
  <2> QED
    BY <1>1, <1>2, <1>4, <2>3, <2>4 DEF GoesOn, Pressed
<1>5. CASE k.code = 96 /\ OfPrintMake
  <2>1. GoesOn(OfPrintMake') \/ EndedWith(96)
    BY <1>5, PrintMakeGoesOn
  <2> QED
    BY <1>1, <1>2, <1>5, <2>1 DEF GoesOn, Pressed, DriverCode
<1>6. CASE k.code = 97 /\ OfPause
  <2>1. GoesOn(OfPause') \/ EndedWith(97)
    BY <1>6, PauseGoesOn
  <2> QED
    BY <1>1, <1>2, <1>6, <2>1 DEF GoesOn, Pressed, DriverCode
<1> QED
  BY <1>3, <1>4, <1>5, <1>6 DEF Pressed

LEMMA ReleasedGoesOn ==
  ASSUME NEW k \in Keys, KbdHandleIrq, KeyboardType, Released(k)
  PROVE  GoesOn(Released(k)') \/ EndedWith(DriverCode(k.code + 128))
<1>1. meant' = meant
  BY Alongside
<1>2. meant = <<k.code + 128>>
  BY DEF Released
<1>3. ASSUME NEW c \in 1 .. 88, k.code = c, Begun(<<c + 128>>)
      PROVE  EndedWith(DriverCode(k.code + 128))
  <2>1. /\ c + 128 \in 1 .. 255 /\ c + 128 \notin {224, 225} /\ Base(c + 128) # 0
        /\ Lookup("IDLE", c + 128) = c + 128
    BY PlainLooked, Bytes
  <2>2. EndedWith(c + 128)
    BY <2>1, <1>3, PlainEnds
  <2> QED
    BY <2>2, <1>3 DEF DriverCode
<1>4. ASSUME NEW b \in (1 .. 127) \ {42, 55, 96, 97}, k.code = Set1E0(b),
             k.code \in (1 .. 127) \ {96}, OfPrefixed(b + 128)
      PROVE  GoesOn(Released(k)') \/ EndedWith(DriverCode(k.code + 128))
  <2>1. /\ b + 128 \in 1 .. 255 /\ b + 128 \notin {42, 183, 224, 225}
        /\ Base(b + 128) # 0 /\ Base(k.code + 128) # 0
    BY <1>4, Bytes
  <2>2. Outcome("E0", b + 128) = <<"IDLE", k.code + 128>>
    <3>1. "E0" \in State /\ b + 128 \in Nat /\ ~Expects("E0", b + 128)
      BY <1>4 DEF Expects, State
    <3>2. Outcome("E0", b + 128) = <<"IDLE", Lookup("E0", b + 128)>>
      BY <3>1, Others
    <3>3. b \in 1 .. 127 /\ Set1E0(b) \in 1 .. 127
      BY <1>4
    <3>4. Lookup("E0", b + 128) = k.code + 128
      BY <1>4, <3>3, PrefixedLooked
    <3> QED
      BY <3>2, <3>4
  <2>3. GoesOn(OfPrefixed(b + 128)') \/ EndedWith(k.code + 128)
    BY <2>1, <2>2, <1>4, PrefixedGoesOn
  <2>4. DriverCode(k.code + 128) = k.code + 128
    BY <1>4 DEF DriverCode
  <2> QED
    BY <1>1, <1>2, <1>4, <2>3, <2>4 DEF GoesOn, Released
<1>5. CASE k.code = 96 /\ OfPrintBreak
  <2>1. GoesOn(OfPrintBreak') \/ EndedWith(208)
    BY <1>5, PrintBreakGoesOn
  <2> QED
    BY <1>1, <1>2, <1>5, <2>1 DEF GoesOn, Released, DriverCode
<1> QED
  BY <1>3, <1>4, <1>5 DEF Released
-----------------------------------------------------------------------------
(* The invariant of the keyboard.                                          *)
LEMMA KeyboardTypeKept ==
  ASSUME port = "keyboard", KeyboardType, [PsNext]_psVars
  PROVE  KeyboardType'
<1>1. CASE Stroke
  <2>1. PICK k \in Keys :
          \/ /\ Send(k.make, <<k.code>>)
             /\ down' = IF k.break = <<>> THEN down ELSE down \cup {k}
          \/ Send(k.break, <<k.code + 128>>) /\ down' = down \ {k}
    BY <1>1 DEF Stroke
  <2>2. line' \in Seq(1 .. 255) /\ down' \subseteq Keys
    BY <2>1, DeviceAssumption DEF Send, KeyboardType
  <2>5. \A j \in down' : j.break # <<>>
    BY <2>1 DEF KeyboardType
  <2>3. whole' = IF whole < Settled THEN whole + 1 ELSE whole
    BY <2>1 DEF Send
  <2>4. state' = state /\ lost' = lost
    BY <1>1 DEF Stroke
  <2> QED
    BY <2>2, <2>3, <2>4, <2>5 DEF KeyboardType, InStep, Settled
<1>2. CASE Lose
  <2>1. state' = state /\ down' = down /\ lost' = TRUE /\ whole' = 0
    BY <1>2 DEF Lose, kbdVars
  <2>2. line' \in Seq(1 .. 255)
    BY <1>2 DEF Lose, KeyboardType
  <2> QED
    BY <2>1, <2>2 DEF KeyboardType, Settled
<1>3. CASE KbdHandleIrq
  <2>1. line' = Tail(line) /\ line # <<>> /\ UNCHANGED <<down, lost, whole>>
    BY <1>3, Alongside
  <2>2. Head(line) \in 1 .. 255 /\ Tail(line) \in Seq(1 .. 255)
    BY <2>1, Zenon, HeadTailProperties DEF KeyboardType
  <2>3. state' \in State
    <3>1. CASE Base(Head(line)) = 0
      BY <1>3, <3>1 DEF KbdHandleIrq, KeyboardType
    <3>2. CASE Base(Head(line)) # 0
      <4>1. Head(line) \in Nat
        <5>1. \A n \in 1 .. 255 : n \in Nat
          OBVIOUS
        <5> QED
          BY <2>2, <5>1, Zenon
      <4> QED
        BY <1>3, <3>2, <4>1, Handled, StatesStay DEF KeyboardType
    <3> QED
      BY <3>1, <3>2
  <2>4. line' \in Seq(1 .. 255)
    BY <2>1, <2>2, Zenon
  <2> QED
    BY <2>1, <2>3, <2>4 DEF KeyboardType, InStep
<1>4. CASE KbdGetScancode \/ UNCHANGED psVars
  <2>1. UNCHANGED <<state, down, line, lost, whole>>
    BY <1>4 DEF KbdGetScancode, psVars, kbdVars
  <2> QED
    BY <2>1 DEF KeyboardType, InStep
<1>5. CASE Move \/ MouseHandleIrq
  BY <1>5 DEF Move, MouseHandleIrq
<1> QED
  BY <1>1, <1>2, <1>3, <1>4, <1>5 DEF PsNext

(* A stroke begins with the machine near enough to IDLE.                   *)
LEMMA StrokeBegins ==
  ASSUME NEW bytes, NEW codes, KeyboardType, Resting, line = <<>>,
         Send(bytes, codes), state' = state
  PROVE  /\ Begun(bytes)' /\ meant' = codes /\ queuing' = <<>>
         /\ line' = bytes
<1>1. line' = bytes /\ whole' = IF whole < Settled THEN whole + 1 ELSE whole
  BY DEF Send
<1>2. Rank(state) \in 0 .. 3 /\ (state = "IDLE" => Rank(state) = 0)
  BY DEF Rank
<1>3. Rank(state) + whole' <= Settled
  BY <1>1, <1>2 DEF KeyboardType, Resting, InStep, Settled
<1> QED
  BY <1>1, <1>3 DEF Send, Begun

LEMMA KeyBegins ==
  ASSUME NEW k \in Keys, KeyboardType, Resting, line = <<>>,
         state' = state
  PROVE  /\ Send(k.make, <<k.code>>) /\ (k \in down' \/ k.code = 97) => Pressed(k)'
         /\ Send(k.break, <<k.code + 128>>) /\ k.break # <<>> => Released(k)'
<1>1. PlainKey(k) \/ PrefixedKey(k) \/ PrintScreen(k) \/ Pause(k)
  BY KeyAssumption
<1>2. ASSUME Send(k.make, <<k.code>>), k \in down' \/ k.code = 97
      PROVE  Pressed(k)'
  <2>1. Begun(k.make)' /\ meant' = <<k.code>>
    BY <1>2, StrokeBegins
  <2>2. CASE PlainKey(k)
    BY <1>2, <2>1, <2>2 DEF PlainKey, Pressed
  <2>3. CASE PrefixedKey(k)
    <3>1. PICK b \in (1 .. 127) \ {42, 55, 96, 97} :
            /\ k.make = <<224, b>> /\ k.code = Set1E0(b) /\ k.code \in (1 .. 127) \ {96}
      BY <2>3 DEF PrefixedKey
    <3>2. Begun(<<224, b>>)'
      BY <2>1, <3>1
    <3>3. OfPrefixed(b)'
      BY <3>2 DEF OfPrefixed
    <3> QED
      BY <1>2, <2>1, <3>1, <3>3 DEF Pressed
  <2>4. CASE PrintScreen(k)
    BY <1>2, <2>1, <2>4 DEF PrintScreen, Pressed, OfPrintMake
  <2>5. CASE Pause(k)
    BY <1>2, <2>1, <2>5 DEF Pause, Pressed, OfPause
  <2> QED
    BY <1>1, <2>2, <2>3, <2>4, <2>5
<1>3. ASSUME Send(k.break, <<k.code + 128>>), k.break # <<>>
      PROVE  Released(k)'
  <2>1. Begun(k.break)' /\ meant' = <<k.code + 128>>
    BY <1>3, StrokeBegins
  <2>2. CASE PlainKey(k)
    BY <1>3, <2>1, <2>2 DEF PlainKey, Released
  <2>3. CASE PrefixedKey(k)
    BY <1>3, <2>1, <2>3 DEF PrefixedKey, Released, OfPrefixed
  <2>4. CASE PrintScreen(k)
    BY <1>3, <2>1, <2>4 DEF PrintScreen, Released, OfPrintBreak
  <2>5. CASE Pause(k)
    BY <1>3, <2>5 DEF Pause
  <2> QED
    BY <1>1, <2>2, <2>3, <2>4, <2>5
<1> QED
  BY <1>2, <1>3
LEMMA NotEmpty ==
  /\ \A a : <<a>> # <<>>
  /\ \A a, b : <<a, b>> # <<>>
  /\ \A a, b, c, d : <<a, b, c, d>> # <<>>
  /\ \A a, b, c, d, e, f : <<a, b, c, d, e, f>> # <<>>
  OBVIOUS

LEMMA OnlyPauseStays ==
  ASSUME NEW k \in Keys, k.break = <<>>
  PROVE  k.code = 97
<1>1. PlainKey(k) => k.break # <<>>
  BY NotEmpty DEF PlainKey
<1>2. PrefixedKey(k) => k.break # <<>>
  BY NotEmpty DEF PrefixedKey
<1>3. PrintScreen(k) => k.break # <<>>
  BY NotEmpty DEF PrintScreen
<1> QED
  BY <1>1, <1>2, <1>3, KeyAssumption DEF Pause

LEMMA EveryKeySends ==
  ASSUME NEW k \in Keys
  PROVE  k.make # <<>>
<1>1. PlainKey(k) => k.make # <<>>
  BY NotEmpty DEF PlainKey
<1>2. PrefixedKey(k) => k.make # <<>>
  BY NotEmpty DEF PrefixedKey
<1>3. PrintScreen(k) => k.make # <<>>
  BY NotEmpty DEF PrintScreen
<1>4. Pause(k) => k.make # <<>>
  BY NotEmpty DEF Pause
<1> QED
  BY <1>1, <1>2, <1>3, <1>4, KeyAssumption

LEMMA StrokingKept ==
  ASSUME port = "keyboard", KeyboardType, Stroking, Resting, [PsNext]_psVars
  PROVE  Stroking'
<1>1. CASE Stroke
  <2>1. line = <<>> /\ state' = state
    BY <1>1 DEF Stroke
  <2>2. PICK k \in Keys :
          \/ /\ Send(k.make, <<k.code>>)
             /\ down' = IF k.break = <<>> THEN down ELSE down \cup {k}
          \/ Send(k.break, <<k.code + 128>>) /\ k \in down
    BY <1>1 DEF Stroke
  <2>3. queuing' = <<>>
    BY <2>2 DEF Send
  <2>4. k.break = <<>> => k.code = 97
    BY OnlyPauseStays
  <2>5. CASE Send(k.make, <<k.code>>) /\ down' = IF k.break = <<>> THEN down ELSE down \cup {k}
    <3>1. k \in down' \/ k.code = 97
      BY <2>4, <2>5
    <3> QED
      BY <2>1, <2>3, <2>5, <3>1, KeyBegins DEF Stroking
  <2>6. CASE Send(k.break, <<k.code + 128>>)
    <3>1. CASE k.break = <<>>
      BY <2>6, <3>1 DEF Send, Stroking
    <3>2. CASE k.break # <<>>
      BY <2>1, <2>3, <2>6, <3>2, KeyBegins DEF Stroking
    <3> QED
      BY <3>1, <3>2
  <2> QED
    BY <2>2, <2>5, <2>6
<1>2. CASE Lose
  BY <1>2 DEF Lose, Stroking
<1>3. CASE KbdHandleIrq
  <2>1. line # <<>> /\ whole' = whole
    BY <1>3, Alongside
  <2>2. CASE whole > 0
    <3>1. PICK k \in Keys : Pressed(k) \/ Released(k)
      BY <2>1, <2>2 DEF Stroking
    <3>2. InStep => queuing = <<>>
      BY <2>1, <2>2 DEF Stroking
    <3>3. CASE Pressed(k)
      <4>1. GoesOn(Pressed(k)') \/ EndedWith(DriverCode(k.code))
        BY <1>3, <3>3, PressedGoesOn
      <4> QED
        BY <2>1, <3>2, <4>1 DEF GoesOn, EndedWith, Stroking, InStep
    <3>4. CASE Released(k)
      <4>1. GoesOn(Released(k)') \/ EndedWith(DriverCode(k.code + 128))
        BY <1>3, <3>4, ReleasedGoesOn
      <4> QED
        BY <2>1, <3>2, <4>1 DEF GoesOn, EndedWith, Stroking, InStep
    <3> QED
      BY <3>1, <3>3, <3>4
  <2>3. CASE ~(whole > 0)
    BY <2>1, <2>3 DEF Stroking
  <2> QED
    BY <2>2, <2>3
<1>4. CASE KbdGetScancode \/ UNCHANGED psVars
  <2>1. UNCHANGED <<state, down, line, whole, meant, queuing>>
    BY <1>4 DEF KbdGetScancode, psVars, kbdVars
  <2>2. \A k \in Keys : (Pressed(k) => Pressed(k)') /\ (Released(k) => Released(k)')
    BY <2>1 DEF Pressed, Released, OfPrefixed, OfPrintMake, OfPrintBreak, OfPause, Begun,
                Ahead, InStep
  <2> QED
    BY <2>1, <2>2 DEF Stroking, InStep
<1>5. CASE Move \/ MouseHandleIrq
  BY <1>5 DEF Move, MouseHandleIrq
<1> QED
  BY <1>1, <1>2, <1>3, <1>4, <1>5 DEF PsNext

LEMMA OneCode == \A c : [n \in DOMAIN <<c>> |-> DriverCode(<<c>>[n])] = <<DriverCode(c)>>
  OBVIOUS

LEMMA RestingKept ==
  ASSUME port = "keyboard", KeyboardType, Stroking, Resting, [PsNext]_psVars
  PROVE  Resting'
<1>1. CASE Stroke
  <2>1. PICK k \in Keys : Send(k.make, <<k.code>>)
                          \/ (Send(k.break, <<k.code + 128>>) /\ k \in down)
    BY <1>1 DEF Stroke
  <2>2. k.make # <<>>
    BY EveryKeySends
  <2>3. line' # <<>>
    BY <2>1, <2>2 DEF Send, KeyboardType
  <2> QED
    BY <2>3 DEF Resting
<1>2. CASE Lose
  BY <1>2 DEF Lose, Resting, InStep, Settled
<1>3. CASE KbdHandleIrq
  <2>1. line # <<>> /\ whole' = whole /\ meant' = meant
    BY <1>3, Alongside
  <2>2. CASE whole > 0
    <3>1. PICK k \in Keys : Pressed(k) \/ Released(k)
      BY <2>1, <2>2 DEF Stroking
    <3>2. InStep => queuing = <<>>
      BY <2>1, <2>2 DEF Stroking
    <3>3. PICK c : meant = <<c>> /\ (line' # <<>> \/ EndedWith(DriverCode(c)))
      <4>1. CASE Pressed(k)
        BY <1>3, <4>1, PressedGoesOn DEF GoesOn, Pressed
      <4>2. CASE Released(k)
        BY <1>3, <4>2, ReleasedGoesOn DEF GoesOn, Released
      <4> QED
        BY <3>1, <4>1, <4>2
    <3>4. [n \in DOMAIN meant |-> DriverCode(meant[n])] = <<DriverCode(c)>>
      BY <3>3, OneCode
    <3>5. InStep => Append(queuing, DriverCode(c)) = <<DriverCode(c)>>
      BY <3>2
    <3> QED
      BY <2>1, <2>2, <3>3, <3>4, <3>5 DEF Resting, EndedWith, InStep
  <2>3. CASE ~(whole > 0)
    BY <2>1, <2>3 DEF Resting, InStep, Settled
  <2> QED
    BY <2>2, <2>3
<1>4. CASE KbdGetScancode \/ UNCHANGED psVars
  <2>1. UNCHANGED <<state, line, whole, meant, queuing>>
    BY <1>4 DEF KbdGetScancode, psVars, kbdVars
  <2> QED
    BY <2>1 DEF Resting, InStep
<1>5. CASE Move \/ MouseHandleIrq
  BY <1>5 DEF Move, MouseHandleIrq
<1> QED
  BY <1>1, <1>2, <1>3, <1>4, <1>5 DEF PsNext
(* The flags of keys that are held; Print Screen and Pause set none.       *)
LiveFlag == {"shift", "ctrl", "alt"}

LEMMA ModifiersSet ==
  ASSUME NEW code \in 1 .. 127, NEW flags
  PROVE  /\ ModifiersAfter(flags, code) \cap LiveFlag
              \subseteq (flags \cap LiveFlag) \cup {Held(code)}
         /\ Held(code + 128) = Held(code)
         /\ ModifiersAfter(flags, code + 128) \cap LiveFlag
              \subseteq (flags \cap LiveFlag) \ {Held(code)}
<1>1. /\ Base(code) = code /\ ~IsBreak(code)
      /\ Base(code + 128) = code /\ IsBreak(code + 128)
  BY Bytes
<1>2. Held(code + 128) = Held(code)
  BY <1>1 DEF Held
<1>3. \A c : Lock(c) \notin LiveFlag
  BY DEF Lock, LiveFlag
<1>4. "none" \notin LiveFlag
  BY DEF LiveFlag
<1>5. ModifiersAfter(flags, code) \cap LiveFlag \subseteq (flags \cap LiveFlag) \cup {Held(code)}
  BY <1>1, <1>3 DEF ModifiersAfter
<1>6. CASE Held(code) # "none"
  <2>1. ModifiersAfter(flags, code + 128) = flags \ {Held(code)}
    BY <1>1, <1>2, <1>6 DEF ModifiersAfter
  <2> QED
    BY <1>2, <1>5, <2>1
<1>7. CASE Held(code) = "none"
  <2>1. ModifiersAfter(flags, code + 128) \cap LiveFlag \subseteq flags \cap LiveFlag
    BY <1>2, <1>3, <1>7 DEF ModifiersAfter
  <2> QED
    BY <1>2, <1>4, <1>5, <1>7, <2>1
<1> QED
  BY <1>6, <1>7

LEMMA NoModifiers ==
  /\ Held(96) = "none" /\ Held(97) = "none" /\ Held(208) = "none"
  /\ \A flags : ModifiersAfter(flags, 208) = flags
<1>1. Base(96) = 96 /\ Base(97) = 97 /\ Base(208) = 80
  BY DEF Base
<1>2. Held(96) = "none" /\ Held(97) = "none" /\ Held(208) = "none"
  BY <1>1 DEF Held
<1>3. Lock(208) = "none"
  BY DEF Lock
<1> QED
  BY <1>2, <1>3 DEF ModifiersAfter
LEMMA CodesOfKeys ==
  ASSUME NEW k \in Keys
  PROVE  k.code \in 1 .. 127
<1>1. PlainKey(k) => k.code \in 1 .. 127
  BY DEF PlainKey
<1>2. PrefixedKey(k) => k.code \in 1 .. 127
  BY DEF PrefixedKey
<1>3. PrintScreen(k) \/ Pause(k) => k.code \in 1 .. 127
  BY DEF PrintScreen, Pause
<1> QED
  BY <1>1, <1>2, <1>3, KeyAssumption

(* A flag is looked after by a key that is down or being released.         *)
Kept(f) ==
  \/ \E k \in down : Held(k.code) = f
  \/ line # <<>> /\ \E k \in Keys : Released(k) /\ Held(k.code) = f

LEMMA FlagsHeldKept ==
  ASSUME port = "keyboard", KeyboardType, Stroking, Resting, FlagsHeld,
         [PsNext]_psVars
  PROVE  FlagsHeld'
<1> SUFFICES ASSUME ~lost', NEW f \in modifiers' \cap LiveFlag
             PROVE  Kept(f)'
  BY DEF FlagsHeld, Kept, LiveFlag
<1>1. ~lost => \A g \in modifiers \cap LiveFlag : Kept(g)
  BY DEF FlagsHeld, Kept, LiveFlag
<1>2. CASE Stroke
  <2>1. line = <<>> /\ modifiers' = modifiers /\ lost' = lost /\ state' = state
    BY <1>2 DEF Stroke
  <2>2. PICK j \in down : Held(j.code) = f
    BY <1>1, <2>1 DEF Kept
  <2>3. PICK k \in Keys :
          \/ /\ Send(k.make, <<k.code>>)
             /\ down' = IF k.break = <<>> THEN down ELSE down \cup {k}
          \/ Send(k.break, <<k.code + 128>>) /\ k \in down /\ down' = down \ {k}
    BY <1>2 DEF Stroke
  <2>4. CASE j \in down'
    BY <2>2, <2>4 DEF Kept
  <2>5. CASE j \notin down'
    <3>1. k = j /\ Send(k.break, <<k.code + 128>>)
      BY <2>3, <2>5
    <3>2. k.break # <<>> /\ line' = k.break
      BY <2>2, <3>1 DEF KeyboardType, Send
    <3>3. Released(k)'
      BY <2>1, <3>1, <3>2, KeyBegins
    <3> QED
      BY <2>2, <3>1, <3>2, <3>3 DEF Kept
  <2> QED
    BY <2>4, <2>5
<1>3. CASE Lose
  BY <1>3 DEF Lose
<1>4. CASE KbdHandleIrq
  <2>1. line # <<>> /\ UNCHANGED <<down, lost, whole, meant>> /\ InStep /\ whole > 0
    BY <1>4, Alongside DEF KeyboardType, InStep, Settled
  <2>2. PICK k \in Keys : Pressed(k) \/ Released(k)
    BY <2>1 DEF Stroking
  <2>3. k.code \in 1 .. 127
    BY CodesOfKeys
  <2>4. CASE Pressed(k)
    <3>1. ASSUME NEW j \in Keys PROVE ~Released(j)
      <4>1. k.code \in 1 .. 127 /\ j.code \in 1 .. 127
        BY CodesOfKeys
      <4>2. Released(j) => k.code = j.code + 128
        <5>1. meant[1] = k.code
          BY <2>4 DEF Pressed
        <5>2. Released(j) => meant[1] = j.code + 128
          BY DEF Released
        <5> QED
          BY <5>1, <5>2
      <4>3. \A x, y \in 1 .. 127 : x # y + 128
        OBVIOUS
      <4> QED
        BY <4>1, <4>2, <4>3
    <3>2. \A g \in modifiers \cap LiveFlag : \E j \in down' : Held(j.code) = g
      BY <1>1, <2>1, <3>1 DEF Kept
    <3>3. GoesOn(Pressed(k)') \/ EndedWith(DriverCode(k.code))
      BY <1>4, <2>4, PressedGoesOn
    <3>4. CASE GoesOn(Pressed(k)')
      BY <2>1, <3>2, <3>4 DEF GoesOn, Kept
    <3>5. CASE EndedWith(DriverCode(k.code))
      <4>1. modifiers' = ModifiersAfter(modifiers, k.code)
        <5>1. DriverCode(k.code) = k.code
          BY <2>3 DEF DriverCode
        <5> QED
          BY <2>1, <3>5, <5>1 DEF EndedWith
      <4>2. f \in modifiers \cap LiveFlag \/ f = Held(k.code)
        BY <2>3, <4>1, ModifiersSet
      <4>3. k \in down' \/ Held(k.code) = "none"
        BY <2>1, <2>4, NoModifiers DEF Pressed
      <4>4. f # "none"
        BY DEF LiveFlag
      <4> QED
        BY <3>2, <4>2, <4>3, <4>4 DEF Kept
    <3> QED
      BY <3>3, <3>4, <3>5
  <2>5. CASE Released(k)
    <3>1. ASSUME NEW j \in Keys, Released(j) PROVE j.code = k.code
      <4>1. k.code \in 1 .. 127 /\ j.code \in 1 .. 127
        BY CodesOfKeys
      <4>2. meant[1] = k.code + 128 /\ meant[1] = j.code + 128
        BY <2>5, <3>1 DEF Released
      <4>3. \A x, y \in 1 .. 127 : x + 128 = y + 128 => x = y
        OBVIOUS
      <4> QED
        BY <4>1, <4>2, <4>3
    <3>2. GoesOn(Released(k)') \/ EndedWith(DriverCode(k.code + 128))
      BY <1>4, <2>5, ReleasedGoesOn
    <3>3. \A g \in modifiers \cap LiveFlag :
            (\E j \in down' : Held(j.code) = g) \/ Held(k.code) = g
      BY <1>1, <2>1, <3>1 DEF Kept
    <3>4. CASE GoesOn(Released(k)')
      BY <2>1, <3>3, <3>4 DEF GoesOn, Kept
    <3>5. CASE EndedWith(DriverCode(k.code + 128))
      <4>1. modifiers' = ModifiersAfter(modifiers, DriverCode(k.code + 128))
        BY <2>1, <3>5 DEF EndedWith
      <4>2. f \in (modifiers \cap LiveFlag) \ {Held(k.code)}
        <5>1. CASE k.code = 96
          BY <4>1, <5>1, NoModifiers DEF DriverCode, LiveFlag
        <5>2. CASE k.code # 96
          BY <2>3, <4>1, <5>2, ModifiersSet DEF DriverCode
        <5> QED
          BY <5>1, <5>2
      <4> QED
        BY <3>3, <4>2 DEF Kept
    <3> QED
      BY <3>2, <3>4, <3>5
  <2> QED
    BY <2>2, <2>4, <2>5
<1>5. CASE KbdGetScancode \/ UNCHANGED psVars
  <2>1. UNCHANGED <<state, modifiers, lost, down, line, whole, meant, queuing>>
    BY <1>5 DEF KbdGetScancode, psVars, kbdVars
  <2>2. \A k \in Keys : Released(k) => Released(k)'
    BY <2>1 DEF Released, OfPrefixed, OfPrintBreak, Begun, Ahead, InStep
  <2> QED
    BY <1>1, <2>1, <2>2 DEF Kept
<1>6. CASE Move \/ MouseHandleIrq
  BY <1>6 DEF Move, MouseHandleIrq
<1> QED
  BY <1>2, <1>3, <1>4, <1>5, <1>6 DEF PsNext

THEOREM KeyboardInvariance ==
  PsSpec => []KeyboardInv
<1>1. PsInit => KeyboardInv
  <2> SUFFICES ASSUME PsInit, port = "keyboard"
               PROVE  KeyboardType /\ Stroking /\ Resting /\ FlagsHeld
    BY DEF KeyboardInv
  <2>1. /\ state = "IDLE" /\ modifiers = {} /\ down = {} /\ line = <<>> /\ lost = FALSE
        /\ whole = Settled /\ meant = <<>> /\ queuing = <<>>
    BY DEF PsInit
  <2>2. KeyboardType
    <3>1. line \in Seq(1 .. 255)
      BY <2>1
    <3>2. state \in State /\ whole \in 0 .. Settled /\ InStep
      BY <2>1 DEF State, InStep, Settled
    <3> QED
      BY <2>1, <3>1, <3>2 DEF KeyboardType
  <2>3. [n \in DOMAIN meant |-> DriverCode(meant[n])] = <<>>
    BY <2>1
  <2>4. Stroking /\ FlagsHeld
    BY <2>1 DEF Stroking, FlagsHeld
  <2> QED
    BY <2>1, <2>2, <2>3, <2>4 DEF Resting, Settled
<1>2. KeyboardInv /\ [PsNext]_psVars => KeyboardInv'
  <2> SUFFICES ASSUME KeyboardInv, [PsNext]_psVars, port' = "keyboard"
               PROVE  (KeyboardType /\ Stroking /\ Resting /\ FlagsHeld)'
    BY DEF KeyboardInv
  <2>1. port = "keyboard"
    BY DEF PsNext, psVars, Stroke, Lose, KbdHandleIrq, KbdGetScancode, Move, MouseHandleIrq
  <2>2. KeyboardType /\ Stroking /\ Resting /\ FlagsHeld
    BY <2>1 DEF KeyboardInv
  <2> QED
    BY <2>1, <2>2, KeyboardTypeKept, StrokingKept, RestingKept, FlagsHeldKept
<1> QED
  BY <1>1, <1>2, PTL DEF PsSpec

(* Whatever was lost, after Settled whole strokes each queues its own code. *)
THEOREM StepIsRegained ==
  PsSpec => []BackInStep
<1>1. KeyboardInv => BackInStep
  BY DEF KeyboardInv, Resting, InStep, BackInStep, AtRest
<1> QED
  BY <1>1, KeyboardInvariance, PTL

(* Without a loss no modifier is set that no key down stands for.          *)
THEOREM ModifiersAreHeld ==
  PsSpec => []NoPhantomModifier
<1>1. KeyboardInv => NoPhantomModifier
  BY DEF KeyboardInv, FlagsHeld, NoPhantomModifier, AtRest
<1> QED
  BY <1>1, KeyboardInvariance, PTL

-----------------------------------------------------------------------------
(* The mouse.  Where the handler is in a packet no byte of which was lost: *)
(* exactly where the packet is, when aligned; and before the last byte of  *)
(* a telling packet it does not wait for the second.                       *)
InPacket(p) ==
  /\ meant = p
  /\ \/ line = <<p[1], p[2], p[3]>> /\ (aligned => mouse = 0)
     \/ line = <<p[2], p[3]>> /\ (aligned => mouse = 1 /\ registers[1] = p[1])
     \/ /\ line = <<p[3]>> /\ (Telling(p) => mouse \in {0, 2})
        /\ aligned => mouse = 2 /\ registers[1] = p[1] /\ registers[2] = p[2]

AfterPacket ==
  /\ line = <<>>
  /\ Telling(meant) => mouse = 0
  /\ aligned => mouse = 0 /\ registers = meant

MouseType ==
  /\ mouse \in 0 .. 2 /\ registers \in [1 .. 3 -> 0 .. 255]
  /\ whole \in 0 .. Settled /\ line \in Seq(0 .. 255)
  /\ aligned \in BOOLEAN /\ (aligned => whole > 0)

MouseInv ==
  port = "mouse" =>
    MouseType /\ (whole > 0 => AfterPacket \/ \E p \in Packets : InPacket(p))

LEMMA PacketIsThree ==
  ASSUME NEW p \in Packets
  PROVE  /\ p = <<p[1], p[2], p[3]>> /\ p \in Seq(0 .. 255)
         /\ p[1] \in 0 .. 255 /\ p[2] \in 0 .. 255 /\ p[3] \in 0 .. 255
         /\ StartsPacket(p[1])
<1>1. p \in [1 .. 3 -> 0 .. 255]
  BY DeviceAssumption
<1>2. p = <<p[1], p[2], p[3]>>
  BY <1>1
<1>3. p[1] \in 0 .. 255 /\ p[2] \in 0 .. 255 /\ p[3] \in 0 .. 255
  BY <1>1
<1>4. p \in Seq(0 .. 255)
  <2>1. \A a, b, c \in 0 .. 255 : <<a, b, c>> \in Seq(0 .. 255)
    OBVIOUS
  <2>2. <<p[1], p[2], p[3]>> \in Seq(0 .. 255)
    BY <1>3, <2>1
  <2> QED
    BY <1>2, <2>2, Zenon
<1> QED
  BY <1>2, <1>3, <1>4, PacketAssumption

(* What the handler does with a byte.                                      *)
Placed(b) ==
  IF mouse = 0 /\ ~StartsPacket(b)
    THEN mouse' = mouse /\ registers' = registers
    ELSE /\ registers' = [registers EXCEPT ![mouse + 1] = b]
         /\ mouse' = (mouse + 1) % 3

LEMMA MouseHandled ==
  ASSUME MouseHandleIrq
  PROVE  /\ line # <<>> /\ line' = Tail(line) /\ Placed(Head(line))
         /\ whole' = whole /\ meant' = meant /\ aligned' = aligned
  BY DEF MouseHandleIrq, Placed

LEMMA PlacedTyped ==
  ASSUME NEW b \in 0 .. 255, MouseType, Placed(b)
  PROVE  mouse' \in 0 .. 2 /\ registers' \in [1 .. 3 -> 0 .. 255]
<1>1. mouse' \in 0 .. 2
  BY DEF MouseType, Placed
<1>2. \A m \in 1 .. 3 : [registers EXCEPT ![m] = b] \in [1 .. 3 -> 0 .. 255]
  BY DEF MouseType
<1>3. mouse + 1 \in 1 .. 3
  BY DEF MouseType
<1>4. registers' \in [1 .. 3 -> 0 .. 255]
  <2>1. registers' = registers \/ registers' = [registers EXCEPT ![mouse + 1] = b]
    BY DEF Placed
  <2>2. registers \in [1 .. 3 -> 0 .. 255]
    BY DEF MouseType
  <2>3. [registers EXCEPT ![mouse + 1] = b] \in [1 .. 3 -> 0 .. 255]
    BY <1>2, <1>3, Zenon
  <2> QED
    BY <2>1, <2>2, <2>3, Zenon
<1> QED
  BY <1>1, <1>4

LEMMA PacketGoesOn ==
  ASSUME NEW p \in Packets, MouseType, whole > 0, MouseHandleIrq, InPacket(p)
  PROVE  (AfterPacket \/ InPacket(p))'
<1>1. /\ line # <<>> /\ line' = Tail(line) /\ Placed(Head(line))
      /\ meant' = meant /\ aligned' = aligned
  BY MouseHandled
<1>2. StartsPacket(p[1])
  BY PacketIsThree
<1>3. CASE line = <<p[1], p[2], p[3]>> /\ (aligned => mouse = 0)
  <2>1. Head(line) = p[1] /\ line' = <<p[2], p[3]>>
    BY <1>1, <1>3, Lists
  <2>2. aligned => mouse' = 1 /\ registers'[1] = p[1]
    BY <1>1, <1>2, <1>3, <2>1 DEF Placed, MouseType
  <2> QED
    BY <1>1, <2>1, <2>2 DEF InPacket
<1>4. CASE line = <<p[2], p[3]>> /\ (aligned => mouse = 1 /\ registers[1] = p[1])
  <2>1. Head(line) = p[2] /\ line' = <<p[3]>>
    BY <1>1, <1>4, Lists
  <2>2. Telling(p) => mouse' \in {0, 2}
    BY <1>1, <2>1 DEF Placed, MouseType, Telling
  <2>3. aligned => mouse' = 2 /\ registers'[1] = p[1] /\ registers'[2] = p[2]
    BY <1>1, <1>4, <2>1 DEF Placed, MouseType
  <2> QED
    BY <1>1, <2>1, <2>2, <2>3 DEF InPacket
<1>5. CASE /\ line = <<p[3]>> /\ (Telling(p) => mouse \in {0, 2})
           /\ aligned => mouse = 2 /\ registers[1] = p[1] /\ registers[2] = p[2]
  <2>1. Head(line) = p[3] /\ line' = <<>>
    BY <1>1, <1>5, Lists
  <2>2. Telling(meant) => mouse' = 0
    BY <1>1, <1>5, <2>1 DEF Placed, Telling, InPacket
  <2>3. aligned => mouse' = 0 /\ registers' = meant
    <3>1. SUFFICES ASSUME aligned PROVE mouse' = 0 /\ registers' = p
      BY DEF InPacket
    <3>2. mouse' = 0 /\ registers' = [registers EXCEPT ![3] = p[3]]
      BY <1>1, <1>5, <2>1, <3>1 DEF Placed
    <3>3. p \in [1 .. 3 -> 0 .. 255]
      BY DeviceAssumption
    <3> QED
      BY <1>5, <3>1, <3>2, <3>3 DEF MouseType
  <2> QED
    BY <1>1, <2>1, <2>2, <2>3 DEF AfterPacket
<1> QED
  BY <1>3, <1>4, <1>5 DEF InPacket

THEOREM MouseInvariance == PsSpec => []MouseInv
<1>1. PsInit => MouseInv
  <2> SUFFICES ASSUME PsInit, port = "mouse" PROVE MouseType /\ AfterPacket
    BY DEF MouseInv
  <2>1. /\ line = <<>> /\ whole = Settled /\ mouse = 0 /\ registers = <<0, 0, 0>>
        /\ meant = <<0, 0, 0>> /\ aligned = TRUE
    BY DEF PsInit
  <2>2. line \in Seq(0 .. 255)
    BY <2>1
  <2> QED
    BY <2>1, <2>2 DEF MouseType, AfterPacket, Settled
<1>2. MouseInv /\ [PsNext]_psVars => MouseInv'
  <2> SUFFICES ASSUME MouseInv, [PsNext]_psVars, port' = "mouse"
               PROVE  MouseType' /\ (whole' > 0 => AfterPacket' \/ \E p \in Packets : InPacket(p)')
    BY DEF MouseInv
  <2>1. port = "mouse"
    BY DEF PsNext, psVars, Stroke, Lose, KbdHandleIrq, KbdGetScancode, Move, MouseHandleIrq
  <2>2. MouseType /\ (whole > 0 => AfterPacket \/ \E p \in Packets : InPacket(p))
    BY <2>1 DEF MouseInv
  <2>3. CASE Lose
    <3>1. line' \in Seq(0 .. 255)
      BY <2>2, <2>3 DEF Lose, MouseType
    <3>2. whole' = 0 /\ aligned' = FALSE /\ mouse' = mouse /\ registers' = registers
      BY <2>3 DEF Lose
    <3>3. MouseType'
      <4>1. whole' \in 0 .. Settled /\ mouse' \in 0 .. 2 /\ registers' \in [1 .. 3 -> 0 .. 255]
        BY <2>2, <3>2 DEF MouseType, Settled
      <4>2. aligned' \in BOOLEAN /\ ~aligned'
        BY <3>2, Zenon
      <4> QED
        BY <3>1, <4>1, <4>2, Zenon DEF MouseType
    <3> QED
      BY <3>2, <3>3
  <2>4. CASE Move
    <3>1. PICK p \in Packets : Send(p, p)
      BY <2>4 DEF Move
    <3>2. /\ line = <<>> /\ mouse' = mouse /\ registers' = registers
          /\ aligned' = (aligned \/ (whole > 0 /\ Telling(meant)))
      BY <2>4 DEF Move
    <3>3. /\ line' = p /\ meant' = p
          /\ whole' = IF whole < Settled THEN whole + 1 ELSE whole
      BY <3>1 DEF Send
    <3>4. MouseType'
      <4>1. whole' \in 1 .. Settled
        BY <2>2, <3>3 DEF MouseType, Settled
      <4> QED
        BY <2>2, <3>2, <3>3, <4>1, PacketIsThree DEF MouseType
    <3>5. whole > 0 => AfterPacket
      BY <2>2, <3>2, NotEmpty DEF InPacket
    <3>6. aligned' => mouse' = 0
      BY <2>2, <3>2, <3>5 DEF MouseType, AfterPacket
    <3>7. InPacket(p)'
      BY <3>3, <3>6, PacketIsThree DEF InPacket
    <3> QED
      BY <3>4, <3>7
  <2>5. CASE MouseHandleIrq
    <3>1. /\ line # <<>> /\ line' = Tail(line) /\ Placed(Head(line))
          /\ whole' = whole /\ meant' = meant /\ aligned' = aligned
      BY <2>5, MouseHandled
    <3>2. Head(line) \in 0 .. 255 /\ Tail(line) \in Seq(0 .. 255)
      BY <2>2, <3>1, HeadTailProperties, Zenon DEF MouseType
    <3>3. mouse' \in 0 .. 2 /\ registers' \in [1 .. 3 -> 0 .. 255]
      BY <2>2, <3>1, <3>2, PlacedTyped
    <3>4. line' \in Seq(0 .. 255)
      BY <3>1, <3>2, Zenon
    <3>5. MouseType'
      BY <2>2, <3>1, <3>3, <3>4 DEF MouseType
    <3>6. whole > 0 => \E p \in Packets : InPacket(p)
      BY <2>2, <3>1 DEF AfterPacket
    <3>7. ASSUME NEW p \in Packets, whole > 0, InPacket(p) PROVE AfterPacket' \/ InPacket(p)'
      BY <2>2, <2>5, <3>7, PacketGoesOn
    <3> QED
      BY <3>1, <3>5, <3>6, <3>7
  <2>6. CASE UNCHANGED psVars
    <3>1. UNCHANGED <<line, mouse, registers, whole, meant, aligned>>
      BY <2>6 DEF psVars, mouseVars
    <3> QED
      BY <2>2, <3>1 DEF MouseType, AfterPacket, InPacket
  <2>7. CASE Stroke \/ KbdHandleIrq \/ KbdGetScancode
    BY <2>1, <2>7 DEF Stroke, KbdHandleIrq, KbdGetScancode
  <2> QED
    BY <2>3, <2>4, <2>5, <2>6, <2>7 DEF PsNext
<1> QED
  BY <1>1, <1>2, PTL DEF PsSpec

(* The pointer shows what the mouse sent, whatever its movements, until a  *)
(* byte is lost, and again after the first whole packet since whose        *)
(* movements cannot be taken for a first byte.                             *)
THEOREM PacketsAreShown == PsSpec => []PacketsShown
<1>1. MouseInv => PacketsShown
  <2> SUFFICES ASSUME MouseInv, port = "mouse", line = <<>>, aligned
               PROVE  mouse = 0 /\ registers = meant
    BY DEF PacketsShown, AtRest
  <2>1. whole > 0
    BY DEF MouseInv, MouseType
  <2>2. \A p \in Packets : ~InPacket(p)
    BY NotEmpty DEF InPacket
  <2> QED
    BY <2>1, <2>2 DEF MouseInv, AfterPacket
<1> QED
  BY <1>1, MouseInvariance, PTL

-----------------------------------------------------------------------------
(* The keyboard uses the ring as RingBuffer has it, so that what is proved *)
(* of the ring holds of the keyboard's.                                    *)
THEOREM RingIsUsed == PsSpec => Spec
<1>1. PsInit => Init
  BY DEF PsInit
<1>2. [PsNext]_psVars => [Next]_vars
  <2> SUFFICES ASSUME [PsNext]_psVars PROVE [Next]_vars
    OBVIOUS
  <2>1. CASE KbdHandleIrq
    BY <2>1 DEF KbdHandleIrq, EnqueueScan, Next, vars, ringVars
  <2>2. CASE KbdGetScancode
    BY <2>2 DEF KbdGetScancode, Next
  <2>3. CASE Stroke \/ Lose \/ Move \/ MouseHandleIrq \/ UNCHANGED psVars
    BY <2>3 DEF Stroke, Lose, Move, MouseHandleIrq, psVars, vars, ringVars
  <2> QED
    BY <2>1, <2>2, <2>3 DEF PsNext
<1> QED
  BY <1>1, <1>2, PTL DEF PsSpec, Spec
=============================================================================
