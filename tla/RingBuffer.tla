----------------------------- MODULE RingBuffer -----------------------------
(***************************************************************************)
(* The word ring of src/ring_buffer.c as the keyboard uses it: the         *)
(* keyboard interrupt handler puts scan codes in (rb_word_put), the main   *)
(* program takes them out (rb_word_get).  A trap does not mask interrupts, *)
(* so the handler runs between any two memory accesses of rb_word_get; it  *)
(* runs to completion itself.                                              *)
(***************************************************************************)
EXTENDS Integers, Sequences

CONSTANTS
  Size,     \* MAX_BUFFER_SIZE
  MaxPuts   \* bound of the model: the number of words the handler puts

ASSUME RingAssumption == Size \in Nat /\ Size > 1 /\ MaxPuts \in Nat

Slot == 0 .. (Size - 1)
Word == 1 .. MaxPuts     \* the n-th word put is n

VARIABLES
  buffer, head, tail,  \* the fields of t_word_ring
  pc,      \* where the main program is in rb_word_get
  slot,    \* the index it read from tail
  data,    \* its local variable of that name
  puts,    \* calls of rb_word_put so far
  queued,  \* history: words stored and not yet fetched
  oldest   \* history: the oldest stored word when tail was advanced

vars == <<buffer, head, tail, pc, slot, data, puts, queued, oldest>>

-----------------------------------------------------------------------------

RbFull  == head + 1 = tail
RbEmpty == head = tail

(* The words stored, oldest first.  tail = Size stands for slot 0; once    *)
(* rb_word_get has found a word, equal indices mean Size words.            *)
Count == IF pc = "advance" THEN ((head - tail - 1) % Size) + 1
                           ELSE (head - tail) % Size

Contents == [i \in 1 .. Count |-> buffer[(tail + i - 1) % Size]]

RbInit ==
  /\ buffer = [i \in Slot |-> 0]
  /\ head = 0 /\ tail = 0

Init ==
  /\ RbInit
  /\ pc = "idle" /\ slot = 0 /\ data = 0
  /\ puts = 0 /\ queued = 0 /\ oldest = 0

Wrap(i) == IF i >= Size THEN 0 ELSE i

(* rb_word_put, from the interrupt handler.                                *)
PutDropped ==
  /\ RbFull
  /\ UNCHANGED <<buffer, head, queued>>

\* Mutant: the index is advanced before the word is stored.
PutStored_Pre(w) ==
  /\ ~RbFull
  /\ buffer' = [buffer EXCEPT ![(head + 1) % Size] = w]
  /\ head'   = Wrap(head + 1)
  /\ queued' = queued + 1

PutStored(w) ==
  /\ ~RbFull
  /\ buffer' = [buffer EXCEPT ![head] = w]
  /\ head'   = Wrap(head + 1)
  /\ queued' = queued + 1

RbWordPut ==
  /\ puts < MaxPuts
  /\ puts' = puts + 1
  /\ PutDropped \/ PutStored(puts + 1)
  /\ UNCHANGED <<tail, pc, slot, data, oldest>>

(* rb_word_get, from the main program.                                     *)
GetEmpty ==
  /\ pc = "idle"
  /\ RbEmpty
  /\ data' = 0
  /\ UNCHANGED <<buffer, head, tail, pc, slot, puts, queued, oldest>>

GetBegin ==
  /\ pc = "idle"
  /\ ~RbEmpty
  /\ pc' = "advance"
  /\ UNCHANGED <<buffer, head, tail, slot, data, puts, queued, oldest>>

\* Mutant: the word is read from the advanced index.
GetAdvance_Pre ==
  /\ pc = "advance"
  /\ slot' = (tail + 1) % Size
  /\ tail' = tail + 1
  /\ oldest' = Head(Contents)
  /\ queued' = queued - 1
  /\ pc' = "fetch"
  /\ UNCHANGED <<buffer, head, data, puts>>

(* buffer[tail++]: the compiler may store the new tail before it loads     *)
(* the word.                                                               *)
GetAdvance ==
  /\ pc = "advance"
  /\ slot' = tail
  /\ tail' = tail + 1
  /\ oldest' = Head(Contents)
  /\ queued' = queued - 1
  /\ pc' = "fetch"
  /\ UNCHANGED <<buffer, head, data, puts>>

GetFetch ==
  /\ pc = "fetch"
  /\ data' = buffer[slot]
  /\ pc' = "wrap"
  /\ UNCHANGED <<buffer, head, tail, slot, puts, queued, oldest>>

GetWrap ==
  /\ pc = "wrap"
  /\ tail' = Wrap(tail)
  /\ pc' = "idle"
  /\ UNCHANGED <<buffer, head, slot, data, puts, queued, oldest>>

RbWordGet == GetEmpty \/ GetBegin \/ GetAdvance \/ GetFetch \/ GetWrap

Next == RbWordPut \/ RbWordGet

Spec == Init /\ [][Next]_vars

-----------------------------------------------------------------------------
(* Type invariant: head is always a slot; the interrupt handler may see    *)
(* tail one past the last slot, but only inside rb_word_get.               *)
TypeOK ==
  /\ buffer \in [Slot -> Word \cup {0}]
  /\ head   \in Slot
  /\ tail   \in Slot \/ (tail = Size /\ pc \in {"fetch", "wrap"})
  /\ pc     \in {"idle", "advance", "fetch", "wrap"}
  /\ slot   \in Slot
  /\ data   \in Word \cup {0}
  /\ puts   \in 0 .. MaxPuts
  /\ queued \in Int
  /\ oldest \in Word \cup {0}

(* rb_word_get returns the word that was the oldest when it advanced tail, *)
(* however often the handler ran before it loaded the word.                *)
FetchedIsOldest == pc = "wrap" => data = oldest

Queue == INSTANCE WordQueue WITH Cap <- Size - 1, queue <- Contents

(* The ring implements the queue the drivers rely on.                      *)
ImplementsWordQueue == Queue!Spec

-----------------------------------------------------------------------------
(* rb_word_put's comment: data is lost if the buffer is full, that is the  *)
(* new word, not the words stored before.                                  *)
StoredWordsKept == Count = queued

=============================================================================
