-------------------------- MODULE Programs_proofs ---------------------------
(***************************************************************************)
(* Proofs about Programs, for any number of files, variables, descriptors, *)
(* chunks and blocks.                                                      *)
(*                                                                         *)
(* proc_run trusts two of its variables: the recorded size of the argument *)
(* buffer, and the start address as the sign that a load succeeded.  The   *)
(* invariant says when they deserve it: the size is the buffer's unless    *)
(* malloc has refused one, and a loader that has refused its file has not  *)
(* set the address.                                                        *)
(***************************************************************************)
EXTENDS Programs, FiniteSetTheorems, TLAPS

FileTypes == files \in Int /\ own \in Int /\ left \in Int
ArgTypes  ==
  /\ argSize \in Nat /\ argBuffer \in Nat \cup {Null}
  /\ starved \in BOOLEAN /\ overrun \in BOOLEAN

(* The size recorded is the size of the buffer there is, until malloc has  *)
(* refused one.                                                            *)
SizeKnown ==
  ~starved => argBuffer = argSize \/ (argBuffer = Null /\ argSize = 0)

(* A loader that refused its file has not set the start address.           *)
RefusedNoStart == load.refused => ~start

(* The loader's progress is a record with these fields.                    *)
LoadType ==
  /\ load \in [file : Files, at : Nat, intact : BOOLEAN, refused : BOOLEAN]
  /\ start \in BOOLEAN

IInv ==
  /\ FileTypes /\ ArgTypes /\ LoadType
  /\ FilesAccounted
  /\ SizeKnown /\ ArgsHaveRoom
  /\ RefusedNoStart /\ RefusedNeverStarts

FileInv == FileTypes /\ FilesAccounted
ArgInv  == ArgTypes /\ SizeKnown /\ ArgsHaveRoom
LoadInv == LoadType /\ RefusedNoStart /\ RefusedNeverStarts

-----------------------------------------------------------------------------
(* The restart of the kernel: nothing open, no arguments, nothing loaded.  *)
LEMMA InitIInv == ASSUME Files # {}, Init PROVE IInv
<1>1. FileTypes /\ FilesAccounted
  <2>1. files = 0 /\ own = 0 /\ left = 0 /\ ~chan
    BY DEF Init
  <2>2. FilesOfLoader = 0
    BY <2>1 DEF FilesOfLoader
  <2> QED BY <2>1, <2>2 DEF FileTypes, FilesAccounted
<1>2. ArgTypes /\ SizeKnown /\ ArgsHaveRoom
  BY DEF Init, ArgTypes, SizeKnown, ArgsHaveRoom, Null
<1>3. (CHOOSE f \in Files : TRUE) \in Files
  OBVIOUS
<1>4. LoadType /\ RefusedNoStart /\ RefusedNeverStarts
  BY <1>3 DEF Init, NoLoad, LoadType, RefusedNoStart, RefusedNeverStarts
<1> QED BY <1>1, <1>2, <1>4 DEF IInv

-----------------------------------------------------------------------------
(* What leaves the descriptors alone keeps them accounted for.             *)
LEMMA SameFiles ==
  ASSUME FileInv, UNCHANGED <<files, own, left, chan>>
  PROVE  FileInv'
BY DEF FileInv, FileTypes, FilesAccounted, FilesOfLoader

(* proc_run up to the load leaves the files alone.                         *)
LEMMA ProcRunFiles ==
  ASSUME FileInv, NEW who, NEW f, NEW need, ProcRun(who, f, need)
  PROVE  FileInv'
<1>1. UNCHANGED <<files, own, left, chan>>
  BY DEF ProcRun, KeepBuffer, NewBuffer, NoBuffer, Load, fileVars, loadVars
<1> QED BY <1>1, SameFiles

(* proc_run copies its arguments to a buffer that is large enough, or      *)
(* believes in one that malloc has refused.                                *)
LEMMA ProcRunArgs ==
  ASSUME ArgInv, NEW who, NEW f, NEW need \in Nat, ProcRun(who, f, need)
  PROVE  ArgInv'
<1> USE DEF ArgInv, ArgTypes, SizeKnown, ArgsHaveRoom, Null
<1>1. CASE KeepBuffer(f, need)
  BY <1>1 DEF KeepBuffer, SizeLeft, TooSmall
<1>2. CASE NewBuffer(f, need)
  BY <1>2 DEF NewBuffer
<1>3. CASE NoBuffer(need)
  BY <1>3 DEF NoBuffer
<1> QED BY <1>1, <1>2, <1>3 DEF ProcRun

(* Every load begins without a start address and without a refusal.        *)
LEMMA ProcRunLoad ==
  ASSUME LoadInv, NEW who, NEW f \in Files, NEW need, ProcRun(who, f, need)
  PROVE  LoadInv'
<1> USE DEF LoadInv, LoadType, RefusedNoStart, RefusedNeverStarts
<1>1. CASE Load(f)
  BY <1>1 DEF Load, NoLoad
<1>2. CASE UNCHANGED loadVars
  BY <1>2 DEF loadVars
<1> QED BY <1>1, <1>2 DEF ProcRun, KeepBuffer, NewBuffer, NoBuffer

(* The end of a load: a program takes the processor, and what the one      *)
(* before it held stays open; only a load that set the address starts one. *)
LEMMA ResumeStep ==
  ASSUME LoadInv, Resume, UNCHANGED <<load, start>>,
         own \in Int, left \in Int
  PROVE  /\ LoadInv'
         /\ own' \in Int /\ left' \in Int
         /\ own' + left' = own + left
<1>1. CASE start
  BY <1>1 DEF Resume, LoadInv, LoadType, RefusedNoStart, RefusedNeverStarts
<1>2. CASE ~start
  BY <1>2 DEF Resume, LoadInv, LoadType, RefusedNoStart, RefusedNeverStarts
<1> QED BY <1>1, <1>2

(* A chunk is read, or its reading fails: the start address is set only    *)
(* for a file that was not refused, and there is no reading after that.    *)
LEMMA ReadLoad ==
  ASSUME ProgramAssumption, LoadInv, ReadChunk \/ ReadFails
  PROVE  LoadInv'
<1> USE DEF LoadInv, LoadType, RefusedNoStart, RefusedNeverStarts
<1>1. load.at + 1 \in Nat /\ Chunks \in Nat
  BY DEF ProgramAssumption
<1>2. CASE ReadChunk
  <2>1. /\ load' = [load EXCEPT !.at = @ + 1, !.refused = (load.file \in Bad)]
        /\ start' = (load.file \notin Bad
                       /\ (Format[load.file] = "pgx" \/ load.at + 1 = Chunks))
        /\ started' = started
    BY <1>2 DEF ReadChunk
  <2>2. load'.refused = (load.file \in Bad)
    BY <2>1
  <2>3. load' \in [file : Files, at : Nat, intact : BOOLEAN, refused : BOOLEAN]
    <3>1. CASE load.file \in Bad
      <4>1. load' = [load EXCEPT !.at = @ + 1, !.refused = TRUE]
        BY <2>1, <3>1, (load.file \in Bad) = TRUE, Zenon
      <4> QED BY <1>1, <4>1
    <3>2. CASE load.file \notin Bad
      <4>1. load' = [load EXCEPT !.at = @ + 1, !.refused = FALSE]
        BY <2>1, <3>2, (load.file \in Bad) = FALSE, Zenon
      <4> QED BY <1>1, <4>1
    <3> QED BY <3>1, <3>2
  <2>4. start' \in BOOLEAN
    BY <2>1
  <2>5. load'.refused => ~start'
    BY <2>1, <2>2
  <2>6. ~started'.refused
    BY <2>1
  <2> QED BY <2>3, <2>4, <2>5, <2>6
<1>3. CASE ReadFails
  <2>1. ~load.refused
    BY <1>3 DEF ReadFails, CanRead, Reading
  <2>2. CASE Format[load.file] = "elf"
    <3>1. PICK header \in BOOLEAN :
            /\ load' = [load EXCEPT !.at = @ + 1, !.intact = FALSE, !.refused = ~header]
            /\ start' = (header /\ load.at + 1 = Chunks)
      BY <1>3, <2>2 DEF ReadFails
    <3>2. started' = started
      BY <1>3 DEF ReadFails
    <3>3. load'.refused = ~header
      BY <3>1
    <3>4. LoadType'
      BY <1>1, <3>1
    <3> QED BY <3>1, <3>2, <3>3, <3>4
  <2>3. CASE Format[load.file] # "elf"
    <3>1. load' = [load EXCEPT !.at = Chunks, !.intact = FALSE] /\ start' = start
      BY <1>3, <2>3 DEF ReadFails
    <3>2. started' = started
      BY <1>3 DEF ReadFails
    <3> QED BY <1>1, <2>1, <3>1, <3>2
  <2> QED BY <2>2, <2>3
<1> QED BY <1>2, <1>3

-----------------------------------------------------------------------------
(* The descriptors are accounted for after every step.                     *)
LEMMA FilesStep == ASSUME IInv, Next PROVE FileInv'
<1> USE DEF FileInv, FileTypes, FilesAccounted, IInv, LoadInv
<1>1. ASSUME NEW f \in Files, NEW need \in 0 .. MaxArgs, ProcRun(running, f, need)
      PROVE  FileInv'
  BY <1>1, ProcRunFiles
<1>2. CASE LoadFails
  <2>1. own' \in Int /\ left' \in Int /\ own' + left' = own + left
    BY <1>2, ResumeStep DEF LoadFails
  <2>2. UNCHANGED <<files, chan, FilesOfLoader>>
    BY <1>2 DEF LoadFails, FilesOfLoader
  <2> QED BY <2>1, <2>2
<1>3. CASE LoadOpen
  <2>1. ~chan /\ chan' /\ files' = files + 1 /\ UNCHANGED <<own, left>>
    BY <1>3 DEF LoadOpen
  <2>2. FilesOfLoader = 0 /\ FilesOfLoader' = 1
    BY <2>1 DEF FilesOfLoader
  <2> QED BY <2>1, <2>2
<1>4. CASE ReadChunk \/ ReadFails
  BY <1>4, SameFiles DEF ReadChunk, ReadFails, fileVars
<1>5. CASE LoadEnds
  <2>1. own' \in Int /\ left' \in Int /\ own' + left' = own + left
    BY <1>5, ResumeStep DEF LoadEnds
  <2>2. chan /\ ~chan'
    BY <1>5 DEF LoadEnds
  <2>3. FilesOfLoader = 1 /\ FilesOfLoader' = 0
    BY <2>2 DEF FilesOfLoader
  <2>4. files' = files - 1
    BY <1>5 DEF LoadEnds
  <2>5. files \in Int /\ own \in Int /\ left \in Int /\ files = own + left + 1
    BY <2>3
  <2>6. files' = own + left
    BY <2>4, <2>5
  <2>7. files' = own' + left'
    BY <2>1, <2>6, Zenon
  <2> QED BY <2>1, <2>3, <2>7
<1>6. CASE OpenFile
  BY <1>6 DEF OpenFile, loadVars, FilesOfLoader
<1>7. CASE CloseFile
  BY <1>7 DEF CloseFile, loadVars, FilesOfLoader
<1>8. CASE ProcExit
  BY <1>8 DEF ProcExit, loadVars, FilesOfLoader
<1>9. CASE Restart
  <2>1. CASE value[SHELL] \in Files
    BY <1>9, <2>1, ProcRunFiles DEF Restart
  <2>2. CASE value[SHELL] \notin Files
    BY <1>9, <2>2, SameFiles DEF Restart, loadVars, fileVars
  <2> QED BY <2>1, <2>2
<1>10. ASSUME NEW n \in Names, NEW v \in Values, VarSet(n, v)
       PROVE  FileInv'
  BY <1>10, SameFiles DEF VarSet, loadVars, fileVars
<1> QED BY <1>1, <1>2, <1>3, <1>4, <1>5, <1>6, <1>7, <1>8, <1>9, <1>10 DEF Next

(* The argument buffer is as large as believed after every step.           *)
LEMMA ArgsStep == ASSUME IInv, Next PROVE ArgInv'
<1> USE DEF IInv, ArgInv
<1>1. ASSUME NEW f \in Files, NEW need \in 0 .. MaxArgs, ProcRun(running, f, need)
      PROVE  ArgInv'
  <2>1. need \in Nat
    BY ProgramAssumption, <1>1 DEF ProgramAssumption
  <2> QED BY <1>1, <2>1, ProcRunArgs
<1>2. CASE Restart /\ value[SHELL] \in Files
  BY <1>2, ProcRunArgs DEF Restart
<1>3. CASE UNCHANGED argVars
  BY <1>3 DEF argVars, ArgTypes, SizeKnown, ArgsHaveRoom
<1>4. CASE LoadFails \/ LoadOpen \/ ReadChunk \/ ReadFails \/ LoadEnds
  BY <1>3, <1>4 DEF LoadFails, LoadOpen, ReadChunk, ReadFails, LoadEnds
<1>5. CASE OpenFile \/ CloseFile \/ ProcExit
  BY <1>3, <1>5 DEF OpenFile, CloseFile, ProcExit
<1>6. CASE Restart /\ value[SHELL] \notin Files
  BY <1>3, <1>6 DEF Restart
<1>7. ASSUME NEW n \in Names, NEW v \in Values, VarSet(n, v)
      PROVE  ArgInv'
  BY <1>3, <1>7 DEF VarSet
<1> QED BY <1>1, <1>2, <1>4, <1>5, <1>6, <1>7 DEF Next

(* What is loaded and started is never refused, after every step.          *)
LEMMA LoadStep == ASSUME IInv, Next PROVE LoadInv'
<1>0. LoadInv
  BY DEF IInv, LoadInv
<1>1. ASSUME NEW f \in Files, NEW need \in 0 .. MaxArgs, ProcRun(running, f, need)
      PROVE  LoadInv'
  BY <1>0, <1>1, ProcRunLoad
<1>2. CASE Restart /\ value[SHELL] \in Files
  BY <1>0, <1>2, ProcRunLoad DEF Restart
<1>3. CASE UNCHANGED <<load, start, started>>
  BY <1>0, <1>3 DEF LoadInv, LoadType, RefusedNoStart, RefusedNeverStarts
<1>4. CASE LoadFails \/ LoadEnds
  BY <1>0, <1>4, ResumeStep DEF LoadFails, LoadEnds, IInv, FileTypes
<1>5. CASE ReadChunk \/ ReadFails
  BY <1>0, <1>5, ReadLoad, ProgramAssumption
<1>6. CASE LoadOpen \/ OpenFile \/ CloseFile \/ ProcExit
  BY <1>3, <1>6 DEF LoadOpen, OpenFile, CloseFile, ProcExit, loadVars
<1>7. CASE Restart /\ value[SHELL] \notin Files
  BY <1>3, <1>7 DEF Restart, loadVars
<1>8. ASSUME NEW n \in Names, NEW v \in Values, VarSet(n, v)
      PROVE  LoadInv'
  BY <1>3, <1>8 DEF VarSet, loadVars
<1> QED BY <1>1, <1>2, <1>4, <1>5, <1>6, <1>7, <1>8 DEF Next

-----------------------------------------------------------------------------
(* The heap.  The loader has a chunk only while it has its file open, so   *)
(* that it never allocates a second one.                                   *)
HeapType ==
  /\ used \in Int /\ leaked \in Int /\ argBuffer \in Nat \cup {Null}
  /\ chunk \in BOOLEAN /\ (chunk => chan)
  /\ value \in [Names -> Values \cup {NoValue, Unset}] /\ IsFiniteSet(Listed)

HeapInv == HeapType /\ HeapAccounted

(* As many variables have a value as are counted.                          *)
LEMMA CountsAreNumbers ==
  ASSUME IsFiniteSet(Listed)
  PROVE  /\ IsFiniteSet(Valued) /\ Cardinality(Listed) \in Nat
         /\ Cardinality(Valued) \in Nat /\ BlocksOfVariables \in Nat
<1>1. Valued \subseteq Listed
  BY DEF Valued
<1>2. IsFiniteSet(Valued)
  BY <1>1, FS_Subset
<1>3. Cardinality(Listed) \in Nat /\ Cardinality(Valued) \in Nat
  BY <1>2, FS_CardinalityType
<1> QED BY <1>2, <1>3 DEF BlocksOfVariables

(* While the variables stay as they are, so do their blocks.               *)
LEMMA SameVariables ==
  ASSUME UNCHANGED value
  PROVE  Listed' = Listed /\ BlocksOfVariables' = BlocksOfVariables
BY DEF Listed, Valued, BlocksOfVariables

(* The argument buffer and the chunk may change, the variables not.        *)
LEMMA HeapTypeKept ==
  ASSUME HeapType, UNCHANGED value, used' \in Int, leaked' \in Int,
         argBuffer' \in Nat \cup {Null},
         (chunk' = TRUE /\ chan' = TRUE) \/ chunk' = FALSE
  PROVE  HeapType'
<1>1. Listed' = Listed
  BY SameVariables
<1>2. IsFiniteSet(Listed')
  BY <1>1, Zenon DEF HeapType
<1>3. value' \in [Names -> Values \cup {NoValue, Unset}]
  BY Zenon DEF HeapType
<1>4. chunk' \in BOOLEAN /\ (chunk' => chan')
  BY Zenon
<1> QED BY <1>2, <1>3, <1>4, Zenon DEF HeapType

(* At first the heap is empty.                                             *)
LEMMA InitHeap == Init => HeapInv
<1> SUFFICES ASSUME Init PROVE HeapInv
  OBVIOUS
<1>1. Listed = {} /\ Valued = {}
  BY DEF Init, Listed, Valued
<1>2. IsFiniteSet({}) /\ Cardinality({}) = 0
  BY FS_EmptySet
<1>3. BlocksOfVariables = 0
  BY <1>1, <1>2 DEF BlocksOfVariables
<1>4. HeapType
  <2>1. used \in Int /\ leaked \in Int
    BY DEF Init
  <2>2. argBuffer \in Nat \cup {Null}
    BY DEF Init
  <2>3. chunk \in BOOLEAN /\ (chunk => chan)
    BY DEF Init
  <2>4. value \in [Names -> Values \cup {NoValue, Unset}]
    BY DEF Init
  <2>5. IsFiniteSet(Listed)
    BY <1>1, <1>2
  <2> QED BY <2>1, <2>2, <2>3, <2>4, <2>5, Zenon DEF HeapType
<1>5. HeapAccounted
  BY <1>3 DEF Init, HeapAccounted
<1> QED BY <1>4, <1>5 DEF HeapInv

(* The blocks of the argument buffer and the chunk.                        *)
InBuffers == (IF argBuffer = Null THEN 0 ELSE 1) + (IF chunk THEN 1 ELSE 0)

(* A step that leaves the variables alone: what it takes from the heap is  *)
(* in the argument buffer, in the chunk, or lost.                          *)
Balance ==
  used' = used + ((InBuffers' - InBuffers) + (leaked' - leaked))

(* Such a step keeps the heap accounted for.                               *)
LEMMA BalanceKept ==
  ASSUME HeapInv, HeapType', UNCHANGED value, Balance
  PROVE  HeapInv'
<1>1. BlocksOfVariables' = BlocksOfVariables /\ BlocksOfVariables \in Nat
  BY SameVariables, CountsAreNumbers DEF HeapInv, HeapType
<1>2. InBuffers \in Int /\ InBuffers' \in Int
  BY DEF InBuffers
<1>3. used = InBuffers + BlocksOfVariables + leaked
  BY DEF HeapInv, HeapAccounted, InBuffers
<1>4. used' = InBuffers' + BlocksOfVariables' + leaked'
  <2>1. used' \in Int /\ leaked' \in Int /\ used \in Int /\ leaked \in Int
    BY DEF HeapInv, HeapType
  <2>2. InBuffers + BlocksOfVariables + leaked + ((InBuffers' - InBuffers) + (leaked' - leaked))
          = InBuffers' + BlocksOfVariables + leaked'
    BY <1>1, <1>2, <2>1
  <2>3. used' = InBuffers' + BlocksOfVariables + leaked'
    BY <1>3, <2>2, Zenon DEF Balance
  <2> QED BY <1>1, <2>3, Zenon
<1> QED BY <1>4 DEF HeapInv, HeapAccounted, InBuffers

(* proc_run frees a buffer that is too small, and loses one of no bytes.   *)
LEMMA ProcRunHeap ==
  ASSUME HeapInv, argSize \in Nat, NEW who, NEW f, NEW need \in Nat, ProcRun(who, f, need)
  PROVE  HeapInv'
<1>1. UNCHANGED <<value, chan, chunk>>
  BY DEF ProcRun, KeepBuffer, NewBuffer, NoBuffer, Load, loadVars
<1>2. Listed' = Listed
  BY <1>1, SameVariables
<1>3. HeapType' /\ Balance
  <2> USE DEF HeapInv, HeapType, Balance, InBuffers, Null
  <2>1. CASE KeepBuffer(f, need)
    BY <1>1, <1>2, <2>1 DEF KeepBuffer
  <2>2. CASE NewBuffer(f, need)
    BY <1>1, <1>2, <2>2 DEF NewBuffer, UsedLeft, SizeLeft, TooSmall
  <2>3. CASE NoBuffer(need)
    BY <1>1, <1>2, <2>3 DEF NoBuffer, UsedLeft, SizeLeft, TooSmall
  <2> QED BY <2>1, <2>2, <2>3 DEF ProcRun
<1> QED BY <1>1, <1>3, BalanceKept

(* The loaders: PGX gives its chunk back, PGZ loses it.                    *)
LEMMA LoadersHeap ==
  ASSUME HeapInv, LoadOpen \/ LoadEnds
  PROVE  HeapInv'
<1>1. UNCHANGED <<value, argBuffer>> /\ Listed' = Listed
  BY SameVariables DEF LoadOpen, LoadEnds, argVars
<1>2. HeapType' /\ Balance
  <2> USE DEF HeapInv, HeapType, Balance, InBuffers
  <2>1. CASE LoadOpen
    <3>1. chan = FALSE /\ chan' = TRUE /\ leaked' = leaked
      BY <2>1 DEF LoadOpen
    <3>2. chunk = FALSE
      <4>1. ~chunk /\ chunk \in BOOLEAN
        BY <3>1, Zenon
      <4> QED BY <4>1
    <3>3. (chunk' = TRUE /\ used' = used + 1) \/ (chunk' = FALSE /\ used' = used)
      <4>1. (chunk' = TRUE /\ used' = used + 1) \/ (chunk' = chunk /\ used' = used)
        BY <2>1 DEF LoadOpen
      <4> QED BY <3>2, <4>1
    <3>4. HeapType'
      <4>1. used' \in Int /\ leaked' \in Int
        BY <3>1, <3>3
      <4> QED BY <1>1, <3>1, <3>3, <4>1, HeapTypeKept
    <3>5. Balance
      BY <1>1, <3>1, <3>2, <3>3
    <3> QED BY <3>4, <3>5
  <2>2. CASE LoadEnds
    <3>1. chunk' = FALSE /\ chan' \in BOOLEAN
      BY <2>2 DEF LoadEnds
    <3>2. chunk = TRUE \/ chunk = FALSE
      OBVIOUS
    <3>3. HeapType'
      <4>1. used' \in Int /\ leaked' \in Int
        BY <2>2, <3>2 DEF LoadEnds
      <4> QED BY <1>1, <3>1, <4>1, HeapTypeKept
    <3>4. Balance
      BY <1>1, <2>2, <3>1, <3>2 DEF LoadEnds
    <3> QED BY <3>3, <3>4
  <2> QED BY <2>1, <2>2
<1> QED BY <1>1, <1>2, BalanceKept

(* var_set: each of its mallocs that succeeds is in the list, or lost.     *)
LEMMA VarSetHeap ==
  ASSUME HeapInv, NEW n \in Names, NEW v \in Values, VarSet(n, v)
  PROVE  HeapInv'
<1> USE DEF HeapInv, HeapType
<1>1. v # NoValue /\ v # Unset /\ NoValue # Unset
  BY ProgramAssumption DEF ProgramAssumption
<1>2. UNCHANGED <<argBuffer, chunk, chan>>
  BY DEF VarSet, argVars, loadVars
<1>3. /\ IsFiniteSet(Valued) /\ Cardinality(Listed) \in Nat
      /\ Cardinality(Valued) \in Nat /\ BlocksOfVariables \in Nat
  BY CountsAreNumbers
<1>4. CASE SetValue(n, v)
  <2>1. value[n] # Unset /\ value' = [value EXCEPT ![n] = v] /\ leaked' = leaked
        /\ used' = used + (IF value[n] = NoValue THEN 1 ELSE 0)
    BY <1>4 DEF SetValue
  <2>2. Listed' = Listed /\ Valued' = Valued \cup {n}
    BY <1>1, <2>1 DEF Listed, Valued
  <2>3. n \in Valued <=> value[n] # NoValue
    BY <2>1 DEF Listed, Valued
  <2>4. Cardinality(Valued \cup {n}) = IF n \in Valued THEN Cardinality(Valued)
                                       ELSE Cardinality(Valued) + 1
    BY <1>3, FS_AddElement
  <2>5. BlocksOfVariables' = BlocksOfVariables + (IF value[n] = NoValue THEN 1 ELSE 0)
    BY <1>3, <2>2, <2>3, <2>4 DEF BlocksOfVariables
  <2> QED BY <1>2, <1>3, <2>1, <2>2, <2>5 DEF HeapAccounted
<1>5. CASE SetFails(n)
  <2>1. value[n] # Unset /\ value' = [value EXCEPT ![n] = NoValue] /\ leaked' = leaked
        /\ used' = used - (IF value[n] = NoValue THEN 0 ELSE 1)
    BY <1>5 DEF SetFails
  <2>2. Listed' = Listed /\ Valued' = Valued \ {n}
    BY <1>1, <2>1 DEF Listed, Valued
  <2>3. n \in Valued <=> value[n] # NoValue
    BY <2>1 DEF Listed, Valued
  <2>4. Cardinality(Valued \ {n}) = IF n \in Valued THEN Cardinality(Valued) - 1
                                    ELSE Cardinality(Valued)
    BY <1>3, FS_RemoveElement
  <2>5. BlocksOfVariables' = BlocksOfVariables - (IF value[n] = NoValue THEN 0 ELSE 1)
    BY <1>3, <2>2, <2>3, <2>4 DEF BlocksOfVariables
  <2> QED BY <1>2, <1>3, <2>1, <2>2, <2>5 DEF HeapAccounted
<1>6. CASE NewVariable(n, v)
  <2>1. value[n] = Unset /\ value' = [value EXCEPT ![n] = v] /\ leaked' = leaked
        /\ used' = used + 3
    BY <1>6 DEF NewVariable
  <2>2. Listed' = Listed \cup {n} /\ Valued' = Valued \cup {n} /\ n \notin Listed /\ n \notin Valued
    BY <1>1, <2>1 DEF Listed, Valued
  <2>3. /\ IsFiniteSet(Listed \cup {n})
        /\ Cardinality(Listed \cup {n}) = Cardinality(Listed) + 1
        /\ Cardinality(Valued \cup {n}) = Cardinality(Valued) + 1
    BY <1>3, <2>2, FS_AddElement
  <2>4. BlocksOfVariables' = BlocksOfVariables + 3
    BY <1>3, <2>2, <2>3 DEF BlocksOfVariables
  <2> QED BY <1>2, <1>3, <2>1, <2>2, <2>3, <2>4 DEF HeapAccounted
<1>7. CASE NewFails(n)
  <2>1. PICK got \in 0 .. 2 : used' = used + got /\ leaked' = leaked + got
    BY <1>7 DEF NewFails
  <2>2. UNCHANGED value
    BY <1>7 DEF NewFails
  <2>3. Listed' = Listed
    BY <2>2, SameVariables
  <2>4. HeapType' /\ Balance
    BY <1>2, <2>1, <2>2, <2>3 DEF Balance, InBuffers
  <2> QED BY <2>2, <2>4, BalanceKept
<1> QED BY <1>4, <1>5, <1>6, <1>7 DEF VarSet

(* Every step.                                                             *)
LEMMA HeapStep == IInv /\ HeapInv /\ [Next]_vars => HeapInv'
<1> SUFFICES ASSUME IInv, HeapInv, [Next]_vars PROVE HeapInv'
  OBVIOUS
<1>0. argSize \in Nat
  BY DEF IInv, ArgTypes
<1>1. ASSUME NEW f \in Files, NEW need \in 0 .. MaxArgs, ProcRun(running, f, need)
      PROVE  HeapInv'
  <2>1. need \in Nat
    BY ProgramAssumption, <1>1 DEF ProgramAssumption
  <2> QED BY <1>0, <1>1, <2>1, ProcRunHeap
<1>2. CASE Restart /\ value[SHELL] \in Files
  BY <1>0, <1>2, ProcRunHeap DEF Restart
<1>3. CASE UNCHANGED <<used, leaked, argBuffer, chunk, chan, value>>
  <2>1. Listed' = Listed
    BY <1>3, SameVariables
  <2>2. HeapType' /\ Balance
    BY <1>3, <2>1 DEF HeapInv, HeapType, Balance, InBuffers
  <2> QED BY <1>3, <2>2, BalanceKept
<1>4. CASE LoadOpen \/ LoadEnds
  BY <1>4, LoadersHeap
<1>5. CASE LoadFails \/ ReadChunk \/ ReadFails \/ OpenFile \/ CloseFile \/ ProcExit
  BY <1>3, <1>5 DEF LoadFails, ReadChunk, ReadFails, OpenFile, CloseFile, ProcExit,
     argVars, loadVars, heapVars
<1>6. CASE Restart /\ value[SHELL] \notin Files
  BY <1>3, <1>6 DEF Restart, argVars, loadVars, heapVars
<1>7. ASSUME NEW n \in Names, NEW v \in Values, VarSet(n, v)
      PROVE  HeapInv'
  BY <1>7, VarSetHeap
<1>8. CASE UNCHANGED vars
  BY <1>3, <1>8 DEF vars, argVars, loadVars, heapVars
<1> QED BY <1>1, <1>2, <1>4, <1>5, <1>6, <1>7, <1>8 DEF Next

-----------------------------------------------------------------------------
(* The invariant holds: proc_run, fsys_load and the loaders keep it.       *)
THEOREM Invariance == Spec => []IInv
<1>1. Init => IInv
  BY InitIInv, ProgramAssumption DEF ProgramAssumption
<1>2. IInv /\ [Next]_vars => IInv'
  <2> SUFFICES ASSUME IInv, [Next]_vars PROVE IInv'
    OBVIOUS
  <2>1. CASE Next
    BY <2>1, FilesStep, ArgsStep, LoadStep DEF IInv, FileInv, ArgInv, LoadInv
  <2>2. CASE UNCHANGED vars
    BY <2>2 DEF vars, runVars, argVars, loadVars, fileVars, heapVars, IInv,
       FileTypes, ArgTypes, LoadType, FilesAccounted, SizeKnown, ArgsHaveRoom,
       RefusedNoStart, RefusedNeverStarts, FilesOfLoader
  <2> QED BY <2>1, <2>2
<1> QED BY <1>1, <1>2, PTL DEF Spec

(* No path through proc_run, fsys_load_ext and the loaders keeps the file  *)
(* it opened: what is open is the program's, the loader's or was left by a *)
(* program that is gone.                                                   *)
THEOREM NoFileLost == Spec => []FilesAccounted
<1>1. IInv => FilesAccounted
  BY DEF IInv
<1> QED BY <1>1, Invariance, PTL

(* proc_run never copies arguments past the end of the buffer, as long as  *)
(* malloc has not refused one.                                             *)
THEOREM ArgumentsFit == Spec => []ArgsHaveRoom
<1>1. IInv => ArgsHaveRoom
  BY DEF IInv
<1> QED BY <1>1, Invariance, PTL

(* A file its loader refused is never started, although fsys_load hides    *)
(* the refusal from proc_run.                                              *)
THEOREM RefusedFileNotStarted == Spec => []RefusedNeverStarts
<1>1. IInv => RefusedNeverStarts
  BY DEF IInv
<1> QED BY <1>1, Invariance, PTL

(* Every block of the kernel's heap is the argument buffer, the loader's   *)
(* chunk, part of a variable, or was lost where the history says, however  *)
(* many variables are set and whichever mallocs fail.                      *)
THEOREM HeapIsAccounted == Spec => []HeapAccounted
<1>1. Init => HeapInv
  BY InitHeap
<1>2. IInv /\ HeapInv /\ [Next]_vars => HeapInv'
  BY HeapStep
<1>3. HeapInv => HeapAccounted
  BY DEF HeapInv
<1> QED BY <1>1, <1>2, <1>3, Invariance, PTL DEF Spec

=============================================================================
