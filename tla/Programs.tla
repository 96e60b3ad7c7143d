------------------------------ MODULE Programs ------------------------------
(***************************************************************************)
(* Running programs: proc_run and proc_exit (src/proc.c), fsys_load and    *)
(* its PGX, PGZ and ELF loaders (src/dev/fsys.c), the variables they share *)
(* the kernel's heap with (src/variables.c), and the restart of the        *)
(* command line or of the program SHELL names (src/cli/cli.c).  A file is  *)
(* read in chunks, any of which may fail; malloc may fail.  What a program *)
(* leaves behind stays: descriptors it did not close, blocks never freed.  *)
(***************************************************************************)
EXTENDS Integers, FiniteSets

CONSTANTS
  Files,     \* what can be run
  Format,    \* Files -> "pgx", "pgz", "elf" or "other", by the extension
  Bad,       \* the files whose header is not of their format
  Names,     \* variables, SHELL among them
  SHELL,
  Values,    \* values of variables; for SHELL a file, or Empty
  Empty, NoValue, Unset,
  MaxFiles,  \* MAX_FILES
  MaxArgs,   \* bound of the model: sizes of an argument list
  Chunks,    \* bound of the model: chunks of a file
  Heap       \* bound of the model: blocks malloc can give

ASSUME ProgramAssumption ==
  /\ SHELL \in Names /\ Empty \in Values
  /\ Format \in [Files -> {"pgx", "pgz", "elf", "other"}] /\ Bad \subseteq Files
  /\ NoValue \notin Values /\ Unset \notin Values \cup {NoValue}
  /\ Files # {} /\ MaxArgs \in Nat
  /\ MaxFiles \in Nat \ {0} /\ Chunks \in Nat \ {0}

VARIABLES
  running,   \* "cli", "program", "loading", "restart" or "hung"
  caller,    \* who called proc_run last: "cli", "program" or "shell"
  argSize,   \* g_proc_buffer_size
  argBuffer, \* the size of the block g_proc_buffer points to; Null for 0
  load,      \* the loader's progress
  start,     \* proc_run's local: TRUE when it is not 0
  chan,      \* fsys_load_ext has its file open
  chunk,     \* the loader has its buffer
  files,     \* descriptors claimed
  own,       \* of these, by the running program
  left,      \* history: by programs that are gone
  value,     \* the list of variables: name -> value, NoValue or Unset
  used,      \* blocks of the heap in use
  leaked,    \* history: blocks nothing points to any more
  starved,   \* history: malloc refused the argument buffer
  overrun,   \* history: arguments were copied to a buffer too small
  started    \* history: the load of the program started last

runVars  == <<running, caller>>
argVars  == <<argSize, argBuffer, starved, overrun>>
loadVars == <<load, start, chan, chunk, started>>
fileVars == <<files, own, left>>
heapVars == <<used, leaked>>
vars == <<runVars, argVars, loadVars, fileVars, value, heapVars>>

Null == -1

NoLoad(f) == [file |-> f, at |-> 0, intact |-> TRUE, refused |-> FALSE]

Init ==
  /\ running = "cli" /\ caller = "cli"
  /\ argSize = 0 /\ argBuffer = Null
  /\ load = NoLoad(CHOOSE f \in Files : TRUE) /\ start = FALSE
  /\ chan = FALSE /\ chunk = FALSE
  /\ files = 0 /\ own = 0 /\ left = 0
  /\ value = [n \in Names |-> Unset]
  /\ used = 0 /\ leaked = 0
  /\ starved = FALSE /\ overrun = FALSE
  /\ started = load

-----------------------------------------------------------------------------
(* proc_run: the argument buffer.                                          *)

\* Mutant: an old buffer is kept whatever its size.
TooSmall_Never(need) == FALSE

TooSmall(need) == argSize > 0 /\ argSize < need

SizeLeft(need) == IF TooSmall(need) THEN 0 ELSE argSize
UsedLeft(need) == used - (IF TooSmall(need) /\ argBuffer # Null THEN 1 ELSE 0)

(* The arguments are copied; the file is loaded next.                      *)
Load(f) ==
  /\ running' = "loading"
  /\ load' = NoLoad(f) /\ start' = FALSE
  /\ UNCHANGED <<chan, chunk, started>>

KeepBuffer(f, need) ==
  /\ SizeLeft(need) # 0
  /\ overrun' = (overrun \/ argBuffer < need)
  /\ Load(f)
  /\ UNCHANGED <<argSize, argBuffer, starved, used, leaked>>

(* A list of no arguments makes a buffer of no bytes, taken for none by    *)
(* the next run.                                                           *)
NewBuffer(f, need) ==
  /\ SizeLeft(need) = 0 /\ UsedLeft(need) < Heap
  /\ argSize' = need /\ argBuffer' = need
  /\ used' = UsedLeft(need) + 1
  /\ leaked' = leaked + (IF argSize = 0 /\ argBuffer # Null THEN 1 ELSE 0)
  /\ Load(f)
  /\ UNCHANGED <<starved, overrun>>

(* proc_run returns ERR_OUT_OF_MEMORY, with the size recorded.             *)
NoBuffer(need) ==
  /\ SizeLeft(need) = 0
  /\ argSize' = need /\ argBuffer' = Null
  /\ used' = UsedLeft(need)
  /\ leaked' = leaked + (IF argSize = 0 /\ argBuffer # Null THEN 1 ELSE 0)
  /\ starved' = TRUE
  /\ running' = IF caller' = "shell" THEN "hung" ELSE caller'
  /\ UNCHANGED <<overrun, loadVars>>

ProcRun(who, f, need) ==
  /\ caller' = who
  /\ KeepBuffer(f, need) \/ NewBuffer(f, need) \/ NoBuffer(need)
  /\ UNCHANGED <<fileVars, value>>

-----------------------------------------------------------------------------
(* proc_run after fsys_load, which returns 0 whatever the loader returned: *)
(* only start tells.  cli_rerepl stops for good when its program fails.    *)
Resume ==
  IF start
    THEN /\ running' = "program"
         /\ started' = load
         /\ own' = 0 /\ left' = left + own
    ELSE /\ running' = IF caller = "shell" THEN "hung" ELSE caller
         /\ UNCHANGED <<started, own, left>>

(* No loader, no file, no descriptor: the error is dropped.                *)
LoadFails ==
  /\ running = "loading" /\ ~chan
  /\ Resume
  /\ UNCHANGED <<caller, argVars, load, start, chan, chunk, files, value, heapVars>>

LoadOpen ==
  /\ running = "loading" /\ ~chan
  /\ Format[load.file] # "other" /\ files < MaxFiles
  /\ chan' = TRUE /\ files' = files + 1
  /\ IF Format[load.file] # "elf" /\ used < Heap
       THEN chunk' = TRUE /\ used' = used + 1
       ELSE UNCHANGED <<chunk, used>>
  /\ UNCHANGED <<runVars, argVars, load, start, started, own, left, value, leaked>>

Reading == running = "loading" /\ chan /\ load.at < Chunks /\ ~load.refused
CanRead == Reading /\ (chunk \/ Format[load.file] = "elf")

\* Mutant: PGX keeps the address of a file it refused.
ReadChunk_Address ==
  /\ CanRead
  /\ load' = [load EXCEPT !.at = @ + 1, !.refused = (load.file \in Bad)]
  /\ start' = (Format[load.file] = "pgx" \/ (load.file \notin Bad /\ load.at + 1 = Chunks))
  /\ UNCHANGED <<runVars, argVars, chan, chunk, started, fileVars, value, heapVars>>

(* The first chunk has the header, by which a bad file is refused.  PGX    *)
(* has its address from there, PGZ from the segment of size 0 at the end,  *)
(* ELF once all its segments were read.                                    *)
ReadChunk ==
  /\ CanRead
  /\ load' = [load EXCEPT !.at = @ + 1, !.refused = (load.file \in Bad)]
  /\ start' = (load.file \notin Bad /\ (Format[load.file] = "pgx" \/ load.at + 1 = Chunks))
  /\ UNCHANGED <<runVars, argVars, chan, chunk, started, fileVars, value, heapVars>>

(* chan_read fails.  PGX and PGZ end there.  ELF does not look: it goes on *)
(* with what its variables held, which a header check may still refuse.    *)
ReadFails ==
  /\ CanRead
  /\ IF Format[load.file] = "elf"
       THEN \E header \in IF load.at = 0 THEN BOOLEAN ELSE {TRUE} :
              /\ load' = [load EXCEPT !.at = @ + 1, !.intact = FALSE, !.refused = ~header]
              /\ start' = (header /\ load.at + 1 = Chunks)
       ELSE /\ load' = [load EXCEPT !.at = Chunks, !.intact = FALSE]
            /\ UNCHANGED start
  /\ UNCHANGED <<runVars, argVars, chan, chunk, started, fileVars, value, heapVars>>

\* Mutants: a refused file stays open; PGX does not free its chunk.
LoadEnds_KeepsFile ==
  /\ running = "loading" /\ chan /\ ~CanRead
  /\ chan' = FALSE /\ files' = IF load.refused THEN files ELSE files - 1
  /\ chunk' = FALSE
  /\ IF Format[load.file] = "pgz"
       THEN leaked' = leaked + (IF chunk THEN 1 ELSE 0) /\ UNCHANGED used
       ELSE used' = used - (IF chunk THEN 1 ELSE 0) /\ UNCHANGED leaked
  /\ Resume /\ UNCHANGED <<load, start>>
  /\ UNCHANGED <<caller, argVars, value>>

LoadEnds_KeepsChunk ==
  /\ running = "loading" /\ chan /\ ~CanRead
  /\ chan' = FALSE /\ files' = files - 1
  /\ chunk' = FALSE
  /\ leaked' = leaked + (IF chunk /\ Format[load.file] = "pgz" THEN 1 ELSE 0)
  /\ UNCHANGED <<load, start, used>> /\ Resume
  /\ UNCHANGED <<caller, argVars, value>>

(* The loader returns: out of memory, refused or done.  PGX frees its      *)
(* chunk, PGZ never does; fsys_load_ext closes the file.                   *)
LoadEnds ==
  /\ running = "loading" /\ chan /\ ~CanRead
  /\ chan' = FALSE /\ files' = files - 1
  /\ chunk' = FALSE
  /\ IF Format[load.file] = "pgz"
       THEN leaked' = leaked + (IF chunk THEN 1 ELSE 0) /\ UNCHANGED used
       ELSE used' = used - (IF chunk THEN 1 ELSE 0) /\ UNCHANGED leaked
  /\ Resume /\ UNCHANGED <<load, start>>
  /\ UNCHANGED <<caller, argVars, value>>

-----------------------------------------------------------------------------
(* What a running program does with files.                                 *)
OpenFile ==
  /\ running = "program" /\ files < MaxFiles
  /\ files' = files + 1 /\ own' = own + 1
  /\ UNCHANGED <<runVars, argVars, loadVars, left, value, heapVars>>

CloseFile ==
  /\ running = "program" /\ own > 0
  /\ files' = files - 1 /\ own' = own - 1
  /\ UNCHANGED <<runVars, argVars, loadVars, left, value, heapVars>>

(* proc_exit: nothing the program holds is given back.                     *)
ProcExit ==
  /\ running = "program"
  /\ running' = "restart"
  /\ own' = 0 /\ left' = left + own
  /\ UNCHANGED <<caller, argVars, loadVars, files, value, heapVars>>

(* restart_cli and cli_rerepl.                                             *)
Restart ==
  /\ running = "restart"
  /\ IF value[SHELL] \in Files
       THEN ProcRun("shell", value[SHELL], 1)
       ELSE /\ running' = "cli"
            /\ UNCHANGED <<caller, argVars, loadVars, fileVars, value, heapVars>>

-----------------------------------------------------------------------------
(* var_set.                                                                *)
Usable == running \in {"cli", "program"}

SetValue(n, v) ==
  /\ value[n] # Unset
  /\ used - (IF value[n] = NoValue THEN 0 ELSE 1) < Heap
  /\ value' = [value EXCEPT ![n] = v]
  /\ used' = used + (IF value[n] = NoValue THEN 1 ELSE 0)
  /\ UNCHANGED leaked

(* The old value is freed first: it is gone when malloc fails.             *)
SetFails(n) ==
  /\ value[n] # Unset
  /\ used' = used - (IF value[n] = NoValue THEN 0 ELSE 1)
  /\ value' = [value EXCEPT ![n] = NoValue]
  /\ UNCHANGED leaked

NewVariable(n, v) ==
  /\ value[n] = Unset /\ used + 3 <= Heap
  /\ value' = [value EXCEPT ![n] = v]
  /\ used' = used + 3
  /\ UNCHANGED leaked

(* The entry, or the entry and the name, are never freed.                  *)
NewFails(n) ==
  /\ value[n] = Unset
  /\ \E got \in 0 .. 2 :
       used + got <= Heap /\ used' = used + got /\ leaked' = leaked + got
  /\ UNCHANGED value

VarSet(n, v) ==
  /\ Usable
  /\ SetValue(n, v) \/ SetFails(n) \/ NewVariable(n, v) \/ NewFails(n)
  /\ UNCHANGED <<runVars, argVars, loadVars, fileVars>>

-----------------------------------------------------------------------------
Next ==
  \/ \E f \in Files, need \in 0 .. MaxArgs : Usable /\ ProcRun(running, f, need)
  \/ LoadFails \/ LoadOpen \/ ReadChunk \/ ReadFails \/ LoadEnds
  \/ OpenFile \/ CloseFile \/ ProcExit \/ Restart
  \/ \E n \in Names, v \in Values : VarSet(n, v)

Spec == Init /\ [][Next]_vars

-----------------------------------------------------------------------------
FilesOfLoader == IF chan THEN 1 ELSE 0
Listed == {n \in Names : value[n] # Unset}
Valued == {n \in Listed : value[n] # NoValue}

(* The entry and the name of each variable, and its value.                 *)
BlocksOfVariables == 2 * Cardinality(Listed) + Cardinality(Valued)

(* Every descriptor claimed is the running program's, the loader's, or one *)
(* an earlier program left: no path through proc_run, fsys_load and the    *)
(* loaders keeps the file it opened.                                       *)
FilesAccounted == files = own + left + FilesOfLoader

(* Every block in use is the argument buffer, the loader's chunk, part of  *)
(* a variable, or was lost by a PGZ load, by a new variable that did not   *)
(* fit or by a run without arguments.                                      *)
HeapAccounted ==
  used = (IF argBuffer = Null THEN 0 ELSE 1) + (IF chunk THEN 1 ELSE 0)
         + BlocksOfVariables + leaked

(* The argument buffer holds the arguments of every run, unless malloc     *)
(* refused a buffer before: its size is recorded all the same.             *)
ArgsHaveRoom == overrun => starved

(* A file the loader refused is never started, though proc_run never sees  *)
(* that it was refused.                                                    *)
RefusedNeverStarts == ~started.refused

-----------------------------------------------------------------------------
(* fsys_load "0 on success, negative number on error": a program is        *)
(* started only when it was read whole.                                    *)
StartedWhole == started.intact

(* proc_exit "at the moment, this relaunches the CLI".                     *)
NeverHung == running # "hung"

=============================================================================
