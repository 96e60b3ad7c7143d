------------------------------- MODULE MCFsys -------------------------------
(* Small instances of the tables of fsys.c for TLC: the file descriptors   *)
(* with the channel table, and the directory handles.  The two share no    *)
(* state; a behaviour is of one of them.                                   *)
EXTENDS FileChannels, DirHandles, TLC

CONSTANTS f1, f2, d1, d2, d3, d4

VARIABLE part

MCFile       == {f1, f2}
MCDirs       == {d1, d2, d3, d4}
MCSymmetry   == Permutations(MCFile) \cup Permutations(MCDirs)
MCSole       == {1}
MCNoDevice   == {}

FsysInit == part \in {"files", "directories"} /\ Init /\ DirInit

FsysNext ==
  /\ UNCHANGED part
  /\ \/ part = "files" /\ Next /\ UNCHANGED dirVars
     \/ part = "directories" /\ DirNext /\ UNCHANGED vars

FsysSpec == FsysInit /\ [][FsysNext]_<<part, vars, dirVars>>
=============================================================================
