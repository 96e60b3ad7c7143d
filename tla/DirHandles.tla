----------------------------- MODULE DirHandles -----------------------------
(***************************************************************************)
(* Directory handles of src/dev/fsys.c: g_dir_state and g_directory, and   *)
(* the calls that scan a directory: opendir/readdir/closedir and           *)
(* findfirst/findnext.                                                     *)
(*                                                                         *)
(* A caller scans each directory with at most one handle at a time and     *)
(* closes only handles it was given; "view" is what it was given.          *)
(***************************************************************************)
EXTENDS Integers

CONSTANTS
  NumDirs,   \* MAX_DIRECTORIES
  Dirs,      \* the directories of the disk
  NoDir      \* a FatFs directory object that is not open

ASSUME DirAssumption ==
  /\ NumDirs \in Nat \ {0}
  /\ NoDir \notin Dirs

Handle == 0 .. (NumDirs - 1)
NoHandle == -1
DirResults == {"OK", "OUT_OF_HANDLES", "FS_ERROR", "BAD_HANDLE"}

VARIABLES
  dirState,  \* g_dir_state[h]: 1 while the handle is claimed
  dirObj,    \* g_directory[h]: the directory the FatFs object is open on
  view,      \* history: the handle a caller scans each directory with
  dirResult  \* what the last call returned

dirVars == <<dirState, dirObj, view, dirResult>>

-----------------------------------------------------------------------------

\* Mutant: the scan does not test g_dir_state.
FreeHandles_Untested == Handle

FreeHandles == {h \in Handle : dirState[h] = 0}

FirstHandle(S) == {i \in S : \A j \in S : i <= j}

DirInit ==
  /\ dirState  = [h \in Handle |-> 0]
  /\ dirObj    = [h \in Handle |-> NoDir]
  /\ view      = [p \in Dirs |-> NoHandle]
  /\ dirResult = "OK"

(* The FatFs object of a claimed handle is opened on p.                    *)
ScanOpened(h, p) ==
  /\ dirObj' = [dirObj EXCEPT ![h] = p]
  /\ view' = [view EXCEPT ![p] = h]
  /\ dirResult' = "OK"

(* f_opendir or f_findfirst fails: an error is returned, the handle stays  *)
(* claimed.                                                                *)
ScanFailed(h) ==
  /\ dirObj' = [dirObj EXCEPT ![h] = NoDir]
  /\ dirResult' = "FS_ERROR"
  /\ UNCHANGED view

OpendirFull(p) ==
  /\ FreeHandles = {}
  /\ dirResult' = "OUT_OF_HANDLES"
  /\ UNCHANGED <<dirState, dirObj, view>>

(* The first free handle is claimed, then FatFs is asked.                  *)
ClaimHandle(p) ==
  \E h \in FirstHandle(FreeHandles) :
    /\ dirState' = [dirState EXCEPT ![h] = 1]
    /\ ScanOpened(h, p) \/ ScanFailed(h)

FsysOpendir(p) == OpendirFull(p) \/ ClaimHandle(p)

(* fsys_findfirst starts its search from handle 0, not from "none": with   *)
(* no free handle it claims nothing and goes on with handle 0.             *)
FindfirstFull(p) ==
  /\ FreeHandles = {}
  /\ ScanOpened(0, p) \/ ScanFailed(0)
  /\ UNCHANGED dirState

FsysFindfirst(p) == FindfirstFull(p) \/ ClaimHandle(p)

(* fsys_readdir and fsys_findnext: FatFs refuses an object that is not     *)
(* open, and a read may fail.                                              *)
FsysReaddir(h) ==
  /\ dirResult' \in IF dirState[h] = 0 THEN {"BAD_HANDLE"}
                 ELSE IF dirObj[h] = NoDir THEN {"FS_ERROR"}
                 ELSE {"OK", "FS_ERROR"}
  /\ UNCHANGED <<dirState, dirObj, view>>

\* Mutant: closedir does not release the handle.
CloseHandle_KeepsState(h) ==
  /\ dirObj' = [dirObj EXCEPT ![h] = NoDir]
  /\ UNCHANGED dirState

CloseHandle(h) ==
  IF dirState[h] = 1
  THEN /\ dirState' = [dirState EXCEPT ![h] = 0]
       /\ dirObj'   = [dirObj EXCEPT ![h] = NoDir]
  ELSE UNCHANGED <<dirState, dirObj>>

FsysClosedir(p) ==
  /\ CloseHandle(view[p])
  /\ view'   = [view EXCEPT ![p] = NoHandle]
  /\ dirResult' = "OK"

Scanned == {p \in Dirs : view[p] # NoHandle}

DirNext ==
  \/ \E p \in Dirs \ Scanned : FsysOpendir(p) \/ FsysFindfirst(p)
  \/ \E p \in Scanned : FsysReaddir(view[p]) \/ FsysClosedir(p)

DirSpec == DirInit /\ [][DirNext]_dirVars

-----------------------------------------------------------------------------
DirTypeOK ==
  /\ dirState  \in [Handle -> {0, 1}]
  /\ dirObj    \in [Handle -> Dirs \cup {NoDir}]
  /\ view      \in [Dirs -> Handle \cup {NoHandle}]
  /\ dirResult \in DirResults

Leaked == {h \in Handle : dirState[h] = 1 /\ \A p \in Dirs : view[p] # h}

(* A caller's handle is claimed and open on the caller's directory.        *)
HandleRight(p) == dirState[view[p]] = 1 /\ dirObj[view[p]] = p

(* A handle becomes claimed without any caller only when an opendir or     *)
(* findfirst claims it and returns an error; no close, and no call on a    *)
(* shared handle, loses one.                                               *)
LeakOnlyByFailedOpen ==
  [][\A h \in Leaked' \ Leaked : dirResult' = "FS_ERROR" /\ h \in FreeHandles]_dirVars

(* A scan that is right stays right until its caller closes it, unless     *)
(* findfirst was called with every handle claimed or two callers share     *)
(* the handle already.                                                     *)
ScansUndisturbed ==
  [][\A p \in Scanned :
       HandleRight(p) /\ view'[p] = view[p] /\ ~HandleRight(p)' =>
         FreeHandles = {} \/ \E q \in Scanned \ {p} : view[q] = view[p]]_dirVars

-----------------------------------------------------------------------------
(* What the comments of fsys.c say and the code does not do.               *)

(* fsys_opendir: an error number if there was a problem, "otherwise,       *)
(* allocate and return the handle": a failed call keeps no handle.         *)
NoHandleLeaked == Leaked = {}

(* fsys_findfirst: a handle to use for subsequent calls, or an error: the  *)
(* handle of one scan is never given to another.                           *)
HandlesNotShared ==
  \A p, q \in Scanned : view[p] = view[q] => p = q

=============================================================================
