--------------------------- MODULE MCDiskTransfer ---------------------------
(* Two sectors; disk_write steps over the end of the medium after one.     *)
EXTENDS DiskTransfer, TLC

CONSTANTS c1, a, b

MCLba   == 0 .. 1
MCLba3  == 0 .. 2
MCMedia == {Disk, c1}
MCData  == {a, b}
AnyData == Permutations(MCData)
MCCards == {c1}
=============================================================================
