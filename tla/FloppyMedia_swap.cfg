SPECIFICATION MediaSpec
CONSTANTS
  Disk = {d1, d2}
  File = {f1, f2}
  MayFail = TRUE
  MaxSwaps = 4
  d1 = d1
  d2 = d2
  f1 = f1
  f2 = f2
INVARIANT ChangeNoticed
INVARIANT FilesOfMounted
INVARIANT PathCallsRight
