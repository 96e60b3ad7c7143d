SPECIFICATION Spec
CONSTANTS
  Disk = Disk
  c1 = c1
  NoCard = NoCard
  Media <- MCMedia
  Cards <- MCCards
  Lba <- MCLba3
  Volume <- MCLba
  Data <- MCData
  a = a
  b = b
  MaxCount = 2
  SectorSize = 2
SYMMETRY AnyData
INVARIANT WriteLands
