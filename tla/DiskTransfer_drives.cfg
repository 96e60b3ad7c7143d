SPECIFICATION Spec
CONSTANTS
  Disk = Disk
  c1 = c1
  NoCard = NoCard
  Media <- MCMedia
  Cards <- MCCards
  Lba <- MCLba
  Volume <- MCLba3
  Data <- MCData
  a = a
  b = b
  MaxCount = 1
  SectorSize = 2
SYMMETRY AnyData
INVARIANT WritesStand
INVARIANT ReadIsAsked
INVARIANT SingleSectors
INVARIANT FlaggedIsInitialised
