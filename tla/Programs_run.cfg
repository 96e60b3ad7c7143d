SPECIFICATION Spec
CONSTANTS
  empty = empty
  shell = shell
  Empty = empty
  SHELL = shell
  pgx = pgx
  broken = broken
  pgz = pgz
  elf = elf
  text = text
  NoValue = NoValue
  Unset = Unset
  Files <- MCFiles
  Format <- MCFormat
  Bad <- MCBad
  Names <- MCNames
  Values <- MCValues
  MaxFiles = 2
  MaxArgs = 2
  Chunks = 2
  Heap = 6
CHECK_DEADLOCK FALSE
INVARIANT FilesAccounted
INVARIANT HeapAccounted
INVARIANT ArgsHaveRoom
INVARIANT RefusedNeverStarts
