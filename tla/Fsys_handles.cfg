SPECIFICATION FsysSpec
CONSTANTS
  FileDev = 2
  NumChannels = 4
  NumFiles = 2
  Registered <- MCSole
  Consoles <- MCNoDevice
  Fallible <- MCSole
  DriverData = DriverData
  f1 = f1
  f2 = f2
  File <- MCFile
  NoFile = NoFile
  DiskMayFail = TRUE
  NumDirs = 3
  d1 = d1
  d2 = d2
  d3 = d3
  d4 = d4
  Dirs <- MCDirs
  NoDir = NoDir
SYMMETRY MCSymmetry
INVARIANT DescriptorsOwned
INVARIANT PoolAccounted
PROPERTY OrphansOnlyByReopen
PROPERTY CommitOnClose
PROPERTY ImplementsDescriptorTable
PROPERTY LeakOnlyByFailedOpen
PROPERTY ScansUndisturbed
