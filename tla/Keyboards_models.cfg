SPECIFICATION KbSpec
CONSTANTS
  Size = 3
  MaxPuts = 6
  Keys <- MCKeys
  Packets <- MCPackets
  Key <- MoKeys
  Modifier <- MoModifiers
  ModOf <- MoModOf
  BreakKeys <- MoBreakKeys
  Length <- MoLength
  ScSize = 3
  MaxPresses = 3
  shiftL = shiftL
  shiftR = shiftR
  ctrl = ctrl
  letter = letter
  func = func
  Chan = {"a", "b"}
  Char = {"esc", "[", "1", "m", "q"}
  Written = {"a"}
  BufSize = 4
  MaxOut = 4
  MaxKeys = 2
INVARIANT OutputHandled
INVARIANT KeysOnce
INVARIANT BackInStep
INVARIANT NoPhantomModifier
INVARIANT PacketsShown
INVARIANT FetchedIsOldest
INVARIANT KeysInOrder
INVARIANT BreakFlagged
PROPERTY ImplementsWordQueue
