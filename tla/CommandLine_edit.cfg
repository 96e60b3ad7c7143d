SPECIFICATION CliSpec
CONSTANTS
  MaxW = 6
  MaxH = 1
  VisW = 6
  VisH = 1
  TabStop = 8
  Letter = {"a", "b", ">"}
  By = {}
  At = {}
  MaxLine = 3
  Depth = 2
  MaxLines = 2
INVARIANT HistoryNewestFirst
INVARIANT KeysUnderstood
PROPERTY ShownAsHeld
