SPECIFICATION ReuseSpec
CONSTANTS
  MaxNodes = 7
  MaxItems = 3
  MaxSize = 3
  CapTables <- CapsByPosition
INVARIANTS
  SlotsSound
  ReuseIsBestFit
