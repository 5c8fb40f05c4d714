SPECIFICATION ManagementSpec
CONSTANTS
  MaxPiece = 4
  MaxText = 9
  Length = 3
  Physical <- MCPhysical
  Members <- MCMembers
  Target <- MCTarget
  Logical <- MCLogical
  Here <- MCHere
  Controllers <- MCControllers
  Vdevs <- MCVdevs
  Running <- MCRunning
  StopIds = 3
  Header = 16
  Data = 512
  MaxCalls = 2
  MaxVanish = 1
INVARIANTS ReadsTextInOrder NothingLeftOver AreasInBuffer ListsTheForest
PROPERTY ReachesEof
CHECK_DEADLOCK FALSE
