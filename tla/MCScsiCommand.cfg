SPECIFICATION PathSpec
CONSTANTS
  Cmd <- MCCmd
  Pool = 3
  MaxNeed = 2
  MaxRetries = 1
  Byte = 4
  Capacities <- MCCapacities
  Shifts = {0, 1, 2}
  Blocks <- MCBlocks
  MaxSectors = 12
  Inputs <- MCInputs
  Limit = 6
  Boundaries <- MCBoundaries
INVARIANTS Accounted NothingLeaks DmaOnlyMapped
  SdKnowsTheDisk CarriesTheRequest ModePagesFillTheLength VpdListIsTrue
  SameBytes EotAtEnd Transferable
PROPERTY EveryCommandFinishes
