SPECIFICATION MCSpec
CONSTANTS
  Block <- MCBlock
  Group <- MCGroup
  Reserved = 4
  MaxPerRequest = 3
  N = 2
  Transforming = {2}
  MaxLate = 2
INVARIANTS HeadBehindCount ReservationHonoured OneOwner QuietFreeLeaksNothing
  FreedOnlyWhenDone FlushedOrRetried
PROPERTY AllTried
