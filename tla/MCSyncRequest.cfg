SPECIFICATION FairSpec
CONSTANTS
  Caller <- MCCaller
  NVbus = 2
  MaxLate = 1
INVARIANTS NoLostWakeup NoDanglingRequest
PROPERTIES ResetOnlyAfterTimeout EveryCallReturns ImplementsIoctlCall
