SPECIFICATION FairSpec
CONSTANTS
  Task <- MCTask
  Irq <- MCIrq
  Queuer <- MCQueuer
  Resetter <- MCResetter
  Worker <- MCWorker
  NoTask <- MCNoTask
  NoThread <- MCNoThread
INVARIANTS ListsWellFormed NoStrandedTask
PROPERTIES ImplementsFifo EveryTaskRuns
