SPECIFICATION Spec
CONSTANTS
  Task <- MCTask
  Irq <- MCIrq
  Queuer <- MCQueuer
  Resetter <- MCResetter
  Worker <- MCWorker
  NoTask <- MCNoTask
  NoThread <- MCNoThread
INVARIANT DisabledWorkerNotCalled
