SPECIFICATION Spec
CONSTANT Vbuses = 2
INVARIANTS ExclusiveUnlessMoved NothingAfterFree
CHECK_DEADLOCK FALSE
