SPECIFICATION Spec
CONSTANT Vbuses = 1
INVARIANT MutualExclusion
CHECK_DEADLOCK FALSE
