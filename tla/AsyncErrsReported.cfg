SPECIFICATION Spec
CONSTANT Num = 2
INVARIANT ErrorsReported
CHECK_DEADLOCK FALSE
