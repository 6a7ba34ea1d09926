CONSTANT MaxConn = 3
SPECIFICATION Spec
INVARIANT LossBounded
CHECK_DEADLOCK FALSE
