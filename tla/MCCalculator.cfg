SPECIFICATION Spec
CONSTANT Sessions <- MCSessions
INVARIANT LinePrintsValues
CHECK_DEADLOCK FALSE
