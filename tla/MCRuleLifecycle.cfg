SPECIFICATION Spec
CONSTANTS
    Generated <- MCGenerated
    Heap <- MCHeap
    Classes <- MCClasses
INVARIANTS
    CompiledIsHeld
    DispatchAsConstructed
PROPERTY PatternsAreFreed
CHECK_DEADLOCK FALSE
