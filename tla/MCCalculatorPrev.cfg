SPECIFICATION Spec
CONSTANT Sessions <- MCSessions
INVARIANT PrevIsCopied
CHECK_DEADLOCK FALSE
