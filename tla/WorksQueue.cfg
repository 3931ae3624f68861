SPECIFICATION Spec
CONSTANT Plans <- Construction
INVARIANT NeverStuck
CHECK_DEADLOCK FALSE
