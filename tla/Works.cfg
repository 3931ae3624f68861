SPECIFICATION Spec
CONSTANT Plans <- Programs
INVARIANTS ChecksPass ControlIntact BuffersAlive ResultComplete NobodyLeavesEarly HeadsRun NeverStuck
CHECK_DEADLOCK FALSE
