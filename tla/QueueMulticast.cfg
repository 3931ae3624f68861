\* A transaction on a queue with three locations.
CONSTANTS
  Rank = {0, 1, 2}
  Client = {1, 2, 3}
  At <- OneEach
  Plans <- OnlyMulticast
  SeqSpan = 16
  FirstSeq = 14
SPECIFICATION Spec
INVARIANT VisibleTogether
CHECK_DEADLOCK FALSE
