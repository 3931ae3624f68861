\* Two ranks, two threads on the second.
CONSTANTS
  Rank = {0, 1}
  Client = {1, 2, 3}
  At <- TwoThreads
  Plans <- CudaThreads
  SeqSpan = 16
  FirstSeq = 14
SPECIFICATION Spec
INVARIANT PutIsThreadSafe
CHECK_DEADLOCK FALSE
