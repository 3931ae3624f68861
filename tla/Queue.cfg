\* Three ranks; sequence numbers wrap after two messages.
CONSTANTS
  Rank = {0, 1, 2}
  Client = {1, 2, 3}
  At <- OneEach
  Plans <- AllPlans
  SeqSpan = 16
  FirstSeq = 14
SPECIFICATION Spec
INVARIANTS ChecksPass FifoPerSender AllOrNothing CopiesAgree Conserved SourceAlive ResultAlive
PROPERTY EverythingEnds
CHECK_DEADLOCK FALSE
