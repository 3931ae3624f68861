SPECIFICATION FairSpec
CONSTANTS
  Conn = {c1, c2}
  SeqMod = 8
  Initiators = {0}
  MaxSend <- SendBound
  SendA = 2
  SendB = 0
  MaxFaults = 1
  MayClose = {0, 1}
PROPERTIES ReliableFifo Delivery Released ClosedIsNoticed
CHECK_DEADLOCK FALSE
