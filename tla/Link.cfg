SPECIFICATION Spec
CONSTANTS
  Conn = {c1, c2}
  SeqMod = 6
  Initiators = {0, 1}
  MaxSend <- SendBound
  SendA = 7
  SendB = 1
  MaxFaults = 1
  MayClose = {}
INVARIANTS TypeOK InOrderOnce NothingForgotten AckOnAdopted
CHECK_DEADLOCK FALSE
