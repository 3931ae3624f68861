SPECIFICATION FairSpec
CONSTANTS
  r1 = r1
  r2 = r2
  r3 = r3
  c = c
  Rank = {r1, r2, r3}
  Client = {c}
  At <- Home
  NoRank = NoRank
  Path <- Direct
  Plans <- AllPlans
INVARIANTS TypeOK BlameInitiator NoWaitLeft GracefulExit
PROPERTIES CloseEnds EveryoneWakes
CHECK_DEADLOCK FALSE
