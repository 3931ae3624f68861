SPECIFICATION FairSpec
CONSTANTS
  r1 = r1
  r2 = r2
  c1 = c1
  c2 = c2
  k1 = k1
  k2 = k2
  Rank = {r1, r2}
  Client = {c1, c2}
  Key = {k1, k2}
  Value = {v1, v2}
  NoValue = NoValue
  NoAnswer = NoAnswer
  At <- Home
  Owner <- Keeper
  KeyLists <- BothKeys
  MaxOps <- Bound
INVARIANTS NoLostWakeup AllKeysThere
PROPERTIES AtomicOperations WaitersReturn
CHECK_DEADLOCK FALSE
