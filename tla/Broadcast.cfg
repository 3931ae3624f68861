SPECIFICATION FairSpec
CONSTANTS
  Rank = {0, 1, 2, 3}
  worldSize = 4
  edges <- Ring
  firsthop <- RingFirsthop
  Distance <- RingDistance
  MaxCast <- RingCast
  CastA = 2
  CastB = 1
INVARIANTS TypeOK OncePerRank TtlLeft
PROPERTY ReachesAll
CHECK_DEADLOCK FALSE
