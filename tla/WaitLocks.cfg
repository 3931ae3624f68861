SPECIFICATION FairSpec
CONSTANT Client = {c1, c2}
PROPERTY ExitWakesWaits
CHECK_DEADLOCK FALSE
