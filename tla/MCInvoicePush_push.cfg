SPECIFICATION FairSpec
CONSTANTS
  c1 = c1
  c2 = c2
  Calls = {c1, c2}
  MaxTries = 3
CHECK_DEADLOCK FALSE
INVARIANTS
  PushTypeOK
  PostedOnce
  AnsweredIsCarried
  DoubtIsListed
PROPERTY
  PushEnds
