SPECIFICATION Spec
CONSTANTS
  l1 = l1
  l2 = l2
  l3 = l3
  x1 = x1
  x2 = x2
  Laptops = {l1,l2,l3}
  Newcomers = {l1,l3}
  Staffed = {l1,l2}
  Seed <- SeedsOfNewcomers
  Ids = {1,2,3,4}
  Lots = {x1}
  PageSize = 2
  MaxEdits = 2
  MaxFailures = 2
INVARIANTS ApplyTypeOK SurvivorOrSeed DeadHaveHeirs EchoEnds
PROPERTIES NoneLeftAside
