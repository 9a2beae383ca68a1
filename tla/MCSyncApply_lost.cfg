SPECIFICATION Spec
CONSTANTS
  l1 = l1
  l2 = l2
  l3 = l3
  x1 = x1
  x2 = x2
  Laptops = {l1,l2,l3}
  Newcomers = {}
  Staffed = {l1,l2,l3}
  Seed <- NoSeed
  Ids = {1,2}
  Lots = {x1,x2}
  PageSize = 3
  MaxEdits = 4
  MaxFailures = 0
INVARIANTS LotsKept
SYMMETRY Swap
