SPECIFICATION Spec
CONSTANTS
  RM = RM
  KY = KY
  po1 = po1
  so1 = so1
  so2 = so2
  NoPo = NoPo
  Locations = {RM, KY}
  Shops = {KY}
  Dock = RM
  Pos = {po1}
  Sales = {so1, so2}
  Carts <- MCCarts
  MaxLots = 3
  MaxQty = 2
  MaxUnits = 3
SYMMETRY MCSymmetry
CHECK_DEADLOCK FALSE
INVARIANTS
  StockTypeOK
  ReleaseNeverRefused
  SlicesStayOnShelf
  LayersMatchStock
  ReceiptsAddUp
PROPERTIES
  AsIfNeverWritten
  SavedAgainIsTheSame
  OldestFirst
  ShelvesSpec
