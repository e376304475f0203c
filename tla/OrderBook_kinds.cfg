\* Every kind of order and amendment, self-trading allowed.
CONSTANTS
  a1 = a1  a2 = a2  o1 = o1  o2 = o2  o3 = o3
  NoAccount = NoAccount  NoOrder = NoOrder
  OrderIds = {o1, o2, o3}
  Accounts <- MCAccounts
  NewOrders <- AllKinds
  PriceInputs <- MCPriceInputs
  QuantityInputs = {0, 1, 2, 3}
  Policies = {"Allow"}
  MinPrice = 1  MaxPrice = 4  TickSize = 2  MinQuantity = 1  LotSize = 1
  MaxSequence = 4
SPECIFICATION MCSpec
SYMMETRY IdSymmetry
INVARIANTS NeverCrossed IndexMatchesLevels ArrivalOrder
