\* Self-trade prevention: two accounts and none, the four active policies.
CONSTANTS
  a1 = a1  a2 = a2  o1 = o1  o2 = o2  o3 = o3
  NoAccount = NoAccount  NoOrder = NoOrder
  OrderIds = {o1, o2, o3}
  Accounts <- MCAccounts
  NewOrders <- TwoAccounts
  PriceInputs <- MCPriceInputs
  QuantityInputs = {1, 2}
  Policies <- MCPreventions
  MinPrice = 1  MaxPrice = 4  TickSize = 2  MinQuantity = 1  LotSize = 1
  MaxSequence = 4
SPECIFICATION MCSpec
SYMMETRY AccountSymmetry
INVARIANTS FilledMatchesFillStream LossesAccounted FillOrKillAllOrNothing
PROPERTY PriceTimePriority
