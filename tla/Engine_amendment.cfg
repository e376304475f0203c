\* A post-only order amended to a crossing price leaves the book.
CONSTANTS
  a1 = a1  a2 = a2  o1 = o1  o2 = o2  o3 = o3
  NoAccount = NoAccount  NoOrder = NoOrder
  OrderIds = {o1, o2, o3}
  Accounts <- MCAccounts
  NewOrders <- Posted
  PriceInputs <- MCPrices
  QuantityInputs = {1, 2}
  Policies = {"Allow", "DecrementBoth"}
  MinPrice = 1  MaxPrice = 2  TickSize = 1  MinQuantity = 1  LotSize = 1
  MaxSequence = 4
  Configured = {a1, a2}
  MaxOrderQuantity = 9  MaxOrderNotional = 99
  MaxOpenOrders = 2  MaxPosition = 9
  CollarBps = 0  AutoTrip = 0
  HaltInputs = {}  VenueHalts = FALSE  JournalMayFail = FALSE
SPECIFICATION MCSpec
SYMMETRY IdSymmetry
INVARIANT RefusedAmendmentLeavesOrder
