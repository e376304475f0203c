\* A venue that serves two accounts, is stopped, and replays its journal.
CONSTANTS
  a1 = a1  a2 = a2  o1 = o1  o2 = o2  o3 = o3
  NoAccount = NoAccount  NoOrder = NoOrder
  NoConnection = NoConnection  NoMessage = NoMessage  NotSaved = NotSaved
  OrderIds = {o1, o2, o3}  Targets = {o1, o2}
  Accounts <- MCAccounts  Connections = {a1, a2}  Account <- MCAccount
  NewOrders <- MCOrders
  PriceInputs = {2}
  QuantityInputs = {1}
  Policies = {"CancelIncoming", "DecrementBoth"}
  MinPrice = 1  MaxPrice = 2  TickSize = 1  MinQuantity = 1  LotSize = 1
  MaxSequence = 3
  Configured = {a1, a2}
  MaxOrderQuantity = 3  MaxOrderNotional = 99
  MaxOpenOrders = 2  MaxPosition = 2
  CollarBps = 4000  AutoTrip = 2
  HaltInputs = {a1}  VenueHalts = FALSE  JournalMayFail = TRUE
  Depths = {0, 1}
SPECIFICATION MCFairSpec
INVARIANTS FeedShowsTheBook RepliesCoverTheBook
  RepliesAreRebuilt ReplayRebuildsTheBook RunTripsHalt
PROPERTIES TradesWereOnOffer EngineCompletes
