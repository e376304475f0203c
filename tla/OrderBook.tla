----------------------------- MODULE OrderBook -----------------------------
(***************************************************************************)
(* The price-time priority limit order book of one instrument              *)
(* (src/src/core/order_book.cpp).                                          *)
(*                                                                         *)
(* The book is driven from a single thread: a command runs to completion   *)
(* before the next one starts.  A command is modelled as a run of small    *)
(* steps, one per iteration of the matching loop, and pc says how far the  *)
(* command has come; every other command waits for pc = "idle".            *)
(*                                                                         *)
(*   idle -Submit-> insert -Insert-> match -loop-> match -Settle-> return  *)
(*   idle -Replace-> insert (re-queued) or return (in place, cancelled)    *)
(*   idle -Cancel-> return             return -Return-> idle               *)
(***************************************************************************)
EXTENDS Integers, Sequences, FiniteSetsExt

CONSTANTS
  OrderIds,        \* client order ids
  Accounts,        \* account ids, NoAccount possibly among them
  NoAccount,       \* AccountId{}: the id for which valid() is false
  NewOrders,       \* the new-order commands clients may send
  PriceInputs,     \* prices an amendment may ask for, valid or not
  QuantityInputs,  \* total quantities an amendment may ask for, valid or not
  Policies,        \* the self-trade policies the instrument may be set up with
  MinPrice,        \* Instrument::min_price
  MaxPrice,        \* Instrument::max_price
  TickSize,        \* Instrument::tick_size
  MinQuantity,     \* Instrument::min_quantity
  LotSize,         \* Instrument::lot_size
  MaxSequence,     \* bound: commands numbered in one behaviour
  NoOrder          \* stands for "no order is being processed"

Sides        == {"Buy", "Sell"}
OrderTypes   == {"Limit", "Market"}
TimesInForce == {"Day", "ImmediateOrCancel", "FillOrKill", "GoodTilCancelled"}
AllPolicies  == {"Allow", "CancelIncoming", "CancelResting", "CancelBoth",
                 "DecrementBoth"}

\* A new-order command as it arrives, before the engine numbers it.
NewOrderType ==
  [id : OrderIds, account : Accounts, side : Sides, type : OrderTypes,
   tif : TimesInForce, price : Int, quantity : Nat, post_only : BOOLEAN]

\* An order inside the book.
OrderType ==
  [id : OrderIds, account : Accounts, side : Sides, type : OrderTypes,
   tif : TimesInForce, price : Int, quantity : Nat, post_only : BOOLEAN,
   remaining : Nat, sequence : Nat]

ASSUME BookAssumption ==
  /\ NewOrders \subseteq NewOrderType
  /\ PriceInputs \subseteq Int
  /\ QuantityInputs \subseteq Nat
  /\ Policies \subseteq AllPolicies
  /\ MinPrice \in Int /\ MaxPrice \in Int
  /\ TickSize \in Nat \ {0} /\ LotSize \in Nat \ {0}
  /\ MinQuantity \in Nat
  /\ MaxSequence \in Nat
  /\ NoOrder \notin OrderType

VARIABLES
  policy,       \* instrument_.self_trade_policy: set up once, never changed
  orders,       \* index_ and pool_: live order id -> the order
  queue,        \* side -> price -> FIFO of the ids resting there (PriceLevel)
  total,        \* side -> price -> PriceLevel::total_quantity_, a cached sum
  occupied,     \* side -> prices at which the ladder holds a level
  sequence,     \* the sequence number given to the last command
  pc,           \* how far the current command has come
  incoming,     \* the order being inserted, or NoOrder
  requested,    \* what insert() was asked to trade
  fills,        \* fills of the current command
  withdrawals,  \* resting quantity withdrawn by prevention in this command
  result,       \* what the current command will report
  filledBy,     \* history: what the fill stream says each order has traded
  before        \* history: the live orders when the current command started

bookVars == <<orders, queue, total, occupied>>
callVars == <<pc, incoming, requested, fills, withdrawals, result>>
history  == <<filledBy, before>>
vars     == <<policy, bookVars, sequence, callVars, history>>

NoResult == [reject |-> "None", filled |-> 0, stp_cancelled |-> 0,
             rested |-> FALSE, priority_retained |-> FALSE]

-----------------------------------------------------------------------------
(* Prices, sides and the conditions the commands are checked against.      *)

opposite(s) == IF s = "Buy" THEN "Sell" ELSE "Buy"

Lesser(a, b) == IF a <= b THEN a ELSE b

is_valid_price(p) ==
  p > 0 /\ p % TickSize = 0 /\ p >= MinPrice /\ p <= MaxPrice

is_valid_quantity(q) == q >= MinQuantity /\ q % LotSize = 0

\* The ticks of the instrument's band: the prices a level can exist at.
Prices == {p \in MinPrice .. MaxPrice : is_valid_price(p)}

filled(o) == o.quantity - o.remaining

\* levels.begin(): bids descend and asks ascend.
Best(s) == IF s = "Buy" THEN Max(occupied[s]) ELSE Min(occupied[s])

crosses_strictly(o, p) ==
  o.type = "Market" \/ IF o.side = "Buy" THEN o.price > p ELSE o.price < p

\* The predicate insert() hands to the matching loop.
crosses(o, p) ==
  o.type = "Market" \/ IF o.side = "Buy" THEN o.price >= p ELSE o.price <= p

would_cross(o) ==
  LET contra == opposite(o.side)
  IN  \/ o.type = "Market"
      \/ occupied[contra] # {} /\ crosses(o, Best(contra))

prevention_active(o) == policy # "Allow" /\ o.account # NoAccount

-----------------------------------------------------------------------------
(* fillable(): what a fill-or-kill would really trade.                     *)

\* The contra prices an order accepts.
Reachable(o) == {p \in occupied[opposite(o.side)] : crosses(o, p)}

\* One order of the walk that simulates the matching loop.
FillableStep(o, walk, id) ==
  LET traded == Lesser(walk.unallocated, orders[id].remaining)
      left   == walk.unallocated - traded
  IN  IF walk.stopped THEN walk
      ELSE IF orders[id].account # o.account
           THEN [unallocated |-> left, will_fill |-> walk.will_fill + traded,
                 stopped |-> left = 0]
      ELSE CASE policy \in {"CancelIncoming", "CancelBoth"} ->
                  [walk EXCEPT !.stopped = TRUE]
             [] policy = "CancelResting" -> walk
             [] policy = "DecrementBoth" ->
                  [walk EXCEPT !.unallocated = left, !.stopped = (left = 0)]

\* The orders of one level, front to back.
FillableLevel(o, walk, level) ==
  LET upTo[n \in 0 .. Len(level)] ==
        IF n = 0 THEN walk ELSE FillableStep(o, upTo[n - 1], level[n])
  IN  upTo[Len(level)]

\* The levels, best price first.
FillableWalk(o) ==
  LET contra   == opposite(o.side)
      worst(P) == IF contra = "Buy" THEN Min(P) ELSE Max(P)
      walked[P \in SUBSET Reachable(o)] ==
        IF P = {}
        THEN [unallocated |-> o.remaining, will_fill |-> 0, stopped |-> FALSE]
        ELSE FillableLevel(o, walked[P \ {worst(P)}], queue[contra][worst(P)])
  IN  walked[Reachable(o)]

fillable_totals(o) ==
  MapThenSumSet(LAMBDA p : total[opposite(o.side)][p], Reachable(o))

\* Without prevention the totals of the levels answer the question.
fillable(o) ==
  IF prevention_active(o)
  THEN FillableWalk(o).will_fill
  ELSE MapThenSumSet(LAMBDA p : total[opposite(o.side)][p], Reachable(o))

\* validate() and the two refusals insert() decides before it mutates.
InsertReject(o) ==
  IF ~is_valid_quantity(o.quantity) THEN "InvalidQuantity"
  ELSE IF o.type = "Limit" /\ ~is_valid_price(o.price) THEN "InvalidPrice"
  ELSE IF o.id \in DOMAIN orders THEN "DuplicateOrderId"
  ELSE IF o.post_only /\ would_cross(o) THEN "PostOnlyWouldCross"
  ELSE IF o.tif = "FillOrKill" /\ fillable(o) < o.remaining
       THEN "FillOrKillUnfillable"
  ELSE "None"

-----------------------------------------------------------------------------
(* What happens to a level and to the orders on it.                        *)

unlink_front(q, id) == Tail(q)

\* PriceLevel::unlink, for the queue: the node comes out wherever it stands.
unlink(q, id) ==
  LET at == CHOOSE i \in DOMAIN q : q[i] = id
  IN  SubSeq(q, 1, at - 1) \o SubSeq(q, at + 1, Len(q))

\* PriceLevel::reduce, and the same subtraction in unlink.
reduce(side, price, qty) ==
  total' = [total EXCEPT ![side][price] = @ - qty]

\* The live order id loses qty of its remaining quantity, and withdrawn of
\* its original quantity; an order left with nothing is dropped from its
\* level, the index and the pool, and a level left empty from the ladder.
TakeFrom(id, qty, withdrawn) ==
  LET o    == orders[id]
      left == o.remaining - qty
      kept == unlink(queue[o.side][o.price], id)
  IN  /\ reduce(o.side, o.price, qty)
      /\ IF left > 0
         THEN /\ orders' = [orders EXCEPT ![id].remaining = left,
                                          ![id].quantity = @ - withdrawn]
              /\ UNCHANGED <<queue, occupied>>
         ELSE /\ orders' = [i \in DOMAIN orders \ {id} |-> orders[i]]
              /\ queue' = [queue EXCEPT ![o.side][o.price] = kept]
              /\ occupied' = IF kept = << >>
                             THEN [occupied EXCEPT ![o.side] = @ \ {o.price}]
                             ELSE occupied

rest_in_front(o) ==
  /\ orders' = [i \in DOMAIN orders \cup {o.id} |->
                  IF i = o.id THEN o ELSE orders[i]]
  /\ queue' = [queue EXCEPT ![o.side][o.price] = <<o.id>> \o @]
  /\ total' = [total EXCEPT ![o.side][o.price] = @ + o.remaining]
  /\ occupied' = [occupied EXCEPT ![o.side] = @ \cup {o.price}]

\* OrderBook::rest: the order goes to the tail of its level.
rest(o) ==
  /\ orders' = [i \in DOMAIN orders \cup {o.id} |->
                  IF i = o.id THEN o ELSE orders[i]]
  /\ queue' = [queue EXCEPT ![o.side][o.price] = Append(@, o.id)]
  /\ total' = [total EXCEPT ![o.side][o.price] = @ + o.remaining]
  /\ occupied' = [occupied EXCEPT ![o.side] = @ \cup {o.price}]

-----------------------------------------------------------------------------
(* The commands.                                                           *)

Init ==
  /\ policy \in Policies
  /\ orders = [i \in {} |-> NoOrder]
  /\ queue = [s \in Sides |-> [p \in Prices |-> << >>]]
  /\ total = [s \in Sides |-> [p \in Prices |-> 0]]
  /\ occupied = [s \in Sides |-> {}]
  /\ sequence = 0
  /\ pc = "idle"
  /\ incoming = NoOrder
  /\ requested = 0
  /\ fills = << >>
  /\ withdrawals = << >>
  /\ result = NoResult
  /\ filledBy = [i \in OrderIds |-> 0]
  /\ before = orders

\* A command starts when the previous one has returned, and is numbered.
Begin ==
  /\ pc = "idle"
  /\ sequence < MaxSequence
  /\ sequence' = sequence + 1
  /\ before' = orders
  /\ UNCHANGED <<policy, requested, fills, withdrawals>>

\* The command leaves its outcome for the caller.
Report(r) == pc' = "return" /\ result' = r

Refuse(reason) == Report([NoResult EXCEPT !.reject = reason])

\* submit(): a newly submitted order has traded nothing yet.
Submit(o) ==
  /\ Begin
  /\ pc' = "insert"
  /\ incoming' = [id |-> o.id, account |-> o.account, side |-> o.side,
                  type |-> o.type, tif |-> o.tif, price |-> o.price,
                  quantity |-> o.quantity, post_only |-> o.post_only,
                  remaining |-> o.quantity, sequence |-> sequence + 1]
  /\ filledBy' = IF o.id \in DOMAIN orders
                 THEN filledBy ELSE [filledBy EXCEPT ![o.id] = 0]
  /\ UNCHANGED <<bookVars, result>>

CancelUnknown(id) ==
  /\ Begin
  /\ id \notin DOMAIN orders
  /\ Refuse("UnknownOrder")
  /\ UNCHANGED <<bookVars, incoming, filledBy>>

Cancel(id) ==
  /\ Begin
  /\ id \in DOMAIN orders
  /\ TakeFrom(id, orders[id].remaining, 0)
  /\ Report(NoResult)
  /\ UNCHANGED <<incoming, filledBy>>

\* replace(): the early returns, in the order the code takes them.
ReplaceReject(id, price, quantity) ==
  IF id \notin DOMAIN orders THEN "UnknownOrder"
  ELSE IF ~is_valid_price(price) THEN "InvalidPrice"
  ELSE IF ~is_valid_quantity(quantity) THEN "InvalidQuantity"
  ELSE "None"

ReplaceRefused(id, price, quantity) ==
  /\ Begin
  /\ ReplaceReject(id, price, quantity) # "None"
  /\ Refuse(ReplaceReject(id, price, quantity))
  /\ UNCHANGED <<bookVars, incoming, filledBy>>

\* Amended down to what has traded already: the order is cancelled.
ReplaceCancels(id, price, quantity) ==
  /\ Begin
  /\ ReplaceReject(id, price, quantity) = "None"
  /\ quantity <= filled(orders[id])
  /\ TakeFrom(id, orders[id].remaining, 0)
  /\ Report(NoResult)
  /\ UNCHANGED <<incoming, filledBy>>

KeepsPriority(id, price, quantity) ==
  price = orders[id].price /\ quantity < orders[id].quantity

\* Reduced at the same price: only the size changes, not the place.
ReplaceInPlace(id, price, quantity) ==
  LET cut == orders[id].quantity - quantity
  IN  /\ Begin
      /\ ReplaceReject(id, price, quantity) = "None"
      /\ quantity > filled(orders[id])
      /\ KeepsPriority(id, price, quantity)
      /\ TakeFrom(id, cut, cut)
      /\ Report([NoResult EXCEPT !.rested = TRUE, !.priority_retained = TRUE])
      /\ UNCHANGED <<incoming, filledBy>>

\* The amended order: a fresh arrival that carries its earlier fills.
Amended(o, price, quantity) ==
  [o EXCEPT !.price = price, !.quantity = quantity,
            !.remaining = quantity - filled(o), !.sequence = sequence + 1]

\* Anything else: off the book first, then back through insert().
ReplaceRequeues(id, price, quantity) ==
  LET previous == orders[id]
  IN  /\ Begin
      /\ ReplaceReject(id, price, quantity) = "None"
      /\ quantity > filled(previous)
      /\ ~KeepsPriority(id, price, quantity)
      /\ TakeFrom(id, previous.remaining, 0)
      /\ pc' = "insert"
      /\ incoming' = Amended(previous, price, quantity)
      /\ UNCHANGED <<result, filledBy>>

Replace(id, price, quantity) ==
  \/ ReplaceRefused(id, price, quantity)
  \/ ReplaceCancels(id, price, quantity)
  \/ ReplaceInPlace(id, price, quantity)
  \/ ReplaceRequeues(id, price, quantity)

-----------------------------------------------------------------------------
(* insert(): checks, the matching loop, and what becomes of a remainder.   *)

Insert ==
  /\ pc = "insert"
  /\ IF InsertReject(incoming) # "None"
     THEN Refuse(InsertReject(incoming)) /\ UNCHANGED requested
     ELSE /\ pc' = "match"
          /\ requested' = incoming.remaining
          /\ UNCHANGED result
  /\ UNCHANGED <<policy, bookVars, sequence, incoming, fills, withdrawals,
                 history>>

\* The conditions of the two nested loops of match().
CanMatch ==
  LET contra == opposite(incoming.side)
  IN  /\ incoming.remaining > 0
      /\ occupied[contra] # {}
      /\ crosses(incoming, Best(contra))

RestingId_last ==
  LET contra == opposite(incoming.side)
      level  == queue[contra][Best(contra)]
  IN  level[Len(level)]

\* level.front() of the best contra level.
RestingId ==
  LET contra == opposite(incoming.side)
  IN  Head(queue[contra][Best(contra)])

\* The order at the front belongs to the aggressor, and the policy forbids it.
Prevented ==
  prevention_active(incoming) /\ orders[RestingId].account = incoming.account

\* One iteration of the loop.
Iterate ==
  /\ pc = "match"
  /\ CanMatch
  /\ UNCHANGED <<policy, sequence, pc, requested, before>>

record_withdrawal_silent(o, qty) == UNCHANGED withdrawals

\* record_withdrawal: qty of the resting order left the book without a trade.
record_withdrawal(o, qty) ==
  withdrawals' = Append(withdrawals,
                        [order |-> o.id, account |-> o.account,
                         side |-> o.side, quantity |-> qty,
                         fully_removed |-> qty = o.remaining])

GiveWay_ignored == UNCHANGED <<incoming, result>>

\* The incoming order gives way: all it still asked for is withdrawn.
GiveWay ==
  /\ incoming' = [incoming EXCEPT !.remaining = 0]
  /\ result' = [result EXCEPT !.stp_cancelled = @ + incoming.remaining]

Fill ==
  LET r   == orders[RestingId]
      qty == Lesser(incoming.remaining, r.remaining)
  IN  /\ Iterate
      /\ ~Prevented
      /\ incoming' = [incoming EXCEPT !.remaining = @ - qty]
      /\ TakeFrom(r.id, qty, 0)
      /\ fills' = Append(fills,
                         [price |-> r.price, quantity |-> qty,
                          aggressor_order |-> incoming.id,
                          resting_order |-> r.id,
                          aggressor_account |-> incoming.account,
                          resting_account |-> r.account,
                          aggressor_side |-> incoming.side,
                          resting_filled |-> qty = r.remaining])
      /\ filledBy' = [filledBy EXCEPT ![incoming.id] = @ + qty,
                                      ![r.id] = @ + qty]
      /\ UNCHANGED <<withdrawals, result>>

PreventCancelIncoming ==
  /\ Iterate
  /\ Prevented /\ policy = "CancelIncoming"
  /\ GiveWay
  /\ UNCHANGED <<bookVars, fills, withdrawals, filledBy>>

PreventCancelResting ==
  LET r == orders[RestingId]
  IN  /\ Iterate
      /\ Prevented /\ policy = "CancelResting"
      /\ record_withdrawal(r, r.remaining)
      /\ TakeFrom(r.id, r.remaining, 0)
      /\ UNCHANGED <<incoming, fills, result, filledBy>>

PreventCancelBoth ==
  LET r == orders[RestingId]
  IN  /\ Iterate
      /\ Prevented /\ policy = "CancelBoth"
      /\ GiveWay
      /\ record_withdrawal(r, r.remaining)
      /\ TakeFrom(r.id, r.remaining, 0)
      /\ UNCHANGED <<fills, filledBy>>

PreventDecrementBoth_remaining ==
  LET r       == orders[RestingId]
      overlap == Lesser(incoming.remaining, r.remaining)
  IN  /\ Iterate
      /\ Prevented /\ policy = "DecrementBoth"
      /\ incoming' = [incoming EXCEPT !.remaining = @ - overlap,
                                      !.quantity = @ - overlap]
      /\ TakeFrom(r.id, overlap, 0)
      /\ result' = [result EXCEPT !.stp_cancelled = @ + overlap]
      /\ record_withdrawal(r, overlap)
      /\ UNCHANGED <<fills, filledBy>>

\* Both orders shrink by the overlap, the original quantities too.
PreventDecrementBoth ==
  LET r       == orders[RestingId]
      overlap == Lesser(incoming.remaining, r.remaining)
  IN  /\ Iterate
      /\ Prevented /\ policy = "DecrementBoth"
      /\ incoming' = [incoming EXCEPT !.remaining = @ - overlap,
                                      !.quantity = @ - overlap]
      /\ TakeFrom(r.id, overlap, overlap)
      /\ result' = [result EXCEPT !.stp_cancelled = @ + overlap]
      /\ record_withdrawal(r, overlap)
      /\ UNCHANGED <<fills, filledBy>>

Expires(o) ==
  o.remaining = 0 \/ o.type = "Market" \/ o.tif = "ImmediateOrCancel"

\* What insert() reports as filled: prevention's share is not a trade.
Traded == requested - incoming.remaining - result.stp_cancelled

\* The end of insert(): a remainder expires or rests.
Settle ==
  /\ pc = "match"
  /\ ~CanMatch
  /\ Report([result EXCEPT !.filled = Traded,
                            !.rested = ~Expires(incoming)])
  /\ IF Expires(incoming) THEN UNCHANGED bookVars ELSE rest(incoming)
  /\ UNCHANGED <<policy, sequence, incoming, requested, fills, withdrawals,
                 history>>

\* The caller has read the outcome; its buffers are cleared.
Return ==
  /\ pc = "return"
  /\ pc' = "idle"
  /\ incoming' = NoOrder
  /\ requested' = 0
  /\ fills' = << >>
  /\ withdrawals' = << >>
  /\ result' = NoResult
  /\ before' = [i \in {} |-> NoOrder]
  /\ UNCHANGED <<policy, bookVars, sequence, filledBy>>

-----------------------------------------------------------------------------
\* The steps of insert(), for the command being executed.
InsertStep ==
  \/ Insert
  \/ Fill
  \/ PreventCancelIncoming
  \/ PreventCancelResting
  \/ PreventCancelBoth
  \/ PreventDecrementBoth
  \/ Settle

Step == InsertStep \/ Return

Command ==
  \/ \E o \in NewOrders : Submit(o)
  \/ \E id \in OrderIds : Cancel(id) \/ CancelUnknown(id)
  \/ \E id \in OrderIds, p \in PriceInputs, q \in QuantityInputs :
       Replace(id, p, q)

Next == Command \/ Step

Spec == Init /\ [][Next]_vars

-----------------------------------------------------------------------------
(* Properties.                                                             *)

FillType ==
  [price : Int, quantity : Nat, aggressor_order : OrderIds,
   resting_order : OrderIds, aggressor_account : Accounts,
   resting_account : Accounts, aggressor_side : Sides,
   resting_filled : BOOLEAN]

WithdrawalType ==
  [order : OrderIds, account : Accounts, side : Sides, quantity : Nat,
   fully_removed : BOOLEAN]

\* RejectReason; the last three come from the engine around the book.
Rejects ==
  {"None", "UnknownOrder", "InvalidPrice", "InvalidQuantity",
   "DuplicateOrderId", "PostOnlyWouldCross", "FillOrKillUnfillable",
   "Halted", "RiskLimit", "PriceCollar"}

ResultType ==
  [reject : Rejects, filled : Nat, stp_cancelled : Nat,
   rested : BOOLEAN, priority_retained : BOOLEAN]

\* The quantities of orders and results are unsigned in the code: TypeOK also
\* says that no subtraction made on them ever goes below zero.  The totals of
\* the levels are what the feed shows: FeedShowsTheBook of Replay covers them.
TypeOK ==
  /\ policy \in Policies
  /\ DOMAIN orders \subseteq OrderIds
  /\ orders \in [DOMAIN orders -> OrderType]
  /\ queue \in [Sides -> [Prices -> Seq(OrderIds)]]
  /\ total \in [Sides -> [Prices -> Int]]
  /\ occupied \in [Sides -> SUBSET Prices]
  /\ sequence \in Nat
  /\ pc \in {"idle", "insert", "match", "return"}
  /\ incoming \in OrderType \cup {NoOrder}
  /\ requested \in Nat
  /\ fills \in Seq(FillType)
  /\ withdrawals \in Seq(WithdrawalType)
  /\ result \in ResultType
  /\ filledBy \in [OrderIds -> Nat]
  /\ DOMAIN before \subseteq OrderIds
  /\ before \in [DOMAIN before -> OrderType]

\* The book is never crossed or locked, not even between two iterations of
\* the matching loop: every resting bid is below every resting ask.
NeverCrossed ==
  \A b \in occupied["Buy"], a \in occupied["Sell"] : b < a

\* The index, the level queues and the ladder describe the same book: a live
\* order stands exactly once, on the level of its side and price, with
\* something left to trade; a queued id is live; a level exists exactly where
\* an order rests.
IndexMatchesLevels ==
  /\ \A id \in DOMAIN orders :
       LET o == orders[id]
       IN  /\ o.id = id
           /\ o.remaining \in 1 .. o.quantity
           /\ o.price \in Prices
           /\ \E i \in DOMAIN queue[o.side][o.price] :
                queue[o.side][o.price][i] = id
  /\ \A s \in Sides : \A p \in Prices :
       /\ (p \in occupied[s]) <=> (queue[s][p] # << >>)
       /\ \A i \in DOMAIN queue[s][p] :
            /\ queue[s][p][i] \in DOMAIN orders
            /\ orders[queue[s][p][i]].side = s
            /\ orders[queue[s][p][i]].price = p
       /\ \A i, j \in DOMAIN queue[s][p] :
            queue[s][p][i] = queue[s][p][j] => i = j

\* Time priority: along a level the sequence numbers strictly increase, so the
\* front of the queue is always the order the engine accepted first.
ArrivalOrder ==
  \A s \in Sides, p \in Prices :
    \A i, j \in DOMAIN queue[s][p] :
      i < j => orders[queue[s][p][i]].sequence < orders[queue[s][p][j]].sequence

\* What a live order reports as filled is what the fill stream says it
\* traded, through partial fills, prevention and any number of amendments.
FilledMatchesFillStream ==
  \A id \in DOMAIN orders : filled(orders[id]) = filledBy[id]

\* The state of a command agrees with the book it is running on: whatever is
\* being inserted is newer than all that rests, is not on the book itself, has
\* a price it can rest at and carries exactly its earlier fills; and what it
\* still asks for, with what prevention withdrew, is within the request.
CommandConsistent ==
  /\ \A id \in DOMAIN orders : orders[id].sequence <= sequence
  /\ pc = "idle" =>
       /\ incoming = NoOrder /\ requested = 0 /\ result = NoResult
       /\ fills = << >> /\ withdrawals = << >>
  /\ pc \in {"insert", "match"} =>
       /\ incoming \in OrderType
       /\ incoming.remaining <= incoming.quantity
       /\ incoming.sequence = sequence
       /\ \A id \in DOMAIN orders : orders[id].sequence < sequence
  /\ pc = "insert" =>
       /\ fills = << >> /\ withdrawals = << >> /\ result = NoResult
       /\ incoming.id \notin DOMAIN orders =>
            filled(incoming) = filledBy[incoming.id]
  /\ pc = "match" =>
       /\ incoming.id \notin DOMAIN orders
       /\ incoming.type = "Limit" => incoming.price \in Prices
       /\ incoming.remaining > 0 => filled(incoming) = filledBy[incoming.id]
       /\ incoming.remaining + result.stp_cancelled <= requested
       /\ incoming.post_only => ~would_cross(incoming)

FilledIn(id) ==
  SumFunctionOnSet([i \in DOMAIN fills |-> fills[i].quantity],
                   {i \in DOMAIN fills : fills[i].resting_order = id})

WithdrawnIn(id) ==
  SumFunctionOnSet([i \in DOMAIN withdrawals |-> withdrawals[i].quantity],
                   {i \in DOMAIN withdrawals : withdrawals[i].order = id})

\* Every unit a resting order loses to somebody else's command is in exactly
\* one fill or one withdrawal, and the order has left the book exactly when
\* one of them says so (resting_filled, fully_removed): the caller releases
\* exposure and closes orders from these and from nothing else.
LossesAccounted ==
  incoming # NoOrder =>
    \A id \in DOMAIN before \ {incoming.id} :
      /\ before[id].remaining =
           (IF id \in DOMAIN orders THEN orders[id].remaining ELSE 0)
             + FilledIn(id) + WithdrawnIn(id)
      /\ id \notin DOMAIN orders <=>
           \/ \E i \in DOMAIN fills :
                fills[i].resting_order = id /\ fills[i].resting_filled
           \/ \E i \in DOMAIN withdrawals :
                withdrawals[i].order = id /\ withdrawals[i].fully_removed

\* A fill-or-kill trades all it asked for or nothing: the walk of fillable()
\* agrees with the matching loop under every policy (the assertion of
\* insert() that a cleared fill-or-kill did fill).
FillOrKillAllOrNothing ==
  pc = "return" /\ incoming # NoOrder /\ incoming.tif = "FillOrKill" =>
    result.filled = IF result.reject = "None" THEN requested ELSE 0

\* A post-only order never takes liquidity, on arrival or when amended.
PostOnlyNeverTakes ==
  incoming # NoOrder /\ incoming.post_only =>
    fills = << >> /\ withdrawals = << >> /\ result.stp_cancelled = 0

-----------------------------------------------------------------------------
(* The book implements the abstract book: only the index is looked at, so  *)
(* the queues, the ladder and the loop are what has to get priority right. *)

View(o) ==
  [id |-> o.id, account |-> o.account, side |-> o.side, type |-> o.type,
   price |-> o.price, remaining |-> o.remaining, sequence |-> o.sequence]

ViewType ==
  [id : OrderIds, account : Accounts, side : Sides, type : OrderTypes,
   price : Int, remaining : Nat, sequence : Nat]

ASSUME ViewAssumption == NoOrder \notin ViewType

Priority ==
  INSTANCE PriorityBook WITH
    NoTaker    <- NoOrder,
    NoOwner    <- NoAccount,
    resting    <- {View(orders[id]) : id \in DOMAIN orders},
    taker      <- IF pc = "match" THEN View(incoming) ELSE NoOrder,
    prints     <- [i \in DOMAIN fills |->
                     [maker |-> fills[i].resting_order,
                      price |-> fills[i].price,
                      quantity |-> fills[i].quantity]],
    preventing <- policy # "Allow"

\* Price-time priority: every trade is with the best resting order of the
\* other side, at its price, and an order rests or leaves only when nothing it
\* accepts is left.
PriceTimePriority == Priority!Spec

=============================================================================
