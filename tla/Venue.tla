------------------------------- MODULE Venue --------------------------------
(***************************************************************************)
(* The venue around the matching engine (src/src/venue.cpp): a message of  *)
(* a client becomes a command of the engine, what the engine tells its     *)
(* listener goes to the session the command came from, and the trades and  *)
(* the book after them go out on the market data feed.                     *)
(*                                                                         *)
(* handle() runs to completion: the connection being served is set when a  *)
(* message is taken up and cleared when the engine has returned.  The      *)
(* venue gives every account the same limits before it checks the first    *)
(* order of the account, so all accounts are Configured.                   *)
(***************************************************************************)
EXTENDS MatchingEngine

CONSTANTS
  Connections,   \* sessions at the gateway
  Account,       \* connection -> the account the gateway pinned it to
  Targets,       \* ids that cancels and amendments may name
  Depths,        \* values of VenueConfig::published_depth, 0 for the touch
  NoConnection,  \* current_connection_ = 0
  NoMessage      \* stands for "no message is being handled"

ASSUME VenueAssumption ==
  /\ Account \in [Connections -> Accounts]
  /\ Targets \subseteq OrderIds
  /\ Depths \subseteq Nat
  /\ NoConnection \notin Connections
  /\ Configured = Accounts \ {NoAccount}

VARIABLES
  published_depth,      \* set up once, never changed
  current_connection_,
  message,     \* the message handle() is working on, with its sender
  feed,        \* what the last message published: trades and the book
  believed     \* what the owner of an order was told it has left

venueVars == <<published_depth, current_connection_, message, feed, believed>>
siteVars  == <<allVars, venueVars>>

-----------------------------------------------------------------------------
(* What is published (order_book.cpp: top_of_book, depth).                 *)

\* The n best prices of a side.
Ladder(s, n) ==
  LET better(q, p) == IF s = "Buy" THEN q > p ELSE q < p
  IN  {p \in occupied[s] :
         Cardinality({q \in occupied[s] : better(q, p)}) < n}

DepthLevel(s, p) ==
  [price |-> p, quantity |-> total[s][p], order_count |-> Len(queue[s][p])]

\* Best price first in the code: a level's price says where it stands.
depth(n) == [s \in Sides |-> {DepthLevel(s, p) : p \in Ladder(s, n)}]

\* An empty side is price 0 and quantity 0.
top_of_book ==
  [s \in Sides |->
     IF occupied[s] = {} THEN [price |-> 0, quantity |-> 0]
     ELSE [price |-> Best(s), quantity |-> total[s][Best(s)]]]

market_data ==
  IF published_depth = 0 THEN top_of_book ELSE depth(published_depth)

-----------------------------------------------------------------------------
(* What the engine tells its listener when a command returns.              *)

OrderAck(type, o) ==
  [type |-> type, order |-> o.id, filled |-> filled(o),
   remaining |-> o.remaining]

Executions ==
  [i \in DOMAIN fills |-> [type |-> "Execution", fill |-> fills[i]]]

\* on_order_accepted is given the order as it was submitted.
on_submitted(o) ==
  IF result.reject # "None"
  THEN <<[type |-> "OrderRejected", order |-> o.id, reason |-> result.reject]>>
  ELSE <<[type |-> "OrderAccepted", order |-> o.id, filled |-> 0,
          remaining |-> o.quantity]>> \o Executions

on_cancelled_known(id) ==
  IF result.reject = "UnknownOrder" THEN << >>
  ELSE <<[type |-> "OrderCancelled", order |-> id]>>

\* A refused cancel tells the listener nothing, and so does a refused
\* amendment.
on_cancelled(id) ==
  IF result.reject # "None" THEN << >>
  ELSE <<OrderAck("OrderCancelled", before[id])>>

on_replaced(id) ==
  IF result.reject # "None" THEN << >>
  ELSE IF id \in DOMAIN orders
       THEN <<OrderAck("OrderReplaced", orders[id])>> \o Executions
  ELSE <<OrderAck("OrderCancelled", before[id])>> \o Executions

Events(m) ==
  CASE m.type = "NewOrder"     -> on_submitted(m.order)
    [] m.type = "CancelOrder"  -> on_cancelled(m.id)
    [] m.type = "ReplaceOrder" -> on_replaced(m.id)

-----------------------------------------------------------------------------
(* What an account can work out from its replies: the remaining quantity   *)
(* of an acknowledgement, less the executions that follow an acceptance.   *)

ExecutedFor(events, id) ==
  LET mine(i) == /\ events[i].type = "Execution"
                 /\ \/ events[i].fill.resting_order = id
                    \/ /\ events[i].fill.aggressor_order = id
                       /\ events[1].type = "OrderAccepted"
  IN  MapThenSumSet(LAMBDA i : events[i].fill.quantity,
                    {i \in DOMAIN events : mine(i)})

Acknowledged(events, id) ==
  LET ack == {i \in DOMAIN events :
                /\ events[i].type \in {"OrderAccepted", "OrderReplaced",
                                       "OrderCancelled"}
                /\ events[i].order = id}
  IN  IF ack = {} THEN believed[id]
      ELSE IF events[1].type = "OrderCancelled" THEN 0
      ELSE events[1].remaining

\* An account does not learn of executions told to another one.
Believed(events, account) ==
  [id \in OrderIds |->
     IF id \in DOMAIN before /\ before[id].account # account THEN believed[id]
     ELSE Acknowledged(events, id) - ExecutedFor(events, id)]

-----------------------------------------------------------------------------
VenueInit ==
  /\ EngineInit
  /\ published_depth \in Depths
  /\ current_connection_ = NoConnection
  /\ message = NoMessage
  /\ feed = [trades |-> << >>, book |-> market_data]
  /\ believed = [id \in OrderIds |-> 0]

\* handle(): the message is taken up for the connection it came from.
Taken(c, m) ==
  /\ current_connection_' = c
  /\ message' = m
  /\ UNCHANGED <<published_depth, feed, believed>>

handle_new_order(c, o) ==
  /\ o.account = Account[c]
  /\ SubmitTurnedAway(o) \/ SubmitNotJournaled(o) \/ SubmitAdmitted(o)
  /\ Taken(c, [type |-> "NewOrder", order |-> o])

handle_cancel(c, id) ==
  /\ \/ NotOwned("cancel", Account[c], id)
     \/ CancelNotJournaled(Account[c], id)
     \/ CancelAdmitted(Account[c], id)
  /\ Taken(c, [type |-> "CancelOrder", id |-> id, account |-> Account[c]])

handle_replace(c, id, price, quantity) ==
  /\ \/ NotOwned("replace", Account[c], id)
     \/ ReplaceNotJournaled(Account[c], id)
     \/ ReplaceAdmitted(Account[c], id, price, quantity)
  /\ Taken(c, [type |-> "ReplaceOrder", id |-> id, account |-> Account[c],
               new_price |-> price, new_quantity |-> quantity])

publish_market_data_accepted ==
  feed' = IF result.reject # "None" THEN feed
          ELSE [trades |-> fills, book |-> market_data]

publish_market_data_ordered ==
  feed' = [trades |-> [i \in DOMAIN fills |->
                         [fills[i] EXCEPT !.quantity = incoming.quantity]],
           book |-> market_data]

\* A trade per fill and then the book, whatever became of the command.
publish_market_data ==
  feed' = [trades |-> fills, book |-> market_data]

\* The rest of handle(), once the engine returns.
Replied ==
  /\ believed' = Believed(Events(message), Account[current_connection_])
  /\ publish_market_data
  /\ current_connection_' = NoConnection
  /\ message' = NoMessage
  /\ UNCHANGED published_depth

Finishes ==
  \/ FinishOther \/ FinishSubmitRejected \/ FinishSubmitAccepted
  \/ FinishReplaceRefused \/ FinishReplaceAccepted

Working ==
  \/ InsertStep /\ UNCHANGED engineVars
  \/ SettleFill \/ SettleWithdrawal

handle ==
  \E c \in Connections :
    \/ \E o \in NewOrders : handle_new_order(c, o)
    \/ \E id \in Targets :
         \/ handle_cancel(c, id)
         \/ \E p \in PriceInputs, q \in QuantityInputs :
              handle_replace(c, id, p, q)

VenueStep ==
  \/ Working /\ UNCHANGED venueVars
  \/ Finishes /\ Replied

VenueCall ==
  \/ handle
  \/ OperatorCall /\ UNCHANGED venueVars

VenueNext == VenueCall \/ VenueStep

VenueSpec == VenueInit /\ [][VenueNext]_siteVars

=============================================================================
