--------------------------- MODULE PriorityProofs ---------------------------
(***************************************************************************)
(* The book implements PriorityBook, for every value of its constants: the *)
(* first two sections say how the book looks through the refinement        *)
(* mapping, the third that every step is a step of PriorityBook or changes *)
(* nothing it can see.                                                     *)
(***************************************************************************)
EXTENDS OrderBookProofs

-----------------------------------------------------------------------------
(* The mapping of OrderBook, by name.                                      *)

Visible == {View(orders[id]) : id \in DOMAIN orders}

Taker == IF pc = "match" THEN View(incoming) ELSE NoOrder

Prints == [i \in DOMAIN fills |->
             [maker |-> fills[i].resting_order, price |-> fills[i].price,
              quantity |-> fills[i].quantity]]

\* What is left of a resting order when it loses qty.
Left(r, qty) ==
  IF qty = r.remaining THEN {} ELSE {[r EXCEPT !.remaining = @ - qty]}

\* Nothing PriorityBook can see has changed.
LEMMA Unseen ==
  ASSUME Visible' = Visible, Taker' = Taker, Prints' = Prints,
         policy' = policy
  PROVE  UNCHANGED Priority!book
BY Zenon DEF Priority!book, Visible, Taker, Prints

\* A cancel or a reduction is a Withdraw.
LEMMA SeenAsWithdraw ==
  ASSUME Taker = NoOrder, Taker' = NoOrder, Prints' = Prints, policy' = policy,
         NEW r \in Visible, NEW qty \in 1 .. r.remaining,
         Visible' = (Visible \ {r}) \cup Left(r, qty)
  PROVE  Priority!Withdraw
BY ZenonT(30)
   DEF Priority!Withdraw, Priority!Shrink, Priority!Less, Visible, Taker,
       Prints, Left

\* An accepted order is an Arrive.
LEMMA SeenAsArrive ==
  ASSUME Taker = NoOrder, Prints = << >>, Taker' # NoOrder,
         \A r \in Visible : r.sequence < Taker'.sequence /\ r.id # Taker'.id,
         Visible' = Visible, Prints' = Prints, policy' = policy
  PROVE  Priority!Arrive
BY ZenonT(30) DEF Priority!Arrive, Visible, Taker, Prints

\* The end of a command is a Clear.
LEMMA SeenAsClear ==
  ASSUME Taker = NoOrder, Taker' = NoOrder, Prints' = << >>,
         Visible' = Visible, policy' = policy
  PROVE  Priority!Clear
BY Zenon DEF Priority!Clear, Visible, Taker, Prints

\* An expired remainder is a Leave, a resting one a Rest.
LEMMA SeenAsLeave ==
  ASSUME Priority!Exhausted, Taker' = NoOrder, Visible' = Visible,
         Prints' = Prints, policy' = policy
  PROVE  Priority!Leave
BY Zenon DEF Priority!Leave, Visible, Taker, Prints

\* An aggressor the book keeps, with no order left to match, is a Rest.
LEMMA SeenAsRest ==
  ASSUME Priority!Exhausted, Taker.remaining > 0, Taker' = NoOrder,
         Visible' = Visible \cup {Taker}, Prints' = Prints, policy' = policy
  PROVE  Priority!Rest
BY Zenon DEF Priority!Rest, Visible, Taker, Prints

\* A fill is a Trade.
LEMMA SeenAsTrade ==
  ASSUME NEW r \in Visible, Priority!Meets(r), ~Priority!Own(r),
         Visible' = (Visible \ {r}) \cup Left(r, Priority!Overlap(r)),
         Taker' = [Taker EXCEPT !.remaining = @ - Priority!Overlap(r)],
         Prints' = Append(Prints, [maker |-> r.id, price |-> r.price,
                                   quantity |-> Priority!Overlap(r)]),
         policy' = policy
  PROVE  Priority!Trade
BY ZenonT(30)
   DEF Priority!Trade, Priority!Shrink, Priority!Less, Visible, Taker, Prints,
       Left

\* Prevention is a Prevent.
LEMMA SeenAsPrevent ==
  ASSUME NEW r \in Visible, Priority!Meets(r), Priority!Own(r),
         NEW qty \in 0 .. r.remaining, NEW given \in 0 .. Taker.remaining,
         qty + given > 0,
         IF qty = 0 THEN Visible' = Visible
         ELSE Visible' = (Visible \ {r}) \cup Left(r, qty),
         Taker' = [Taker EXCEPT !.remaining = @ - given],
         Prints' = Prints, policy' = policy
  PROVE  Priority!Prevent
BY ZenonT(30)
   DEF Priority!Prevent, Priority!Shrink, Priority!Less, Visible, Taker,
       Prints, Left

-----------------------------------------------------------------------------
(* The book through the mapping.                                           *)

\* What the mapping shows of an order, field by field.
LEMMA ViewFields ==
  ASSUME NEW o
  PROVE  /\ View(o).id = o.id /\ View(o).account = o.account
         /\ View(o).side = o.side /\ View(o).type = o.type
         /\ View(o).price = o.price /\ View(o).remaining = o.remaining
         /\ View(o).sequence = o.sequence
BY Zenon DEF View

\* An order is never mistaken for the absence of one.
LEMMA ViewIsATaker ==
  ASSUME NEW o \in OrderType
  PROVE  View(o) \in ViewType /\ View(o) # NoOrder
<1>1. View(o) \in ViewType
  BY Zenon DEF View, ViewType, OrderType
<1> QED
  BY ZenonT(30), <1>1, ViewAssumption

\* Live orders look different from each other.
LEMMA ViewsDiffer ==
  ASSUME BookInv, NEW i \in DOMAIN orders, NEW j \in DOMAIN orders,
         View(orders[i]) = View(orders[j])
  PROVE  i = j
<1>1. orders[i].id = i /\ orders[j].id = j
  BY Zenon DEF BookInv, IndexMatchesLevels
<1> QED
  BY <1>1, ViewFields

\* TakeFrom changes the one order, and removes it when nothing is left.
LEMMA TakeFromSeen ==
  ASSUME BookInv,
         NEW id \in DOMAIN orders,
         NEW qty \in 1 .. orders[id].remaining,
         NEW withdrawn \in 0 .. qty,
         TakeFrom(id, qty, withdrawn)
  PROVE  Visible' = (Visible \ {View(orders[id])}) \cup Left(View(orders[id]), qty)
<1> DEFINE o == orders[id]
<1>1. /\ o \in OrderType /\ o.remaining \in Nat /\ o.quantity \in Nat
      /\ qty \in Nat /\ View(o).remaining = o.remaining
  BY ViewFields DEF BookInv, BookType, OrderType
<1>2. ASSUME NEW i \in DOMAIN orders, i # id
      PROVE  View(orders[i]) # View(o)
  BY Zenon, <1>2, ViewsDiffer
<1>3. CASE qty = o.remaining
  <2>1. orders' = [i \in DOMAIN orders \ {id} |-> orders[i]]
    BY <1>1, <1>3 DEF TakeFrom
  <2>2. Left(View(o), qty) = {}
    BY Zenon, <1>1, <1>3 DEF Left
  <2>3. Visible' = {View(orders[i]) : i \in DOMAIN orders \ {id}}
    BY Zenon, <2>1 DEF Visible
  <2> QED
    BY ZenonT(30), <1>2, <2>2, <2>3 DEF Visible
<1>4. CASE qty # o.remaining
  <2> DEFINE n == orders'[id]
  <2>1. orders' = [orders EXCEPT ![id].remaining = o.remaining - qty,
                                 ![id].quantity = @ - withdrawn]
    BY <1>1, <1>4 DEF TakeFrom
  <2>2. /\ DOMAIN orders' = DOMAIN orders
        /\ \A i \in DOMAIN orders : i # id => orders'[i] = orders[i]
        /\ orders'[id] = [o EXCEPT !.remaining = o.remaining - qty,
                                   !.quantity = @ - withdrawn]
    BY Zenon, <2>1 DEF BookInv, BookType
  <2>3. /\ n.id = o.id /\ n.account = o.account /\ n.side = o.side
        /\ n.type = o.type /\ n.price = o.price /\ n.sequence = o.sequence
        /\ n.remaining = o.remaining - qty
    BY ZenonT(30), <1>1, <2>2 DEF OrderType
  <2>4. View(n) = [View(o) EXCEPT !.remaining = @ - qty]
    BY <2>3 DEF View
  <2>5. Left(View(o), qty) = {View(n)}
    BY Zenon, <1>1, <1>4, <2>4 DEF Left
  <2>6. Visible' = {View(orders'[i]) : i \in DOMAIN orders}
    BY Zenon, <2>2 DEF Visible
  <2> HIDE DEF n
  <2>7. \A i \in DOMAIN orders :
          View(orders'[i]) = IF i = id THEN View(n) ELSE View(orders[i])
    BY Zenon, <2>2 DEF n
  <2> QED
    BY ZenonT(30), <1>2, <2>5, <2>6, <2>7 DEF Visible
<1> QED
  BY Zenon, <1>3, <1>4

\* Where a live order rests there is a level.
LEMMA LevelIsOccupied ==
  ASSUME BookInv, NEW id \in DOMAIN orders
  PROVE  /\ orders[id].side \in Sides /\ orders[id].price \in Prices
         /\ orders[id].price \in occupied[orders[id].side]
         /\ orders[id].price \in Int /\ orders[id].sequence \in Nat
<1> DEFINE o == orders[id]
           q == queue[o.side][o.price]
<1>1. /\ o.side \in Sides /\ o.price \in Prices /\ o.price \in Int
      /\ o.sequence \in Nat
  BY SMTT(30) DEF BookInv, BookType, OrderType, IndexMatchesLevels
<1>2. PICK k \in DOMAIN q : q[k] = id
  BY Zenon DEF BookInv, IndexMatchesLevels
<1>3. q # << >>
  BY <1>2
<1> QED
  BY SMTT(30), <1>1, <1>3 DEF BookInv, IndexMatchesLevels

\* The front of the best level is ahead of every other order of its side: no
\* other price is better, and along its level it arrived first.
LEMMA FrontIsFirst ==
  ASSUME IInv, Iterate
  PROVE  /\ RestingId \in DOMAIN orders
         /\ orders[RestingId].side = opposite(incoming.side)
         /\ crosses(incoming, orders[RestingId].price)
         /\ \A i \in DOMAIN orders :
              orders[i].side = opposite(incoming.side) /\ i # RestingId =>
                Priority!Ahead(View(orders[RestingId]), View(orders[i]))
<1> DEFINE contra == opposite(incoming.side)
           best   == Best(contra)
           q      == queue[contra][best]
<1>1. /\ BookInv /\ BookType /\ RestingId \in DOMAIN orders
  BY ZenonT(30), FrontIsLive DEF BookInv
<1>2. contra \in Sides
  BY Zenon DEF opposite, Sides
<1>3. occupied[contra] # {} /\ crosses(incoming, best)
  BY Zenon DEF Iterate, CanMatch
<1> HIDE DEF contra
<1>4. /\ best \in occupied[contra]
      /\ contra = "Buy" => \A p \in occupied[contra] : p <= best
      /\ contra = "Sell" => \A p \in occupied[contra] : best <= p
  BY Zenon, <1>1, <1>2, <1>3, BestIsBest
<1>5. best \in Prices /\ q # << >> /\ q \in Seq(OrderIds) /\ best \in Int
  BY SMTT(30), <1>1, <1>2, <1>4, PricesInBand
     DEF BookInv, BookType, IndexMatchesLevels
<1>6. RestingId = Head(q)
  BY Zenon DEF RestingId, contra
<1> HIDE DEF best
<1>7. 1 \in DOMAIN q /\ RestingId = q[1] /\ DOMAIN q \subseteq Nat
  BY SMTT(30), <1>5, <1>6
<1>8. orders[RestingId].side = contra /\ orders[RestingId].price = best
  BY SMTT(30), <1>1, <1>2, <1>5, <1>7 DEF BookInv, IndexMatchesLevels
<1>9. ASSUME NEW i \in DOMAIN orders, orders[i].side = contra, i # RestingId
      PROVE  Priority!Ahead(View(orders[RestingId]), View(orders[i]))
  <2>1. orders[i].price \in occupied[contra] /\ orders[i].price \in Int
    BY Zenon, <1>1, <1>9, LevelIsOccupied
  <2>2. CASE orders[i].price = best
    <3>1. PICK k \in DOMAIN q : q[k] = i
      BY Zenon, <1>1, <1>9, <2>2 DEF BookInv, IndexMatchesLevels
    <3>2. 1 < k
      BY SMTT(30), <1>5, <1>7, <1>9, <3>1
    <3>3. orders[RestingId].sequence < orders[i].sequence
      BY SMTT(30), <1>1, <1>2, <1>5, <1>7, <3>1, <3>2 DEF BookInv, ArrivalOrder
    <3> QED
      BY Zenon, <1>8, <2>2, <3>3, ViewFields DEF Priority!Ahead
  <2>3. CASE orders[i].price # best
    <3>1. IF contra = "Buy" THEN best > orders[i].price
                            ELSE best < orders[i].price
      BY SMTT(30), <1>2, <1>4, <1>5, <2>1, <2>3 DEF Sides
    <3> QED
      BY Zenon, <1>8, <3>1, ViewFields DEF Priority!Ahead
  <2> QED
    BY Zenon, <2>2, <2>3
<1> QED
  BY ZenonT(30), <1>1, <1>3, <1>8, <1>9 DEF contra

\* So it is the order the taker meets, and what they can do there agrees.
LEMMA FrontIsMet ==
  ASSUME IInv, Iterate
  PROVE  LET r == View(orders[RestingId])
         IN  /\ r \in Visible
             /\ Priority!Meets(r)
             /\ Priority!Own(r) <=> Prevented
             /\ Priority!Overlap(r) =
                  Lesser(incoming.remaining, orders[RestingId].remaining)
             /\ Taker = View(incoming)
<1> DEFINE r == View(orders[RestingId])
<1>1. /\ pc = "match" /\ RestingId \in DOMAIN orders
      /\ orders[RestingId] \in OrderType /\ incoming \in OrderType
      /\ incoming.remaining \in Nat /\ incoming.remaining > 0
      /\ orders[RestingId].remaining \in Nat
      /\ incoming.side \in Sides /\ incoming.price \in Int
      /\ orders[RestingId].price \in Int
  BY Zenon, FrontIsLive DEF Iterate, CanMatch, OrderType
<1>2. Taker = View(incoming) /\ Taker # NoOrder
  BY ZenonT(30), <1>1, ViewIsATaker DEF Taker
<1>3. r \in Visible
  BY Zenon, <1>1 DEF Visible
<1>4. /\ r.side # View(incoming).side
      /\ \A x \in Visible : x.side # View(incoming).side /\ x # r =>
                              Priority!Ahead(r, x)
  <2>1. /\ orders[RestingId].side = opposite(incoming.side)
        /\ opposite(incoming.side) # incoming.side
    BY Zenon, <1>1, FrontIsFirst DEF opposite, Sides
  <2>2. ASSUME NEW i \in DOMAIN orders, orders[i].side # incoming.side,
               View(orders[i]) # r
        PROVE  Priority!Ahead(r, View(orders[i]))
    <3>1. orders[i].side \in Sides
      BY Zenon, FrontIsLive, LevelIsOccupied
    <3>2. orders[i].side = opposite(incoming.side) /\ i # RestingId
      BY Zenon, <1>1, <2>2, <3>1 DEF opposite, Sides
    <3> QED
      BY Zenon, <3>2, FrontIsFirst
  <2> QED
    BY SMTT(30), <2>1, <2>2, ViewFields DEF Visible
<1>5. Priority!First(r)
  BY Zenon, <1>2, <1>3, <1>4
     DEF Priority!First, Priority!Contra, Visible, Taker
<1>6. Priority!Accepts(r.price)
  <2>1. crosses(incoming, orders[RestingId].price)
    BY Zenon, FrontIsFirst
  <2> QED
    BY ZenonT(30), <1>1, <2>1, ViewFields DEF Priority!Accepts, crosses
<1>7. Priority!Meets(r)
  BY Zenon, <1>1, <1>2, <1>5, <1>6, ViewFields DEF Priority!Meets, Taker
<1>8. Priority!Own(r) <=> Prevented
  BY ZenonT(30), <1>1, ViewFields DEF Priority!Own, Prevented, prevention_active
<1>9. Priority!Overlap(r) =
        Lesser(incoming.remaining, orders[RestingId].remaining)
  BY <1>1, ViewFields DEF Priority!Overlap, Lesser
<1> QED
  BY ZenonT(30), <1>2, <1>3, <1>7, <1>8, <1>9

\* When the loop ends, nothing the taker accepts is left.
LEMMA NothingIsLeft ==
  ASSUME IInv, pc = "match", ~CanMatch
  PROVE  Priority!Exhausted
<1> DEFINE contra == opposite(incoming.side)
<1>1. /\ incoming \in OrderType /\ incoming.side \in Sides
      /\ incoming.remaining \in Nat /\ incoming.price \in Int
  BY Zenon DEF IInv, CommandConsistent, OrderType
<1>2. BookInv /\ BookType /\ contra \in Sides
  BY Zenon, InvImpliesBookInv DEF BookInv, opposite, Sides
<1>3. Taker = View(incoming) /\ Taker # NoOrder
  BY ZenonT(30), <1>1, ViewIsATaker DEF Taker
<1>4. ASSUME incoming.remaining # 0, NEW i \in DOMAIN orders,
             orders[i].side # incoming.side
      PROVE  ~crosses(incoming, orders[i].price)
  <2>1. /\ orders[i].side = contra
        /\ orders[i].price \in occupied[contra] /\ orders[i].price \in Int
    BY ZenonT(30), <1>1, <1>2, <1>4, LevelIsOccupied DEF opposite, Sides
  <2>2. ~crosses(incoming, Best(contra))
    BY <1>1, <1>4, <2>1 DEF CanMatch
  <2>3. /\ Best(contra) \in occupied[contra]
        /\ contra = "Buy" => orders[i].price <= Best(contra)
        /\ contra = "Sell" => Best(contra) <= orders[i].price
    BY ZenonT(30), <1>2, <2>1, BestIsBest
  <2>4. Best(contra) \in Int
    BY ZenonT(30), <1>2, <2>3, PricesInBand DEF BookType
  <2> HIDE DEF contra
  <2>5. contra = IF incoming.side = "Buy" THEN "Sell" ELSE "Buy"
    BY Zenon DEF contra, opposite
  <2> QED
    BY SMTT(30), <1>1, <2>1, <2>2, <2>3, <2>4, <2>5 DEF crosses, Sides
<1>5. ASSUME incoming.remaining # 0, NEW r \in Visible, r.side # incoming.side
      PROVE  ~Priority!Accepts(r.price)
  <2>1. PICK i \in DOMAIN orders : r = View(orders[i])
    BY Zenon DEF Visible
  <2>2. r.price = orders[i].price /\ orders[i].side # incoming.side
    BY Zenon, <1>5, <2>1, ViewFields
  <2>3. r.price \in Int /\ ~crosses(incoming, r.price)
    BY Zenon, <1>2, <1>4, <1>5, <2>2, LevelIsOccupied
  <2> QED
    BY <1>1, <2>3, ViewFields DEF Priority!Accepts, crosses
<1> QED
  BY Zenon, <1>3, <1>5, ViewFields
     DEF Priority!Exhausted, Priority!Contra, Visible, Taker

-----------------------------------------------------------------------------
(* Every step through the mapping.                                         *)

\* A command that starts without touching the book shows nothing.
LEMMA QuietSeen ==
  ASSUME UNCHANGED <<policy, orders, fills>>,
         pc # "match", pc' # "match"
  PROVE  UNCHANGED Priority!book
<1>1. Visible' = Visible /\ Prints' = Prints
  BY Zenon DEF Visible, Prints
<1>2. Taker' = Taker
  BY Zenon DEF Taker
<1> QED
  BY Zenon, <1>1, <1>2, Unseen

\* A command that takes quantity from the order it names withdraws it.
LEMMA WithdrawnSeen ==
  ASSUME IInv, Begin, pc' # "match",
         NEW id \in DOMAIN orders,
         NEW qty \in 1 .. orders[id].remaining,
         NEW withdrawn \in 0 .. qty,
         TakeFrom(id, qty, withdrawn)
  PROVE  Priority!Withdraw
<1> DEFINE r == View(orders[id])
<1>1. Taker = NoOrder /\ Taker' = NoOrder
  BY Zenon DEF Begin, Taker
<1>2. Prints' = Prints /\ policy' = policy
  BY Zenon DEF Begin, Prints
<1>3. r \in Visible /\ qty \in 1 .. r.remaining
  BY Zenon, ViewFields DEF Visible
<1>4. Visible' = (Visible \ {r}) \cup Left(r, qty)
  BY Zenon, InvImpliesBookInv, TakeFromSeen
<1> HIDE DEF r
<1> QED
  BY Zenon, <1>1, <1>2, <1>3, <1>4, SeenAsWithdraw

\* Cancel withdraws the whole order.
LEMMA CancelSeen ==
  ASSUME IInv, NEW id \in OrderIds, Cancel(id)
  PROVE  Priority!Withdraw
<1> DEFINE qty == orders[id].remaining
<1>1. id \in DOMAIN orders /\ Begin /\ pc' # "match" /\ TakeFrom(id, qty, 0)
  BY Zenon DEF Cancel, Report
<1>2. qty \in 1 .. qty /\ 0 \in 0 .. qty
  BY Zenon, <1>1, InvImpliesBookInv, LiveOrder
<1> QED
  BY Zenon, <1>1, <1>2, WithdrawnSeen

\* An amendment that takes effect withdraws: all of the order when it is
\* cancelled or re-queued, what it gives up when it keeps its place.
LEMMA ReplaceSeen ==
  ASSUME IInv, NEW id \in OrderIds, NEW p \in Int, NEW q \in Nat,
         ReplaceCancels(id, p, q) \/ ReplaceInPlace(id, p, q)
           \/ ReplaceRequeues(id, p, q)
  PROVE  Priority!Withdraw
<1> DEFINE o == orders[id]
<1>1. id \in DOMAIN orders /\ Begin
  BY Zenon
     DEF ReplaceCancels, ReplaceInPlace, ReplaceRequeues, ReplaceReject
<1>2. o.quantity \in Nat /\ o.remaining \in 1 .. o.quantity
  BY ZenonT(30), <1>1 DEF IInv, TypeOK, OrderType, IndexMatchesLevels
<1>3. CASE ReplaceInPlace(id, p, q)
  <2> DEFINE cut == o.quantity - q
  <2>1. TakeFrom(id, cut, cut) /\ pc' # "match"
    BY ZenonT(30), <1>3 DEF ReplaceInPlace, Report
  <2>2. cut \in 1 .. o.remaining /\ cut \in 0 .. cut
    BY SMTT(30), <1>2, <1>3 DEF ReplaceInPlace, KeepsPriority, filled
  <2> HIDE DEF cut
  <2> QED
    BY ZenonT(30), <1>1, <2>1, <2>2, WithdrawnSeen
<1>4. CASE ~ReplaceInPlace(id, p, q)
  <2>1. TakeFrom(id, o.remaining, 0) /\ pc' # "match"
    BY Zenon, <1>4 DEF ReplaceCancels, ReplaceRequeues, Report
  <2>2. o.remaining \in 1 .. o.remaining /\ 0 \in 0 .. o.remaining
    BY <1>2
  <2> QED
    BY ZenonT(30), <1>1, <2>1, <2>2, WithdrawnSeen
<1> QED
  BY Zenon, <1>3, <1>4

\* insert() shows nothing of an order it refuses, and an accepted one arrives.
LEMMA InsertSeen ==
  ASSUME IInv, Insert
  PROVE  Priority!Arrive \/ UNCHANGED Priority!book
<1>1. pc = "insert" /\ UNCHANGED <<policy, orders, fills, incoming>>
  BY Zenon DEF Insert, bookVars
<1>2. CASE InsertReject(incoming) # "None"
  <2>1. pc' # "match"
    BY Zenon, <1>2 DEF Insert, Refuse, Report
  <2> QED
    BY ZenonT(30), <1>1, <2>1, QuietSeen
<1>3. CASE InsertReject(incoming) = "None"
  <2>1. pc' = "match" /\ incoming.id \notin DOMAIN orders
    BY Zenon, <1>3 DEF Insert, InsertReject
  <2>2. /\ incoming \in OrderType /\ fills = << >>
        /\ \A i \in DOMAIN orders : orders[i].sequence < incoming.sequence
        /\ \A i \in DOMAIN orders : orders[i].id = i
    <3>1. /\ incoming \in OrderType /\ fills = << >>
          /\ incoming.sequence = sequence
          /\ \A i \in DOMAIN orders : orders[i].sequence < sequence
      BY Zenon, <1>1 DEF IInv, CommandConsistent
    <3>2. \A i \in DOMAIN orders : orders[i].id = i
      BY Zenon DEF IInv, IndexMatchesLevels
    <3> QED
      BY Zenon, <3>1, <3>2
  <2>3. /\ Taker = NoOrder /\ Taker' = View(incoming) /\ Taker' # NoOrder
    BY Zenon, <1>1, <2>1, <2>2, ViewIsATaker DEF Taker
  <2>4. Prints = << >> /\ Prints' = Prints /\ Visible' = Visible
    BY SMTT(30), <1>1, <2>2 DEF Prints, Visible
  <2>5. ASSUME NEW r \in Visible
        PROVE  r.sequence < Taker'.sequence /\ r.id # Taker'.id
    <3>1. PICK i \in DOMAIN orders : r = View(orders[i])
      BY Zenon DEF Visible
    <3> QED
      BY SMTT(30), <2>1, <2>2, <2>3, <3>1, ViewFields
  <2> QED
    BY Zenon, <1>1, <2>3, <2>4, <2>5, SeenAsArrive
<1> QED
  BY ZenonT(30), <1>2, <1>3

\* Return clears the trades of the command.
LEMMA ReturnSeen ==
  ASSUME Return
  PROVE  Priority!Clear
<1>1. /\ pc = "return" /\ pc' = "idle" /\ fills' = << >>
      /\ policy' = policy /\ orders' = orders
  BY Zenon DEF Return, bookVars
<1>2. Taker = NoOrder /\ Taker' = NoOrder /\ Visible' = Visible
  BY Zenon, <1>1 DEF Taker, Visible
<1>3. Prints' = << >>
  BY <1>1 DEF Prints
<1> QED
  BY Zenon, <1>1, <1>2, <1>3, SeenAsClear

\* At the end of insert() a remainder leaves or rests.
LEMMA SettleSeen ==
  ASSUME IInv, Settle
  PROVE  Priority!Leave \/ Priority!Rest
<1>1. /\ pc = "match" /\ pc' = "return" /\ ~CanMatch
      /\ UNCHANGED <<policy, fills, incoming>>
  BY Zenon DEF Settle, Report
<1>2. Priority!Exhausted
  BY ZenonT(30), <1>1, NothingIsLeft
<1>3. /\ Taker = View(incoming) /\ Taker' = NoOrder /\ Prints' = Prints
  BY Zenon, <1>1 DEF Taker, Prints
<1>4. CASE Expires(incoming)
  <2>1. Visible' = Visible
    BY Zenon, <1>4 DEF Settle, bookVars, Visible
  <2> QED
    BY Zenon, <1>1, <1>2, <1>3, <2>1, SeenAsLeave
<1>5. CASE ~Expires(incoming)
  <2>1. /\ incoming \in OrderType /\ incoming.id \notin DOMAIN orders
    BY ZenonT(30), <1>1 DEF IInv, CommandConsistent
  <2>2. incoming.remaining > 0 /\ Taker.remaining > 0
    BY SMTT(30), <1>3, <1>5, <2>1, ViewFields DEF Expires, OrderType
  <2>3. orders' = [i \in DOMAIN orders \cup {incoming.id} |->
                     IF i = incoming.id THEN incoming ELSE orders[i]]
    BY Zenon, <1>5 DEF Settle, rest
  <2>4. Visible' = {View(orders'[i]) : i \in DOMAIN orders \cup {incoming.id}}
    BY Zenon, <2>3 DEF Visible
  <2>5. /\ \A i \in DOMAIN orders : orders'[i] = orders[i]
        /\ orders'[incoming.id] = incoming
    BY Zenon, <2>1, <2>3
  <2>6. {View(orders'[i]) : i \in DOMAIN orders \cup {incoming.id}}
          = {View(orders[i]) : i \in DOMAIN orders} \cup {View(incoming)}
    BY Zenon, <2>5
  <2>7. Visible' = Visible \cup {Taker}
    BY ZenonT(30), <1>3, <2>4, <2>6 DEF Visible
  <2> QED
    BY ZenonT(30), <1>1, <1>2, <1>3, <2>2, <2>7, SeenAsRest
<1> QED
  BY ZenonT(30), <1>4, <1>5

\* The trade that is printed for a fill.
PrintOf(f) ==
  [maker |-> f.resting_order, price |-> f.price, quantity |-> f.quantity]

\* A fill appended is a trade appended.
LEMMA PrintAppended ==
  ASSUME NEW s \in Seq(FillType), NEW f \in FillType
  PROVE  [i \in DOMAIN Append(s, f) |-> PrintOf(Append(s, f)[i])]
           = Append([i \in DOMAIN s |-> PrintOf(s[i])], PrintOf(f))
<1> DEFINE T == [maker : OrderIds, price : Int, quantity : Nat]
           m == [i \in DOMAIN s |-> PrintOf(s[i])]
           a == Append(s, f)
<1>1. \A g \in FillType : PrintOf(g) \in T
  BY Zenon DEF FillType, PrintOf
<1> HIDE DEF T
<1>2. /\ DOMAIN s = 1 .. Len(s) /\ Len(s) \in Nat
      /\ \A i \in 1 .. Len(s) : s[i] \in FillType
  BY Zenon, LenProperties
<1>3. m \in [1 .. Len(s) -> T]
  BY ZenonT(30), <1>1, <1>2
<1>4. m \in Seq(T) /\ Len(m) = Len(s)
  <2>1. m \in Seq(T)
    BY <1>2, <1>3
  <2>2. DOMAIN m = 1 .. Len(m) /\ Len(m) \in Nat
    BY ZenonT(30), <2>1, LenProperties
  <2> QED
    BY SMTT(30), <1>2, <1>3, <2>1, <2>2
<1>5. /\ DOMAIN a = 1 .. Len(s) + 1
      /\ \A i \in 1 .. Len(s) : a[i] = s[i]
      /\ a[Len(s) + 1] = f
  BY SMTT(30), <1>2, AppendProperties, LenProperties
<1> HIDE DEF a
<1> DEFINE c == Append(m, PrintOf(f))
<1>6. /\ c \in Seq(T) /\ DOMAIN c = 1 .. Len(s) + 1
      /\ \A i \in 1 .. Len(s) : c[i] = m[i]
      /\ c[Len(s) + 1] = PrintOf(f)
  BY SMTT(30), <1>1, <1>4, AppendProperties, LenProperties
<1>7. c = [i \in 1 .. Len(s) + 1 |-> c[i]]
  BY <1>6
<1> HIDE DEF c
<1>8. \A i \in 1 .. Len(s) + 1 : c[i] = PrintOf(a[i])
  BY SMTT(30), <1>2, <1>5, <1>6
<1>9. c = [i \in DOMAIN a |-> PrintOf(a[i])]
  BY Zenon, <1>5, <1>7, <1>8
<1> QED
  BY Zenon, <1>9 DEF c, a

\* The aggressor through the mapping when it asks for given less.
LEMMA TakerLess ==
  ASSUME pc = "match", pc' = "match", NEW given \in Nat,
         incoming \in OrderType,
         incoming'.id = incoming.id, incoming'.account = incoming.account,
         incoming'.side = incoming.side, incoming'.type = incoming.type,
         incoming'.price = incoming.price,
         incoming'.sequence = incoming.sequence,
         incoming'.remaining = incoming.remaining - given
  PROVE  Taker' = [Taker EXCEPT !.remaining = @ - given]
<1>1. Taker = View(incoming) /\ Taker' = View(incoming')
  BY Zenon DEF Taker
<1>2. View(incoming') = [View(incoming) EXCEPT !.remaining = @ - given]
  BY DEF View
<1> QED
  BY ZenonT(30), <1>1, <1>2

\* A fill is a trade with the first order of the other side, at its price.
LEMMA FillSeen ==
  ASSUME IInv, Fill
  PROVE  Priority!Trade
<1> DEFINE o   == orders[RestingId]
           r   == View(o)
           qty == Lesser(incoming.remaining, o.remaining)
           f   == [price |-> o.price, quantity |-> qty,
                   aggressor_order |-> incoming.id,
                   resting_order |-> o.id,
                   aggressor_account |-> incoming.account,
                   resting_account |-> o.account,
                   aggressor_side |-> incoming.side,
                   resting_filled |-> qty = o.remaining]
<1>1. /\ Iterate /\ ~Prevented
      /\ incoming' = [incoming EXCEPT !.remaining = @ - qty]
      /\ TakeFrom(o.id, qty, 0) /\ fills' = Append(fills, f)
  BY Zenon DEF Fill
<1>2. /\ RestingId \in DOMAIN orders /\ o.id = RestingId /\ o \in OrderType
      /\ incoming \in OrderType /\ BookInv
      /\ o.remaining \in Nat /\ o.remaining > 0
      /\ incoming.remaining \in Nat /\ incoming.remaining > 0
  BY SMTT(30), <1>1, FrontIsLive DEF OrderType
<1>3. /\ qty \in 1 .. o.remaining /\ qty \in Nat /\ 0 \in 0 .. qty
  BY <1>2 DEF Lesser
<1>4. pc = "match" /\ pc' = "match" /\ policy' = policy
  BY Zenon, <1>1 DEF Iterate
<1>5. /\ r \in Visible /\ Priority!Meets(r) /\ ~Priority!Own(r)
      /\ Priority!Overlap(r) = qty
  BY ZenonT(30), <1>1, FrontIsMet
<1>6. f \in FillType /\ PrintOf(f) = [maker |-> r.id, price |-> r.price,
                                      quantity |-> qty]
  BY ZenonT(30), <1>2, <1>3, ViewFields DEF OrderType, FillType, PrintOf
<1> HIDE DEF f, qty
<1>7. Taker' = [Taker EXCEPT !.remaining = @ - qty]
  <2>1. /\ incoming'.id = incoming.id /\ incoming'.account = incoming.account
        /\ incoming'.side = incoming.side /\ incoming'.type = incoming.type
        /\ incoming'.price = incoming.price
        /\ incoming'.sequence = incoming.sequence
        /\ incoming'.remaining = incoming.remaining - qty
    BY Zenon, <1>1, <1>2 DEF OrderType
  <2> QED
    BY Zenon, <1>2, <1>3, <1>4, <2>1, TakerLess
<1>8. Prints' = Append(Prints, PrintOf(f))
  <2>1. fills \in Seq(FillType)
    BY Zenon DEF IInv, TypeOK
  <2>2. /\ Prints = [i \in DOMAIN fills |-> PrintOf(fills[i])]
        /\ Prints' = [i \in DOMAIN fills' |-> PrintOf(fills'[i])]
    BY Zenon DEF Prints, PrintOf
  <2> QED
    BY Zenon, <1>1, <1>6, <2>1, <2>2, PrintAppended
<1>9. Visible' = (Visible \ {r}) \cup Left(r, qty)
  BY Zenon, <1>1, <1>2, <1>3, TakeFromSeen
<1> HIDE DEF r
<1> QED
  BY Zenon, <1>4, <1>5, <1>6, <1>7, <1>8, <1>9, SeenAsTrade

\* Prevention: the first order of the other side loses qty, the aggressor
\* gives up given, and nothing is printed.
LEMMA PreventSeen ==
  ASSUME IInv, Iterate, Prevented, fills' = fills,
         NEW qty \in 0 .. orders[RestingId].remaining,
         NEW given \in 0 .. incoming.remaining, qty + given > 0,
         \/ qty = 0 /\ orders' = orders
         \/ qty > 0 /\ \E w \in 0 .. qty : TakeFrom(RestingId, qty, w),
         Taker' = [Taker EXCEPT !.remaining = @ - given]
  PROVE  Priority!Prevent
<1> DEFINE r == View(orders[RestingId])
<1>1. /\ RestingId \in DOMAIN orders /\ BookInv
      /\ orders[RestingId].remaining \in Nat
  BY Zenon, FrontIsLive DEF OrderType
<1>2. /\ r \in Visible /\ Priority!Meets(r) /\ Priority!Own(r)
      /\ Taker = View(incoming)
  BY Zenon, FrontIsMet
<1>3. qty \in 0 .. r.remaining /\ given \in 0 .. Taker.remaining
  BY Zenon, <1>2, ViewFields
<1>4. IF qty = 0 THEN Visible' = Visible
      ELSE Visible' = (Visible \ {r}) \cup Left(r, qty)
  <2>1. CASE qty = 0
    BY <2>1 DEF Visible
  <2>2. CASE qty > 0
    <3>1. PICK w \in 0 .. qty : TakeFrom(RestingId, qty, w)
      BY <2>2
    <3>2. qty \in 1 .. orders[RestingId].remaining
      BY <1>1, <2>2
    <3>3. Visible' = (Visible \ {r}) \cup Left(r, qty)
      BY Zenon, <1>1, <3>1, <3>2, TakeFromSeen
    <3> QED
      BY <2>2, <3>3
  <2> QED
    BY Zenon, <2>1, <2>2
<1>5. Prints' = Prints /\ policy' = policy
  BY Zenon DEF Prints, Iterate
<1> HIDE DEF r
<1> QED
  BY Zenon, <1>2, <1>3, <1>4, <1>5, SeenAsPrevent

\* Each of the four policies is such a step: the aggressor gives up what it
\* still asks for, the resting order all it has, both, or both the overlap.
LEMMA PoliciesSeen ==
  ASSUME IInv,
         PreventCancelIncoming \/ PreventCancelResting \/ PreventCancelBoth
           \/ PreventDecrementBoth
  PROVE  Priority!Prevent
<1> DEFINE o == orders[RestingId]
           n == incoming.remaining
           m == o.remaining
           k == Lesser(n, m)
<1>1. Iterate /\ Prevented /\ fills' = fills
  BY Zenon DEF PreventCancelIncoming, PreventCancelResting, PreventCancelBoth,
         PreventDecrementBoth
<1>2. /\ o.id = RestingId /\ incoming \in OrderType /\ n \in Nat /\ n > 0
      /\ m \in Nat /\ m > 0
      /\ pc = "match" /\ pc' = "match"
  BY SMTT(30), <1>1, FrontIsLive DEF OrderType, Iterate
<1>3. k \in 1 .. n /\ k \in 1 .. m /\ k \in Nat
  BY <1>2 DEF Lesser
<1>4. ASSUME GiveWay
      PROVE  Taker' = [Taker EXCEPT !.remaining = @ - n]
  <2>1. /\ incoming'.id = incoming.id /\ incoming'.account = incoming.account
        /\ incoming'.side = incoming.side /\ incoming'.type = incoming.type
        /\ incoming'.price = incoming.price
        /\ incoming'.sequence = incoming.sequence
        /\ incoming'.remaining = incoming.remaining - n
    BY <1>2, <1>4 DEF GiveWay, OrderType
  <2> QED
    BY Zenon, <1>2, <2>1, TakerLess
<1>5. CASE PreventCancelIncoming
  <2>1. GiveWay /\ orders' = orders
    BY Zenon, <1>5 DEF PreventCancelIncoming, bookVars
  <2>2. 0 \in 0 .. m /\ n \in 0 .. n /\ 0 + n > 0
    BY <1>2
  <2> QED
    BY Zenon, <1>1, <1>4, <2>1, <2>2, PreventSeen
<1>6. CASE PreventCancelResting
  <2>1. TakeFrom(RestingId, m, 0) /\ incoming' = incoming
    BY Zenon, <1>2, <1>6 DEF PreventCancelResting
  <2>2. m \in 0 .. m /\ 0 \in 0 .. n /\ m + 0 > 0 /\ 0 \in 0 .. m
    BY <1>2
  <2>3. Taker' = [Taker EXCEPT !.remaining = @ - 0]
    BY <1>2, <2>1, TakerLess DEF OrderType
  <2> QED
    BY Zenon, <1>1, <1>2, <2>1, <2>2, <2>3, PreventSeen
<1>7. CASE PreventCancelBoth
  <2>1. TakeFrom(RestingId, m, 0) /\ GiveWay
    BY Zenon, <1>2, <1>7 DEF PreventCancelBoth
  <2>2. m \in 0 .. m /\ n \in 0 .. n /\ m + n > 0 /\ 0 \in 0 .. m
    BY <1>2
  <2> QED
    BY Zenon, <1>1, <1>2, <1>4, <2>1, <2>2, PreventSeen
<1>8. CASE PreventDecrementBoth
  <2>1. /\ TakeFrom(RestingId, k, k)
        /\ incoming' = [incoming EXCEPT !.remaining = @ - k,
                                        !.quantity = @ - k]
    BY Zenon, <1>2, <1>8 DEF PreventDecrementBoth
  <2>2. k \in 0 .. m /\ k \in 0 .. n /\ k + k > 0 /\ k > 0 /\ k \in 0 .. k
    BY <1>2, <1>3
  <2> HIDE DEF k
  <2>3. /\ incoming'.id = incoming.id /\ incoming'.account = incoming.account
        /\ incoming'.side = incoming.side /\ incoming'.type = incoming.type
        /\ incoming'.price = incoming.price
        /\ incoming'.sequence = incoming.sequence
        /\ incoming'.remaining = incoming.remaining - k
    BY Zenon, <1>2, <2>1 DEF OrderType
  <2>4. Taker' = [Taker EXCEPT !.remaining = @ - k]
    BY Zenon, <1>2, <1>3, <2>3, TakerLess
  <2> QED
    BY Zenon, <1>1, <2>1, <2>2, <2>4, PreventSeen
<1> QED
  BY Zenon, <1>5, <1>6, <1>7, <1>8

\* Every step of the book is a step of PriorityBook or one it cannot see.
LEMMA StepSeen ==
  ASSUME IInv, [Next]_vars
  PROVE  [Priority!Next]_(Priority!book)
<1>1. CASE \E o \in NewOrders : Submit(o)
  <2>1. /\ pc # "match" /\ pc' # "match" /\ UNCHANGED <<policy, orders, fills>>
    BY Zenon, <1>1 DEF Submit, Begin, bookVars
  <2> QED
    BY Zenon, <2>1, QuietSeen
<1>2. CASE \E id \in OrderIds : CancelUnknown(id)
  <2>1. /\ pc # "match" /\ pc' # "match" /\ UNCHANGED <<policy, orders, fills>>
    BY Zenon, <1>2 DEF CancelUnknown, Begin, Refuse, Report, bookVars
  <2> QED
    BY Zenon, <2>1, QuietSeen
<1>3. CASE \E id \in OrderIds : Cancel(id)
  BY Zenon, <1>3, CancelSeen DEF Priority!Next
<1>4. ASSUME NEW id \in OrderIds, NEW p \in PriceInputs,
             NEW q \in QuantityInputs, Replace(id, p, q)
      PROVE  [Priority!Next]_(Priority!book)
  <2>1. p \in Int /\ q \in Nat
    BY Zenon, BookAssumption
  <2>2. CASE ReplaceRefused(id, p, q)
    <3>1. /\ pc # "match" /\ pc' # "match"
          /\ UNCHANGED <<policy, orders, fills>>
      BY Zenon, <2>2 DEF ReplaceRefused, Begin, Refuse, Report, bookVars
    <3> QED
      BY Zenon, <3>1, QuietSeen
  <2>3. CASE ReplaceCancels(id, p, q) \/ ReplaceInPlace(id, p, q)
               \/ ReplaceRequeues(id, p, q)
    BY Zenon, <2>1, <2>3, ReplaceSeen DEF Priority!Next
  <2> QED
    BY ZenonT(30), <1>4, <2>2, <2>3 DEF Replace
<1>5. CASE InsertStep
  BY Zenon, <1>5, InsertSeen, FillSeen, PoliciesSeen, SettleSeen
     DEF InsertStep, Priority!Next
<1>6. CASE Return
  BY ZenonT(30), <1>6, ReturnSeen DEF Priority!Next
<1>7. CASE UNCHANGED vars
  <2>1. UNCHANGED <<policy, orders, pc, incoming, fills>>
    BY Zenon, <1>7 DEF vars, bookVars, callVars
  <2>2. Visible' = Visible /\ Prints' = Prints /\ Taker' = Taker
    BY Zenon, <2>1 DEF Visible, Prints, Taker
  <2> QED
    BY Zenon, <2>1, <2>2, Unseen
<1> QED
  BY ZenonT(30), <1>1, <1>2, <1>3, <1>4, <1>5, <1>6, <1>7 DEF Next, Command, Step

\* Price-time priority: the book, with its index, queues, ladder and matching
\* loop, implements PriorityBook.  Every trade is with the order that is first
\* by price and then by arrival, at that order's price, for as long as the
\* aggressor accepts it, and no command changes the rank of anything else.
THEOREM BookImplementsPriority == Spec => PriceTimePriority
<1>1. Init => Priority!Init
  BY DEF Init, Priority!Init
<1>2. IInv /\ [Next]_vars => [Priority!Next]_(Priority!book)
  BY Zenon, StepSeen
<1> QED
  BY <1>1, <1>2, BookInvariant, PTL DEF Spec, PriceTimePriority, Priority!Spec

=============================================================================
