---------------------------- MODULE EngineProofs ----------------------------
(***************************************************************************)
(* The book as its caller sees it, and the engine around it, for every     *)
(* value of the constants: every unit a resting order loses is reported,   *)
(* the engine keeps the book's invariant, the positions of the accounts    *)
(* add up to zero, and a run of rejects halts its account.                 *)
(***************************************************************************)
EXTENDS OrderBookProofs, MatchingEngine, SumLemmas

-----------------------------------------------------------------------------
(* What the book does to its orders, as its caller sees it.                *)

\* An order stays itself, whatever is left of it.
SameOrder(o, p) == p.id = o.id /\ p.account = o.account

\* A fill says what order id lost.
FillSays(id, q) ==
  /\ withdrawals' = withdrawals
  /\ \E f : /\ fills' = Append(fills, f) /\ f.quantity = q /\ f.resting_order = id
            /\ f.resting_account = orders[id].account
            /\ f.aggressor_account = incoming.account
            /\ f.resting_filled = (q = orders[id].remaining)

\* A withdrawal says so.
WithdrawalSays(id, q) ==
  /\ fills' = fills
  /\ withdrawals' = Append(withdrawals,
       [order |-> id, account |-> orders[id].account, side |-> orders[id].side,
        quantity |-> q, fully_removed |-> q = orders[id].remaining])

\* An iteration of match(): an order loses what the command reports.
MatchEffect ==
  /\ \/ UNCHANGED <<orders, fills, withdrawals>>
     \/ \E id, q : /\ Loses(orders, orders', id, q)
                   /\ FillSays(id, q) \/ WithdrawalSays(id, q)
  /\ \A i \in DOMAIN orders' : i \in DOMAIN orders /\ SameOrder(orders[i], orders'[i])
  /\ SameOrder(incoming, incoming') /\ before' = before

\* An iteration of match(), as the caller sees it.
LEMMA IterationMatches ==
  ASSUME IterationEffect
  PROVE  MatchEffect
<1>1. UNCHANGED <<orders, fills, withdrawals>> \/ \E q : FrontFilled(q) \/ FrontWithdrawn(q)
  BY Zenon DEF IterationEffect
<1>2. /\ \A i \in DOMAIN orders' : SameOrder(orders[i], orders'[i])
      /\ SameOrder(incoming, incoming') /\ before' = before
  BY Zenon DEF IterationEffect, StaysOrder, SameOrder
<1>3. ASSUME NEW q, Takes(RestingId, q)
      PROVE  Loses(orders, orders', RestingId, q) /\ DOMAIN orders' \subseteq DOMAIN orders
  BY Zenon, <1>3 DEF Takes, Loses
<1>4. /\ \/ UNCHANGED <<orders, fills, withdrawals>>
         \/ \E id, q : /\ Loses(orders, orders', id, q)
                       /\ FillSays(id, q) \/ WithdrawalSays(id, q)
      /\ DOMAIN orders' \subseteq DOMAIN orders
  <2>1. ASSUME NEW q, FrontFilled(q)
        PROVE  Takes(RestingId, q) /\ FillSays(RestingId, q)
    BY Zenon, <2>1 DEF FrontFilled, FillSays
  <2>2. ASSUME NEW q, FrontWithdrawn(q)
        PROVE  Takes(RestingId, q) /\ WithdrawalSays(RestingId, q)
    BY ZenonT(30), <2>2 DEF FrontWithdrawn, WithdrawalSays
  <2> QED
    BY Zenon, <1>1, <1>3, <2>1, <2>2
<1> QED
  BY Zenon, <1>2, <1>4 DEF MatchEffect

\* Every step of match() is one.
LEMMA IterationLeaves ==
  ASSUME IInv,
         \/ Fill \/ PreventCancelIncoming \/ PreventCancelResting
         \/ PreventCancelBoth \/ PreventDecrementBoth
  PROVE  MatchEffect /\ pc = "match"
<1>1. IterationEffect
  BY Zenon, FillEffect, PreventEffect
<1>2. pc = "match"
  BY Zenon DEF Fill, PreventCancelIncoming, PreventCancelResting, PreventCancelBoth,
               PreventDecrementBoth, Iterate
<1> QED
  BY Zenon, <1>1, <1>2, IterationMatches

\* TakeFrom leaves every other order alone.
LEMMA OthersStay ==
  ASSUME TypeOK, NEW id \in DOMAIN orders, NEW q, NEW w, TakeFrom(id, q, w)
  PROVE  /\ DOMAIN orders' \ {id} = DOMAIN orders \ {id}
         /\ \A i \in DOMAIN orders' :
              /\ i \in DOMAIN orders /\ (i # id => orders'[i] = orders[i])
              /\ orders'[i].account = orders[i].account
<1>1. orders \in [DOMAIN orders -> OrderType]
  BY Zenon DEF TypeOK
<1>2. \/ orders' = [orders EXCEPT ![id].remaining = orders[id].remaining - q,
                                  ![id].quantity = @ - w]
      \/ orders' = [i \in DOMAIN orders \ {id} |-> orders[i]]
  BY Zenon DEF TakeFrom
<1>3. CASE orders' = [i \in DOMAIN orders \ {id} |-> orders[i]]
  BY ZenonT(30), <1>3
<1>4. CASE orders' = [orders EXCEPT ![id].remaining = orders[id].remaining - q,
                                    ![id].quantity = @ - w]
  BY ZenonT(30), <1>1, <1>4 DEF OrderType
<1> QED
  BY Zenon, <1>2, <1>3, <1>4

\* What an amendment does to the book and to the command, however it ends.
AmendmentEffect(id) ==
  /\ DOMAIN orders' \ {id} = DOMAIN orders \ {id}
  /\ \A i \in DOMAIN orders' :
       /\ i \in DOMAIN orders /\ (i # id => orders'[i] = orders[i])
       /\ orders'[i].account = orders[i].account
  /\ incoming' = NoOrder \/ SameOrder(orders[id], incoming')

\* OrderBook::replace, in all four ways.
LEMMA AmendmentWays ==
  ASSUME IInv, pc = "idle", NEW id \in DOMAIN orders, NEW p, NEW q, Replace(id, p, q)
  PROVE  AmendmentEffect(id)
<1>1. incoming = NoOrder /\ TypeOK /\ orders[id] \in OrderType
  BY Zenon DEF IInv, CommandConsistent, TypeOK
<1>2. CASE ReplaceRefused(id, p, q)
  BY Zenon, <1>1, <1>2 DEF ReplaceRefused, bookVars, AmendmentEffect
<1>3. CASE ReplaceCancels(id, p, q) \/ ReplaceInPlace(id, p, q)
  <2>1. incoming' = incoming /\ \E x, w : TakeFrom(id, x, w)
    BY Zenon, <1>3 DEF ReplaceCancels, ReplaceInPlace
  <2> QED
    BY Zenon, <1>1, <2>1, OthersStay DEF AmendmentEffect
<1>4. CASE ReplaceRequeues(id, p, q)
  <2>1. /\ TakeFrom(id, orders[id].remaining, 0)
        /\ incoming' = Amended(orders[id], p, q)
    BY Zenon, <1>4 DEF ReplaceRequeues
  <2>2. SameOrder(orders[id], incoming')
    BY ZenonT(30), <1>1, <2>1 DEF Amended, OrderType, SameOrder
  <2> QED
    BY Zenon, <1>1, <2>1, <2>2, OthersStay DEF AmendmentEffect
<1> QED
  BY Zenon, <1>2, <1>3, <1>4 DEF Replace

-----------------------------------------------------------------------------
(* The losses of one order.                                                *)

\* What is left of order id, and whether the report says it has left the book.
LeftOf(id) == LeftIn(orders, id)

FilledUp(id) ==
  \E i \in DOMAIN fills : fills[i].resting_order = id /\ fills[i].resting_filled

Removed(id) ==
  \E i \in DOMAIN withdrawals : withdrawals[i].order = id /\ withdrawals[i].fully_removed

SaidGone(id) == FilledUp(id) \/ Removed(id)

\* The report is a list of fills and one of withdrawals, with quantities.
LEMMA ReportTyped ==
  ASSUME TypeOK
  PROVE  /\ fills \in Seq(FillType) /\ Entries(fills)
         /\ withdrawals \in Seq(WithdrawalType) /\ Entries(withdrawals)
<1>1. /\ fills \in Seq(FillType) /\ \A f \in FillType : f.quantity \in Nat
      /\ withdrawals \in Seq(WithdrawalType)
      /\ \A w \in WithdrawalType : w.quantity \in Nat
  BY Zenon DEF TypeOK, FillType, WithdrawalType
<1> QED
  BY Zenon, <1>1 DEF Entries

\* What an order lost, and what it has left, are numbers.
LEMMA LossesAreNumbers ==
  ASSUME TypeOK, NEW id
  PROVE  FilledIn(id) \in Nat /\ WithdrawnIn(id) \in Nat /\ LeftOf(id) \in Nat
<1>1. FilledIn(id) \in Nat
  <2>1. {i \in DOMAIN fills : fills[i].resting_order = id} \in SUBSET DOMAIN fills
    BY Zenon
  <2>2. FilledIn(id) = Quantity(fills, {i \in DOMAIN fills : fills[i].resting_order = id})
    BY Zenon DEF FilledIn, Quantity
  <2> QED
    BY Zenon, <2>1, <2>2, ReportTyped, QuantityTyped
<1>2. WithdrawnIn(id) \in Nat
  <2>1. {i \in DOMAIN withdrawals : withdrawals[i].order = id} \in SUBSET DOMAIN withdrawals
    BY Zenon
  <2>2. WithdrawnIn(id)
          = Quantity(withdrawals, {i \in DOMAIN withdrawals : withdrawals[i].order = id})
    BY Zenon DEF WithdrawnIn, Quantity
  <2> QED
    BY Zenon, <2>1, <2>2, ReportTyped, QuantityTyped
<1>3. LeftOf(id) \in Nat
  <2>1. id \in DOMAIN orders => orders[id] \in OrderType
    BY Zenon DEF TypeOK
  <2>2. \A o \in OrderType : o.remaining \in Nat
    BY Zenon DEF OrderType
  <2>3. 0 \in Nat
    BY Zenon, Numerals
  <2> QED
    BY Zenon, <2>1, <2>2, <2>3 DEF LeftOf, LeftIn
<1> QED
  BY Zenon, <1>1, <1>2, <1>3

\* A fill adds to what its resting order lost, and to no other's loss.
LEMMA FilledMore ==
  ASSUME TypeOK, NEW j, NEW q \in Nat, FillSays(j, q), NEW id
  PROVE  /\ FilledIn(id)' = IF j = id THEN FilledIn(id) + q ELSE FilledIn(id)
         /\ (FilledUp(id)' <=> FilledUp(id) \/ (j = id /\ q = orders[j].remaining))
<1>1. PICK f : /\ fills' = Append(fills, f) /\ f.quantity = q /\ f.resting_order = j
               /\ f.resting_filled = (q = orders[j].remaining)
  BY Zenon DEF FillSays
<1>2. PICK n : OneLonger(fills, f, fills', n)
  BY Zenon, <1>1, ReportTyped, Appended
<1>3. PICK I : I = {i \in DOMAIN fills : fills[i].resting_order = id}
  BY Zenon
<1>4. {i \in DOMAIN fills' : fills'[i].resting_order = id}
        = IF j = id THEN I \cup {n} ELSE I
  BY Zenon, <1>1, <1>2, <1>3 DEF OneLonger
<1>5. /\ Quantity(fills', I) = Quantity(fills, I)
      /\ Quantity(fills', I \cup {n}) = Quantity(fills, I) + q
  <2>1. I \in SUBSET DOMAIN fills
    BY Zenon, <1>3
  <2>2. Grows(fills, I, f, fills', n)
    BY Zenon, <1>1, <1>2, <2>1, ReportTyped DEF Grows
  <2> QED
    <3>1. Adds(fills, I, f.quantity, fills', n)
      BY Zenon, <2>2, QuantityMore
    <3> QED
      BY Zenon, <1>1, <3>1 DEF Adds
<1>6. /\ FilledIn(id) = Quantity(fills, I)
      /\ FilledIn(id)' = Quantity(fills', {i \in DOMAIN fills' : fills'[i].resting_order = id})
  BY Zenon, <1>3 DEF FilledIn, Quantity
<1>7. FilledIn(id)' = IF j = id THEN FilledIn(id) + q ELSE FilledIn(id)
  BY Zenon, <1>4, <1>5, <1>6
<1>8. FilledUp(id)' <=> FilledUp(id) \/ (j = id /\ q = orders[j].remaining)
  BY Zenon, <1>1, <1>2 DEF OneLonger, FilledUp
<1> QED
  BY Zenon, <1>7, <1>8

\* The same for a withdrawal.
LEMMA WithdrawnMore ==
  ASSUME TypeOK, NEW j, NEW q \in Nat, WithdrawalSays(j, q), NEW id
  PROVE  /\ WithdrawnIn(id)' = IF j = id THEN WithdrawnIn(id) + q ELSE WithdrawnIn(id)
         /\ (Removed(id)' <=> Removed(id) \/ (j = id /\ q = orders[j].remaining))
<1>1. PICK w :
        /\ withdrawals' = Append(withdrawals, w)
        /\ w = [order |-> j, account |-> orders[j].account, side |-> orders[j].side,
                quantity |-> q, fully_removed |-> q = orders[j].remaining]
  BY Zenon DEF WithdrawalSays
<1>2. w.quantity = q /\ w.order = j /\ w.fully_removed = (q = orders[j].remaining)
  BY Zenon, <1>1
<1>3. PICK n : OneLonger(withdrawals, w, withdrawals', n)
  BY Zenon, <1>1, ReportTyped, Appended
<1>4. PICK I : I = {i \in DOMAIN withdrawals : withdrawals[i].order = id}
  BY Zenon
<1>5. {i \in DOMAIN withdrawals' : withdrawals'[i].order = id}
        = IF j = id THEN I \cup {n} ELSE I
  BY Zenon, <1>2, <1>3, <1>4 DEF OneLonger
<1>6. /\ Quantity(withdrawals', I) = Quantity(withdrawals, I)
      /\ Quantity(withdrawals', I \cup {n}) = Quantity(withdrawals, I) + q
  <2>1. I \in SUBSET DOMAIN withdrawals
    BY Zenon, <1>4
  <2>2. Grows(withdrawals, I, w, withdrawals', n)
    BY Zenon, <1>2, <1>3, <2>1, ReportTyped DEF Grows
  <2> QED
    <3>1. Adds(withdrawals, I, w.quantity, withdrawals', n)
      BY Zenon, <2>2, QuantityMore
    <3> QED
      BY Zenon, <1>2, <3>1 DEF Adds
<1>7. /\ WithdrawnIn(id) = Quantity(withdrawals, I)
      /\ WithdrawnIn(id)'
           = Quantity(withdrawals', {i \in DOMAIN withdrawals' : withdrawals'[i].order = id})
  BY Zenon, <1>4 DEF WithdrawnIn, Quantity
<1>8. WithdrawnIn(id)' = IF j = id THEN WithdrawnIn(id) + q ELSE WithdrawnIn(id)
  BY Zenon, <1>5, <1>6, <1>7
<1>9. Removed(id)' <=> Removed(id) \/ (j = id /\ q = orders[j].remaining)
  BY Zenon, <1>2, <1>3 DEF OneLonger, Removed
<1> QED
  BY Zenon, <1>8, <1>9

\* What an iteration of match() takes from an order goes from what the order
\* has left to what is said to be lost, and that was all it had if so said.
LEMMA LossMoved ==
  ASSUME TypeOK, MatchEffect, NEW i
  PROVE  /\ LeftOf(i)' + FilledIn(i)' + WithdrawnIn(i)'
              = LeftOf(i) + FilledIn(i) + WithdrawnIn(i)
         /\ (SaidGone(i)' <=>
              SaidGone(i) \/ (i \in DOMAIN orders /\ i \notin DOMAIN orders'))
         /\ (i \in DOMAIN orders' => i \in DOMAIN orders)
<1>1. FilledIn(i) \in Nat /\ WithdrawnIn(i) \in Nat /\ LeftOf(i) \in Nat
  BY Zenon, LossesAreNumbers
<1>2. i \in DOMAIN orders' => i \in DOMAIN orders
  BY Zenon DEF MatchEffect
<1>3. CASE UNCHANGED <<orders, fills, withdrawals>>
  <2>1. /\ LeftOf(i)' = LeftOf(i) /\ FilledIn(i)' = FilledIn(i)
        /\ WithdrawnIn(i)' = WithdrawnIn(i) /\ (SaidGone(i)' <=> SaidGone(i))
    BY Zenon, <1>3 DEF LeftOf, LeftIn, FilledIn, WithdrawnIn, SaidGone, FilledUp, Removed
  <2> QED
    BY Zenon, <1>2, <1>3, <2>1
<1>4. ASSUME NEW id, NEW q, Loses(orders, orders', id, q), FillSays(id, q) \/ WithdrawalSays(id, q)
      PROVE  /\ LeftOf(i)' + FilledIn(i)' + WithdrawnIn(i)'
                  = LeftOf(i) + FilledIn(i) + WithdrawnIn(i)
             /\ (SaidGone(i)' <=>
                  SaidGone(i) \/ (i \in DOMAIN orders /\ i \notin DOMAIN orders'))
  <2>1. /\ id \in DOMAIN orders /\ q \in Nat
        /\ LeftOf(id)' = LeftOf(id) - q
        /\ (id \notin DOMAIN orders' <=> q = orders[id].remaining)
        /\ (i # id => LeftOf(i)' = LeftOf(i) /\ (i \in DOMAIN orders' <=> i \in DOMAIN orders))
    <3>1. \A j \in DOMAIN orders : orders[j].remaining \in Nat
      BY Zenon DEF TypeOK, OrderType
    <3> QED
      BY Zenon, <1>4, <3>1, LeftLess DEF LeftOf
  <2>2. \/ /\ FilledIn(i)' = IF id = i THEN FilledIn(i) + q ELSE FilledIn(i)
           /\ WithdrawnIn(i)' = WithdrawnIn(i)
        \/ /\ FilledIn(i)' = FilledIn(i)
           /\ WithdrawnIn(i)' = IF id = i THEN WithdrawnIn(i) + q ELSE WithdrawnIn(i)
    <3>1. CASE FillSays(id, q)
      <4>1. WithdrawnIn(i)' = WithdrawnIn(i)
        BY Zenon, <3>1 DEF FillSays, WithdrawnIn
      <4>2. FilledIn(i)' = IF id = i THEN FilledIn(i) + q ELSE FilledIn(i)
        BY Zenon, <2>1, <3>1, FilledMore
      <4> QED
        BY Zenon, <4>1, <4>2
    <3>2. CASE WithdrawalSays(id, q)
      <4>1. FilledIn(i)' = FilledIn(i)
        BY Zenon, <3>2 DEF WithdrawalSays, FilledIn
      <4>2. WithdrawnIn(i)' = IF id = i THEN WithdrawnIn(i) + q ELSE WithdrawnIn(i)
        BY Zenon, <2>1, <3>2, WithdrawnMore
      <4> QED
        BY Zenon, <4>1, <4>2
    <3> QED
      BY Zenon, <1>4, <3>1, <3>2
  <2>3. SaidGone(i)' <=> SaidGone(i) \/ (id = i /\ q = orders[id].remaining)
    <3>1. CASE FillSays(id, q)
      <4>1. Removed(i)' <=> Removed(i)
        BY Zenon, <3>1 DEF FillSays, Removed
      <4> QED
        BY Zenon, <2>1, <3>1, <4>1, FilledMore DEF SaidGone
    <3>2. CASE WithdrawalSays(id, q)
      <4>1. FilledUp(i)' <=> FilledUp(i)
        BY Zenon, <3>2 DEF WithdrawalSays, FilledUp
      <4> QED
        BY Zenon, <2>1, <3>2, <4>1, WithdrawnMore DEF SaidGone
    <3> QED
      BY Zenon, <1>4, <3>1, <3>2
  <2>4. LeftOf(i)' + FilledIn(i)' + WithdrawnIn(i)' = LeftOf(i) + FilledIn(i) + WithdrawnIn(i)
    <3>1. CASE i = id
      <4>1. Moved(LeftOf(i), FilledIn(i), WithdrawnIn(i), q,
                  LeftOf(i)', FilledIn(i)', WithdrawnIn(i)')
        BY Zenon, <1>1, <2>1, <2>2, <3>1 DEF Moved
      <4>2. SameSum(LeftOf(i), FilledIn(i), WithdrawnIn(i),
                    LeftOf(i)', FilledIn(i)', WithdrawnIn(i)')
        BY Zenon, <4>1, SumOfThree
      <4> QED
        BY Zenon, <4>2 DEF SameSum
    <3>2. CASE i # id
      BY Zenon, <2>1, <2>2, <3>2
    <3> QED
      BY Zenon, <3>1, <3>2
  <2> QED
    BY Zenon, <2>1, <2>3, <2>4
<1> QED
  BY Zenon, <1>2, <1>3, <1>4 DEF MatchEffect

\* In those words, what is accounted for.
LEMMA LossesRestated ==
  LossesAccounted <=>
    (incoming # NoOrder => \A id \in DOMAIN before \ {incoming.id} :
       /\ before[id].remaining = LeftOf(id) + FilledIn(id) + WithdrawnIn(id)
       /\ (id \notin DOMAIN orders <=> SaidGone(id)))
BY Zenon DEF LossesAccounted, LeftOf, LeftIn, SaidGone, FilledUp, Removed

\* An iteration of match() keeps the losses accounted for.
LEMMA LossesMatched ==
  ASSUME TypeOK, LossesAccounted, MatchEffect, incoming # NoOrder
  PROVE  LossesAccounted'
<1> SUFFICES ASSUME NEW id \in DOMAIN before \ {incoming.id}
             PROVE  /\ before[id].remaining = LeftOf(id)' + FilledIn(id)' + WithdrawnIn(id)'
                    /\ (id \notin DOMAIN orders' <=> SaidGone(id)')
  <2>1. before' = before /\ incoming'.id = incoming.id
    BY Zenon DEF MatchEffect, SameOrder
  <2> QED
    BY Zenon, <2>1 DEF LossesAccounted, LeftOf, LeftIn, SaidGone, FilledUp, Removed
<1>1. /\ before[id].remaining = LeftOf(id) + FilledIn(id) + WithdrawnIn(id)
      /\ (id \notin DOMAIN orders <=> SaidGone(id))
  BY Zenon, LossesRestated
<1> QED
  BY Zenon, <1>1, LossMoved

\* They are when the command starts: it has done nothing yet.
LEMMA LossesStart ==
  ASSUME fills' = << >>, withdrawals' = << >>, (before \in [DOMAIN before -> OrderType])',
         \A id \in DOMAIN before' \ {incoming'.id} :
           id \in DOMAIN orders' /\ orders'[id] = before'[id]
  PROVE  LossesAccounted'
<1> SUFFICES ASSUME NEW id \in DOMAIN before' \ {incoming'.id}
             PROVE  /\ before'[id].remaining = LeftOf(id)' + FilledIn(id)' + WithdrawnIn(id)'
                    /\ (id \notin DOMAIN orders' <=> SaidGone(id)')
  BY Zenon DEF LossesAccounted, LeftOf, LeftIn, SaidGone, FilledUp, Removed
<1>1. DOMAIN fills' = {} /\ DOMAIN withdrawals' = {}
  BY Zenon, NoEntries
<1>2. FilledIn(id)' = 0 /\ WithdrawnIn(id)' = 0
  <2>1. /\ {i \in DOMAIN fills' : fills'[i].resting_order = id} = {}
        /\ {i \in DOMAIN withdrawals' : withdrawals'[i].order = id} = {}
    BY Zenon, <1>1
  <2> QED
    BY Zenon, <2>1, SumOfNothing DEF FilledIn, WithdrawnIn
<1>3. before'[id].remaining \in Nat
  BY Zenon DEF OrderType
<1>4. ~SaidGone(id)'
  BY Zenon, <1>1 DEF SaidGone, FilledUp, Removed
<1>5. LeftOf(id)' = before'[id].remaining
  BY Zenon DEF LeftOf, LeftIn
<1>6. before'[id].remaining = LeftOf(id)' + FilledIn(id)' + WithdrawnIn(id)'
  BY Zenon, <1>2, <1>3, <1>5, SumOfNone
<1> QED
  BY Zenon, <1>4, <1>6

\* And as long as no other order's loss, nor its report, changes.
LEMMA LossesStay ==
  ASSUME LossesAccounted, UNCHANGED <<fills, withdrawals, before>>, incoming'.id = incoming.id,
         incoming # NoOrder,
         \A id \in DOMAIN before \ {incoming.id} :
           /\ (id \in DOMAIN orders' <=> id \in DOMAIN orders)
           /\ (id \in DOMAIN orders => orders'[id] = orders[id])
  PROVE  LossesAccounted'
<1> SUFFICES ASSUME NEW id \in DOMAIN before \ {incoming.id}
             PROVE  /\ before[id].remaining = LeftOf(id)' + FilledIn(id)' + WithdrawnIn(id)'
                    /\ (id \notin DOMAIN orders' <=> SaidGone(id)')
  BY Zenon DEF LossesAccounted, LeftOf, LeftIn, SaidGone, FilledUp, Removed
<1>1. /\ before[id].remaining = LeftOf(id) + FilledIn(id) + WithdrawnIn(id)
      /\ (id \notin DOMAIN orders <=> SaidGone(id))
  BY Zenon, LossesRestated
<1>2. /\ LeftOf(id)' = LeftOf(id) /\ FilledIn(id)' = FilledIn(id)
      /\ WithdrawnIn(id)' = WithdrawnIn(id) /\ (SaidGone(id)' <=> SaidGone(id))
  BY Zenon DEF LeftOf, LeftIn, FilledIn, WithdrawnIn, SaidGone, FilledUp, Removed
<1> QED
  BY Zenon, <1>1, <1>2

-----------------------------------------------------------------------------
(* Every command reports what resting orders lost.                         *)

\* No command is under way once the call has returned.
LEMMA NoneUnderWay ==
  ASSUME IInv, pc = "idle"
  PROVE  incoming = NoOrder
BY Zenon DEF IInv, CommandConsistent

\* submit() starts with the book as it was.
LEMMA SubmitLoses ==
  ASSUME IInv, IInv', NEW o, Submit(o)
  PROVE  LossesAccounted'
<1>1. before' = orders /\ orders' = orders /\ pc = "idle"
      /\ UNCHANGED <<fills, withdrawals>>
  BY Zenon DEF Submit, Begin, bookVars
<1>2. fills = << >> /\ withdrawals = << >>
  BY Zenon, <1>1 DEF IInv, CommandConsistent
<1>3. (before \in [DOMAIN before -> OrderType])'
  BY Zenon DEF IInv, TypeOK
<1> QED
  BY Zenon, <1>1, <1>2, <1>3, LossesStart

\* So does replace(): a requeued order is the one the command is about.
LEMMA ReplaceLoses ==
  ASSUME IInv, IInv', NEW id, NEW p, NEW q, Replace(id, p, q)
  PROVE  LossesAccounted'
<1>1. Begin
  BY ZenonT(30) DEF Replace, ReplaceRefused, ReplaceCancels, ReplaceInPlace, ReplaceRequeues
<1>2. pc = "idle" /\ before' = orders /\ UNCHANGED <<fills, withdrawals>>
  BY Zenon, <1>1 DEF Begin
<1>3. incoming = NoOrder /\ fills = << >> /\ withdrawals = << >>
  BY Zenon, <1>2 DEF IInv, CommandConsistent
<1>4. CASE id \notin DOMAIN orders
  <2>1. ReplaceReject(id, p, q) = "UnknownOrder"
    BY Zenon, <1>4 DEF ReplaceReject
  <2>2. "UnknownOrder" # "None"
    BY Zenon
  <2>3. incoming' = incoming
    BY Zenon, <2>1, <2>2
       DEF Replace, ReplaceRefused, ReplaceCancels, ReplaceInPlace, ReplaceRequeues
  <2> QED
    BY ZenonT(30), <1>3, <2>3 DEF LossesAccounted
<1>5. CASE id \in DOMAIN orders
  <2>1. AmendmentEffect(id)
    BY Zenon, <1>2, <1>5, AmendmentWays
  <2>2. orders[id].id = id
    BY Zenon, <1>5 DEF IInv, IndexMatchesLevels
  <2>3. \/ incoming' = NoOrder
        \/ \A i \in DOMAIN before' \ {incoming'.id} :
             i \in DOMAIN orders' /\ orders'[i] = before'[i]
    BY Zenon, <1>2, <2>1, <2>2 DEF AmendmentEffect, SameOrder
  <2>4. (before \in [DOMAIN before -> OrderType])'
    BY Zenon DEF IInv, TypeOK
  <2>5. fills' = << >> /\ withdrawals' = << >>
    BY Zenon, <1>2, <1>3
  <2> QED
    BY Zenon, <2>3, <2>4, <2>5, LossesStart DEF LossesAccounted
<1> QED
  BY ZenonT(30), <1>4, <1>5

\* insert() and the end of the loop move no other order.
LEMMA SettleLoses ==
  ASSUME IInv, LossesAccounted, Insert \/ Settle
  PROVE  LossesAccounted'
<1>1. /\ pc \in {"insert", "match"} /\ UNCHANGED <<fills, withdrawals, before>>
      /\ incoming' = incoming
  BY Zenon DEF Insert, Settle, history
<1>2. incoming # NoOrder
  BY Zenon, <1>1, BookAssumption DEF IInv, CommandConsistent
<1>3. orders' = orders \/ rest(incoming)
  BY Zenon DEF Insert, Settle, bookVars
<1>4. ASSUME NEW i, i # incoming.id
      PROVE  /\ (i \in DOMAIN orders' <=> i \in DOMAIN orders)
             /\ (i \in DOMAIN orders => orders'[i] = orders[i])
  BY Zenon, <1>3, <1>4 DEF rest
<1>5. incoming'.id = incoming.id
  BY Zenon, <1>1
<1> QED
  BY Zenon, <1>1, <1>2, <1>4, <1>5, LossesStay

\* Every step of the book keeps the losses accounted for.
LEMMA LossesKept ==
  ASSUME IInv, LossesAccounted, [Next]_vars
  PROVE  LossesAccounted'
<1>1. IInv'
  BY ZenonT(30), StepKeeps
<1>2. CASE \E o \in NewOrders : Submit(o)
  BY Zenon, <1>1, <1>2, SubmitLoses
<1>3. CASE \E id, p, q : Replace(id, p, q)
  BY ZenonT(30), <1>1, <1>3, ReplaceLoses
<1>4. CASE Return \/ \E id : Cancel(id) \/ CancelUnknown(id)
  <2>1. incoming' = NoOrder
    BY Zenon, <1>4, NoneUnderWay DEF Return, Cancel, CancelUnknown, Begin
  <2> QED
    BY Zenon, <2>1 DEF LossesAccounted
<1>5. CASE \/ Fill \/ PreventCancelIncoming \/ PreventCancelResting
           \/ PreventCancelBoth \/ PreventDecrementBoth
  <2>1. MatchEffect /\ pc = "match"
    BY Zenon, <1>5, IterationLeaves
  <2>2. incoming # NoOrder /\ TypeOK
    BY Zenon, <2>1, BookAssumption DEF IInv, CommandConsistent
  <2> QED
    BY ZenonT(30), <2>1, <2>2, LossesMatched
<1>6. CASE Insert \/ Settle
  BY Zenon, <1>6, SettleLoses
<1>7. CASE UNCHANGED vars
  <2>1. orders' = orders /\ incoming' = incoming /\ UNCHANGED <<fills, withdrawals, before>>
    BY ZenonT(30), <1>7 DEF vars, bookVars, callVars, history
  <2>2. incoming'.id = incoming.id
    BY Zenon, <2>1
  <2>3. CASE incoming # NoOrder
    BY Zenon, <2>1, <2>2, <2>3, LossesStay
  <2>4. CASE incoming = NoOrder
    BY ZenonT(30), <2>1, <2>4 DEF LossesAccounted
  <2> QED
    BY Zenon, <2>3, <2>4
<1> QED
  BY Zenon, <1>2, <1>3, <1>4, <1>5, <1>6, <1>7 DEF Next, Command, Step, InsertStep

\* Nobody's command has started: nothing is lost.
LEMMA NothingLost ==
  ASSUME Init
  PROVE  LossesAccounted
BY Zenon DEF Init, LossesAccounted

\* Every unit a resting order loses to somebody else's command is in exactly
\* one fill or one withdrawal of that command, and the order has left the book
\* exactly when one of them says so: what match() reports to the risk engine
\* is all that happened to the book, under every prevention policy.
THEOREM LossesReported == Spec => []LossesAccounted
<1>1. Init => IInv /\ LossesAccounted
  BY Zenon, InitSound, NothingLost
<1>2. (IInv /\ LossesAccounted) /\ [Next]_vars => (IInv /\ LossesAccounted)'
  BY Zenon, StepKeeps, LossesKept
<1> QED
  BY <1>1, <1>2, PTL DEF Spec

-----------------------------------------------------------------------------
(* The book under the engine.                                              *)

\* A command turned away before the book sees it leaves the book as it was.
LEMMA TurnedAwayKeeps ==
  ASSUME IInv, NEW c, NEW r \in Rejects, TurnedAway(c, r),
         sequence' \in {sequence, sequence + 1}
  PROVE  IInv'
<1>1. /\ pc = "idle" /\ pc' = "return" /\ result' = [NoResult EXCEPT !.reject = r]
      /\ UNCHANGED bookVars /\ UNCHANGED <<policy, incoming, requested, fills, withdrawals>>
      /\ UNCHANGED <<filledBy, before>>
  BY Zenon DEF TurnedAway, Refuse, Report, history
<1>2. BookInv'
  BY Zenon, <1>1, BookUntouched
<1>3. TypeOK /\ CommandConsistent /\ FilledMatchesFillStream
  BY Zenon DEF IInv
<1>4. FilledMatchesFillStream'
  BY Zenon, <1>1, <1>3 DEF FilledMatchesFillStream, bookVars, filled
<1>5. incoming' = NoOrder /\ fills' = << >> /\ withdrawals' = << >>
  BY ZenonT(30), <1>1, <1>3 DEF CommandConsistent
<1>6. PostOnlyNeverTakes'
  BY ZenonT(30), <1>5 DEF PostOnlyNeverTakes
<1>7. sequence \in Nat /\ \A id \in DOMAIN orders : orders[id].sequence \in Nat
  BY Zenon, <1>3 DEF TypeOK, OrderType
<1>8. \A id \in DOMAIN orders' : orders'[id].sequence <= sequence'
  <2>1. \A id \in DOMAIN orders : orders[id].sequence <= sequence
    BY Zenon, <1>3 DEF CommandConsistent
  <2>2. orders' = orders
    BY Zenon, <1>1 DEF bookVars
  <2> QED
    BY Zenon, <1>7, <2>1, <2>2, Successor
<1>9. CommandConsistent'
  BY Zenon, <1>1, <1>8 DEF CommandConsistent
<1>10. result' \in ResultType /\ sequence' \in Nat
  BY Zenon, <1>1, <1>7, ResultTypes, Successor
<1> QED
  BY ZenonT(30), <1>1, <1>2, <1>3, <1>4, <1>6, <1>9, <1>10, InvPrimed DEF TypeOK

\* Commands turned away by the engine.
LEMMA GatesKeepBook ==
  ASSUME IInv,
         \/ \E o \in NewOrders : SubmitTurnedAway(o)
         \/ \E c : NotJournaled(c) \/ \E b, id : NotOwned(c, b, id)
  PROVE  IInv'
<1>1. \A o : Gate(o) \in Rejects
  BY Zenon DEF Gate, check, Rejects
<1>2. "Halted" \in Rejects /\ "UnknownOrder" \in Rejects
  BY Zenon DEF Rejects
<1>3. ASSUME NEW o, SubmitTurnedAway(o) PROVE IInv'
  BY Zenon, <1>1, <1>3, TurnedAwayKeeps DEF SubmitTurnedAway
<1>4. ASSUME NEW c, NotJournaled(c) PROVE IInv'
  BY Zenon, <1>2, <1>4, TurnedAwayKeeps DEF NotJournaled
<1>5. ASSUME NEW c, NEW b, NEW id, NotOwned(c, b, id) PROVE IInv'
  BY ZenonT(30), <1>2, <1>5, TurnedAwayKeeps DEF NotOwned
<1> QED
  BY Zenon, <1>3, <1>4, <1>5

\* What the engine has the book do is what the book does.
LEMMA EngineMovesBook ==
  ASSUME EngineNext
  PROVE  \/ [Next]_vars
         \/ \E o \in NewOrders : SubmitTurnedAway(o)
         \/ \E c : NotJournaled(c) \/ \E b, id : NotOwned(c, b, id)
<1>1. CASE EngineCommand
  BY ZenonT(30), <1>1 DEF EngineCommand, SubmitNotJournaled, SubmitAdmitted, CancelNotJournaled,
     CancelAdmitted, ReplaceNotJournaled, ReplaceAdmitted, Next, Command
<1>2. CASE OperatorCall
  BY ZenonT(30), <1>2 DEF OperatorCall, halt_venue, resume_venue, halt_account, resume_account, Operator
<1>3. CASE EngineStep
  <2>1. InsertStep \/ Finish \/ UNCHANGED vars
    BY Zenon, <1>3 DEF EngineStep, SettleFill, SettleWithdrawal, FinishOther,
       FinishSubmitRejected, FinishSubmitAccepted, FinishReplaceRefused, FinishReplaceAccepted
  <2> QED
    BY ZenonT(30), <2>1 DEF Finish, Next, Step
<1> QED
  BY ZenonT(30), <1>1, <1>2, <1>3 DEF EngineNext

\* So the engine keeps the book's invariant.
LEMMA EngineKeepsBook ==
  ASSUME IInv, [EngineNext]_allVars
  PROVE  IInv'
<1>1. CASE EngineNext
  BY ZenonT(30), <1>1, EngineMovesBook, StepKeeps, GatesKeepBook
<1>2. CASE UNCHANGED allVars
  <2>1. UNCHANGED vars
    BY Zenon, <1>2 DEF allVars
  <2> QED
    BY ZenonT(30), <2>1, StepKeeps
<1> QED
  BY ZenonT(30), <1>1, <1>2

\* What the engine turns away leaves the losses accounted for, too.
LEMMA EngineKeepsLosses ==
  ASSUME IInv, LossesAccounted, [EngineNext]_allVars
  PROVE  LossesAccounted'
<1>1. CASE [Next]_vars
  BY Zenon, <1>1, LossesKept
<1>2. CASE \/ \E o \in NewOrders : SubmitTurnedAway(o)
           \/ \E c : NotJournaled(c) \/ \E b, id : NotOwned(c, b, id)
  <2>1. pc = "idle" /\ incoming' = incoming
    BY Zenon, <1>2 DEF SubmitTurnedAway, NotJournaled, NotOwned, TurnedAway
  <2> QED
    BY Zenon, <2>1, NoneUnderWay DEF LossesAccounted
<1>3. CASE UNCHANGED allVars
  BY Zenon, <1>1, <1>3 DEF allVars
<1> QED
  BY Zenon, <1>1, <1>2, <1>3, EngineMovesBook

\* The book inside the engine is never crossed, its index, levels and queues
\* agree and stay in order of arrival, and what a command took from resting
\* orders is in its report: the engine gives the book no command that breaks
\* this, and what it turns away leaves the book alone.
THEOREM EngineKeepsTheBook ==
  EngineSpec => [](NeverCrossed /\ IndexMatchesLevels /\ ArrivalOrder /\ LossesAccounted)
<1>1. EngineInit => IInv /\ LossesAccounted
  BY Zenon, InitSound, NothingLost DEF EngineInit
<1>2. (IInv /\ LossesAccounted) /\ [EngineNext]_allVars => (IInv /\ LossesAccounted)'
  BY Zenon, EngineKeepsBook, EngineKeepsLosses
<1>3. IInv => NeverCrossed /\ IndexMatchesLevels /\ ArrivalOrder
  BY Zenon DEF IInv
<1> QED
  BY <1>1, <1>2, <1>3, PTL DEF EngineSpec

-----------------------------------------------------------------------------
(* Positions.                                                              *)

\* Every order and every trade has an account.
Accounted ==
  /\ \A id \in DOMAIN orders : orders[id].account # NoAccount
  /\ incoming # NoOrder => incoming.account # NoAccount
  /\ \A i \in DOMAIN fills : /\ fills[i].aggressor_account # NoAccount
                             /\ fills[i].resting_account # NoAccount

\* The positions of the accounts add up to zero.
Balanced ==
  Accounts \ {NoAccount} \subseteq Configured =>
    SumFunctionOnSet(net_position, Accounts) = 0

\* What settling relies on: an account that was configured has a state.
PositionsSound ==
  /\ Accounted /\ Balanced
  /\ Configured \subseteq known /\ net_position \in [Accounts -> Int] /\ settled \in Nat

\* No order or trade without an account appears.
LEMMA AccountsStay ==
  ASSUME Accounted, fills' = fills \/ fills' = << >>,
         incoming' = incoming \/ incoming' = NoOrder \/ incoming'.account # NoAccount,
         \A id \in DOMAIN orders' : orders'[id].account # NoAccount
  PROVE  Accounted'
<1>1. fills' = << >> => DOMAIN fills' = {}
  BY Zenon, NoEntries
<1> QED
  BY Zenon, <1>1 DEF Accounted

\* An iteration of match() trades on behalf of the two orders it matches.
LEMMA MatchAccounted ==
  ASSUME TypeOK, Accounted, incoming # NoOrder, MatchEffect
  PROVE  Accounted'
<1>1. /\ \A id \in DOMAIN orders' : orders'[id].account # NoAccount
      /\ incoming'.account # NoAccount
  BY Zenon DEF Accounted, MatchEffect, SameOrder
<1>2. ASSUME NEW id \in DOMAIN orders, NEW q, FillSays(id, q)
      PROVE  \A i \in DOMAIN fills' : /\ fills'[i].aggressor_account # NoAccount
                                      /\ fills'[i].resting_account # NoAccount
  <2>1. PICK f : /\ fills' = Append(fills, f) /\ f.resting_account = orders[id].account
                 /\ f.aggressor_account = incoming.account
    BY Zenon, <1>2 DEF FillSays
  <2>2. fills \in Seq(FillType)
    BY Zenon DEF TypeOK
  <2>3. \E n : OneLonger(fills, f, fills', n)
    BY Zenon, <2>1, <2>2, Appended
  <2> QED
    BY Zenon, <2>1, <2>3 DEF Accounted, OneLonger
<1>3. \/ fills' = fills
      \/ \E id, q : id \in DOMAIN orders /\ FillSays(id, q)
  BY Zenon DEF MatchEffect, WithdrawalSays, Loses
<1> QED
  BY Zenon, <1>1, <1>2, <1>3 DEF Accounted

\* Nor does a step of insert() bring one.
LEMMA InsertAccounted ==
  ASSUME IInv, Accounted, InsertStep
  PROVE  Accounted'
<1>1. CASE \/ Fill \/ PreventCancelIncoming \/ PreventCancelResting
           \/ PreventCancelBoth \/ PreventDecrementBoth
  <2>1. MatchEffect /\ pc = "match"
    BY Zenon, <1>1, IterationLeaves
  <2>2. incoming # NoOrder /\ TypeOK
    BY Zenon, <2>1, BookAssumption DEF IInv, CommandConsistent
  <2> QED
    BY Zenon, <2>1, <2>2, MatchAccounted
<1>2. CASE Insert \/ Settle
  <2>1. /\ pc \in {"insert", "match"} /\ fills' = fills /\ incoming' = incoming
        /\ orders' = orders \/ rest(incoming)
    BY Zenon, <1>2 DEF Insert, Settle, bookVars
  <2>2. incoming # NoOrder
    BY Zenon, <2>1, BookAssumption DEF IInv, CommandConsistent
  <2>3. \A id \in DOMAIN orders' :
          orders'[id] = incoming \/ (id \in DOMAIN orders /\ orders'[id] = orders[id])
    <3>1. CASE rest(incoming)
      <4>1. orders' = [i \in DOMAIN orders \cup {incoming.id} |->
                         IF i = incoming.id THEN incoming ELSE orders[i]]
        BY Zenon, <3>1 DEF rest
      <4> QED
        BY Zenon, <4>1
    <3> QED
      BY Zenon, <2>1, <3>1
  <2>4. \A id \in DOMAIN orders' : orders'[id].account # NoAccount
    BY Zenon, <2>2, <2>3 DEF Accounted
  <2> QED
    BY Zenon, <2>1, <2>4, AccountsStay
<1> QED
  BY Zenon, <1>1, <1>2 DEF InsertStep

\* submit: an order without an account does not pass the gate.
LEMMA SubmitAccounted ==
  ASSUME Accounted, NEW o, SubmitAdmitted(o)
  PROVE  Accounted'
<1>1. o.account # NoAccount
  <2>1. "UnknownOrder" # "None"
    BY Zenon
  <2> QED
    BY Zenon, <2>1 DEF SubmitAdmitted, Gate
<1>2. incoming'.account = o.account /\ orders' = orders /\ fills' = fills
  BY Zenon DEF SubmitAdmitted, Submit, Begin, bookVars
<1> QED
  BY Zenon, <1>1, <1>2, AccountsStay DEF Accounted

\* cancel and replace touch an order that has one.
LEMMA AmendAccounted ==
  ASSUME IInv, Accounted, NEW b, NEW id,
         CancelAdmitted(b, id) \/ \E p, q : ReplaceAdmitted(b, id, p, q)
  PROVE  Accounted'
<1>1. id \in DOMAIN orders /\ Begin /\ (Cancel(id) \/ \E p, q : Replace(id, p, q))
  BY Zenon DEF CancelAdmitted, ReplaceAdmitted, Owns, Cancel, Replace, ReplaceRefused,
               ReplaceCancels, ReplaceInPlace, ReplaceRequeues
<1>2. fills' = fills /\ pc = "idle" /\ TypeOK
  BY Zenon, <1>1 DEF Begin, IInv
<1>3. CASE Cancel(id)
  <2>1. TakeFrom(id, orders[id].remaining, 0) /\ incoming' = incoming
    BY Zenon, <1>3 DEF Cancel
  <2>2. \A i \in DOMAIN orders' : orders'[i].account # NoAccount
    BY Zenon, <1>1, <1>2, <2>1, OthersStay DEF Accounted
  <2> QED
    BY Zenon, <1>2, <2>1, <2>2, AccountsStay
<1>4. CASE \E p, q : Replace(id, p, q)
  <2>1. AmendmentEffect(id)
    BY Zenon, <1>1, <1>2, <1>4, AmendmentWays
  <2>2. /\ \A i \in DOMAIN orders' : orders'[i].account # NoAccount
        /\ incoming' = NoOrder \/ incoming'.account # NoAccount
    BY Zenon, <1>1, <2>1 DEF AmendmentEffect, SameOrder, Accounted
  <2> QED
    BY Zenon, <1>2, <2>2, AccountsStay
<1> QED
  BY Zenon, <1>1, <1>3, <1>4

\* Everything else the engine does leaves the book's orders and fills alone, or
\* clears the report.
LEMMA EngineAccounted ==
  ASSUME IInv, Accounted, [EngineNext]_allVars
  PROVE  Accounted'
<1>1. CASE EngineCommand
  <2>1. \/ \E o \in NewOrders : SubmitAdmitted(o)
        \/ \E b, id : CancelAdmitted(b, id) \/ \E p, q : ReplaceAdmitted(b, id, p, q)
        \/ \E c, r : TurnedAway(c, r)
    BY Zenon, <1>1 DEF EngineCommand, SubmitTurnedAway, SubmitNotJournaled,
       CancelNotJournaled, ReplaceNotJournaled, NotJournaled, NotOwned
  <2>2. ASSUME NEW c, NEW r, TurnedAway(c, r) PROVE Accounted'
    <3>1. orders' = orders /\ incoming' = incoming /\ fills' = fills
      BY Zenon, <2>2 DEF TurnedAway, bookVars
    <3> QED
      BY Zenon, <3>1 DEF Accounted
  <2> QED
    BY Zenon, <2>1, <2>2, SubmitAccounted, AmendAccounted
<1>2. CASE InsertStep
  BY Zenon, <1>2, InsertAccounted
<1>3. CASE Finish
  <2>1. orders' = orders /\ incoming' = NoOrder /\ fills' = << >>
    BY Zenon, <1>3 DEF Finish, Return, bookVars
  <2> QED
    BY Zenon, <2>1, AccountsStay DEF Accounted
<1>4. CASE UNCHANGED vars
  <2>1. orders' = orders /\ incoming' = incoming /\ fills' = fills
    BY Zenon, <1>4 DEF vars, bookVars, callVars
  <2> QED
    BY Zenon, <2>1 DEF Accounted
<1>5. CASE OperatorCall \/ UNCHANGED allVars
  <2>1. UNCHANGED vars
    BY Zenon, <1>5 DEF OperatorCall, halt_venue, resume_venue, halt_account,
       resume_account, Operator, allVars
  <2> QED
    BY Zenon, <1>4, <2>1
<1>6. CASE EngineStep
  <2>1. InsertStep \/ Finish \/ UNCHANGED vars
    BY Zenon, <1>6 DEF EngineStep, SettleFill, SettleWithdrawal, FinishOther,
       FinishSubmitRejected, FinishSubmitAccepted, FinishReplaceRefused, FinishReplaceAccepted
  <2> QED
    BY Zenon, <1>2, <1>3, <1>4, <2>1
<1> QED
  BY Zenon, <1>1, <1>5, <1>6 DEF EngineNext

\* on_fill moves the positions of the two accounts by as much, one up and one
\* down.
LEMMA FillMoves ==
  ASSUME NEW f \in FillType, NEW r, r = [a \in Accounts |-> PositionAfter(f, a)]
  PROVE  \E u, v \in Int :
           u + v = 0 /\ Moves(net_position, r, Accounts, f.aggressor_account,
                              f.resting_account, u, v)
<1>1. f.quantity \in Nat /\ f.aggressor_side \in {"Buy", "Sell"}
  BY Zenon DEF FillType, Sides
<1>2. PICK u, v :
        /\ u = (IF f.aggressor_side = "Buy" THEN 1 ELSE -1) * f.quantity
        /\ v = (IF opposite(f.aggressor_side) = "Buy" THEN 1 ELSE -1) * f.quantity
  BY Zenon
<1>3. Moves(net_position, r, Accounts, f.aggressor_account, f.resting_account, u, v)
  BY Zenon, <1>2 DEF Moves, PositionAfter
<1>4. \/ u = 1 * f.quantity /\ v = (-1) * f.quantity
      \/ u = (-1) * f.quantity /\ v = 1 * f.quantity
  BY Zenon, <1>1, <1>2 DEF opposite
<1>5. u \in Int /\ v \in Int /\ u + v = 0
  BY Zenon, <1>1, <1>4, Signed
<1> QED
  BY Zenon, <1>3, <1>5

\* Settling a fill keeps the positions in balance.
LEMMA FillBalances ==
  ASSUME TypeOK, PositionsSound, SettleFill
  PROVE  Balanced' /\ net_position' \in [Accounts -> Int]
<1>1. /\ fills \in Seq(FillType) /\ settled \in Nat /\ settled < Len(fills)
      /\ net_position \in [Accounts -> Int] /\ IsFiniteSet(Accounts)
  BY Zenon, EngineAssumption DEF TypeOK, PositionsSound, SettleFill
<1>2. PICK f \in FillType : f = fills[settled + 1] /\ settled + 1 \in DOMAIN fills
  BY Zenon, <1>1, ListEntries
<1>3. /\ f.aggressor_account # NoAccount /\ f.resting_account # NoAccount
      /\ f.aggressor_account \in Accounts /\ f.resting_account \in Accounts
  BY Zenon, <1>2 DEF PositionsSound, Accounted, FillType
<1>4. PICK r : r = [a \in Accounts |-> PositionAfter(f, a)]
  BY Zenon
<1>5. net_position' = [a \in Accounts |-> IF a \in known THEN r[a] ELSE net_position[a]]
  BY Zenon, <1>2, <1>4 DEF SettleFill, on_fill
<1>6. /\ \A a \in Accounts : r[a] \in Int /\ (a = NoAccount => r[a] = net_position[a])
      /\ SumFunctionOnSet(r, Accounts) = SumFunctionOnSet(net_position, Accounts)
  <2>1. PICK u, v \in Int :
          u + v = 0 /\ Moves(net_position, r, Accounts, f.aggressor_account,
                             f.resting_account, u, v)
    BY Zenon, <1>2, <1>4, FillMoves
  <2>2. /\ \A a \in Accounts : /\ r[a] \in Int
                               /\ (a # f.aggressor_account /\ a # f.resting_account
                                     => r[a] = net_position[a])
        /\ SumFunctionOnSet(r, Accounts) = SumFunctionOnSet(net_position, Accounts)
    BY Zenon, <1>1, <1>3, <2>1, SumMoves
  <2> QED
    BY Zenon, <1>3, <2>2
<1>7. net_position' \in [Accounts -> Int]
  BY Zenon, <1>1, <1>5, <1>6
<1>8. ASSUME Accounts \ {NoAccount} \subseteq Configured
      PROVE  SumFunctionOnSet(net_position', Accounts) = 0
  <2>1. \A a \in Accounts : a \in known \/ a = NoAccount
    BY Zenon, <1>8 DEF PositionsSound
  <2>2. \A a \in Accounts : (IF a \in known THEN r[a] ELSE net_position[a]) = r[a]
    BY Zenon, <1>6, <2>1
  <2>3. net_position' = r
    BY Zenon, <1>4, <1>5, <2>2
  <2> QED
    BY Zenon, <1>6, <1>8, <2>3 DEF PositionsSound, Balanced
<1> QED
  BY Zenon, <1>7, <1>8 DEF Balanced

\* Only the settling of a fill moves a position, and no account loses its state.
LEMMA PositionsMove ==
  ASSUME [EngineNext]_allVars
  PROVE  /\ SettleFill \/ net_position' = net_position
         /\ known \subseteq known'
         /\ settled' \in {settled, settled + 1, 0}
<1>1. CASE EngineCommand
  BY Zenon, <1>1 DEF EngineCommand, SubmitTurnedAway, SubmitNotJournaled, SubmitAdmitted,
     CancelNotJournaled, CancelAdmitted, ReplaceNotJournaled, ReplaceAdmitted,
     NotJournaled, NotOwned, TurnedAway, riskVars
<1>2. CASE OperatorCall \/ UNCHANGED engineVars
  BY Zenon, <1>2 DEF OperatorCall, halt_venue, resume_venue, halt_account, resume_account,
     Operator, engineVars, riskVars
<1>3. CASE SettleFill \/ SettleWithdrawal
  BY Zenon, <1>3 DEF SettleFill, SettleWithdrawal
<1>4. CASE \/ FinishOther \/ FinishSubmitRejected \/ FinishSubmitAccepted
           \/ FinishReplaceRefused \/ FinishReplaceAccepted
  <2>1. net_position' = net_position /\ settled' = 0
    BY Zenon, <1>4 DEF FinishOther, FinishSubmitRejected, FinishSubmitAccepted,
       FinishReplaceRefused, FinishReplaceAccepted, Finish
  <2>2. known' = known \/ \E o : on_order_rested(o)
    BY Zenon, <1>4 DEF FinishOther, FinishSubmitRejected, FinishSubmitAccepted,
       FinishReplaceRefused, FinishReplaceAccepted, Recorded
  <2> QED
    BY Zenon, <2>1, <2>2 DEF on_order_rested
<1> QED
  BY Zenon, <1>1, <1>2, <1>3, <1>4 DEF EngineNext, EngineStep, allVars

\* So every step of the engine keeps them in balance.
LEMMA PositionsKept ==
  ASSUME IInv, PositionsSound, [EngineNext]_allVars
  PROVE  PositionsSound'
<1>1. Accounted'
  BY Zenon, EngineAccounted DEF PositionsSound
<1>2. Balanced' /\ net_position' \in [Accounts -> Int]
  <2>1. CASE SettleFill
    BY Zenon, <2>1, FillBalances DEF IInv
  <2>2. CASE net_position' = net_position
    BY Zenon, <2>2 DEF PositionsSound, Balanced
  <2> QED
    BY Zenon, <2>1, <2>2, PositionsMove
<1>3. Configured \subseteq known' /\ settled' \in Nat
  <2>1. settled \in Nat => settled + 1 \in Nat
    BY Zenon, Successor
  <2> QED
    BY Zenon, <2>1, PositionsMove, Numerals DEF PositionsSound
<1> QED
  BY Zenon, <1>1, <1>2, <1>3 DEF PositionsSound

\* Nobody has traded yet.
LEMMA PositionsStart ==
  ASSUME EngineInit
  PROVE  PositionsSound
<1>1. /\ orders = [i \in {} |-> NoOrder] /\ fills = << >> /\ incoming = NoOrder
      /\ known = Configured /\ net_position = [a \in Accounts |-> 0] /\ settled = 0
  BY Zenon DEF EngineInit, Init
<1>2. DOMAIN orders = {} /\ DOMAIN fills = {} /\ 0 \in Nat /\ 0 \in Int
  BY Zenon, <1>1, NoEntries, Numerals
<1>3. Accounted
  BY Zenon, <1>1, <1>2 DEF Accounted
<1>4. SumFunctionOnSet(net_position, Accounts) = 0
  <2>1. \A a \in Accounts : net_position[a] = 0
    BY Zenon, <1>1
  <2> QED
    BY Zenon, <2>1, SumOfZeros, EngineAssumption
<1> QED
  BY Zenon, <1>1, <1>2, <1>3, <1>4 DEF PositionsSound, Balanced

\* Every fill moves as much to one account as away from another (on_fill, called
\* by settle_risk for each fill of the report): the positions of the accounts
\* the risk engine knows add up to zero between commands, and in the middle of
\* one as well.
THEOREM PositionsAddUp == EngineSpec => []PositionsBalance
<1>1. EngineInit => IInv /\ PositionsSound
  BY Zenon, InitSound, PositionsStart DEF EngineInit
<1>2. (IInv /\ PositionsSound) /\ [EngineNext]_allVars => (IInv /\ PositionsSound)'
  BY Zenon, EngineKeepsBook, PositionsKept
<1>3. PositionsSound => PositionsBalance
  BY Zenon DEF PositionsSound, Balanced, PositionsBalance
<1> QED
  BY <1>1, <1>2, <1>3, PTL DEF EngineSpec

-----------------------------------------------------------------------------
(* The kill switch.                                                        *)

\* What the kill switch keeps: a run of rejects trips the halt in time.
KillSound ==
  /\ account_halted \in [Accounts -> BOOLEAN]
  /\ consecutive_rejects \in [Accounts -> Nat]
  /\ RunTripsHalt

\* record_reject trips the halt no later than the threshold says.
LEMMA RejectRecorded ==
  ASSUME KillSound, NEW a \in Accounts, record_reject(a)
  PROVE  KillSound'
<1>1. /\ account_halted \in [Accounts -> BOOLEAN]
      /\ consecutive_rejects \in [Accounts -> Nat] /\ AutoTrip \in Nat
      /\ AutoTrip > 0 => \A b \in Accounts :
           consecutive_rejects[b] < AutoTrip \/ account_halted[b]
  BY Zenon, EngineAssumption DEF KillSound, RunTripsHalt
<1>2. CASE AutoTrip = 0 \/ account_halted[a]
  BY Zenon, <1>2 DEF record_reject, killVars, KillSound, RunTripsHalt
<1>3. CASE ~(AutoTrip = 0 \/ account_halted[a])
  <2>1. PICK n \in Nat : n = consecutive_rejects[a] + 1
    BY Zenon, <1>1, Successor
  <2>2. /\ consecutive_rejects' = [consecutive_rejects EXCEPT ![a] = n]
        /\ account_halted' = [account_halted EXCEPT ![a] = n >= AutoTrip]
    BY Zenon, <1>3, <2>1 DEF record_reject
  <2>3. (n < AutoTrip \/ n >= AutoTrip) /\ (n >= AutoTrip) \in BOOLEAN
    BY Zenon, <1>1, Threshold
  <2>4. /\ consecutive_rejects'[a] = n /\ (account_halted'[a] <=> n >= AutoTrip)
        /\ \A b \in Accounts : b # a =>
             /\ consecutive_rejects'[b] = consecutive_rejects[b]
             /\ account_halted'[b] = account_halted[b]
    BY Zenon, <1>1, <2>2
  <2>5. /\ account_halted' \in [Accounts -> BOOLEAN]
        /\ consecutive_rejects' \in [Accounts -> Nat]
    <3>1. PICK h \in BOOLEAN : account_halted' = [account_halted EXCEPT ![a] = h]
      BY Zenon, <2>2, <2>3
    <3> QED
      BY ZenonT(30), <1>1, <2>2, <3>1
  <2> QED
    BY Zenon, <1>1, <2>3, <2>4, <2>5 DEF KillSound, RunTripsHalt
<1> QED
  BY Zenon, <1>2, <1>3

\* record_accept clears the run.
LEMMA AcceptRecorded ==
  ASSUME KillSound, NEW a \in Accounts, record_accept(a)
  PROVE  KillSound'
BY ZenonT(30), EngineAssumption DEF KillSound, RunTripsHalt, record_accept

\* Nothing the operator does leaves a run behind without its halt.
LEMMA OperatorCalls ==
  ASSUME KillSound, OperatorCall
  PROVE  KillSound'
<1>1. CASE halt_venue \/ resume_venue
  BY Zenon, <1>1 DEF halt_venue, resume_venue, KillSound, RunTripsHalt
<1>2. ASSUME NEW a \in Accounts, halt_account(a) PROVE KillSound'
  BY ZenonT(30), <1>2 DEF halt_account, KillSound, RunTripsHalt
<1>3. ASSUME NEW a \in Accounts, resume_account(a) PROVE KillSound'
  BY ZenonT(30), <1>3, EngineAssumption DEF resume_account, KillSound, RunTripsHalt
<1> QED
  BY Zenon, <1>1, <1>2, <1>3, EngineAssumption DEF OperatorCall

\* Nothing else touches the runs and the halts of the accounts.
LEMMA KillMoves ==
  ASSUME IInv, [EngineNext]_allVars
  PROVE  \/ UNCHANGED <<account_halted, consecutive_rejects>>
         \/ \E a \in Accounts : record_reject(a) \/ record_accept(a)
         \/ OperatorCall
<1>1. CASE EngineCommand
  <2>1. ASSUME NEW o \in NewOrders, SubmitTurnedAway(o)
        PROVE  UNCHANGED killVars \/ record_reject(o.account)
    BY Zenon, <2>1 DEF SubmitTurnedAway
  <2>2. \A o \in NewOrders : o.account \in Accounts
    BY Zenon, BookAssumption DEF NewOrderType
  <2>3. \/ \E o \in NewOrders : SubmitTurnedAway(o)
        \/ UNCHANGED <<account_halted, consecutive_rejects>>
    BY Zenon, <1>1 DEF EngineCommand, SubmitNotJournaled, SubmitAdmitted,
       CancelNotJournaled, CancelAdmitted, ReplaceNotJournaled, ReplaceAdmitted,
       NotJournaled, NotOwned, killVars
  <2> QED
    BY Zenon, <2>1, <2>2, <2>3 DEF killVars
<1>2. CASE \/ UNCHANGED engineVars \/ SettleFill \/ SettleWithdrawal \/ FinishOther
           \/ FinishReplaceRefused \/ FinishReplaceAccepted
  BY Zenon, <1>2 DEF engineVars, SettleFill, SettleWithdrawal, FinishOther,
     FinishReplaceRefused, FinishReplaceAccepted, killVars
<1>3. CASE FinishSubmitRejected \/ FinishSubmitAccepted
  <2>1. /\ incoming # NoOrder
        /\ record_reject(incoming.account) \/ record_accept(incoming.account)
    BY Zenon, <1>3 DEF FinishSubmitRejected, FinishSubmitAccepted
  <2>2. incoming.account \in Accounts
    BY Zenon, <2>1 DEF IInv, TypeOK, OrderType
  <2> QED
    BY Zenon, <2>1, <2>2
<1> QED
  BY Zenon, <1>1, <1>2, <1>3 DEF EngineNext, EngineStep, allVars

\* A run of rejects as long as the threshold has halted the account
\* (record_reject), however accepts, halts and resumes by an operator and
\* failures of the journal come in between.
THEOREM RejectsTripTheHalt == EngineSpec => []RunTripsHalt
<1>1. EngineInit => IInv /\ KillSound
  <2> SUFFICES ASSUME EngineInit PROVE KillSound
    BY Zenon, InitSound DEF EngineInit
  <2>1. /\ account_halted = [a \in Accounts |-> FALSE]
        /\ consecutive_rejects = [a \in Accounts |-> 0]
    BY Zenon DEF EngineInit
  <2>2. 0 \in Nat /\ (AutoTrip > 0 => 0 < AutoTrip)
    BY Zenon, EngineAssumption, Numerals, Threshold
  <2> QED
    BY Zenon, <2>1, <2>2 DEF KillSound, RunTripsHalt
<1>2. (IInv /\ KillSound) /\ [EngineNext]_allVars => (IInv /\ KillSound)'
  <2> SUFFICES ASSUME IInv, KillSound, [EngineNext]_allVars PROVE IInv' /\ KillSound'
    BY Zenon
  <2>1. IInv'
    BY Zenon, EngineKeepsBook
  <2>2. CASE UNCHANGED <<account_halted, consecutive_rejects>>
    BY Zenon, <2>1, <2>2 DEF KillSound, RunTripsHalt
  <2>3. CASE \E a \in Accounts : record_reject(a) \/ record_accept(a)
    BY Zenon, <2>1, <2>3, RejectRecorded, AcceptRecorded
  <2>4. CASE OperatorCall
    BY Zenon, <2>1, <2>4, OperatorCalls
  <2> QED
    BY Zenon, <2>2, <2>3, <2>4, KillMoves
<1>3. KillSound => RunTripsHalt
  BY Zenon DEF KillSound
<1> QED
  BY <1>1, <1>2, <1>3, PTL DEF EngineSpec

=============================================================================
