---------------------------- MODULE PriorityBook ----------------------------
(***************************************************************************)
(* What an order book promises, with no index, queue, ladder or cached     *)
(* total: a set of resting orders, at most one order that is taking        *)
(* liquidity, and the trades printed for it.  Ranking is first by price    *)
(* and then by sequence number; the taker trades with the first order of   *)
(* the other side, at that order's price, as much as the smaller of the    *)
(* two allows, for as long as it accepts the price, and rests or leaves    *)
(* only when nothing it accepts is left.                                   *)
(*                                                                         *)
(* An order is a record with the fields id, account, side, type, price,    *)
(* remaining and sequence.                                                 *)
(***************************************************************************)
EXTENDS Integers, Sequences

CONSTANTS
  NoTaker,    \* no order is taking liquidity
  NoOwner     \* the account to which self-trade prevention does not apply

VARIABLES
  resting,     \* the orders on the book
  taker,       \* the order taking liquidity, or NoTaker
  prints,      \* the trades of the current command
  preventing   \* whether an account is kept from trading with itself

book == <<resting, taker, prints, preventing>>

\* x is served before y, both resting on the same side.
Ahead(x, y) ==
  \/ IF x.side = "Buy" THEN x.price > y.price ELSE x.price < y.price
  \/ x.price = y.price /\ x.sequence < y.sequence

Contra == {r \in resting : r.side # taker.side}

First(r) == r \in Contra /\ \A x \in Contra \ {r} : Ahead(r, x)

Accepts(price) ==
  \/ taker.type = "Market"
  \/ IF taker.side = "Buy" THEN price <= taker.price ELSE price >= taker.price

Own(r) == preventing /\ taker.account # NoOwner /\ r.account = taker.account

\* The taker and the order it meets.
Meets(r) ==
  /\ taker # NoTaker
  /\ taker.remaining > 0
  /\ First(r)
  /\ Accepts(r.price)

\* The taker has traded all it can.
Exhausted ==
  /\ taker # NoTaker
  /\ taker.remaining = 0 \/ \A r \in Contra : ~Accepts(r.price)

\* r with qty less, or nothing if that was all of it.
Less(r, qty) ==
  IF qty = r.remaining THEN {} ELSE {[r EXCEPT !.remaining = @ - qty]}

Shrink(r, qty) == resting' = (resting \ {r}) \cup Less(r, qty)

Overlap(r) ==
  IF r.remaining < taker.remaining THEN r.remaining ELSE taker.remaining

-----------------------------------------------------------------------------
Init ==
  /\ resting = {}
  /\ taker = NoTaker
  /\ prints = << >>
  /\ preventing \in BOOLEAN

\* A cancel or a reduction, requested by the owner.
Withdraw ==
  /\ taker = NoTaker
  /\ \E r \in resting : \E qty \in 1 .. r.remaining : Shrink(r, qty)
  /\ UNCHANGED <<taker, prints, preventing>>

Arrive ==
  /\ taker = NoTaker /\ prints = << >>
  /\ taker' # NoTaker
  /\ \A r \in resting : r.sequence < taker'.sequence /\ r.id # taker'.id
  /\ UNCHANGED <<resting, prints, preventing>>

Trade ==
  \E r \in resting :
    /\ Meets(r) /\ ~Own(r)
    /\ Shrink(r, Overlap(r))
    /\ taker' = [taker EXCEPT !.remaining = @ - Overlap(r)]
    /\ prints' = Append(prints, [maker |-> r.id, price |-> r.price,
                                 quantity |-> Overlap(r)])
    /\ UNCHANGED preventing

\* Self-trade prevention: the taker, the resting order or both give way.
Prevent ==
  \E r \in resting :
    /\ Meets(r) /\ Own(r)
    /\ \E qty \in 0 .. r.remaining, given \in 0 .. taker.remaining :
         /\ qty + given > 0
         /\ IF qty = 0 THEN UNCHANGED resting ELSE Shrink(r, qty)
         /\ taker' = [taker EXCEPT !.remaining = @ - given]
    /\ UNCHANGED <<prints, preventing>>

Rest ==
  /\ Exhausted /\ taker.remaining > 0
  /\ resting' = resting \cup {taker}
  /\ taker' = NoTaker
  /\ UNCHANGED <<prints, preventing>>

Leave ==
  /\ Exhausted
  /\ taker' = NoTaker
  /\ UNCHANGED <<resting, prints, preventing>>

Clear ==
  /\ taker = NoTaker
  /\ prints' = << >>
  /\ UNCHANGED <<resting, taker, preventing>>

Next ==
  \/ Withdraw \/ Arrive \/ Trade \/ Prevent \/ Rest \/ Leave \/ Clear

Spec == Init /\ [][Next]_book

=============================================================================
