------------------------------ MODULE BookSide ------------------------------
(***************************************************************************)
(* One side of an order book as it is stored: a ladder of price levels,    *)
(* each a queue of nodes of the slab.  PriceLadder and OrderPool move      *)
(* together, as OrderBook's rest(), match() and cancel() move them: a      *)
(* level is made by the first order that rests there and erased with the   *)
(* last one that leaves (src/src/core/order_book.cpp).                     *)
(***************************************************************************)
EXTENDS PriceLadder, OrderPool

ASSUME SideAssumption == Levels = Indices

vars == <<ladderVars, poolVars>>

Init == LadderInit /\ PoolInit

\* rest().
Arrive(l, qty) == rest(l, qty) /\ Occupy(l)

\* drop_resting() with the erasure that follows it in match() and cancel().
Leave(l, h) ==
  /\ drop_resting(l, h)
  /\ IF level[l].order_count_ = 1 THEN erase(l) ELSE UNCHANGED ladderVars

\* A fill or an amendment in place.
Shrink(l, h, qty) == reduce(l, h, qty) /\ UNCHANGED ladderVars

Next ==
  \E l \in Levels :
    \/ \E qty \in Quantities : Arrive(l, qty)
    \/ \E h \in Handles : Leave(l, h) \/ \E qty \in Quantities : Shrink(l, h, qty)

Spec == Init /\ [][Next]_vars

-----------------------------------------------------------------------------
(* Properties.                                                             *)

\* A walk from begin() to end() visits the prices at which orders rest, all
\* of them, once each and best first: the ladder and the levels agree through
\* any order of arrivals and departures, and no search of a bitmap meets an
\* empty word on its way.
WalkIsComplete ==
  LET held == {l \in Levels : fifo[l] # << >>}
  IN  occupied_ = Cardinality(held) /\ Walks(held)

=============================================================================
