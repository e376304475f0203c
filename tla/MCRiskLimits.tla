---------------------------- MODULE MCRiskLimits ----------------------------
(***************************************************************************)
(* RiskLimits for TLC, with words of four bits.                            *)
(***************************************************************************)
EXTENDS RiskLimits

\* An account nobody limits, in an instrument without a collar.
Unlimited ==
  [max_messages_per_second |-> 0, message_burst |-> 1,
   collar_bps |-> 0, reference_price |-> 0,
   max_order_quantity |-> kMax, max_order_notional |-> kMax,
   max_open_orders |-> kMax, open_orders |-> 0,
   max_position |-> kMax, net_position |-> 0,
   working_buy |-> 0, working_sell |-> 0]

Paced ==
  {[Unlimited EXCEPT !.max_messages_per_second = r, !.message_burst = b] :
     r \in {1, 2, 3, 4, Second + 1}, b \in 0 .. 3}

Collared ==
  {[Unlimited EXCEPT !.collar_bps = b, !.reference_price = p] :
     b \in 0 .. kBasisPoints + 1, p \in 0 .. kSignedMax}

Sized ==
  {[Unlimited EXCEPT !.max_order_notional = n, !.max_order_quantity = q,
                     !.open_orders = o, !.max_open_orders = 1] :
     n \in 0 .. kMax, q \in {1, 3, kMax}, o \in 0 .. 1}

Positioned ==
  {[Unlimited EXCEPT !.max_order_quantity = q, !.max_position = m,
                     !.net_position = n, !.working_buy = b, !.working_sell = s] :
     q \in {1, 3, kMax}, m \in {0, 1, 2, 3, kSignedMax, kSignedMax + 1, kMax},
     n \in -4 .. 4, b \in {0, 1, 3, 6}, s \in {0, 1, 3, 6}}

\* A flat account with a position limit and no other.
PositionOnly == {[Unlimited EXCEPT !.max_position = 2]}

MCSetups == Paced \cup Collared \cup Sized \cup Positioned

MCCommands ==
  {[type |-> t, side |-> s, price |-> p, quantity |-> q] :
     t \in {"Limit", "Market"}, s \in {"Buy", "Sell"},
     p \in 0 .. kSignedMax, q \in {0, 1, 2, 3, 7, 11, kMax}}

Plain == [type |-> "Limit", side |-> "Buy", price |-> 1, quantity |-> 1]

\* Nothing but the rate depends on the clock, and the rate on no order.
MCNext ==
  \/ \E c \in IF rate = 0 THEN Commands ELSE {Plain} : check(c)
  \/ check_refused
  \/ rate > 0 /\ Tick
  \/ (rate = 0 \/ Len(admitted) = MaxAdmitted) /\ UNCHANGED riskVars

MCSpec == Init /\ [][MCNext]_riskVars

=============================================================================
