----------------------------- MODULE RiskLimits -----------------------------
(***************************************************************************)
(* RiskEngine::check (src/src/risk/risk_engine.cpp) for the orders of one  *)
(* account in one instrument, in the machine's arithmetic and with the     *)
(* clock: the rate limiter, which is a generic cell rate algorithm, and    *)
(* the limits on price, quantity, notional and position.  MatchingEngine   *)
(* has the same limits in whole numbers, without the rate.                 *)
(***************************************************************************)
EXTENDS Integers, Sequences

CONSTANTS
  Second,        \* nanoseconds in a second: 1'000'000'000
  kMax,          \* the largest uint64
  kBasisPoints,  \* 10'000
  Setups,        \* limits, controls and exposure an account may have
  Commands,      \* orders that may be checked
  Delays,        \* how far the clock moves at a time
  MaxNow,        \* bound on the clock
  MaxAdmitted    \* bound on the number of orders within the rate

kSignedMax == kMax \div 2   \* the largest int64

SignedWord == -kSignedMax - 1 .. kSignedMax

ASSUME RiskAssumption ==
  /\ Second \in Nat \ {0}
  /\ kMax \in Nat /\ kBasisPoints \in Nat \ {0}
  /\ Delays \subseteq Nat \ {0}
  /\ MaxNow \in Nat /\ MaxAdmitted \in Nat
  /\ \A s \in Setups :
       /\ s.max_messages_per_second \in Nat /\ s.message_burst \in Nat
       /\ s.collar_bps \in Nat /\ s.reference_price \in Nat
       /\ s.max_order_notional \in 0 .. kMax
       /\ s.max_order_quantity \in 0 .. kMax
       /\ s.max_position \in 0 .. kMax /\ s.net_position \in SignedWord
       /\ s.working_buy \in 0 .. kMax /\ s.working_sell \in 0 .. kMax
  /\ \A c \in Commands : c.price \in Int /\ c.quantity \in 0 .. kMax

VARIABLES
  setup,                \* the account, set up once
  now,                  \* the clock
  theoretical_arrival,  \* AccountState::theoretical_arrival
  outcome,              \* of the last check, "none" once time has passed
  admitted              \* history: when orders were within the rate

riskVars == <<setup, now, theoretical_arrival, outcome, admitted>>

-----------------------------------------------------------------------------
(* consume_rate_budget().                                                  *)

Larger(a, b) == IF a > b THEN a ELSE b

rate == setup.max_messages_per_second

interval == Second \div rate

burst == IF setup.message_burst = 0 THEN 1 ELSE setup.message_burst

tolerance == (burst - 1) * interval

WithinRate == IF rate = 0 THEN TRUE ELSE now >= theoretical_arrival - tolerance

PushedBack_credit == theoretical_arrival + interval

\* Where an admitted order moves the theoretical arrival time.
PushedBack == Larger(now, theoretical_arrival) + interval

-----------------------------------------------------------------------------
(* The limits.  A product or a sum wraps at the word.                      *)

Wrapped(n) == n % (kMax + 1)

ToSigned(n) == IF n > kSignedMax THEN n - (kMax + 1) ELSE n

\* A signed sum that overflows is undefined; the build's addition wraps.
SignedSum(n) == ToSigned(Wrapped(n))

deviation(c) ==
  IF c.price > setup.reference_price THEN c.price - setup.reference_price
  ELSE setup.reference_price - c.price

\* check_collar(): the two early answers keep the products from wrapping.
check_collar(c) ==
  /\ setup.collar_bps # 0
  /\ setup.reference_price > 0 /\ c.type = "Limit" /\ c.price > 0
  /\ \/ deviation(c) > kMax \div kBasisPoints
     \/ /\ setup.reference_price <= kMax \div setup.collar_bps
        /\ Wrapped(deviation(c) * kBasisPoints)
             > Wrapped(setup.reference_price * setup.collar_bps)

NotionalBreached_wrapping(c) ==
  /\ c.type = "Limit" /\ c.price > 0
  /\ Wrapped(c.price * c.quantity) > setup.max_order_notional

\* A product that does not divide back has wrapped.
NotionalBreached(c) ==
  LET notional == Wrapped(c.price * c.quantity)
  IN  /\ c.type = "Limit" /\ c.price > 0
      /\ \/ c.quantity # 0 /\ notional \div c.quantity # c.price
         \/ notional > setup.max_order_notional

\* max_position is not looked at when it is the largest there is.
PositionBreached(c) ==
  LET bought == IF c.side = "Buy" THEN c.quantity ELSE 0
      sold   == IF c.side = "Sell" THEN c.quantity ELSE 0
      projected_long  == SignedSum(setup.net_position
                           + ToSigned(Wrapped(setup.working_buy + bought)))
      projected_short == SignedSum(ToSigned(Wrapped(setup.working_sell + sold))
                           - setup.net_position)
      cap == ToSigned(setup.max_position)
  IN  /\ setup.max_position # kMax
      /\ projected_long > cap \/ projected_short > cap

Verdict(c) ==
  IF check_collar(c) THEN "PriceCollar"
  ELSE IF \/ c.quantity > setup.max_order_quantity
          \/ NotionalBreached(c)
          \/ setup.open_orders >= setup.max_open_orders
          \/ PositionBreached(c)
       THEN "RiskLimit"
  ELSE "None"

-----------------------------------------------------------------------------
Init ==
  /\ setup \in Setups
  /\ now = 0 /\ theoretical_arrival = 0
  /\ outcome = "none"
  /\ admitted = << >>

\* check(), the rate first: an order within the rate uses up budget whatever
\* the other limits say.
check(c) ==
  /\ WithinRate
  /\ outcome' = Verdict(c)
  /\ IF rate = 0 THEN UNCHANGED <<theoretical_arrival, admitted>>
     ELSE /\ Len(admitted) < MaxAdmitted
          /\ theoretical_arrival' = PushedBack
          /\ admitted' = Append(admitted, now)
  /\ UNCHANGED <<setup, now>>

check_refused_charged ==
  /\ ~WithinRate
  /\ outcome' = "RateLimit"
  /\ theoretical_arrival' = PushedBack
  /\ UNCHANGED <<setup, now, admitted>>

\* An order over the rate leaves the budget as it is.
check_refused ==
  /\ ~WithinRate
  /\ outcome' = "RateLimit"
  /\ UNCHANGED <<setup, now, theoretical_arrival, admitted>>

\* The clock is monotonic; it may stand still between two orders.
Tick ==
  /\ \E d \in Delays : now + d <= MaxNow /\ now' = now + d
  /\ outcome' = "none"
  /\ UNCHANGED <<setup, theoretical_arrival, admitted>>

Next ==
  \/ \E c \in Commands : check(c)
  \/ check_refused
  \/ Tick

Spec == Init /\ [][Next]_riskVars

-----------------------------------------------------------------------------
(* Properties.                                                             *)

\* How long it takes to earn n intervals of budget beyond the burst.
Earned(n) == (n - burst) * interval

\* The limiter has no window to straddle: however orders are timed, between
\* any two that were within the rate there is time for all of them but a
\* burst, one interval each (consume_rate_budget).
RateBound ==
  rate > 0 =>
    \A i, j \in DOMAIN admitted :
      i <= j => Earned(j - i + 1) <= admitted[j] - admitted[i]

\* Nor does it refuse anything else: an order is over the rate only if, with
\* it, some stretch of the account's orders would break RateBound.  So an
\* account that leaves an interval between orders is never refused.  Orders
\* that other limits reject are charged, and count; orders over the rate are
\* not (risk.md, "charged even for rejected messages", is about the former, as
\* its test ChargesForMessagesItRejectsForOtherReasons has it).
RefusesOnlyExcess ==
  outcome = "RateLimit" =>
    \E i \in DOMAIN admitted :
      Earned(Len(admitted) + 2 - i) > now - admitted[i]

\* The limits as the documentation has them, in whole numbers.
OutsideCollar(c) ==
  /\ setup.collar_bps # 0
  /\ setup.reference_price > 0 /\ c.type = "Limit" /\ c.price > 0
  /\ deviation(c) * kBasisPoints > setup.reference_price * setup.collar_bps

OverSize(c) ==
  \/ c.quantity > setup.max_order_quantity
  \/ c.type = "Limit" /\ c.price * c.quantity > setup.max_order_notional
  \/ setup.open_orders >= setup.max_open_orders

OverPosition(c) ==
  /\ setup.max_position # kMax
  /\ \/ setup.net_position + setup.working_buy
           + (IF c.side = "Buy" THEN c.quantity ELSE 0) > setup.max_position
     \/ setup.working_sell - setup.net_position
           + (IF c.side = "Sell" THEN c.quantity ELSE 0) > setup.max_position

\* The account stands inside max_position, with all that it has working.
InsidePosition ==
  /\ setup.net_position \in -setup.max_position .. setup.max_position
  /\ setup.net_position + setup.working_buy <= setup.max_position
  /\ setup.working_sell - setup.net_position <= setup.max_position

\* Its limits leave room in a signed word for one order more.
RoomToAdd ==
  2 * setup.max_position + setup.max_order_quantity <= kSignedMax

\* No product wraps past a limit, whatever the order and the account: an order
\* that passes is inside the collar and the limits on size as documented, and
\* one that does not is outside one of them, fails the position check, or is
\* further from the reference price than the collar can compute (check_collar,
\* check).  The position check, whose sums may wrap, is exact as well, for any
\* order, if the account is inside max_position and its limits leave room to
\* add; PositionLimitHolds says what goes wrong when they do not.
LimitsAreExact ==
  \A c \in Commands :
    /\ Verdict(c) = "None" => ~OutsideCollar(c) /\ ~OverSize(c)
    /\ Verdict(c) = "RiskLimit" => OverSize(c) \/ PositionBreached(c)
    /\ Verdict(c) = "PriceCollar" =>
         OutsideCollar(c) \/ deviation(c) > kMax \div kBasisPoints
    /\ InsidePosition /\ RoomToAdd =>
         /\ Verdict(c) = "None" => ~OverPosition(c)
         /\ Verdict(c) = "RiskLimit" => OverSize(c) \/ OverPosition(c)

-----------------------------------------------------------------------------
(* What the documentation says and the code does not do.                   *)

\* risk.md: max_position holds against the position the account would have if
\* everything it has working were to fill.  But nothing bounds a quantity where
\* max_order_quantity is left unset, and project casts the sum with it.
PositionLimitHolds ==
  InsidePosition => \A c \in Commands : Verdict(c) = "None" => ~OverPosition(c)

=============================================================================
