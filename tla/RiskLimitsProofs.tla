-------------------------- MODULE RiskLimitsProofs --------------------------
(***************************************************************************)
(* The rate limiter keeps its bound and refuses nothing else, for every    *)
(* rate, burst and timing of the orders; and the limits are those that are *)
(* documented, for every width of the machine's words, as far as the       *)
(* position check's sums have room in one.                                 *)
(***************************************************************************)
EXTENDS RiskLimits, TLAPS

\* The theoretical arrival time is the latest of the times at which each of
\* the orders within the rate, and those after it, will have been paid for.
PaidFor(i) == admitted[i] + (Len(admitted) - i + 1) * interval

RateInv ==
  /\ setup \in Setups
  /\ now \in Nat /\ theoretical_arrival \in Nat
  /\ admitted \in Seq(Nat)
  /\ rate > 0 =>
       /\ \A i \in DOMAIN admitted : theoretical_arrival >= PaidFor(i)
       /\ theoretical_arrival # 0 =>
            \E i \in DOMAIN admitted : theoretical_arrival = PaidFor(i)
  /\ RateBound
  /\ RefusesOnlyExcess

\* consume_rate_budget: what it computes from the limits is well defined.
LEMMA RateTypes ==
  ASSUME setup \in Setups, rate > 0
  PROVE  interval \in Nat /\ burst \in Nat /\ burst >= 1 /\ tolerance \in Nat
<1>1. rate \in Nat /\ setup.message_burst \in Nat /\ Second \in Nat
  BY RiskAssumption DEF rate
<1>2. interval \in Nat
  BY <1>1 DEF interval
<1>3. burst \in Nat /\ burst >= 1
  BY <1>1 DEF burst
<1>4. tolerance \in Nat
  BY <1>2, <1>3 DEF tolerance
<1>. QED  BY <1>2, <1>3, <1>4

-----------------------------------------------------------------------------
\* A new account owes nothing.
LEMMA RateInit == Init => RateInv
<1>. SUFFICES ASSUME Init PROVE RateInv
  OBVIOUS
<1>1. admitted = << >> /\ admitted \in Seq(Nat) /\ DOMAIN admitted = {}
  BY DEF Init
<1>. QED
  BY <1>1 DEF Init, RateInv, RateBound, RefusesOnlyExcess

\* An order no earlier than y before t, where t is x or more after a.
LEMMA Chained ==
  ASSUME NEW w \in Int, NEW t \in Int, NEW a \in Int, NEW x \in Int,
         NEW y \in Int, t >= a + x, w >= t - y
  PROVE  w - a >= x - y
OBVIOUS

\* Admitting an order: a stretch of orders that ends with it has been paid
\* for, but for a burst, because the limiter waited for the theoretical
\* arrival time less the tolerance.
LEMMA Admitting ==
  ASSUME RateInv, rate > 0, WithinRate,
         admitted' = Append(admitted, now),
         theoretical_arrival' = PushedBack,
         UNCHANGED <<setup, now>>, outcome' # "RateLimit"
  PROVE  RateInv'
<1>1. /\ interval \in Nat /\ burst \in Nat /\ burst >= 1
      /\ tolerance = (burst - 1) * interval
  BY RateTypes DEF RateInv, tolerance
<1>2. rate' = rate /\ interval' = interval /\ burst' = burst
  BY DEF rate, interval, burst
<1>3. /\ now \in Nat /\ theoretical_arrival \in Nat /\ admitted \in Seq(Nat)
      /\ setup \in Setups
  BY DEF RateInv
<1>4. now >= theoretical_arrival - tolerance
  BY DEF WithinRate
<1>5. /\ theoretical_arrival' \in Nat
      /\ theoretical_arrival' >= now + interval
      /\ theoretical_arrival' >= theoretical_arrival + interval
      /\ \/ theoretical_arrival' = now + interval
         \/ theoretical_arrival' = theoretical_arrival + interval
  BY <1>1, <1>3 DEF PushedBack, Larger
<1>6. PICK n \in Nat : n = Len(admitted)
  BY <1>3
<1>6a. /\ DOMAIN admitted = 1 .. n
       /\ admitted' \in Seq(Nat) /\ Len(admitted') = n + 1
       /\ DOMAIN admitted' = 1 .. n + 1
       /\ \A i \in 1 .. n : admitted'[i] = admitted[i] /\ admitted[i] \in Nat
       /\ admitted'[n + 1] = now
  BY <1>3, <1>6
<1>7. \A i \in 1 .. n :
        /\ theoretical_arrival >= PaidFor(i)
        /\ PaidFor(i) = admitted[i] + (n - i + 1) * interval
        /\ PaidFor(i)' = PaidFor(i) + interval
  <2>1. \A i \in 1 .. n : theoretical_arrival >= PaidFor(i)
    BY <1>6, <1>6a DEF RateInv
  <2>2. \A i \in 1 .. n : PaidFor(i) = admitted[i] + (n - i + 1) * interval
    BY <1>6 DEF PaidFor
  <2>3. ASSUME NEW i \in 1 .. n
        PROVE  PaidFor(i)' = admitted[i] + (n + 1 - i + 1) * interval
    BY <1>2, <1>6, <1>6a DEF PaidFor
  <2>4. ASSUME NEW i \in 1 .. n
        PROVE  (n + 1 - i + 1) * interval = (n - i + 1) * interval + interval
    BY <1>1, <1>6, <1>6a
  <2>. QED  BY <2>1, <2>2, <2>3, <2>4, <1>1, <1>6, <1>6a
<1>8. PaidFor(n + 1)' = now + interval
  <2>1. PaidFor(n + 1)' = now + (n + 1 - (n + 1) + 1) * interval
    BY <1>2, <1>6, <1>6a DEF PaidFor
  <2>. QED  BY <2>1, <1>1, <1>6, <1>6a, <1>3
<1>9. \A i \in DOMAIN admitted' : theoretical_arrival' >= PaidFor(i)'
  <2>. SUFFICES ASSUME NEW i \in 1 .. n + 1
                PROVE  theoretical_arrival' >= PaidFor(i)'
    BY <1>6, <1>6a
  <2>1. CASE i = n + 1
    BY <2>1, <1>5, <1>8
  <2>2. CASE i \in 1 .. n
    <3>1. PaidFor(i) \in Int
      BY <2>2, <1>1, <1>6, <1>6a, <1>7
    <3>. QED  BY <3>1, <2>2, <1>1, <1>3, <1>5, <1>7
  <2>. QED  BY <2>1, <2>2, <1>6, <1>6a
<1>10. \E i \in DOMAIN admitted' : theoretical_arrival' = PaidFor(i)'
  <2>1. CASE theoretical_arrival' = now + interval
    BY <2>1, <1>6, <1>6a, <1>8
  <2>2. CASE theoretical_arrival' = theoretical_arrival + interval /\ theoretical_arrival # 0
    <3>1. PICK i \in 1 .. n : theoretical_arrival = PaidFor(i)
      BY <2>2, <1>6, <1>6a DEF RateInv
    <3>. QED  BY SMTT(30), <3>1, <2>2, <1>6, <1>6a, <1>7
  <2>3. CASE theoretical_arrival' = theoretical_arrival + interval /\ theoretical_arrival = 0
    <3>1. theoretical_arrival' = now + interval
      BY <2>3, <1>1, <1>3, <1>5
    <3>. QED  BY <3>1, <1>6, <1>6a, <1>8
  <2>. QED  BY <2>1, <2>2, <2>3, <1>5
<1>11. RateBound'
  <2>. SUFFICES ASSUME NEW i \in DOMAIN admitted', NEW j \in DOMAIN admitted',
                       i <= j
                PROVE  Earned(j - i + 1)' <= admitted'[j] - admitted'[i]
    BY DEF RateBound
  <2>. i \in 1 .. n + 1 /\ j \in 1 .. n + 1
    BY <1>6a
  <2>. SUFFICES (j - i + 1 - burst) * interval <= admitted'[j] - admitted'[i]
    BY <1>1, <1>2, <1>6 DEF Earned
  <2>1. CASE j \in 1 .. n
    <3>1. i \in 1 .. n
      BY <2>1, <1>6, <1>6a
    <3>2. Earned(j - i + 1) <= admitted[j] - admitted[i]
      BY <3>1, <2>1, <1>6a DEF RateInv, RateBound
    <3>. QED  BY <3>1, <3>2, <2>1, <1>1, <1>6, <1>6a DEF Earned
  <2>2. CASE j = n + 1 /\ i = n + 1
    <3>1. (j - i + 1 - burst) * interval = (1 - burst) * interval
      BY <2>2, <1>1
    <3>2. (1 - burst) * interval <= 0
      BY <1>1
    <3>. QED  BY <3>1, <3>2, <2>2, <1>3, <1>6, <1>6a
  <2>3. CASE j = n + 1 /\ i \in 1 .. n
    <3>1. (j - i + 1 - burst) * interval
            = (n - i + 1) * interval - (burst - 1) * interval
      BY <2>3, <1>1, <1>6, <1>6a
    <3>2. now - admitted[i] >= (n - i + 1) * interval - (burst - 1) * interval
      <4>1. /\ (n - i + 1) * interval \in Int
            /\ (burst - 1) * interval \in Int
        BY <2>3, <1>1, <1>6, <1>6a
      <4>2. /\ theoretical_arrival >= admitted[i] + (n - i + 1) * interval
            /\ now >= theoretical_arrival - (burst - 1) * interval
            /\ admitted[i] \in Nat
        BY SMTT(30), <2>3, <1>1, <1>4, <1>6a, <1>7
      <4>3. PICK x \in Int, y \in Int, a \in Int :
              /\ x = (n - i + 1) * interval
              /\ y = (burst - 1) * interval
              /\ a = admitted[i]
        BY <4>1, <4>2
      <4>4. theoretical_arrival >= a + x /\ now >= theoretical_arrival - y
        BY <4>2, <4>3
      <4>5. now \in Int /\ theoretical_arrival \in Int
        BY <1>3
      <4>6. now - a >= x - y
        BY ONLY <4>4, <4>5, Chained
      <4>. QED  BY <4>3, <4>6
    <3>3. admitted'[j] = now /\ admitted'[i] = admitted[i]
      BY <2>3, <1>6a
    <3>. QED  BY <3>1, <3>2, <3>3, <1>1, <1>3, <1>6, <1>6a
  <2>. QED  BY <2>1, <2>2, <2>3, <1>6, <1>6a
<1>12. RefusesOnlyExcess'
  BY DEF RefusesOnlyExcess
<1>. QED  BY <1>3, <1>5, <1>6, <1>6a, <1>9, <1>10, <1>11, <1>12 DEF RateInv

\* Every step keeps the account of the limiter.
LEMMA RateStep == RateInv /\ [Next]_riskVars => RateInv'
<1>. SUFFICES ASSUME RateInv, [Next]_riskVars PROVE RateInv'
  OBVIOUS
<1>1. ASSUME NEW c \in Commands, check(c) PROVE RateInv'
  <2>1. outcome' # "RateLimit"
    BY <1>1 DEF check, Verdict
  <2>2. CASE rate = 0
    <3>1. /\ UNCHANGED <<setup, now, theoretical_arrival, admitted>>
          /\ rate' = 0
      BY <1>1, <2>2 DEF check, rate
    <3>. QED
      BY <2>1, <3>1 DEF RateInv, RateBound, RefusesOnlyExcess
  <2>3. CASE rate # 0
    <3>1. rate > 0
      BY <2>3, RiskAssumption DEF rate, RateInv
    <3>2. /\ WithinRate /\ admitted' = Append(admitted, now)
          /\ theoretical_arrival' = PushedBack /\ UNCHANGED <<setup, now>>
      BY <1>1, <2>3 DEF check
    <3>. QED  BY <2>1, <3>1, <3>2, Admitting
  <2>. QED  BY <2>2, <2>3
<1>2. ASSUME check_refused PROVE RateInv'
  <2>1. /\ UNCHANGED <<setup, now, theoretical_arrival, admitted>>
        /\ rate' = rate /\ interval' = interval /\ burst' = burst
    BY <1>2 DEF check_refused, rate, interval, burst
  <2>2. rate > 0
    BY <1>2, RiskAssumption DEF check_refused, WithinRate, RateInv, rate
  <2>3. /\ interval \in Nat /\ burst \in Nat /\ burst >= 1
        /\ tolerance \in Nat /\ tolerance = (burst - 1) * interval
    BY <2>2, RateTypes DEF RateInv, tolerance
  <2>4. now < theoretical_arrival - tolerance
    BY <1>2, <2>2, <2>3 DEF check_refused, WithinRate, RateInv
  <2>5. PICK i \in DOMAIN admitted : theoretical_arrival = PaidFor(i)
    BY <2>2, <2>3, <2>4 DEF RateInv
  <2>6. PICK n \in Nat : n = Len(admitted) /\ i \in 1 .. n
    BY <2>5 DEF RateInv
  <2>7. /\ theoretical_arrival = admitted[i] + (n - i + 1) * interval
        /\ admitted[i] \in Nat
    BY <2>5, <2>6 DEF PaidFor, RateInv
  <2>8. (n + 2 - i - burst) * interval
          = (n - i + 1) * interval - (burst - 1) * interval
    BY <2>3, <2>6
  <2>9. (n + 2 - i - burst) * interval > now - admitted[i]
    <3>1. (n - i + 1) * interval \in Int
      BY <2>3, <2>6
    <3>. QED  BY SMTT(30), <3>1, <2>3, <2>4, <2>7, <2>8 DEF RateInv
  <2>10. Earned(Len(admitted) + 2 - i) > now - admitted[i]
    BY <2>3, <2>6, <2>9 DEF Earned
  <2>11. RefusesOnlyExcess'
    BY <2>1, <2>5, <2>10 DEF RefusesOnlyExcess, Earned
  <2>12. RateBound' /\ \A k : PaidFor(k)' = PaidFor(k)
    BY <2>1 DEF RateInv, RateBound, Earned, PaidFor
  <2>. QED  BY <2>1, <2>11, <2>12 DEF RateInv
<1>3. ASSUME Tick PROVE RateInv'
  <2>1. /\ UNCHANGED <<setup, theoretical_arrival, admitted>>
        /\ now' \in Nat /\ outcome' = "none"
    BY <1>3, RiskAssumption DEF Tick, RateInv
  <2>2. /\ rate' = rate /\ RateBound' = RateBound
        /\ \A i : PaidFor(i)' = PaidFor(i)
    BY <2>1 DEF rate, RateBound, Earned, interval, burst, PaidFor
  <2>. QED  BY <2>1, <2>2 DEF RateInv, RefusesOnlyExcess
<1>4. ASSUME UNCHANGED riskVars PROVE RateInv'
  BY <1>4 DEF riskVars, RateInv, RateBound, RefusesOnlyExcess, rate, Earned,
     interval, burst, PaidFor
<1>. QED  BY <1>1, <1>2, <1>3, <1>4 DEF Next

-----------------------------------------------------------------------------
\* consume_rate_budget admits no more than the rate and the burst allow, in
\* any stretch of time.
THEOREM RateIsBounded == Spec => []RateBound
<1>1. RateInv => RateBound
  BY DEF RateInv
<1>. QED  BY <1>1, RateInit, RateStep, PTL DEF Spec

\* consume_rate_budget refuses only orders that would take the account over
\* that bound.
THEOREM RateIsTight == Spec => []RefusesOnlyExcess
<1>1. RateInv => RefusesOnlyExcess
  BY DEF RateInv
<1>. QED  BY <1>1, RateInit, RateStep, PTL DEF Spec

-----------------------------------------------------------------------------
(* The limits.                                                             *)

\* kMax / b is the largest number whose product with b does not wrap.
LEMMA Fits ==
  ASSUME NEW a \in Nat, NEW b \in Nat \ {0}, NEW m \in Nat
  PROVE  a <= m \div b <=> a * b <= m
<1>1. PICK q \in Nat : q = m \div b /\ q * b <= m /\ m < q * b + b
  OBVIOUS
<1>2. CASE a <= q
  <2>1. a * b <= q * b
    BY <1>2
  <2>. QED  BY <1>1, <1>2, <2>1
<1>3. CASE a >= q + 1
  <2>1. a * b >= (q + 1) * b /\ (q + 1) * b = q * b + b
    BY <1>3
  <2>. QED  BY <1>1, <1>3, <2>1
<1>. QED  BY <1>2, <1>3

\* A number that fits the word is itself.
LEMMA NoWrap ==
  ASSUME NEW n \in Nat
  PROVE  /\ n <= kMax => Wrapped(n) = n
         /\ Wrapped(n) \in 0 .. kMax /\ Wrapped(n) <= n
BY RiskAssumption DEF Wrapped

\* The overflow test of RiskEngine::check: a product divides back exactly when
\* it has not wrapped.
LEMMA DividesBack ==
  ASSUME NEW p \in Nat, NEW q \in Nat \ {0}
  PROVE  Wrapped(p * q) \div q = p <=> p * q <= kMax
<1>1. PICK n \in Nat : n = p * q
  OBVIOUS
<1>2. PICK w \in Nat : w = Wrapped(n) /\ w <= kMax /\ w <= n
  BY NoWrap, RiskAssumption
<1>3. ASSUME w \div q = p PROVE n <= kMax
  <2>1. n <= w
    BY <1>1, <1>3, Fits
  <2>. QED  BY <1>2, <2>1, RiskAssumption
<1>4. ASSUME n <= kMax PROVE w \div q = p
  <2>1. w = n
    BY <1>2, <1>4, NoWrap
  <2>. QED  BY <1>1, <2>1
<1>. QED  BY <1>1, <1>2, <1>3, <1>4

\* check_collar decides the documented comparison, unless the deviation is out
\* of its reach.
LEMMA CollarIsExact ==
  ASSUME setup \in Setups, NEW c \in Commands
  PROVE  /\ OutsideCollar(c) => check_collar(c)
         /\ check_collar(c) =>
              OutsideCollar(c) \/ deviation(c) > kMax \div kBasisPoints
<1>. SUFFICES ASSUME setup.collar_bps # 0, setup.reference_price > 0,
                     c.type = "Limit", c.price > 0,
                     ~(deviation(c) > kMax \div kBasisPoints)
              PROVE  OutsideCollar(c) <=> check_collar(c)
  BY DEF OutsideCollar, check_collar
<1>1. /\ setup.collar_bps \in Nat \ {0} /\ setup.reference_price \in Nat
      /\ c.price \in Int /\ kMax \in Nat /\ kBasisPoints \in Nat \ {0}
  BY RiskAssumption
<1>2. deviation(c) \in Nat
  BY <1>1 DEF deviation
<1>3. PICK d \in Nat : d = deviation(c) * kBasisPoints
  BY <1>1, <1>2
<1>4. PICK r \in Nat : r = setup.reference_price * setup.collar_bps
  BY <1>1
<1>5. kMax \div kBasisPoints \in Nat
  BY <1>1
<1>6. d <= kMax /\ Wrapped(d) = d
  <2>1. d <= kMax
    BY <1>1, <1>2, <1>3, <1>5, Fits
  <2>. QED  BY <2>1, NoWrap
<1>7. setup.reference_price <= kMax \div setup.collar_bps <=> r <= kMax
  BY <1>1, <1>4, Fits
<1>8. r <= kMax => Wrapped(r) = r
  BY NoWrap
<1>9. check_collar(c) <=> r <= kMax /\ d > Wrapped(r)
  BY <1>3, <1>4, <1>6, <1>7 DEF check_collar
<1>10. OutsideCollar(c) <=> d > r
  BY <1>3, <1>4 DEF OutsideCollar
<1>. QED  BY <1>1, <1>6, <1>8, <1>9, <1>10

\* RiskEngine::check's notional limit.
LEMMA NotionalIsExact ==
  ASSUME setup \in Setups, NEW c \in Commands
  PROVE  NotionalBreached(c)
           <=> c.type = "Limit" /\ c.price * c.quantity > setup.max_order_notional
<1>1. /\ setup.max_order_notional \in Nat /\ setup.max_order_notional <= kMax
      /\ c.price \in Int /\ c.quantity \in Nat /\ kMax \in Nat
  BY RiskAssumption
<1>2. CASE c.price <= 0
  <2>1. c.price * c.quantity <= 0
    BY <1>1, <1>2
  <2>2. c.price * c.quantity \in Int
    BY <1>1
  <2>. QED  BY <1>1, <1>2, <2>1, <2>2 DEF NotionalBreached
<1>3. CASE c.price > 0 /\ c.quantity = 0
  <2>1. c.price * c.quantity = 0
    BY <1>1, <1>3
  <2>2. Wrapped(0) = 0
    BY <1>1, NoWrap
  <2>. QED  BY <1>1, <1>3, <2>1, <2>2 DEF NotionalBreached
<1>4. CASE c.price > 0 /\ c.quantity # 0
  <2>1. PICK n \in Nat : n = c.price * c.quantity
    BY <1>1, <1>4
  <2>2. Wrapped(n) \div c.quantity = c.price <=> n <= kMax
    <3>1. c.price \in Nat /\ c.quantity \in Nat \ {0}
      BY <1>1, <1>4
    <3>2. Wrapped(c.price * c.quantity) \div c.quantity = c.price
            <=> c.price * c.quantity <= kMax
      BY ONLY <3>1, DividesBack
    <3>. QED  BY <2>1, <3>2
  <2>3. n <= kMax => Wrapped(n) = n
    BY NoWrap
  <2>4. NotionalBreached(c) <=> /\ c.type = "Limit"
                                /\ \/ ~(n <= kMax)
                                   \/ Wrapped(n) > setup.max_order_notional
    BY <1>4, <2>1, <2>2 DEF NotionalBreached
  <2>. QED  BY <1>1, <2>1, <2>3, <2>4
<1>. QED  BY <1>1, <1>2, <1>3, <1>4

\* A signed sum that fits the word is itself.
LEMMA NoSignedWrap ==
  ASSUME NEW n \in Int, -kSignedMax <= n, n <= kSignedMax
  PROVE  SignedSum(n) = n
<1>1. /\ kMax \in Nat /\ kSignedMax \in Nat
      /\ 2 * kSignedMax <= kMax
  BY RiskAssumption DEF kSignedMax
<1>2. CASE n >= 0
  <2>1. Wrapped(n) = n
    BY <1>1, <1>2, NoWrap
  <2>. QED  BY <1>1, <1>2, <2>1 DEF SignedSum, ToSigned
<1>3. CASE n < 0
  <2>1. Wrapped(n) = n + (kMax + 1)
    BY <1>1, <1>3 DEF Wrapped
  <2>. QED  BY <1>1, <1>3, <2>1 DEF SignedSum, ToSigned
<1>. QED  BY <1>2, <1>3

\* RiskEngine::check's position limit, for an order of a permitted size from an
\* account that is inside the limit and has room to add.
LEMMA PositionIsExact ==
  ASSUME setup \in Setups, NEW c \in Commands, InsidePosition, RoomToAdd,
         c.quantity <= setup.max_order_quantity
  PROVE  PositionBreached(c) <=> OverPosition(c)
<1>1. PICK m \in Nat, n \in Int, wb \in Nat, ws \in Nat, mq \in Nat, q \in Nat :
        /\ m = setup.max_position /\ n = setup.net_position
        /\ wb = setup.working_buy /\ ws = setup.working_sell
        /\ mq = setup.max_order_quantity /\ q = c.quantity
  <2>1. /\ setup.max_position \in Nat /\ setup.net_position \in Int
        /\ setup.working_buy \in Nat /\ setup.working_sell \in Nat
        /\ setup.max_order_quantity \in Nat /\ c.quantity \in Nat
    BY RiskAssumption DEF SignedWord, kSignedMax
  <2>. QED  BY <2>1
<1>2. kMax \in Nat /\ kSignedMax \in Nat /\ kSignedMax <= kMax
  BY RiskAssumption DEF kSignedMax
<1>3. /\ -m <= n /\ n <= m /\ n + wb <= m /\ ws - n <= m
      /\ 2 * m + mq <= kSignedMax /\ q <= mq
  BY <1>1 DEF InsidePosition, RoomToAdd
<1>4. PICK b \in Nat : b = (IF c.side = "Buy" THEN c.quantity ELSE 0) /\ b <= q
  BY <1>1
<1>5. PICK s \in Nat : s = (IF c.side = "Sell" THEN c.quantity ELSE 0) /\ s <= q
  BY <1>1
<1>6. ASSUME NEW k \in Nat, k <= kSignedMax
      PROVE  ToSigned(k) = k /\ Wrapped(k) = k
  BY <1>2, <1>6, NoWrap DEF ToSigned
<1>7. /\ ToSigned(Wrapped(wb + b)) = wb + b
      /\ ToSigned(Wrapped(ws + s)) = ws + s
      /\ ToSigned(m) = m
  <2>1. wb + b \in Nat /\ wb + b <= kSignedMax
    BY <1>2, <1>3, <1>4
  <2>2. ws + s \in Nat /\ ws + s <= kSignedMax
    BY <1>2, <1>3, <1>5
  <2>3. m <= kSignedMax
    BY <1>2, <1>3
  <2>. QED  BY <2>1, <2>2, <2>3, <1>6
<1>8. SignedSum(n + (wb + b)) = n + (wb + b)
  <2>1. n + (wb + b) \in Int /\ -kSignedMax <= n + (wb + b)
    BY <1>2, <1>3, <1>4
  <2>2. n + (wb + b) <= kSignedMax
    BY <1>2, <1>3, <1>4
  <2>. QED  BY <2>1, <2>2, NoSignedWrap
<1>9. SignedSum((ws + s) - n) = (ws + s) - n
  <2>1. (ws + s) - n \in Int /\ -kSignedMax <= (ws + s) - n
    BY <1>2, <1>3, <1>5
  <2>2. (ws + s) - n <= kSignedMax
    BY <1>2, <1>3, <1>5
  <2>. QED  BY <2>1, <2>2, NoSignedWrap
<1>10. PositionBreached(c) <=> m # kMax /\ (n + (wb + b) > m \/ (ws + s) - n > m)
  BY <1>1, <1>4, <1>5, <1>7, <1>8, <1>9 DEF PositionBreached
<1>11. OverPosition(c) <=> m # kMax /\ (n + wb + b > m \/ ws - n + s > m)
  BY <1>1, <1>4, <1>5 DEF OverPosition
<1>. QED  BY <1>10, <1>11

\* RiskEngine::check, whatever the width of the words and the size of the
\* operands: the collar and the limits on size are the documented ones, but
\* for a deviation past the collar's reach; and so is the position limit, for
\* an account inside it whose limits leave room in the word for one order more.
THEOREM LimitsHold == Spec => []LimitsAreExact
<1>1. Init => setup \in Setups
  BY DEF Init
<1>2. setup \in Setups /\ [Next]_riskVars => (setup \in Setups)'
  BY DEF Next, check, check_refused, Tick, riskVars
<1>3. setup \in Setups => LimitsAreExact
  <2>. SUFFICES ASSUME setup \in Setups, NEW c \in Commands
                PROVE  /\ Verdict(c) = "None" => ~OutsideCollar(c) /\ ~OverSize(c)
                       /\ Verdict(c) = "RiskLimit" => OverSize(c) \/ PositionBreached(c)
                       /\ Verdict(c) = "PriceCollar" =>
                            \/ OutsideCollar(c)
                            \/ deviation(c) > kMax \div kBasisPoints
                       /\ InsidePosition /\ RoomToAdd =>
                            /\ Verdict(c) = "None" => ~OverPosition(c)
                            /\ Verdict(c) = "RiskLimit" => OverSize(c) \/ OverPosition(c)
    BY DEF LimitsAreExact
  <2>1. OverSize(c) <=> \/ c.quantity > setup.max_order_quantity
                        \/ NotionalBreached(c)
                        \/ setup.open_orders >= setup.max_open_orders
    BY NotionalIsExact DEF OverSize
  <2>2. /\ Verdict(c) = "None" =>
             ~check_collar(c) /\ ~OverSize(c) /\ ~PositionBreached(c)
        /\ Verdict(c) = "RiskLimit" => OverSize(c) \/ PositionBreached(c)
        /\ Verdict(c) = "PriceCollar" => check_collar(c)
    BY <2>1 DEF Verdict
  <2>3. ~OverSize(c) => c.quantity <= setup.max_order_quantity
    <3>1. c.quantity \in Nat /\ setup.max_order_quantity \in Nat
      BY RiskAssumption
    <3>. QED  BY <3>1, <2>1
  <2>4. InsidePosition /\ RoomToAdd /\ ~OverSize(c) =>
          (PositionBreached(c) <=> OverPosition(c))
    BY <2>3, PositionIsExact
  <2>. QED  BY <2>2, <2>4, CollarIsExact
<1>. QED  BY <1>1, <1>2, <1>3, PTL DEF Spec

=============================================================================
