-------------------------- MODULE OrderBookProofs --------------------------
(***************************************************************************)
(* The order book, for every value of its constants: the inductive         *)
(* invariant of OrderBook and its safety theorems.  What the operations on *)
(* levels, queues and the ladder do to the book comes first (TakeFrom and  *)
(* rest keep a sound book sound), then a lemma for every action, then the  *)
(* theorems.                                                               *)
(***************************************************************************)
EXTENDS OrderBook, SequenceTheorems, WellFoundedInduction, TLAPS

-----------------------------------------------------------------------------
(* The best price of a side.                                               *)

\* A non-empty set of prices above a bound has a least element, which is
\* what begin() of the ask ladder finds.
LEMMA MinIsLeast ==
  ASSUME NEW S, NEW b \in Int, S \subseteq Int, S # {}, \A x \in S : b <= x
  PROVE  Min(S) \in S /\ \A y \in S : Min(S) <= y
<1> DEFINE T == {n \in Nat : n + b \in S}
<1>1. T # {}
  <2>1. PICK x \in S : TRUE
    BY ZenonT(30)
  <2>2. x - b \in Nat /\ (x - b) + b = x
    OBVIOUS
  <2> QED
    BY ZenonT(30), <2>1, <2>2
<1>2. PICK m \in T : \A y \in T : ~(<<y, m>> \in OpToRel(<, Nat))
  BY ZenonT(30), <1>1, NatLessThanWellFounded, WFMin
<1>3. ASSUME NEW y \in S PROVE m + b =< y
  <2>1. y - b \in T
    <3>1. y - b \in Nat /\ (y - b) + b = y
      OBVIOUS
    <3> QED
      BY Zenon, <3>1
  <2>2. ~(y - b < m)
    BY ZenonT(30), <2>1, <1>2 DEF OpToRel
  <2> QED
    BY <2>1, <2>2
<1>4. m + b \in S
  OBVIOUS
<1> QED
  BY ZenonT(30), <1>3, <1>4 DEF Min

\* A non-empty set of prices below a bound has a greatest element, which is
\* what begin() of the bid ladder finds.
LEMMA MaxIsGreatest ==
  ASSUME NEW S, NEW b \in Int, S \subseteq Int, S # {}, \A x \in S : x <= b
  PROVE  Max(S) \in S /\ \A y \in S : y <= Max(S)
<1> DEFINE T == {n \in Nat : b - n \in S}
<1>1. T # {}
  <2>1. PICK x \in S : TRUE
    BY ZenonT(30)
  <2>2. b - x \in Nat /\ b - (b - x) = x
    OBVIOUS
  <2> QED
    BY ZenonT(30), <2>1, <2>2
<1>2. PICK m \in T : \A y \in T : ~(<<y, m>> \in OpToRel(<, Nat))
  BY ZenonT(30), <1>1, NatLessThanWellFounded, WFMin
<1>3. ASSUME NEW y \in S PROVE b - m >= y
  <2>1. b - y \in T
    <3>1. b - y \in Nat /\ b - (b - y) = y
      OBVIOUS
    <3> QED
      BY Zenon, <3>1
  <2>2. ~(b - y < m)
    BY ZenonT(30), <2>1, <1>2 DEF OpToRel
  <2> QED
    BY <2>1, <2>2
<1>4. b - m \in S
  OBVIOUS
<1> QED
  BY ZenonT(30), <1>3, <1>4 DEF Max

\* What is left of an order is a quantity that can be taken from it whole.
LEMMA WholeQuantity ==
  ASSUME NEW n \in Nat, NEW m \in 1 .. n
  PROVE  /\ m \in Nat /\ m \in 1 .. m /\ 0 \in 0 .. m
         /\ ~(m < m) /\ m <= n
OBVIOUS

\* The quantity two orders trade, or prevention takes from both: something of
\* each of them.
LEMMA LesserTaken ==
  ASSUME NEW q \in Nat, NEW a \in 1 .. q, NEW s \in Nat, NEW b \in 1 .. s
  PROVE  /\ Lesser(a, b) \in 1 .. a /\ Lesser(a, b) \in 1 .. b
         /\ Lesser(a, b) \in Nat /\ Lesser(a, b) <= a
         /\ Lesser(a, b) \in 0 .. Lesser(a, b)
         /\ a - Lesser(a, b) \in Nat /\ q - Lesser(a, b) \in Nat
         /\ a - Lesser(a, b) <= q - Lesser(a, b)
BY DEF Lesser

-----------------------------------------------------------------------------
(* Queues.                                                                 *)

\* PriceLevel::unlink takes one order out and keeps the others in order.
LEMMA UnlinkProperties ==
  ASSUME NEW S, NEW q \in Seq(S), NEW k \in DOMAIN q,
         \A i, j \in DOMAIN q : q[i] = q[j] => i = j
  PROVE  LET u == unlink(q, q[k])
         IN  /\ u \in Seq(S)
             /\ Len(u) = Len(q) - 1
             /\ \A i \in DOMAIN u : u[i] = IF i < k THEN q[i] ELSE q[i + 1]
<1> DEFINE c == CHOOSE i \in DOMAIN q : q[i] = q[k]
           l == SubSeq(q, 1, k - 1)
           r == SubSeq(q, k + 1, Len(q))
<1>1. c = k
  OBVIOUS
<1>2. /\ Len(q) \in Nat /\ DOMAIN q = 1 .. Len(q)
      /\ \A i \in 1 .. Len(q) : q[i] \in S
  BY LenProperties
<1>3. /\ l \in Seq(S) /\ Len(l) = k - 1
      /\ \A i \in 1 .. k - 1 : l[i] = q[i]
  <2>1. /\ l \in Seq(S)
        /\ Len(l) = IF 1 <= k - 1 THEN (k - 1) - 1 + 1 ELSE 0
        /\ \A i \in 1 .. (k - 1) - 1 + 1 : l[i] = q[1 + i - 1]
    <3>1. \A i \in 1 .. k - 1 : q[i] \in S
      BY <1>2
    <3> QED
      BY <3>1, <1>2, SubSeqProperties
  <2> QED
    BY <2>1, <1>2
<1>4. /\ r \in Seq(S) /\ Len(r) = Len(q) - k
      /\ \A i \in 1 .. Len(q) - k : r[i] = q[k + i]
  <2>1. /\ r \in Seq(S)
        /\ Len(r) = IF k + 1 <= Len(q) THEN Len(q) - (k + 1) + 1 ELSE 0
        /\ \A i \in 1 .. Len(q) - (k + 1) + 1 : r[i] = q[(k + 1) + i - 1]
    <3>1. \A i \in k + 1 .. Len(q) : q[i] \in S
      BY <1>2
    <3> QED
      BY SMTT(30), <3>1, <1>2, SubSeqProperties
  <2> QED
    BY SMTT(30), <2>1, <1>2
<1> DEFINE u == l \o r
<1>5. unlink(q, q[k]) = u
  BY ZenonT(30), <1>1 DEF unlink
<1> HIDE DEF l, r
<1>6. /\ u \in Seq(S)
      /\ Len(u) = Len(l) + Len(r)
      /\ \A i \in 1 .. Len(l) + Len(r) :
           u[i] = IF i <= Len(l) THEN l[i] ELSE r[i - Len(l)]
  BY SMTT(30), <1>3, <1>4, ConcatProperties
<1> HIDE DEF u
<1>7. Len(u) = Len(q) - 1 /\ DOMAIN u = 1 .. Len(q) - 1
  BY SMTT(30), <1>2, <1>3, <1>4, <1>6, LenProperties
<1>8. ASSUME NEW i \in 1 .. Len(q) - 1
      PROVE  u[i] = IF i < k THEN q[i] ELSE q[i + 1]
  <2>0. i \in 1 .. Len(l) + Len(r) /\ k \in 1 .. Len(q)
    BY SMTT(30), <1>2, <1>3, <1>4
  <2>1. CASE i < k
    BY SMTT(30), <2>0, <2>1, <1>2, <1>3, <1>6
  <2>2. CASE ~(i < k)
    <3>1. u[i] = r[i - (k - 1)]
      BY <2>0, <2>2, <1>2, <1>3, <1>6
    <3>2. i - (k - 1) \in 1 .. Len(q) - k /\ k + (i - (k - 1)) = i + 1
      BY <2>0, <2>2, <1>2
    <3>3. r[i - (k - 1)] = q[k + (i - (k - 1))]
      BY Zenon, <3>2, <1>4
    <3> QED
      BY Zenon, <3>1, <3>2, <3>3, <2>2
  <2> QED
    BY Zenon, <2>1, <2>2
<1> QED
  BY ZenonT(30), <1>5, <1>6, <1>7, <1>8

-----------------------------------------------------------------------------
(* The book alone: what the commands do to it.                             *)

BookType ==
  /\ DOMAIN orders \subseteq OrderIds
  /\ orders \in [DOMAIN orders -> OrderType]
  /\ queue \in [Sides -> [Prices -> Seq(OrderIds)]]
  /\ total \in [Sides -> [Prices -> Int]]
  /\ occupied \in [Sides -> SUBSET Prices]

BookInv == BookType /\ IndexMatchesLevels /\ NeverCrossed /\ ArrivalOrder

\* Prices are integers of the instrument's band.
LEMMA PricesInBand ==
  /\ Prices \subseteq Int
  /\ \A p \in Prices : MinPrice <= p /\ p <= MaxPrice
BY BookAssumption DEF Prices

\* The best price of a side that is not empty is one of its prices, and no
\* price of the side is better.
LEMMA BestIsBest ==
  ASSUME BookType, NEW s \in Sides, occupied[s] # {}
  PROVE  /\ Best(s) \in occupied[s]
         /\ s = "Buy" => \A p \in occupied[s] : p <= Best(s)
         /\ s = "Sell" => \A p \in occupied[s] : Best(s) <= p
<1>1. occupied[s] \subseteq Prices
  BY Zenon DEF BookType
<1>2. /\ MinPrice \in Int /\ MaxPrice \in Int
      /\ occupied[s] \subseteq Int
      /\ \A x \in occupied[s] : MinPrice <= x /\ x <= MaxPrice
  BY ZenonT(30), <1>1, PricesInBand, BookAssumption
<1>3. CASE s = "Buy"
  BY Zenon, <1>2, <1>3, MaxIsGreatest DEF Best
<1>4. CASE s = "Sell"
  BY Zenon, <1>2, <1>4, MinIsLeast DEF Best
<1> QED
  BY Zenon, <1>3, <1>4 DEF Sides

\* A live order is of its type, knows its own id, has something left of it
\* and stands in a level of the ladder.
LEMMA LiveOrder ==
  ASSUME BookInv, NEW id \in DOMAIN orders
  PROVE  LET o == orders[id]
         IN  /\ o \in OrderType /\ o.id = id /\ id \in OrderIds
             /\ o.remaining \in 1 .. o.quantity
             /\ o.remaining \in Nat /\ o.quantity \in Nat
             /\ o.remaining \in 1 .. o.remaining /\ 0 \in 0 .. o.remaining
             /\ ~(o.remaining < o.remaining)
             /\ o.side \in Sides /\ o.price \in Prices
             /\ queue[o.side][o.price] \in Seq(OrderIds)
<1>1. /\ orders[id] \in OrderType /\ id \in OrderIds
      /\ queue \in [Sides -> [Prices -> Seq(OrderIds)]]
  BY Zenon DEF BookInv, BookType
<1>2. orders[id].quantity \in Nat /\ orders[id].side \in Sides
  BY Zenon, <1>1 DEF OrderType
<1>3. /\ orders[id].id = id /\ orders[id].price \in Prices
      /\ orders[id].remaining \in 1 .. orders[id].quantity
  BY Zenon DEF BookInv, IndexMatchesLevels
<1> QED
  BY Zenon, <1>1, <1>2, <1>3, WholeQuantity

\* A level of the ladder is occupied when its queue is not empty, and every
\* order of the queue is live, stands at that level and stands there once.
LEMMA LevelSound ==
  ASSUME BookInv, NEW s \in Sides, NEW p \in Prices
  PROVE  /\ (p \in occupied[s]) <=> (queue[s][p] # << >>)
         /\ \A i \in DOMAIN queue[s][p] :
              /\ queue[s][p][i] \in DOMAIN orders
              /\ orders[queue[s][p][i]].side = s
              /\ orders[queue[s][p][i]].price = p
         /\ \A i, j \in DOMAIN queue[s][p] :
              queue[s][p][i] = queue[s][p][j] => i = j
BY Zenon DEF BookInv, IndexMatchesLevels

\* Taking all that is left of a live order removes it: from its queue, from
\* the index and, when it was alone there, its level from the ladder.
LEMMA RemovalSound ==
  ASSUME BookInv,
         NEW id \in DOMAIN orders,
         NEW qty, qty = orders[id].remaining,
         NEW withdrawn,
         TakeFrom(id, qty, withdrawn),
         total' \in [Sides -> [Prices -> Int]]
  PROVE  /\ BookInv'
         /\ DOMAIN orders' = DOMAIN orders \ {id}
         /\ \A i \in DOMAIN orders' : orders'[i] = orders[i]
<1> DEFINE o == orders[id]
           S == o.side
           P == o.price
           q == queue[S][P]
<1>a. /\ S \in Sides /\ P \in Prices /\ q \in Seq(OrderIds)
  BY Zenon, LiveOrder
<1>b. \A i \in DOMAIN orders : orders[i] \in OrderType
  BY Zenon DEF BookInv, BookType
<1>c. total' \in [Sides -> [Prices -> Int]]
  OBVIOUS
<1>d. o.remaining - qty = 0
  BY DEF BookInv, BookType, OrderType
<1> DEFINE u == unlink(q, id)
<1>1. PICK k \in DOMAIN q : q[k] = id
  BY Zenon DEF BookInv, IndexMatchesLevels
<1>2. \A i, j \in DOMAIN q : q[i] = q[j] => i = j
  BY Zenon, <1>a, LevelSound
<1>3. /\ u \in Seq(OrderIds)
      /\ Len(u) = Len(q) - 1
      /\ \A i \in DOMAIN u : u[i] = IF i < k THEN q[i] ELSE q[i + 1]
  <2> HIDE DEF q
  <2>1. LET v == unlink(q, q[k])
        IN  /\ v \in Seq(OrderIds)
            /\ Len(v) = Len(q) - 1
            /\ \A i \in DOMAIN v : v[i] = IF i < k THEN q[i] ELSE q[i + 1]
    BY ZenonT(30), <1>a, <1>1, <1>2, UnlinkProperties
  <2> QED
    BY Zenon, <2>1, <1>1
<1>4. /\ orders' = [i \in DOMAIN orders \ {id} |-> orders[i]]
      /\ queue' = [queue EXCEPT ![S][P] = u]
      /\ occupied' = IF u = << >>
                     THEN [occupied EXCEPT ![S] = @ \ {P}] ELSE occupied
  BY <1>d DEF TakeFrom
<1> HIDE DEF u
<1>5. /\ DOMAIN orders' = DOMAIN orders \ {id}
      /\ \A i \in DOMAIN orders' : orders'[i] = orders[i]
  BY Zenon, <1>4, <1>a, <1>d
<1>6. \A s \in Sides, p \in Prices :
        queue'[s][p] = IF s = S /\ p = P THEN u ELSE queue[s][p]
  BY Zenon, <1>4, <1>a DEF BookInv, BookType
<1>7. \A s \in Sides, p \in Prices :
        p \in occupied'[s] <=>
          p \in occupied[s] /\ ~(s = S /\ p = P /\ u = << >>)
  BY Zenon, <1>4, <1>a DEF BookInv, BookType
<1>8. /\ DOMAIN q = 1 .. Len(q) /\ Len(q) \in Nat
      /\ DOMAIN u = 1 .. Len(q) - 1
  BY Zenon, <1>a, <1>3, LenProperties
<1> DEFINE at(n) == IF n < k THEN n ELSE n + 1
<1>at. /\ \A n \in DOMAIN u : /\ at(n) \in DOMAIN q
                              /\ at(n) # k
                              /\ u[n] = q[at(n)]
       /\ \A n, m \in DOMAIN u : n < m => at(n) < at(m)
  <2> HIDE DEF q
  <2> QED
    BY SMTT(30), <1>1, <1>3, <1>8
<1>9. BookType'
  <2>1. orders' \in [DOMAIN orders' -> OrderType]
    BY Zenon, <1>4, <1>5, <1>b
  <2>2. queue' \in [Sides -> [Prices -> Seq(OrderIds)]]
    BY Zenon, <1>3, <1>4, <1>a DEF BookInv, BookType
  <2>3. occupied' \in [Sides -> SUBSET Prices]
    BY Zenon, <1>4, <1>a DEF BookInv, BookType
  <2> QED
    BY Zenon, <2>1, <2>2, <2>3, <1>5, <1>c DEF BookInv, BookType
<1>10. \A i \in DOMAIN u : u[i] # id
  <2> HIDE DEF q, at
  <2> QED
    BY Zenon, <1>1, <1>2, <1>at
<1>11. IndexMatchesLevels'
  <2>1. ASSUME NEW i \in DOMAIN orders'
        PROVE  \E j \in DOMAIN queue'[orders[i].side][orders[i].price] :
                 queue'[orders[i].side][orders[i].price][j] = i
    <3> DEFINE s == orders[i].side
               p == orders[i].price
    <3>1. /\ i \in DOMAIN orders /\ i # id
          /\ s \in Sides /\ p \in Prices
      BY Zenon, <1>5, <1>b DEF BookInv, IndexMatchesLevels, OrderType
    <3>2. PICK j \in DOMAIN queue[s][p] : queue[s][p][j] = i
      BY Zenon, <3>1 DEF BookInv, IndexMatchesLevels
    <3>3. CASE s = S /\ p = P
      <4>1. j \in 1 .. Len(q) /\ q[j] = i /\ j # k
        BY Zenon, <3>1, <3>2, <3>3, <1>1, <1>8
      <4>2. queue'[s][p] = u
        BY Zenon, <3>1, <3>3, <1>6
      <4>3. \E n \in DOMAIN u : u[n] = i
        <5> HIDE DEF q, s, p, S, P
        <5>1. CASE j < k
          <6>1. j \in DOMAIN u
            BY SMTT(30), <4>1, <5>1, <1>1, <1>8
          <6> QED
            BY Zenon, <6>1, <4>1, <5>1, <1>3
        <5>2. CASE ~(j < k)
          <6>1. j - 1 \in DOMAIN u /\ ~(j - 1 < k) /\ (j - 1) + 1 = j
            BY SMTT(30), <4>1, <5>2, <1>1, <1>8
          <6> QED
            BY Zenon, <6>1, <4>1, <1>3
        <5> QED
          BY Zenon, <5>1, <5>2
      <4> QED
        BY ZenonT(30), <4>2, <4>3
    <3>4. CASE ~(s = S /\ p = P)
      BY Zenon, <3>1, <3>2, <3>4, <1>6
    <3> QED
      BY Zenon, <3>3, <3>4
  <2>2. ASSUME NEW s \in Sides, NEW p \in Prices
        PROVE  /\ p \in occupied'[s] <=> queue'[s][p] # << >>
               /\ \A i \in DOMAIN queue'[s][p] :
                    /\ queue'[s][p][i] \in DOMAIN orders'
                    /\ orders'[queue'[s][p][i]].side = s
                    /\ orders'[queue'[s][p][i]].price = p
               /\ \A i, j \in DOMAIN queue'[s][p] :
                    queue'[s][p][i] = queue'[s][p][j] => i = j
    <3>0. /\ p \in occupied[s] <=> queue[s][p] # << >>
          /\ \A i \in DOMAIN queue[s][p] :
               /\ queue[s][p][i] \in DOMAIN orders
               /\ orders[queue[s][p][i]].side = s
               /\ orders[queue[s][p][i]].price = p
          /\ \A i, j \in DOMAIN queue[s][p] :
               queue[s][p][i] = queue[s][p][j] => i = j
      BY Zenon DEF BookInv, IndexMatchesLevels
    <3>1. CASE s = S /\ p = P
      <4>1. queue'[s][p] = u
        BY Zenon, <3>1, <1>6
      <4>2. p \in occupied'[s] <=> u # << >>
        <5>1. q # << >>
          <6> HIDE DEF q
          <6> QED
            BY <1>1, <1>8
        <5> QED
          BY ZenonT(30), <5>1, <3>0, <3>1, <1>7
      <4>3. ASSUME NEW i \in DOMAIN u
            PROVE  /\ u[i] \in DOMAIN orders'
                   /\ orders'[u[i]].side = s
                   /\ orders'[u[i]].price = p
        <5>1. /\ u[i] \in DOMAIN orders
              /\ orders[u[i]].side = s /\ orders[u[i]].price = p
          <6> HIDE DEF at
          <6>1. at(i) \in DOMAIN queue[s][p] /\ u[i] = queue[s][p][at(i)]
            BY Zenon, <1>at, <3>1
          <6> QED
            BY Zenon, <6>1, <3>0
        <5> QED
          BY Zenon, <5>1, <1>5, <1>10
      <4>4. ASSUME NEW i \in DOMAIN u, NEW j \in DOMAIN u, u[i] = u[j]
            PROVE  i = j
        <5>1. at(i) = at(j)
          <6> HIDE DEF q, at
          <6> QED
            BY ZenonT(30), <4>4, <1>at, <1>2
        <5> QED
          <6> HIDE DEF q
          <6>1. i \in Nat /\ j \in Nat /\ k \in Nat
            BY <1>1, <1>8
          <6> QED
            BY <5>1, <6>1
      <4> QED
        BY Zenon, <4>1, <4>2, <4>3, <4>4
    <3>2. CASE ~(s = S /\ p = P)
      <4>1. queue'[s][p] = queue[s][p]
        BY Zenon, <3>2, <1>6
      <4>2. p \in occupied'[s] <=> p \in occupied[s]
        BY Zenon, <3>2, <1>7
      <4>3. \A i \in DOMAIN queue[s][p] : queue[s][p][i] # id
        BY ZenonT(30), <3>0, <3>2
      <4>4. ASSUME NEW i \in DOMAIN queue[s][p]
            PROVE  /\ queue[s][p][i] \in DOMAIN orders'
                   /\ orders'[queue[s][p][i]].side = s
                   /\ orders'[queue[s][p][i]].price = p
        <5>1. queue[s][p][i] \in DOMAIN orders'
          BY Zenon, <4>3, <3>0, <1>5
        <5> QED
          BY Zenon, <5>1, <3>0, <1>5
      <4> QED
        BY ZenonT(30), <4>1, <4>2, <4>4, <3>0
    <3> QED
      BY Zenon, <3>1, <3>2
  <2>3. \A i \in DOMAIN orders' :
          /\ orders'[i].id = i
          /\ orders'[i].remaining \in 1 .. orders'[i].quantity
          /\ orders'[i].price \in Prices
    BY ZenonT(30), <1>5 DEF BookInv, IndexMatchesLevels
  <2>4. \A i \in DOMAIN orders' :
          \E j \in DOMAIN queue'[orders'[i].side][orders'[i].price] :
            queue'[orders'[i].side][orders'[i].price][j] = i
    BY ZenonT(30), <2>1, <1>5
  <2> QED
    BY ZenonT(30), <2>2, <2>3, <2>4 DEF IndexMatchesLevels
<1>12. NeverCrossed'
  <2>1. \A s \in Sides : occupied'[s] \subseteq occupied[s]
    BY Zenon, <1>4, <1>a DEF BookInv, BookType
  <2> QED
    BY Zenon, <2>1 DEF BookInv, NeverCrossed, Sides
<1>13. ArrivalOrder'
  <2> SUFFICES ASSUME NEW s \in Sides, NEW p \in Prices,
                      NEW i \in DOMAIN queue'[s][p],
                      NEW j \in DOMAIN queue'[s][p], i < j
               PROVE  orders'[queue'[s][p][i]].sequence
                        < orders'[queue'[s][p][j]].sequence
    BY Zenon DEF ArrivalOrder
  <2>1. /\ queue'[s][p][i] \in DOMAIN orders'
        /\ queue'[s][p][j] \in DOMAIN orders'
    BY ZenonT(30), <1>11 DEF IndexMatchesLevels
  <2>2. CASE s = S /\ p = P
    <3>1. /\ i \in DOMAIN u /\ j \in DOMAIN u
          /\ queue'[s][p][i] = u[i] /\ queue'[s][p][j] = u[j]
      BY Zenon, <2>2, <1>6
    <3>2. /\ at(i) \in DOMAIN q /\ at(j) \in DOMAIN q /\ at(i) < at(j)
          /\ u[i] = q[at(i)] /\ u[j] = q[at(j)]
      BY Zenon, <3>1, <1>at
    <3>3. orders[q[at(i)]].sequence < orders[q[at(j)]].sequence
      BY ZenonT(30), <3>2, <1>a DEF BookInv, ArrivalOrder
    <3> QED
      BY ZenonT(30), <3>1, <3>2, <3>3, <2>1, <1>5
  <2>3. CASE ~(s = S /\ p = P)
    <3>1. queue'[s][p] = queue[s][p]
      BY Zenon, <2>3, <1>6
    <3>2. orders[queue[s][p][i]].sequence < orders[queue[s][p][j]].sequence
      BY Zenon, <3>1 DEF BookInv, ArrivalOrder
    <3>3. /\ orders'[queue'[s][p][i]] = orders[queue[s][p][i]]
          /\ orders'[queue'[s][p][j]] = orders[queue[s][p][j]]
      BY Zenon, <3>1, <2>1, <1>5
    <3> QED
      BY Zenon, <3>2, <3>3
  <2> QED
    BY Zenon, <2>2, <2>3
<1> QED
  BY Zenon, <1>5, <1>9, <1>11, <1>12, <1>13 DEF BookInv

\* Taking quantity from a live order, all of it or a part, leaves a sound
\* book in which nothing else has changed.
LEMMA TakeFromSound ==
  ASSUME BookInv,
         NEW id \in DOMAIN orders,
         NEW qty \in 1 .. orders[id].remaining,
         NEW withdrawn \in 0 .. qty,
         TakeFrom(id, qty, withdrawn)
  PROVE  /\ BookInv'
         /\ DOMAIN orders' = IF qty < orders[id].remaining THEN DOMAIN orders
                             ELSE DOMAIN orders \ {id}
         /\ \A i \in DOMAIN orders' :
              /\ orders'[i].sequence = orders[i].sequence
              /\ i # id => orders'[i] = orders[i]
         /\ id \in DOMAIN orders' =>
              /\ orders'[id].remaining = orders[id].remaining - qty
              /\ orders'[id].quantity = orders[id].quantity - withdrawn
              /\ orders'[id].price = orders[id].price
              /\ orders'[id].post_only = orders[id].post_only
<1> DEFINE o    == orders[id]
           S    == o.side
           P    == o.price
           q    == queue[S][P]
           left == o.remaining - qty
<1>1. /\ o \in OrderType /\ o.id = id /\ o.remaining \in 1 .. o.quantity
      /\ S \in Sides /\ P \in Prices
      /\ q \in Seq(OrderIds)
      /\ left \in Nat
  <2>1. o.remaining \in Nat
    BY Zenon, LiveOrder
  <2>2. left \in Nat
    BY <2>1
  <2> QED
    BY Zenon, <2>2, LiveOrder
<1>2. \A i \in DOMAIN orders : orders[i] \in OrderType
  BY Zenon DEF BookInv, BookType
<1>3. total' \in [Sides -> [Prices -> Int]]
  <2>1. total \in [Sides -> [Prices -> Int]] /\ qty \in Int
    BY DEF BookInv, BookType
  <2>2. total' = [total EXCEPT ![S][P] = @ - qty]
    BY Zenon DEF TakeFrom, reduce
  <2> QED
    <3>1. total[S][P] \in Int
      BY Zenon, <2>1, <1>1
    <3>2. total[S][P] - qty \in Int
      BY <3>1, <2>1
    <3> QED
      BY Zenon, <3>2, <2>1, <2>2, <1>1
<1>4. CASE left > 0
  <2>1. /\ orders' = [orders EXCEPT ![id].remaining = left,
                                    ![id].quantity = @ - withdrawn]
        /\ queue' = queue /\ occupied' = occupied
    BY Zenon, <1>4 DEF TakeFrom
  <2>2. DOMAIN orders' = DOMAIN orders /\ qty < orders[id].remaining
    BY <2>1, <1>1, <1>4
  <2>3. \A i \in DOMAIN orders : i # id => orders'[i] = orders[i]
    BY Zenon, <2>1
  <2>4. orders'[id] = [o EXCEPT !.remaining = left,
                                !.quantity = o.quantity - withdrawn]
    BY Zenon, <2>1, <1>1 DEF BookInv, BookType, OrderType
  <2>5. /\ orders'[id] \in OrderType
        /\ orders'[id].id = id /\ orders'[id].side = S /\ orders'[id].price = P
        /\ orders'[id].sequence = o.sequence
        /\ orders'[id].post_only = o.post_only
        /\ orders'[id].remaining = left
        /\ orders'[id].quantity = o.quantity - withdrawn
        /\ orders'[id].remaining \in 1 .. orders'[id].quantity
    <3>1. o.quantity - withdrawn \in Nat /\ left \in 1 .. o.quantity - withdrawn
      BY <1>1, <1>4 DEF OrderType
    <3> QED
      BY ZenonT(30), <2>4, <3>1, <1>1 DEF OrderType
  <2>6. BookType'
    <3>1. \A i \in DOMAIN orders' : orders'[i] \in OrderType
      BY Zenon, <2>2, <2>3, <2>5, <1>2
    <3>2. orders' \in [DOMAIN orders' -> OrderType]
      BY Zenon, <3>1, <2>1
    <3> QED
      BY Zenon, <3>2, <2>1, <2>2, <1>3 DEF BookInv, BookType
  <2>7. IndexMatchesLevels'
    <3>1. ASSUME NEW i \in DOMAIN orders
          PROVE  /\ orders'[i].side = orders[i].side
                 /\ orders'[i].price = orders[i].price
                 /\ orders'[i].id = i
                 /\ orders'[i].remaining \in 1 .. orders'[i].quantity
      <4>1. CASE i = id
        BY Zenon, <4>1, <2>5
      <4>2. CASE i # id
        BY Zenon, <4>2, <2>3, LiveOrder
      <4> QED
        BY Zenon, <4>1, <4>2
    <3>2. ASSUME NEW i \in DOMAIN orders'
          PROVE  /\ orders'[i].price \in Prices
                 /\ \E j \in DOMAIN queue'[orders'[i].side][orders'[i].price] :
                      queue'[orders'[i].side][orders'[i].price][j] = i
      <4>1. /\ orders[i].price \in Prices
            /\ \E j \in DOMAIN queue[orders[i].side][orders[i].price] :
                 queue[orders[i].side][orders[i].price][j] = i
        BY Zenon, <2>2 DEF BookInv, IndexMatchesLevels
      <4>2. orders'[i].side = orders[i].side /\ orders'[i].price = orders[i].price
        BY Zenon, <2>2, <3>1
      <4>3. queue' = queue
        BY Zenon, <2>1
      <4> QED
        BY ZenonT(30), <4>1, <4>2, <4>3
    <3>3. \A s \in Sides : \A p \in Prices :
            /\ (p \in occupied'[s]) <=> (queue'[s][p] # << >>)
            /\ \A i \in DOMAIN queue'[s][p] :
                 /\ queue'[s][p][i] \in DOMAIN orders'
                 /\ orders'[queue'[s][p][i]].side = s
                 /\ orders'[queue'[s][p][i]].price = p
            /\ \A i, j \in DOMAIN queue'[s][p] :
                 queue'[s][p][i] = queue'[s][p][j] => i = j
      <4>1. \A s \in Sides : \A p \in Prices :
              /\ (p \in occupied[s]) <=> (queue[s][p] # << >>)
              /\ \A i \in DOMAIN queue[s][p] :
                   /\ queue[s][p][i] \in DOMAIN orders
                   /\ orders[queue[s][p][i]].side = s
                   /\ orders[queue[s][p][i]].price = p
              /\ \A i, j \in DOMAIN queue[s][p] :
                   queue[s][p][i] = queue[s][p][j] => i = j
        BY ZenonT(30) DEF BookInv, IndexMatchesLevels
      <4>2. DOMAIN orders' = DOMAIN orders /\ queue' = queue /\ occupied' = occupied
        BY Zenon, <2>1, <2>2
      <4> SUFFICES ASSUME NEW s \in Sides, NEW p \in Prices
                   PROVE  /\ (p \in occupied'[s]) <=> (queue'[s][p] # << >>)
                          /\ \A i \in DOMAIN queue'[s][p] :
                               /\ queue'[s][p][i] \in DOMAIN orders'
                               /\ orders'[queue'[s][p][i]].side = s
                               /\ orders'[queue'[s][p][i]].price = p
                          /\ \A i, j \in DOMAIN queue'[s][p] :
                               queue'[s][p][i] = queue'[s][p][j] => i = j
        BY Zenon
      <4>3. PICK level, held : level = queue[s][p] /\ held = occupied[s]
        BY Zenon
      <4>4. queue'[s][p] = level /\ occupied'[s] = held
        BY Zenon, <4>2, <4>3
      <4>5. /\ (p \in held) <=> (level # << >>)
            /\ \A i, j \in DOMAIN level : level[i] = level[j] => i = j
            /\ \A i \in DOMAIN level :
                 /\ level[i] \in DOMAIN orders
                 /\ orders[level[i]].side = s /\ orders[level[i]].price = p
        <5>1. /\ (p \in occupied[s]) <=> (queue[s][p] # << >>)
              /\ \A i \in DOMAIN queue[s][p] :
                   /\ queue[s][p][i] \in DOMAIN orders
                   /\ orders[queue[s][p][i]].side = s
                   /\ orders[queue[s][p][i]].price = p
              /\ \A i, j \in DOMAIN queue[s][p] :
                   queue[s][p][i] = queue[s][p][j] => i = j
          BY Zenon, LevelSound
        <5> QED
          BY Zenon, <5>1, <4>3
      <4>6. \A i \in DOMAIN level :
              /\ level[i] \in DOMAIN orders'
              /\ orders'[level[i]].side = s /\ orders'[level[i]].price = p
        BY Zenon, <3>1, <4>2, <4>5
      <4> QED
        BY Zenon, <4>4, <4>5, <4>6
    <3>4. \A i \in DOMAIN orders' :
            /\ orders'[i].id = i
            /\ orders'[i].remaining \in 1 .. orders'[i].quantity
            /\ orders'[i].price \in Prices
            /\ \E j \in DOMAIN queue'[orders'[i].side][orders'[i].price] :
                 queue'[orders'[i].side][orders'[i].price][j] = i
      BY ZenonT(30), <3>1, <3>2, <2>2
    <3> QED
      BY ZenonT(30), <3>3, <3>4 DEF IndexMatchesLevels
  <2>8. NeverCrossed'
    BY Zenon, <2>1 DEF BookInv, NeverCrossed
  <2>9. ArrivalOrder'
    <3>1. \A n \in DOMAIN orders : orders'[n].sequence = orders[n].sequence
      BY Zenon, <2>3, <2>5
    <3>2. ASSUME NEW s \in Sides, NEW p \in Prices,
                 NEW i \in DOMAIN queue[s][p], NEW j \in DOMAIN queue[s][p],
                 i < j
          PROVE  orders'[queue[s][p][i]].sequence
                   < orders'[queue[s][p][j]].sequence
      <4>1. queue[s][p][i] \in DOMAIN orders /\ queue[s][p][j] \in DOMAIN orders
        BY Zenon DEF BookInv, IndexMatchesLevels
      <4>2. orders[queue[s][p][i]].sequence < orders[queue[s][p][j]].sequence
        BY Zenon, <3>2 DEF BookInv, ArrivalOrder
      <4> QED
        BY ZenonT(30), <3>1, <4>1, <4>2
    <3>3. queue' = queue
      BY Zenon, <2>1
    <3> QED
      BY ZenonT(30), <3>2, <3>3 DEF ArrivalOrder
  <2> QED
    BY Zenon, <2>2, <2>3, <2>5, <2>6, <2>7, <2>8, <2>9 DEF BookInv
<1>5. CASE left = 0
  <2>1. qty = o.remaining /\ ~(qty < o.remaining)
    BY SMTT(30), <1>1, <1>5
  <2>2. /\ BookInv'
        /\ DOMAIN orders' = DOMAIN orders \ {id}
        /\ \A i \in DOMAIN orders' : orders'[i] = orders[i]
    BY ZenonT(30), <2>1, <1>3, RemovalSound
  <2> QED
    BY Zenon, <2>1, <2>2
<1> QED
  BY SMTT(30), <1>1, <1>4, <1>5

\* An order taken off whole, as cancellation and prevention do.
LEMMA DropSound ==
  ASSUME BookInv, NEW id \in DOMAIN orders,
         TakeFrom(id, orders[id].remaining, 0)
  PROVE  /\ BookInv'
         /\ DOMAIN orders' = DOMAIN orders \ {id}
         /\ \A i \in DOMAIN orders' : orders'[i] = orders[i]
<1> DEFINE qty == orders[id].remaining
<1>1. qty \in 1 .. qty /\ 0 \in 0 .. qty /\ ~(qty < qty)
  BY Zenon, LiveOrder
<1>2. TakeFrom(id, qty, 0) /\ qty = orders[id].remaining
  BY Zenon, SMTT(30)
<1> HIDE DEF qty
<1>3. /\ BookInv'
      /\ DOMAIN orders' = DOMAIN orders \ {id}
      /\ \A i \in DOMAIN orders' : i # id => orders'[i] = orders[i]
  BY ZenonT(30), <1>1, <1>2, TakeFromSound
<1> QED
  BY Zenon, <1>3

-----------------------------------------------------------------------------
(* An order that comes to rest leaves a sound book sound.                  *)

\* Resting an order that is new to the book, newer than all of it and does
\* not cross the other side leaves a sound book.
LEMMA RestSound ==
  ASSUME BookInv,
         NEW o \in OrderType,
         o.id \notin DOMAIN orders,
         o.price \in Prices,
         o.remaining \in 1 .. o.quantity,
         \A i \in DOMAIN orders : orders[i].sequence < o.sequence,
         \A p \in occupied[opposite(o.side)] :
           IF o.side = "Buy" THEN o.price < p ELSE p < o.price,
         rest(o)
  PROVE  /\ BookInv'
         /\ DOMAIN orders' = DOMAIN orders \cup {o.id}
         /\ orders'[o.id] = o
         /\ \A i \in DOMAIN orders : orders'[i] = orders[i]
<1> DEFINE S == o.side
           P == o.price
           q == queue[S][P]
           u == Append(q, o.id)
<1>1. /\ S \in Sides /\ P \in Prices /\ o.id \in OrderIds
      /\ o.sequence \in Nat /\ o.remaining \in Nat
      /\ q \in Seq(OrderIds)
  BY SMTT(30) DEF BookInv, BookType, OrderType
<1>2. /\ orders' = [i \in DOMAIN orders \cup {o.id} |->
                      IF i = o.id THEN o ELSE orders[i]]
      /\ queue' = [queue EXCEPT ![S][P] = u]
      /\ total' = [total EXCEPT ![S][P] = @ + o.remaining]
      /\ occupied' = [occupied EXCEPT ![S] = @ \cup {P}]
  BY Zenon DEF rest
<1>3. /\ DOMAIN orders' = DOMAIN orders \cup {o.id}
      /\ orders'[o.id] = o
      /\ \A i \in DOMAIN orders : orders'[i] = orders[i]
  BY Zenon, <1>2
<1>4. /\ u \in Seq(OrderIds) /\ u # << >>
      /\ Len(q) \in Nat /\ DOMAIN q = 1 .. Len(q)
      /\ Len(u) = Len(q) + 1 /\ DOMAIN u = 1 .. Len(q) + 1
      /\ \A i \in 1 .. Len(q) : u[i] = q[i]
      /\ u[Len(q) + 1] = o.id
  <2> HIDE DEF q
  <2> QED
    BY SMTT(30), <1>1, AppendProperties, LenProperties
<1> HIDE DEF u
<1>5. \A s \in Sides, p \in Prices :
        queue'[s][p] = IF s = S /\ p = P THEN u ELSE queue[s][p]
  BY Zenon, <1>1, <1>2 DEF BookInv, BookType
<1>6. \A s \in Sides, p \in Prices :
        p \in occupied'[s] <=> p \in occupied[s] \/ (s = S /\ p = P)
  BY Zenon, <1>1, <1>2 DEF BookInv, BookType
<1>7. BookType'
  <2>1. \A i \in DOMAIN orders' : orders'[i] \in OrderType
    BY Zenon, <1>3 DEF BookInv, BookType
  <2>2. orders' \in [DOMAIN orders' -> OrderType]
    BY ZenonT(30), <2>1, <1>2
  <2>3. queue' \in [Sides -> [Prices -> Seq(OrderIds)]]
    BY Zenon, <1>1, <1>2, <1>4 DEF BookInv, BookType
  <2>4. total' \in [Sides -> [Prices -> Int]]
    BY SMTT(30), <1>1, <1>2 DEF BookInv, BookType
  <2>5. occupied' \in [Sides -> SUBSET Prices]
    BY ZenonT(30), <1>1, <1>2 DEF BookInv, BookType
  <2> QED
    BY Zenon, <2>2, <2>3, <2>4, <2>5, <1>1, <1>3 DEF BookInv, BookType
<1>8. IndexMatchesLevels'
  <2>1. ASSUME NEW i \in DOMAIN orders'
        PROVE  \E j \in DOMAIN queue'[orders'[i].side][orders'[i].price] :
                 queue'[orders'[i].side][orders'[i].price][j] = i
    <3>1. CASE i = o.id
      <4>1. /\ orders'[i].side = S /\ orders'[i].price = P
            /\ queue'[S][P] = u
        BY Zenon, <3>1, <1>1, <1>3, <1>5
      <4>2. Len(q) + 1 \in DOMAIN u /\ u[Len(q) + 1] = i
        <5> HIDE DEF q
        <5> QED
          BY <3>1, <1>4
      <4>3. \E j \in DOMAIN u : u[j] = i
        BY Zenon, <4>2
      <4> QED
        BY Zenon, <4>1, <4>3
    <3>2. CASE i # o.id
      <4> DEFINE s == orders[i].side
                 p == orders[i].price
      <4>1. /\ i \in DOMAIN orders /\ orders'[i] = orders[i]
            /\ s \in Sides /\ p \in Prices
        <5>1. i \in DOMAIN orders
          BY Zenon, <3>2, <1>3
        <5> QED
          BY Zenon, <5>1, <1>3, LiveOrder
      <4>2. PICK j \in DOMAIN queue[s][p] : queue[s][p][j] = i
        BY ZenonT(30), <4>1 DEF BookInv, IndexMatchesLevels
      <4>3. j \in DOMAIN queue'[s][p] /\ queue'[s][p][j] = i
        <5>1. CASE s = S /\ p = P
          <6>1. j \in 1 .. Len(q) /\ q[j] = i
            BY ZenonT(30), <5>1, <4>2, <1>4
          <6>2. j \in DOMAIN u /\ u[j] = i
            <7> HIDE DEF q, s, p
            <7>1. j \in 1 .. Len(q) + 1
              BY <6>1, <1>4
            <7> QED
              BY Zenon, <7>1, <6>1, <1>4
          <6> QED
            BY Zenon, <6>2, <5>1, <4>1, <1>5
        <5>2. CASE ~(s = S /\ p = P)
          BY Zenon, <5>2, <4>1, <4>2, <1>5
        <5> QED
          BY ZenonT(30), <5>1, <5>2
      <4> QED
        BY Zenon, <4>1, <4>3
    <3> QED
      BY Zenon, <3>1, <3>2
  <2>2. ASSUME NEW s \in Sides, NEW p \in Prices
        PROVE  /\ p \in occupied'[s] <=> queue'[s][p] # << >>
               /\ \A i \in DOMAIN queue'[s][p] :
                    /\ queue'[s][p][i] \in DOMAIN orders'
                    /\ orders'[queue'[s][p][i]].side = s
                    /\ orders'[queue'[s][p][i]].price = p
               /\ \A i, j \in DOMAIN queue'[s][p] :
                    queue'[s][p][i] = queue'[s][p][j] => i = j
    <3>0. /\ p \in occupied[s] <=> queue[s][p] # << >>
          /\ \A i \in DOMAIN queue[s][p] :
               /\ queue[s][p][i] \in DOMAIN orders
               /\ orders[queue[s][p][i]].side = s
               /\ orders[queue[s][p][i]].price = p
          /\ \A i, j \in DOMAIN queue[s][p] :
               queue[s][p][i] = queue[s][p][j] => i = j
      BY Zenon DEF BookInv, IndexMatchesLevels
    <3>1. CASE s = S /\ p = P
      <4>1. queue'[s][p] = u /\ p \in occupied'[s]
        BY Zenon, <3>1, <1>5, <1>6
      <4>2. /\ \A i \in 1 .. Len(q) :
                 /\ u[i] \in DOMAIN orders
                 /\ orders[u[i]].side = s /\ orders[u[i]].price = p
            /\ \A i, j \in 1 .. Len(q) : u[i] = u[j] => i = j
        <5>1. q = queue[s][p]
          BY Zenon, <3>1
        <5> HIDE DEF q
        <5>2. /\ \A i \in 1 .. Len(q) :
                   /\ q[i] \in DOMAIN orders
                   /\ orders[q[i]].side = s /\ orders[q[i]].price = p
              /\ \A i, j \in 1 .. Len(q) : q[i] = q[j] => i = j
          BY ZenonT(30), <5>1, <3>0, <1>4
        <5> QED
          BY Zenon, <5>2, <1>4
      <4>3. \A i \in DOMAIN u :
              /\ u[i] \in DOMAIN orders'
              /\ orders'[u[i]].side = s /\ orders'[u[i]].price = p
        <5> HIDE DEF q
        <5> SUFFICES ASSUME NEW i \in DOMAIN u
                     PROVE  /\ u[i] \in DOMAIN orders'
                            /\ orders'[u[i]].side = s
                            /\ orders'[u[i]].price = p
          BY Zenon, SMTT(30)
        <5>1. CASE i \in 1 .. Len(q)
          BY Zenon, <5>1, <4>2, <1>3
        <5>2. CASE i = Len(q) + 1
          BY Zenon, <5>2, <3>1, <1>3, <1>4
        <5> QED
          BY SMTT(30), <5>1, <5>2, <1>4
      <4>4. \A i, j \in DOMAIN u : u[i] = u[j] => i = j
        <5> HIDE DEF q
        <5>1. \A i \in 1 .. Len(q) : u[i] # o.id
          BY ZenonT(30), <4>2
        <5> QED
          BY SMTT(30), <5>1, <4>2, <1>4
      <4> QED
        BY ZenonT(30), <4>1, <4>3, <4>4, <1>4
    <3>2. CASE ~(s = S /\ p = P)
      <4>1. /\ queue'[s][p] = queue[s][p]
            /\ p \in occupied'[s] <=> p \in occupied[s]
        BY Zenon, <3>2, <1>5, <1>6
      <4>2. ASSUME NEW i \in DOMAIN queue[s][p]
            PROVE  /\ queue[s][p][i] \in DOMAIN orders'
                   /\ orders'[queue[s][p][i]].side = s
                   /\ orders'[queue[s][p][i]].price = p
        BY Zenon, <3>0, <1>3
      <4> QED
        BY Zenon, <4>1, <4>2, <3>0
    <3> QED
      BY ZenonT(30), <3>1, <3>2
  <2>3. \A i \in DOMAIN orders' :
          /\ orders'[i].id = i
          /\ orders'[i].remaining \in 1 .. orders'[i].quantity
          /\ orders'[i].price \in Prices
    BY ZenonT(30), <1>3 DEF BookInv, IndexMatchesLevels
  <2> QED
    BY Zenon, <2>1, <2>2, <2>3 DEF IndexMatchesLevels
<1>9. NeverCrossed'
  <2> SUFFICES ASSUME NEW b \in occupied'["Buy"], NEW a \in occupied'["Sell"]
               PROVE  b < a
    BY Zenon DEF NeverCrossed
  <2>1. /\ b \in Prices /\ a \in Prices
    BY Zenon, <1>7 DEF BookType, Sides
  <2>2. /\ b \in occupied["Buy"] \/ (S = "Buy" /\ b = P)
        /\ a \in occupied["Sell"] \/ (S = "Sell" /\ a = P)
    BY Zenon, <2>1, <1>6 DEF Sides
  <2>3. CASE b \in occupied["Buy"] /\ a \in occupied["Sell"]
    BY Zenon, <2>3 DEF BookInv, NeverCrossed
  <2>4. CASE S = "Buy" /\ b = P /\ a \in occupied["Sell"]
    BY Zenon, <2>4 DEF opposite
  <2>5. CASE S = "Sell" /\ a = P /\ b \in occupied["Buy"]
    BY Zenon, <2>5 DEF opposite
  <2> QED
    BY Zenon, <2>2, <2>3, <2>4, <2>5
<1>10. ArrivalOrder'
  <2> SUFFICES ASSUME NEW s \in Sides, NEW p \in Prices,
                      NEW i \in DOMAIN queue'[s][p],
                      NEW j \in DOMAIN queue'[s][p], i < j
               PROVE  orders'[queue'[s][p][i]].sequence
                        < orders'[queue'[s][p][j]].sequence
    BY Zenon DEF ArrivalOrder
  <2>1. \A k \in DOMAIN queue[s][p] : queue[s][p][k] \in DOMAIN orders
    BY Zenon DEF BookInv, IndexMatchesLevels
  <2>2. CASE s = S /\ p = P
    <3>1. queue'[s][p] = u /\ queue[s][p] = q
      BY Zenon, <2>2, <1>5
    <3> HIDE DEF q, S, P
    <3>2. i \in 1 .. Len(q) /\ u[i] = q[i] /\ q[i] \in DOMAIN orders
      <4>1. i \in 1 .. Len(q)
        BY SMTT(30), <3>1, <1>4
      <4> QED
        BY ZenonT(30), <4>1, <3>1, <2>1, <1>4
    <3>3. CASE j = Len(q) + 1
      <4>1. queue'[s][p][i] = q[i] /\ queue'[s][p][j] = o.id
        BY ZenonT(30), <3>1, <3>2, <3>3, <1>4
      <4>2. orders'[q[i]] = orders[q[i]] /\ orders'[o.id] = o
        BY ZenonT(30), <3>2, <1>3
      <4> QED
        BY ZenonT(30), <4>1, <4>2, <3>2
    <3>4. CASE j # Len(q) + 1
      <4>1. j \in 1 .. Len(q)
        BY SMTT(30), <3>1, <3>4, <1>4
      <4>2. u[j] = q[j] /\ q[j] \in DOMAIN orders
        BY ZenonT(30), <4>1, <3>1, <2>1, <1>4
      <4>3. orders[q[i]].sequence < orders[q[j]].sequence
        BY ZenonT(30), <4>1, <3>1, <3>2, <1>4 DEF BookInv, ArrivalOrder
      <4>4. queue'[s][p][i] = q[i] /\ queue'[s][p][j] = q[j]
        BY ZenonT(30), <3>1, <3>2, <4>2
      <4>5. orders'[q[i]] = orders[q[i]] /\ orders'[q[j]] = orders[q[j]]
        BY ZenonT(30), <3>2, <4>2, <1>3
      <4> QED
        BY ZenonT(30), <4>3, <4>4, <4>5
    <3> QED
      BY Zenon, <3>3, <3>4
  <2>3. CASE ~(s = S /\ p = P)
    <3>1. queue'[s][p] = queue[s][p]
      BY Zenon, <2>3, <1>5
    <3>2. orders[queue[s][p][i]].sequence < orders[queue[s][p][j]].sequence
      BY Zenon, <3>1 DEF BookInv, ArrivalOrder
    <3>3. /\ orders'[queue'[s][p][i]] = orders[queue[s][p][i]]
          /\ orders'[queue'[s][p][j]] = orders[queue[s][p][j]]
      BY Zenon, <3>1, <2>1, <1>3
    <3> QED
      BY Zenon, <3>2, <3>3
  <2> QED
    BY Zenon, <2>2, <2>3
<1> QED
  BY Zenon, <1>3, <1>7, <1>8, <1>9, <1>10 DEF BookInv

-----------------------------------------------------------------------------
(* The inductive invariant: the book is sound, and the command under way   *)
(* agrees with it.                                                         *)

IInv ==
  /\ TypeOK
  /\ IndexMatchesLevels
  /\ NeverCrossed
  /\ ArrivalOrder
  /\ FilledMatchesFillStream
  /\ PostOnlyNeverTakes
  /\ CommandConsistent

\* The part of the invariant that is about the book alone.
LEMMA InvImpliesBookInv == IInv => BookInv
BY Zenon DEF IInv, BookInv, BookType, TypeOK

\* The initial book is empty and no command is under way.
LEMMA InitSound == Init => IInv
<1> SUFFICES ASSUME Init PROVE IInv
  OBVIOUS
<1>1. DOMAIN orders = {} /\ orders \in [{} -> OrderType]
  BY Zenon DEF Init
<1>2. \A s \in Sides, p \in Prices : queue[s][p] = << >> /\ p \notin occupied[s]
  BY Zenon DEF Init
<1>3. TypeOK
  BY SMTT(30), <1>1 DEF Init, TypeOK, NoResult, ResultType, Rejects
<1>4. IndexMatchesLevels
  BY <1>1, <1>2 DEF IndexMatchesLevels
<1>5. NeverCrossed
  BY Zenon DEF Init, NeverCrossed, Sides
<1>6. ArrivalOrder
  BY <1>2 DEF ArrivalOrder
<1>7. FilledMatchesFillStream
  BY Zenon, <1>1 DEF FilledMatchesFillStream
<1>8. PostOnlyNeverTakes
  BY Zenon DEF Init, PostOnlyNeverTakes
<1>9. CommandConsistent
  BY ZenonT(30), <1>1 DEF Init, CommandConsistent
<1> QED
  BY Zenon, <1>3, <1>4, <1>5, <1>6, <1>7, <1>8, <1>9 DEF IInv

\* A step that changes neither the book nor the numbering keeps it sound.
LEMMA BookUntouched ==
  ASSUME IInv, UNCHANGED bookVars
  PROVE  BookInv'
<1>1. BookInv
  BY Zenon, InvImpliesBookInv
<1>2. /\ orders' = orders /\ queue' = queue
      /\ total' = total /\ occupied' = occupied
  BY Zenon DEF bookVars
<1>3. BookType'
  BY Zenon, <1>1, <1>2 DEF BookInv, BookType
<1>4. IndexMatchesLevels'
  <2>1. ASSUME NEW id \in DOMAIN orders'
        PROVE  /\ orders'[id].id = id
               /\ orders'[id].remaining \in 1 .. orders'[id].quantity
               /\ orders'[id].price \in Prices
               /\ \E i \in DOMAIN queue'[orders'[id].side][orders'[id].price] :
                    queue'[orders'[id].side][orders'[id].price][i] = id
    <3>1. /\ orders[id].id = id
          /\ orders[id].remaining \in 1 .. orders[id].quantity
          /\ orders[id].price \in Prices
          /\ \E i \in DOMAIN queue[orders[id].side][orders[id].price] :
               queue[orders[id].side][orders[id].price][i] = id
      BY Zenon, <1>1, <1>2 DEF BookInv, IndexMatchesLevels
    <3> QED
      BY Zenon, <3>1, <1>2
  <2>2. ASSUME NEW s \in Sides, NEW p \in Prices
        PROVE  /\ (p \in occupied'[s]) <=> (queue'[s][p] # << >>)
               /\ \A i \in DOMAIN queue'[s][p] :
                    /\ queue'[s][p][i] \in DOMAIN orders'
                    /\ orders'[queue'[s][p][i]].side = s
                    /\ orders'[queue'[s][p][i]].price = p
               /\ \A i, j \in DOMAIN queue'[s][p] :
                    queue'[s][p][i] = queue'[s][p][j] => i = j
    <3>1. /\ (p \in occupied[s]) <=> (queue[s][p] # << >>)
          /\ \A i \in DOMAIN queue[s][p] :
               /\ queue[s][p][i] \in DOMAIN orders
               /\ orders[queue[s][p][i]].side = s
               /\ orders[queue[s][p][i]].price = p
          /\ \A i, j \in DOMAIN queue[s][p] :
               queue[s][p][i] = queue[s][p][j] => i = j
      BY Zenon, <1>1, LevelSound
    <3> QED
      BY Zenon, <3>1, <1>2
  <2> QED
    BY ZenonT(30), <2>1, <2>2 DEF IndexMatchesLevels
<1>5. NeverCrossed' /\ ArrivalOrder'
  BY Zenon, <1>1, <1>2 DEF BookInv, NeverCrossed, ArrivalOrder
<1> QED
  BY Zenon, <1>3, <1>4, <1>5 DEF BookInv

\* What the invariant asserts of the next state, part by part.
LEMMA InvPrimed ==
  ASSUME BookInv',
         FilledMatchesFillStream',
         PostOnlyNeverTakes',
         CommandConsistent',
         policy' \in Policies,
         sequence' \in Nat,
         pc' \in {"idle", "insert", "match", "return"},
         incoming' \in OrderType \cup {NoOrder},
         requested' \in Nat,
         fills' \in Seq(FillType),
         withdrawals' \in Seq(WithdrawalType),
         result' \in ResultType,
         filledBy' \in [OrderIds -> Nat],
         DOMAIN before' \subseteq OrderIds,
         before' \in [DOMAIN before' -> OrderType]
  PROVE  IInv'
<1>1. TypeOK'
  BY Zenon DEF TypeOK, BookInv, BookType
<1> QED
  BY Zenon, <1>1 DEF IInv, BookInv

\* What a refused or a plain outcome looks like.
LEMMA ResultTypes ==
  ASSUME NEW r \in Rejects
  PROVE  /\ NoResult \in ResultType
         /\ [NoResult EXCEPT !.reject = r] \in ResultType
         /\ [NoResult EXCEPT !.reject = r].stp_cancelled = 0
         /\ [NoResult EXCEPT !.rested = TRUE, !.priority_retained = TRUE]
              \in ResultType
BY ZenonT(30) DEF NoResult, Rejects, ResultType

\* Submit keeps the invariant: the command starts with a clean slate.
LEMMA SubmitKeeps ==
  ASSUME IInv, NEW o \in NewOrders, Submit(o)
  PROVE  IInv'
<1>1. /\ o \in NewOrderType
      /\ o.id \in OrderIds /\ o.quantity \in Nat
  BY Zenon, BookAssumption DEF NewOrderType
<1>2. /\ pc = "idle" /\ pc' = "insert" /\ sequence' = sequence + 1
      /\ before' = orders
      /\ UNCHANGED <<policy, requested, fills, withdrawals, bookVars, result>>
  BY Zenon DEF Submit, Begin
<1>3. /\ incoming' \in OrderType
      /\ incoming'.id = o.id
      /\ incoming'.remaining = o.quantity /\ incoming'.quantity = o.quantity
      /\ incoming'.sequence = sequence + 1
  BY SMTT(30), <1>1 DEF Submit, OrderType, NewOrderType, IInv, TypeOK
<1>4. BookInv'
  BY Zenon, <1>2, BookUntouched
<1>5. /\ filledBy' \in [OrderIds -> Nat]
      /\ \A i \in DOMAIN orders : filledBy'[i] = filledBy[i]
      /\ o.id \notin DOMAIN orders => filledBy'[o.id] = 0
  BY Zenon, <1>1 DEF Submit, IInv, TypeOK
<1>6. FilledMatchesFillStream'
  BY Zenon, <1>2, <1>5 DEF IInv, FilledMatchesFillStream, bookVars, filled
<1>7. /\ fills' = << >> /\ withdrawals' = << >> /\ result' = NoResult
  BY Zenon, <1>2 DEF IInv, CommandConsistent
<1>8. PostOnlyNeverTakes'
  BY Zenon, <1>7 DEF PostOnlyNeverTakes, NoResult
<1>9. CommandConsistent'
  <2>1. \A i \in DOMAIN orders' : orders'[i].sequence < sequence'
    BY SMTT(30), <1>2 DEF IInv, CommandConsistent, TypeOK, OrderType, bookVars
  <2>2. filled(incoming') = 0
    BY SMTT(30), <1>1, <1>3 DEF filled
  <2>3. \A i \in DOMAIN orders' : orders'[i].sequence <= sequence'
    BY SMTT(30), <2>1, <1>2 DEF IInv, TypeOK, OrderType, bookVars
  <2>4. incoming'.id \notin DOMAIN orders' =>
          filled(incoming)' = filledBy'[incoming'.id]
    BY Zenon, <2>2, <1>2, <1>3, <1>5 DEF bookVars, filled
  <2> QED
    BY SMTT(30), <2>1, <2>3, <2>4, <1>1, <1>2, <1>3, <1>7 DEF CommandConsistent
<1>10. sequence' \in Nat
  <2>1. sequence \in Nat
    BY Zenon DEF IInv, TypeOK
  <2> QED
    BY <2>1, <1>2
<1> QED
  BY ZenonT(30), <1>2, <1>3, <1>4, <1>5, <1>6, <1>8, <1>9, <1>10, InvPrimed
     DEF IInv, TypeOK

\* A command refused before it touches the book keeps the invariant.
LEMMA RefusedKeeps ==
  ASSUME IInv, NEW r \in Rejects, Begin, Refuse(r),
         UNCHANGED <<bookVars, incoming, filledBy>>
  PROVE  IInv'
<1>1. /\ pc = "idle" /\ pc' = "return" /\ sequence' = sequence + 1
      /\ before' = orders
      /\ result' = [NoResult EXCEPT !.reject = r]
      /\ UNCHANGED <<policy, requested, fills, withdrawals>>
  BY Zenon DEF Begin, Refuse, Report
<1>2. BookInv'
  BY Zenon, BookUntouched
<1>3. FilledMatchesFillStream'
  BY Zenon DEF IInv, FilledMatchesFillStream, bookVars, filled
<1>4. PostOnlyNeverTakes'
  BY Zenon, <1>1, ResultTypes DEF IInv, CommandConsistent, PostOnlyNeverTakes
<1>5. CommandConsistent'
  BY <1>1 DEF IInv, CommandConsistent, TypeOK, OrderType, bookVars
<1> QED
  BY SMTT(30), <1>1, <1>2, <1>3, <1>4, <1>5, ResultTypes, InvPrimed
     DEF IInv, TypeOK

\* Return keeps the invariant.
LEMMA ReturnKeeps ==
  ASSUME IInv, Return
  PROVE  IInv'
<1>1. /\ pc' = "idle" /\ incoming' = NoOrder /\ requested' = 0
      /\ fills' = << >> /\ withdrawals' = << >> /\ result' = NoResult
      /\ before' = [i \in {} |-> NoOrder]
      /\ UNCHANGED <<policy, bookVars, sequence, filledBy>>
  BY Zenon DEF Return
<1>2. BookInv'
  BY Zenon, <1>1, BookUntouched
<1>3. FilledMatchesFillStream'
  BY Zenon, <1>1 DEF IInv, FilledMatchesFillStream, bookVars, filled
<1>4. PostOnlyNeverTakes'
  BY Zenon, <1>1 DEF PostOnlyNeverTakes
<1>5. CommandConsistent'
  BY Zenon, <1>1 DEF IInv, CommandConsistent, bookVars
<1>6. "None" \in Rejects
  BY Zenon DEF Rejects
<1>7. DOMAIN before' = {} /\ before' \in [DOMAIN before' -> OrderType]
  BY Zenon, <1>1
<1>8. /\ fills' \in Seq(FillType) /\ withdrawals' \in Seq(WithdrawalType)
      /\ policy' \in Policies /\ sequence' \in Nat
      /\ filledBy' \in [OrderIds -> Nat]
  BY <1>1 DEF IInv, TypeOK
<1>9. /\ DOMAIN before' \subseteq OrderIds
      /\ incoming' \in OrderType \cup {NoOrder}
      /\ requested' \in Nat
      /\ pc' \in {"idle", "insert", "match", "return"}
  BY Zenon, <1>1, <1>7
<1>10. result' \in ResultType
  BY ZenonT(30), <1>1, <1>6, ResultTypes
<1> QED
  BY Zenon, <1>2, <1>3, <1>4, <1>5, <1>7, <1>8, <1>9, <1>10, InvPrimed

\* insert() decides: a refusal leaves the book alone, and an order that goes
\* on to match is new, has a price it can rest at and, if it is post-only,
\* crosses nothing.
LEMMA InsertKeeps ==
  ASSUME IInv, Insert
  PROVE  IInv'
<1> DEFINE r == InsertReject(incoming)
<1>1. /\ pc = "insert"
      /\ UNCHANGED <<policy, bookVars, sequence, incoming, fills, withdrawals,
                     filledBy, before>>
  BY Zenon DEF Insert, history
<1>2. /\ incoming \in OrderType /\ incoming # NoOrder
      /\ fills = << >> /\ withdrawals = << >> /\ result = NoResult
  BY Zenon, <1>1, BookAssumption DEF IInv, CommandConsistent
<1>3. r \in Rejects
  BY Zenon DEF InsertReject, Rejects
<1>4. BookInv'
  BY Zenon, <1>1, BookUntouched
<1>5. FilledMatchesFillStream'
  BY Zenon, <1>1 DEF IInv, FilledMatchesFillStream, bookVars, filled
<1>6. CASE r # "None"
  <2>1. /\ pc' = "return" /\ result' = [NoResult EXCEPT !.reject = r]
        /\ requested' = requested
    BY Zenon, <1>6 DEF Insert, Refuse, Report
  <2>2. PostOnlyNeverTakes'
    BY ZenonT(30), <2>1, <1>1, <1>2, <1>3, ResultTypes DEF PostOnlyNeverTakes
  <2>3. CommandConsistent'
    BY Zenon, <2>1, <1>1 DEF IInv, CommandConsistent, bookVars
  <2> HIDE DEF r
  <2> QED
    BY ZenonT(30), <2>1, <2>2, <2>3, <1>1, <1>2, <1>3, <1>4, <1>5, ResultTypes,
       InvPrimed
       DEF IInv, TypeOK
<1>7. CASE r = "None"
  <2>1. pc' = "match" /\ requested' = incoming.remaining /\ result' = result
    BY Zenon, <1>7 DEF Insert
  <2>2. /\ incoming.id \notin DOMAIN orders
        /\ incoming.type = "Limit" => is_valid_price(incoming.price)
        /\ incoming.post_only => ~would_cross(incoming)
    BY Zenon, <1>7 DEF InsertReject
  <2>3. incoming.type = "Limit" => incoming.price \in Prices
    BY SMTT(30), <2>2, <1>2, BookAssumption DEF Prices, is_valid_price, OrderType
  <2>4. PostOnlyNeverTakes'
    BY Zenon, <2>1, <1>1, <1>2 DEF PostOnlyNeverTakes, NoResult
  <2>5. would_cross(incoming)' = would_cross(incoming)
    BY Zenon, <1>1 DEF would_cross, Best, crosses, bookVars
  <2>6. /\ filled(incoming)' = filledBy'[incoming'.id]
        /\ incoming.remaining + result.stp_cancelled <= requested'
    <3>1. filled(incoming) = filledBy[incoming.id]
      BY Zenon, <2>2, <1>1 DEF IInv, CommandConsistent
    <3>2. result.stp_cancelled = 0 /\ incoming.remaining \in Nat
      BY Zenon, <1>2 DEF NoResult, OrderType
    <3>3. incoming.remaining + 0 <= incoming.remaining
      BY <3>2
    <3> QED
      BY Zenon, <3>1, <3>2, <3>3, <2>1, <1>1 DEF filled
  <2>7. CommandConsistent'
    BY Zenon, <2>1, <2>2, <2>3, <2>5, <2>6, <1>1
       DEF IInv, CommandConsistent, bookVars
  <2>8. requested' \in Nat
    BY ZenonT(30), <2>1, <1>2 DEF OrderType
  <2> QED
    BY ZenonT(30), <2>1, <2>4, <2>7, <2>8, <1>1, <1>4, <1>5, InvPrimed
       DEF IInv, TypeOK
<1> QED
  BY Zenon, <1>6, <1>7

\* A command that takes quantity from the order it names, all of it (cancel)
\* or as much as it gives up of its size (a reduction in place).
LEMMA WithdrawnKeeps ==
  ASSUME IInv, Begin,
         NEW id \in DOMAIN orders,
         NEW qty \in 1 .. orders[id].remaining,
         NEW withdrawn \in {0, qty},
         withdrawn = qty \/ qty = orders[id].remaining,
         TakeFrom(id, qty, withdrawn),
         NEW r \in ResultType, Report(r),
         UNCHANGED <<incoming, filledBy>>
  PROVE  IInv'
<1>1. /\ pc = "idle" /\ pc' = "return" /\ sequence' = sequence + 1
      /\ before' = orders /\ result' = r
      /\ UNCHANGED <<policy, requested, fills, withdrawals>>
  BY Zenon DEF Begin, Report
<1>2. /\ orders[id] \in OrderType /\ orders[id].remaining \in Nat
      /\ orders[id].quantity \in Nat /\ sequence \in Nat
      /\ \A i \in DOMAIN orders : orders[i].sequence \in Nat
  BY Zenon DEF IInv, TypeOK, OrderType
<1>a. BookInv
  BY Zenon, InvImpliesBookInv
<1>b. qty \in Nat /\ withdrawn \in 0 .. qty
  BY <1>2
<1>3. /\ BookInv'
      /\ DOMAIN orders' = IF qty < orders[id].remaining THEN DOMAIN orders
                          ELSE DOMAIN orders \ {id}
      /\ \A i \in DOMAIN orders' :
           /\ orders'[i].sequence = orders[i].sequence
           /\ i # id => orders'[i] = orders[i]
      /\ id \in DOMAIN orders' =>
           /\ orders'[id].remaining = orders[id].remaining - qty
           /\ orders'[id].quantity = orders[id].quantity - withdrawn
  BY ONLY ZenonT(30), <1>a, <1>b, TakeFrom(id, qty, withdrawn), TakeFromSound
<1>4. FilledMatchesFillStream'
  <2> SUFFICES ASSUME NEW i \in DOMAIN orders'
               PROVE  filled(orders[i])' = filledBy'[i]
    BY Zenon DEF FilledMatchesFillStream
  <2>1. i \in DOMAIN orders /\ filled(orders[i]) = filledBy[i]
    BY Zenon, <1>3 DEF IInv, FilledMatchesFillStream
  <2>2. CASE i = id
    <3>1. withdrawn = qty
      BY SMTT(30), <2>2, <1>2, <1>3 DEF OrderType
    <3>2. /\ orders'[id].remaining = orders[id].remaining - qty
          /\ orders'[id].quantity = orders[id].quantity - qty
          /\ filledBy'[id] = orders[id].quantity - orders[id].remaining
      BY Zenon, <3>1, <2>1, <2>2, <1>3 DEF filled
    <3>3. orders'[id].quantity - orders'[id].remaining
            = orders[id].quantity - orders[id].remaining
      BY <3>2, <1>2, <1>b
    <3> QED
      BY Zenon, <3>2, <3>3, <2>2 DEF filled
  <2>3. CASE i # id
    BY Zenon, <2>1, <2>3, <1>3 DEF filled
  <2> QED
    BY Zenon, <2>2, <2>3
<1>5. incoming' = NoOrder
  BY Zenon, <1>1 DEF IInv, CommandConsistent
<1>6. PostOnlyNeverTakes'
  BY Zenon, <1>5 DEF PostOnlyNeverTakes
<1>7. CommandConsistent'
  <2>1. \A i \in DOMAIN orders : orders[i].sequence <= sequence
    BY Zenon DEF IInv, CommandConsistent
  <2>2. ASSUME NEW i \in DOMAIN orders'
        PROVE  orders'[i].sequence <= sequence'
    <3>1. PICK n : n = orders[i].sequence
      BY Zenon
    <3>2. i \in DOMAIN orders /\ orders'[i].sequence = n
      BY Zenon, <1>3, <2>2, <3>1
    <3>3. n \in Nat /\ n <= sequence
      BY Zenon, <1>2, <2>1, <3>1, <3>2
    <3>4. sequence' = sequence + 1
      BY Zenon, <1>1
    <3> QED
      BY SMTT(30), <1>2, <3>2, <3>3, <3>4
  <2> QED
    BY ZenonT(30), <2>2, <1>1 DEF CommandConsistent
<1>8. sequence' \in Nat
  BY <1>1, <1>2
<1> QED
  BY ZenonT(30), <1>1, <1>3, <1>4, <1>5, <1>6, <1>7, <1>8, InvPrimed
     DEF IInv, TypeOK

\* Cancel keeps the invariant.
LEMMA CancelKeeps ==
  ASSUME IInv, NEW id \in OrderIds, Cancel(id)
  PROVE  IInv'
<1>1. id \in DOMAIN orders /\ orders[id].remaining \in 1 .. orders[id].remaining
  BY Zenon, InvImpliesBookInv, LiveOrder DEF Cancel
<1>2. NoResult \in ResultType
  BY Zenon, ResultTypes DEF Rejects
<1> QED
  BY ZenonT(30), <1>1, <1>2, WithdrawnKeeps DEF Cancel

\* So does an amendment to no more than has already traded.
LEMMA ReplaceCancelsKeeps ==
  ASSUME IInv, NEW id \in OrderIds, NEW p, NEW q, ReplaceCancels(id, p, q)
  PROVE  IInv'
<1>1. id \in DOMAIN orders
  BY ZenonT(30) DEF ReplaceCancels, ReplaceReject
<1>2. orders[id].remaining \in 1 .. orders[id].remaining
  BY Zenon, <1>1, InvImpliesBookInv, LiveOrder
<1>3. NoResult \in ResultType
  BY Zenon, ResultTypes DEF Rejects
<1> QED
  BY Zenon, <1>1, <1>2, <1>3, WithdrawnKeeps DEF ReplaceCancels

\* So does a reduction in place, which moves no order in its queue.
LEMMA ReplaceInPlaceKeeps ==
  ASSUME IInv, NEW id \in OrderIds, NEW p \in Int, NEW q \in Nat,
         ReplaceInPlace(id, p, q)
  PROVE  IInv'
<1> DEFINE cut == orders[id].quantity - q
           r   == [NoResult EXCEPT !.rested = TRUE, !.priority_retained = TRUE]
<1>1. id \in DOMAIN orders
  BY Zenon DEF ReplaceInPlace, ReplaceReject
<1>2. orders[id].quantity \in Nat /\ orders[id].remaining \in Nat
  BY Zenon, <1>1 DEF IInv, TypeOK, OrderType
<1>3. cut \in 1 .. orders[id].remaining
  BY <1>1, <1>2 DEF ReplaceInPlace, KeepsPriority, filled
<1>4. r \in ResultType
  BY Zenon, ResultTypes DEF Rejects
<1>5. /\ Begin /\ TakeFrom(id, cut, cut) /\ Report(r)
      /\ UNCHANGED <<incoming, filledBy>>
  BY Zenon DEF ReplaceInPlace
<1> HIDE DEF cut, r
<1> QED
  BY Zenon, <1>1, <1>3, <1>4, <1>5, WithdrawnKeeps

\* A re-queued amendment leaves the book before it becomes an arrival, and
\* carries its fills along.
LEMMA ReplaceRequeuesKeeps ==
  ASSUME IInv, NEW id \in OrderIds, NEW p \in Int, NEW q \in Nat,
         ReplaceRequeues(id, p, q)
  PROVE  IInv'
<1> DEFINE o == orders[id]
<1>1. id \in DOMAIN orders
  BY ZenonT(30) DEF ReplaceRequeues, ReplaceReject
<1>2. /\ o \in OrderType /\ o.quantity \in Nat /\ o.remaining \in 1 .. o.quantity
      /\ o.id = id /\ filled(o) = filledBy[id] /\ sequence \in Nat
      /\ \A i \in DOMAIN orders : orders[i].sequence \in Nat
  <2>1. \A i \in DOMAIN orders : orders[i] \in OrderType
    BY Zenon DEF IInv, TypeOK
  <2>2. \A i \in DOMAIN orders : orders[i].sequence \in Nat
    BY Zenon, <2>1 DEF OrderType
  <2>3. filled(o) = filledBy[id] /\ sequence \in Nat
    BY Zenon, <1>1 DEF IInv, TypeOK, FilledMatchesFillStream
  <2> QED
    BY Zenon, <2>2, <2>3, <1>1, InvImpliesBookInv, LiveOrder
<1>3. /\ pc = "idle" /\ pc' = "insert" /\ sequence' = sequence + 1
      /\ before' = orders /\ q > filled(o)
      /\ TakeFrom(id, o.remaining, 0)
      /\ incoming' = [o EXCEPT !.price = p, !.quantity = q,
                               !.remaining = q - filled(o),
                               !.sequence = sequence + 1]
      /\ UNCHANGED <<policy, requested, fills, withdrawals, result, filledBy>>
  BY Zenon DEF ReplaceRequeues, Begin, Amended
<1>4. BookInv
  BY Zenon, InvImpliesBookInv
<1>6. /\ BookInv'
      /\ DOMAIN orders' = DOMAIN orders \ {id}
      /\ \A i \in DOMAIN orders' : i # id => orders'[i] = orders[i]
  BY Zenon, <1>1, <1>3, <1>4, DropSound
<1>7. /\ incoming'.id = id /\ incoming'.remaining = q - filled(o)
      /\ incoming'.quantity = q /\ incoming'.sequence = sequence'
      /\ filled(o) \in Nat /\ q - filled(o) \in Nat /\ q - filled(o) <= q
  BY <1>2, <1>3 DEF filled, OrderType
<1>8. incoming' \in OrderType
  <2>1. \A a \in Int, b, c, d \in Nat :
          [o EXCEPT !.price = a, !.quantity = b, !.remaining = c,
                    !.sequence = d] \in OrderType
    BY ZenonT(30), <1>2 DEF OrderType
  <2> HIDE DEF o
  <2>2. sequence + 1 \in Nat /\ q - filled(o) \in Nat
    BY <1>2, <1>7
  <2> QED
    BY <2>1, <2>2, <1>3, Zenon
<1>9. FilledMatchesFillStream'
  BY Zenon, <1>3, <1>6 DEF IInv, FilledMatchesFillStream, filled
<1>10. /\ fills' = << >> /\ withdrawals' = << >> /\ result' = NoResult
  BY Zenon, <1>3 DEF IInv, CommandConsistent
<1>11. PostOnlyNeverTakes'
  BY Zenon, <1>10 DEF PostOnlyNeverTakes, NoResult
<1>12. CommandConsistent'
  <2>1. \A i \in DOMAIN orders' : /\ orders'[i].sequence < sequence'
                                  /\ orders'[i].sequence <= sequence'
    BY SMTT(30), <1>2, <1>3, <1>6 DEF IInv, CommandConsistent
  <2>2. filled(incoming)' = filledBy'[incoming'.id]
    BY SMTT(30), <1>2, <1>3, <1>7 DEF filled
  <2> QED
    BY ZenonT(30), <2>1, <2>2, <1>3, <1>7, <1>8, <1>10 DEF CommandConsistent
<1> QED
  BY SMTT(30), <1>3, <1>6, <1>8, <1>9, <1>11, <1>12, InvPrimed DEF IInv, TypeOK

\* While the loop runs, the order at the front is live, has something left to
\* trade and is not the aggressor; and the aggressor is not post-only.
LEMMA FrontIsLive ==
  ASSUME IInv, Iterate
  PROVE  /\ RestingId \in DOMAIN orders
         /\ orders[RestingId] \in OrderType
         /\ orders[RestingId].id = RestingId
         /\ orders[RestingId].side = opposite(incoming.side)
         /\ orders[RestingId].remaining \in 1 .. orders[RestingId].quantity
         /\ filled(orders[RestingId]) = filledBy[RestingId]
         /\ RestingId # incoming.id
         /\ RestingId \in OrderIds /\ incoming.id \in OrderIds
         /\ incoming \in OrderType /\ incoming # NoOrder
         /\ incoming.remaining \in 1 .. incoming.quantity
         /\ ~incoming.post_only
         /\ BookInv
<1> DEFINE contra == opposite(incoming.side)
           best   == Best(contra)
<1>1. BookInv /\ BookType
  BY Zenon, InvImpliesBookInv DEF BookInv
<1>2. /\ pc = "match" /\ incoming \in OrderType
      /\ incoming.remaining <= incoming.quantity
      /\ incoming.id \notin DOMAIN orders
      /\ incoming.post_only => ~would_cross(incoming)
  BY Zenon DEF Iterate, IInv, CommandConsistent
<1>3. incoming # NoOrder
  BY ZenonT(30), <1>2, BookAssumption
<1>4. incoming.remaining \in 1 .. incoming.quantity
  <2>1. /\ incoming.remaining > 0
        /\ incoming.remaining \in Nat /\ incoming.quantity \in Nat
    BY Zenon, <1>2 DEF Iterate, CanMatch, OrderType
  <2> QED
    BY <2>1, <1>2
<1>5. contra \in Sides
  BY Zenon DEF opposite, Sides
<1>6. occupied[contra] # {} /\ crosses(incoming, best)
  BY Zenon DEF Iterate, CanMatch
<1>7. ~incoming.post_only
  BY Zenon, <1>2, <1>6 DEF would_cross
<1> HIDE DEF contra
<1>8. best \in occupied[contra]
  BY Zenon, <1>1, <1>5, <1>6, BestIsBest
<1>9. best \in Prices /\ queue[contra][best] # << >>
  <2>1. best \in Prices
    BY Zenon, <1>1, <1>5, <1>8 DEF BookType
  <2> QED
    BY Zenon, <2>1, <1>1, <1>5, <1>8, LevelSound
<1>10. RestingId = Head(queue[contra][best])
  BY Zenon DEF RestingId, contra
<1> HIDE DEF best
<1>11. /\ 1 \in DOMAIN queue[contra][best]
       /\ RestingId = queue[contra][best][1]
  BY SMTT(30), <1>1, <1>5, <1>9, <1>10 DEF BookType
<1>12. RestingId \in DOMAIN orders /\ orders[RestingId].side = contra
  BY ZenonT(30), <1>1, <1>5, <1>9, <1>11 DEF BookInv, IndexMatchesLevels
<1>13. /\ orders[RestingId] \in OrderType
       /\ orders[RestingId].id = RestingId
       /\ orders[RestingId].remaining \in 1 .. orders[RestingId].quantity
       /\ filled(orders[RestingId]) = filledBy[RestingId]
       /\ RestingId \in OrderIds
  BY ZenonT(30), <1>12 DEF IInv, TypeOK, IndexMatchesLevels, FilledMatchesFillStream
<1>14. incoming.id \in OrderIds
  BY Zenon, <1>2 DEF OrderType
<1> QED
  BY Zenon, <1>1, <1>2, <1>3, <1>4, <1>7, <1>12, <1>13, <1>14 DEF contra

\* What an iteration leaves of the book and of the bookkeeping around it, when
\* the front order loses qty, and withdrawn of its original size.
LEMMA FrontTaken ==
  ASSUME IInv, Iterate,
         NEW qty \in 1 .. orders[RestingId].remaining,
         NEW withdrawn \in 0 .. qty,
         TakeFrom(RestingId, qty, withdrawn)
  PROVE  /\ BookInv'
         /\ DOMAIN orders' \subseteq DOMAIN orders
         /\ \A i \in DOMAIN orders' :
              /\ orders'[i].sequence < sequence /\ orders'[i].sequence <= sequence
              /\ filled(orders[i])' = IF i = RestingId
                                      THEN filledBy[i] + qty - withdrawn
                                      ELSE filledBy[i]
<1>1. /\ RestingId \in DOMAIN orders /\ BookInv
      /\ filled(orders[RestingId]) = filledBy[RestingId]
  BY Zenon, FrontIsLive
<1>2. /\ BookInv'
      /\ DOMAIN orders' = IF qty < orders[RestingId].remaining
                          THEN DOMAIN orders ELSE DOMAIN orders \ {RestingId}
      /\ \A i \in DOMAIN orders' :
           /\ orders'[i].sequence = orders[i].sequence
           /\ i # RestingId => orders'[i] = orders[i]
      /\ RestingId \in DOMAIN orders' =>
           /\ orders'[RestingId].remaining = orders[RestingId].remaining - qty
           /\ orders'[RestingId].quantity = orders[RestingId].quantity - withdrawn
  BY ZenonT(30), <1>1, TakeFromSound
<1>3. \A i \in DOMAIN orders' :
        orders'[i].sequence < sequence /\ orders'[i].sequence <= sequence
  BY ZenonT(30), <1>2 DEF IInv, CommandConsistent, Iterate
<1>4. ASSUME NEW i \in DOMAIN orders'
      PROVE  filled(orders[i])' = IF i = RestingId
                                  THEN filledBy[i] + qty - withdrawn
                                  ELSE filledBy[i]
  <2>1. orders[RestingId].remaining \in Nat /\ orders[RestingId].quantity \in Nat
    BY Zenon, <1>1 DEF IInv, TypeOK, OrderType
  <2>2. CASE i = RestingId
    BY SMTT(30), <2>1, <2>2, <1>1, <1>2 DEF filled
  <2>3. CASE i # RestingId
    BY Zenon, <2>3, <1>2 DEF IInv, FilledMatchesFillStream, filled
  <2> QED
    BY Zenon, <2>2, <2>3
<1> QED
  BY Zenon, <1>2, <1>3, <1>4

\* How the aggressor and the outcome change in the loop.
LEMMA LoopTypes ==
  ASSUME IInv, Iterate
  PROVE  /\ \A n, m \in Nat :
              LET o == [incoming EXCEPT !.remaining = n, !.quantity = m]
              IN  /\ o \in OrderType /\ o.remaining = n /\ o.quantity = m
                  /\ o.id = incoming.id /\ o.type = incoming.type
                  /\ o.price = incoming.price
                  /\ o.sequence = incoming.sequence
                  /\ o.post_only = incoming.post_only
         /\ \A n \in Nat :
              LET o == [incoming EXCEPT !.remaining = n]
              IN  /\ o \in OrderType /\ o.remaining = n
                  /\ o.quantity = incoming.quantity
                  /\ o.id = incoming.id /\ o.type = incoming.type
                  /\ o.price = incoming.price
                  /\ o.sequence = incoming.sequence
                  /\ o.post_only = incoming.post_only
         /\ \A n \in Nat :
              LET r == [result EXCEPT !.stp_cancelled = n]
              IN  r \in ResultType /\ r.stp_cancelled = n
         /\ result \in ResultType /\ result.stp_cancelled \in Nat
         /\ requested \in Nat /\ filledBy \in [OrderIds -> Nat]
         /\ fills \in Seq(FillType) /\ withdrawals \in Seq(WithdrawalType)
         /\ filled(incoming) = filledBy[incoming.id]
         /\ incoming.remaining + result.stp_cancelled <= requested
         /\ incoming.remaining \in Nat /\ incoming.quantity \in Nat
<1>1. incoming \in OrderType /\ incoming.remaining \in 1 .. incoming.quantity
  BY Zenon, FrontIsLive
<1>2. /\ result \in ResultType /\ requested \in Nat
      /\ filledBy \in [OrderIds -> Nat] /\ fills \in Seq(FillType)
      /\ withdrawals \in Seq(WithdrawalType)
  BY ZenonT(30) DEF IInv, TypeOK
<1>3. /\ filled(incoming) = filledBy[incoming.id]
      /\ incoming.remaining + result.stp_cancelled <= requested
  <2>1. incoming.remaining > 0
    BY Zenon DEF Iterate, CanMatch
  <2> QED
    BY Zenon, <2>1 DEF IInv, CommandConsistent, Iterate
<1>4. ASSUME NEW n \in Nat, NEW m \in Nat
      PROVE  LET o == [incoming EXCEPT !.remaining = n, !.quantity = m]
             IN  /\ o \in OrderType /\ o.remaining = n /\ o.quantity = m
                 /\ o.id = incoming.id /\ o.type = incoming.type
                 /\ o.price = incoming.price
                 /\ o.sequence = incoming.sequence
                 /\ o.post_only = incoming.post_only
  BY ZenonT(30), <1>1 DEF OrderType
<1>5. ASSUME NEW n \in Nat
      PROVE  LET o == [incoming EXCEPT !.remaining = n]
             IN  /\ o \in OrderType /\ o.remaining = n
                 /\ o.quantity = incoming.quantity
                 /\ o.id = incoming.id /\ o.type = incoming.type
                 /\ o.price = incoming.price
                 /\ o.sequence = incoming.sequence
                 /\ o.post_only = incoming.post_only
  BY Zenon, <1>1 DEF OrderType
<1>6. ASSUME NEW n \in Nat
      PROVE  LET r == [result EXCEPT !.stp_cancelled = n]
             IN  r \in ResultType /\ r.stp_cancelled = n
  BY Zenon, <1>2 DEF ResultType
<1>7. /\ result.stp_cancelled \in Nat
      /\ incoming.remaining \in Nat /\ incoming.quantity \in Nat
  BY Zenon, <1>1, <1>2 DEF ResultType, OrderType
<1> QED
  BY ZenonT(30), <1>2, <1>3, <1>4, <1>5, <1>6, <1>7

\* What an iteration has to establish for the invariant to survive it.
LEMMA LoopKeeps ==
  ASSUME IInv, Iterate,
         BookInv',
         DOMAIN orders' \subseteq DOMAIN orders,
         \A i \in DOMAIN orders' :
           orders'[i].sequence < sequence /\ orders'[i].sequence <= sequence,
         FilledMatchesFillStream',
         incoming' \in OrderType,
         /\ incoming'.id = incoming.id /\ incoming'.type = incoming.type
         /\ incoming'.price = incoming.price
         /\ incoming'.sequence = incoming.sequence
         /\ incoming'.post_only = incoming.post_only,
         incoming'.remaining <= incoming'.quantity,
         incoming'.remaining > 0 => filled(incoming)' = filledBy'[incoming.id],
         incoming'.remaining + result'.stp_cancelled <= requested,
         fills' \in Seq(FillType),
         withdrawals' \in Seq(WithdrawalType),
         result' \in ResultType,
         filledBy' \in [OrderIds -> Nat]
  PROVE  IInv'
<1>1. /\ pc = "match" /\ pc' = "match"
      /\ UNCHANGED <<policy, sequence, requested, before>>
  BY Zenon DEF Iterate
<1>2. ~incoming'.post_only
  BY Zenon, FrontIsLive
<1>3. PostOnlyNeverTakes'
  BY Zenon, <1>2 DEF PostOnlyNeverTakes
<1>4. CommandConsistent'
  BY ZenonT(30), <1>1, <1>2 DEF IInv, CommandConsistent
<1>5. /\ policy' \in Policies /\ sequence' \in Nat /\ requested' \in Nat
      /\ pc' \in {"idle", "insert", "match", "return"}
      /\ DOMAIN before' \subseteq OrderIds
      /\ before' \in [DOMAIN before' -> OrderType]
  BY Zenon, <1>1 DEF IInv, TypeOK
<1> QED
  BY Zenon, <1>3, <1>4, <1>5, InvPrimed

\* A fill keeps the invariant: both orders have traded qty more.
LEMMA FillKeeps ==
  ASSUME IInv, Fill
  PROVE  IInv'
<1> DEFINE r   == orders[RestingId]
           qty == Lesser(incoming.remaining, r.remaining)
           n   == incoming.remaining - qty
<1>1. /\ Iterate /\ r.id = RestingId
      /\ r \in OrderType /\ r.remaining \in 1 .. r.quantity
      /\ RestingId # incoming.id /\ incoming \in OrderType
      /\ RestingId \in OrderIds /\ incoming.id \in OrderIds
      /\ incoming.remaining \in 1 .. incoming.quantity
  BY Zenon, FrontIsLive DEF Fill
<1>2. /\ r.remaining \in Nat /\ incoming.remaining \in Nat
      /\ incoming.quantity \in Nat
  BY ZenonT(30), <1>1 DEF OrderType
<1>3. /\ qty \in 1 .. r.remaining /\ qty \in Nat /\ n \in Nat
      /\ n <= incoming.quantity /\ 0 \in 0 .. qty
  BY SMTT(30), <1>1, <1>2 DEF Lesser
<1>4. /\ incoming' = [incoming EXCEPT !.remaining = n]
      /\ TakeFrom(RestingId, qty, 0)
      /\ fills' = Append(fills,
                         [price |-> r.price, quantity |-> qty,
                          aggressor_order |-> incoming.id,
                          resting_order |-> RestingId,
                          aggressor_account |-> incoming.account,
                          resting_account |-> r.account,
                          aggressor_side |-> incoming.side,
                          resting_filled |-> qty = r.remaining])
      /\ filledBy' = [filledBy EXCEPT ![incoming.id] = @ + qty,
                                      ![RestingId] = @ + qty]
      /\ withdrawals' = withdrawals /\ result' = result
  BY Zenon, <1>1 DEF Fill
<1>5. fills' \in Seq(FillType)
  <2>1. /\ r.price \in Int /\ r.account \in Accounts
        /\ incoming.account \in Accounts /\ incoming.side \in Sides
    BY Zenon, <1>1 DEF OrderType
  <2>2. fills \in Seq(FillType)
    BY ZenonT(30), <1>1, LoopTypes
  <2> HIDE DEF r, qty
  <2>3. [price |-> r.price, quantity |-> qty, aggressor_order |-> incoming.id,
         resting_order |-> RestingId, aggressor_account |-> incoming.account,
         resting_account |-> r.account, aggressor_side |-> incoming.side,
         resting_filled |-> qty = r.remaining] \in FillType
    BY Zenon, <2>1, <1>1, <1>3 DEF FillType
  <2> QED
    BY SMTT(30), <2>2, <2>3, <1>4
<1> HIDE DEF qty, n
<1>6. /\ BookInv' /\ DOMAIN orders' \subseteq DOMAIN orders
      /\ \A i \in DOMAIN orders' :
           /\ orders'[i].sequence < sequence /\ orders'[i].sequence <= sequence
           /\ filled(orders[i])' = IF i = RestingId THEN filledBy[i] + qty - 0
                                   ELSE filledBy[i]
  BY Zenon, <1>1, <1>3, <1>4, FrontTaken
<1>7. filledBy \in [OrderIds -> Nat] /\ incoming.id \notin DOMAIN orders
  BY Zenon, <1>1 DEF IInv, TypeOK, CommandConsistent, Iterate
<1>8. /\ filledBy' \in [OrderIds -> Nat]
      /\ filledBy'[incoming.id] = filledBy[incoming.id] + qty
      /\ filledBy'[RestingId] = filledBy[RestingId] + qty
      /\ \A i \in OrderIds \ {incoming.id, RestingId} : filledBy'[i] = filledBy[i]
  <2>1. \A a, b \in OrderIds, k \in Nat, f \in [OrderIds -> Nat] : a # b =>
          LET g == [f EXCEPT ![a] = @ + k, ![b] = @ + k]
          IN  /\ g \in [OrderIds -> Nat]
              /\ g[a] = f[a] + k /\ g[b] = f[b] + k
              /\ \A i \in OrderIds \ {a, b} : g[i] = f[i]
    OBVIOUS
  <2>2. /\ qty \in Nat /\ incoming.id # RestingId
        /\ incoming.id \in OrderIds /\ RestingId \in OrderIds
    BY Zenon, <1>1, <1>3
  <2> QED
    BY ONLY ZenonT(30), <2>1, <2>2, <1>4, <1>7
<1>9. FilledMatchesFillStream'
  <2>1. DOMAIN orders' \subseteq OrderIds
    BY Zenon, <1>6 DEF BookInv, BookType
  <2>2. ASSUME NEW i \in DOMAIN orders'
        PROVE  filled(orders[i])' = filledBy'[i]
    BY SMTT(30), <2>1, <1>1, <1>3, <1>6, <1>7, <1>8
  <2> QED
    BY Zenon, <2>2 DEF FilledMatchesFillStream
<1>10. /\ incoming' \in OrderType /\ incoming'.remaining = n
       /\ incoming'.quantity = incoming.quantity
       /\ incoming'.id = incoming.id /\ incoming'.type = incoming.type
       /\ incoming'.price = incoming.price
       /\ incoming'.sequence = incoming.sequence
       /\ incoming'.post_only = incoming.post_only
  BY ZenonT(30), <1>1, <1>3, <1>4, LoopTypes
<1>11. /\ filled(incoming)' = filledBy'[incoming.id]
       /\ incoming'.remaining + result'.stp_cancelled <= requested
  <2>1. /\ filled(incoming) = filledBy[incoming.id]
        /\ incoming.remaining + result.stp_cancelled <= requested
        /\ requested \in Nat /\ result.stp_cancelled \in Nat
    BY ZenonT(30), <1>1, LoopTypes
  <2>2. incoming'.remaining = incoming.remaining - qty
    BY Zenon, <1>10 DEF n
  <2> QED
    BY SMTT(30), <2>1, <2>2, <1>2, <1>3, <1>4, <1>8, <1>10 DEF filled
<1>12. withdrawals' \in Seq(WithdrawalType) /\ result' \in ResultType
  BY ZenonT(30), <1>1, <1>4, LoopTypes
<1> QED
  BY ZenonT(30), <1>1, <1>3, <1>5, <1>6, <1>8, <1>9, <1>10, <1>11, <1>12,
     LoopKeeps

\* What record_withdrawal appends is well formed.
LEMMA WithdrawalTyped ==
  ASSUME IInv, Iterate, NEW qty \in Nat,
         record_withdrawal(orders[RestingId], qty)
  PROVE  withdrawals' \in Seq(WithdrawalType)
<1> DEFINE r == orders[RestingId]
           w == [order |-> r.id, account |-> r.account, side |-> r.side,
                 quantity |-> qty, fully_removed |-> qty = r.remaining]
<1>1. r \in OrderType
  BY Zenon, FrontIsLive
<1>2. r.id \in OrderIds /\ r.account \in Accounts /\ r.side \in Sides
  BY Zenon, <1>1 DEF OrderType
<1>3. withdrawals' = Append(withdrawals, w) /\ withdrawals \in Seq(WithdrawalType)
  BY Zenon DEF record_withdrawal, IInv, TypeOK
<1> HIDE DEF r
<1>4. w \in WithdrawalType
  BY Zenon, <1>2 DEF WithdrawalType
<1> QED
  BY SMTT(30), <1>3, <1>4

\* The aggressor gives way: it asks for nothing more.
LEMMA GiveWayEffect ==
  ASSUME IInv, Iterate, GiveWay
  PROVE  /\ incoming' \in OrderType /\ incoming'.remaining = 0
         /\ incoming'.id = incoming.id /\ incoming'.type = incoming.type
         /\ incoming'.price = incoming.price
         /\ incoming'.sequence = incoming.sequence
         /\ incoming'.post_only = incoming.post_only
         /\ incoming'.remaining <= incoming'.quantity
         /\ result' \in ResultType
         /\ incoming'.remaining + result'.stp_cancelled <= requested
<1> DEFINE n == result.stp_cancelled + incoming.remaining
<1>0. /\ incoming.remaining + result.stp_cancelled <= requested
      /\ requested \in Nat /\ result.stp_cancelled \in Nat
      /\ incoming.remaining \in Nat /\ incoming.quantity \in Nat
  BY ZenonT(30), LoopTypes
<1>1. n \in Nat /\ n <= requested /\ 0 \in Nat
  BY <1>0
<1>2. /\ incoming' = [incoming EXCEPT !.remaining = 0]
      /\ result' = [result EXCEPT !.stp_cancelled = n]
  BY Zenon DEF GiveWay
<1> HIDE DEF n
<1>3. /\ incoming' \in OrderType /\ incoming'.remaining = 0
      /\ incoming'.quantity = incoming.quantity
      /\ incoming'.id = incoming.id /\ incoming'.type = incoming.type
      /\ incoming'.price = incoming.price
      /\ incoming'.sequence = incoming.sequence
      /\ incoming'.post_only = incoming.post_only
  BY ZenonT(30), <1>1, <1>2, LoopTypes
<1>4. result' \in ResultType /\ result'.stp_cancelled = n
  BY ZenonT(30), <1>1, <1>2, LoopTypes
<1> QED
  BY SMTT(30), <1>0, <1>1, <1>3, <1>4

\* Prevention removes the front order whole.
LEMMA FrontDropped ==
  ASSUME IInv, Iterate, filledBy' = filledBy,
         TakeFrom(orders[RestingId].id, orders[RestingId].remaining, 0)
  PROVE  /\ BookInv' /\ DOMAIN orders' \subseteq DOMAIN orders
         /\ \A i \in DOMAIN orders' :
              orders'[i].sequence < sequence /\ orders'[i].sequence <= sequence
         /\ FilledMatchesFillStream'
<1>1. /\ RestingId \in DOMAIN orders /\ BookInv
      /\ TakeFrom(RestingId, orders[RestingId].remaining, 0)
  BY Zenon, FrontIsLive
<1>2. /\ BookInv' /\ DOMAIN orders' = DOMAIN orders \ {RestingId}
      /\ \A i \in DOMAIN orders' : orders'[i] = orders[i]
  BY Zenon, <1>1, DropSound
<1>3. \A i \in DOMAIN orders' :
        orders'[i].sequence < sequence /\ orders'[i].sequence <= sequence
  BY Zenon, <1>2 DEF IInv, CommandConsistent, Iterate
<1>4. FilledMatchesFillStream'
  BY Zenon, <1>2 DEF IInv, FilledMatchesFillStream, filled
<1> QED
  BY ZenonT(30), <1>2, <1>3, <1>4

\* CancelIncoming: the book is untouched and the aggressor is done.
LEMMA PreventCancelIncomingKeeps ==
  ASSUME IInv, PreventCancelIncoming
  PROVE  IInv'
<1>1. Iterate /\ GiveWay /\ UNCHANGED <<bookVars, fills, withdrawals, filledBy>>
  BY Zenon DEF PreventCancelIncoming
<1>2. BookInv'
  BY Zenon, <1>1, BookUntouched
<1>3. /\ DOMAIN orders' \subseteq DOMAIN orders
      /\ \A i \in DOMAIN orders' :
           orders'[i].sequence < sequence /\ orders'[i].sequence <= sequence
      /\ FilledMatchesFillStream'
  BY Zenon, <1>1 DEF IInv, CommandConsistent, Iterate, bookVars,
              FilledMatchesFillStream, filled
<1>4. /\ fills' \in Seq(FillType) /\ withdrawals' \in Seq(WithdrawalType)
      /\ filledBy' \in [OrderIds -> Nat]
  BY ZenonT(30), <1>1, LoopTypes
<1>5. ~(incoming'.remaining > 0)
  BY SMTT(30), <1>1, GiveWayEffect
<1> QED
  BY Zenon, <1>1, <1>2, <1>3, <1>4, <1>5, GiveWayEffect, LoopKeeps

\* CancelResting: the front order leaves and the aggressor is untouched.
LEMMA PreventCancelRestingKeeps ==
  ASSUME IInv, PreventCancelResting
  PROVE  IInv'
<1> DEFINE r == orders[RestingId]
<1>1. /\ Iterate /\ record_withdrawal(r, r.remaining)
      /\ TakeFrom(r.id, r.remaining, 0)
      /\ UNCHANGED <<incoming, fills, result, filledBy>>
  BY Zenon DEF PreventCancelResting
<1>2. /\ incoming \in OrderType /\ r \in OrderType
      /\ incoming.remaining \in 1 .. incoming.quantity
  BY Zenon, <1>1, FrontIsLive
<1>3. r.remaining \in Nat /\ incoming.quantity \in Nat
  BY ZenonT(30), <1>2 DEF OrderType
<1>4. /\ BookInv' /\ DOMAIN orders' \subseteq DOMAIN orders
      /\ \A i \in DOMAIN orders' :
           orders'[i].sequence < sequence /\ orders'[i].sequence <= sequence
      /\ FilledMatchesFillStream'
  <2>1. Iterate /\ filledBy' = filledBy
    BY Zenon, <1>1
  <2>2. TakeFrom(orders[RestingId].id, orders[RestingId].remaining, 0)
    BY Zenon, <1>1
  <2> QED
    BY Zenon, <2>1, <2>2, FrontDropped
<1>5. withdrawals' \in Seq(WithdrawalType)
  BY ZenonT(30), <1>1, <1>3, WithdrawalTyped
<1>6. /\ fills' \in Seq(FillType) /\ result' \in ResultType
      /\ filledBy' \in [OrderIds -> Nat]
      /\ filled(incoming) = filledBy[incoming.id]
      /\ incoming.remaining + result.stp_cancelled <= requested
  BY ZenonT(30), <1>1, LoopTypes
<1>7. incoming' = incoming /\ filled(incoming)' = filledBy'[incoming.id]
  BY Zenon, <1>1, <1>6 DEF filled
<1>8. incoming.remaining <= incoming.quantity
  BY SMTT(30), <1>2, <1>3
<1> QED
  BY ZenonT(30), <1>1, <1>2, <1>4, <1>5, <1>6, <1>7, <1>8, LoopKeeps

\* CancelBoth: the front order leaves and the aggressor is done.
LEMMA PreventCancelBothKeeps ==
  ASSUME IInv, PreventCancelBoth
  PROVE  IInv'
<1> DEFINE r == orders[RestingId]
<1>1. /\ Iterate /\ GiveWay /\ record_withdrawal(r, r.remaining)
      /\ TakeFrom(r.id, r.remaining, 0)
      /\ UNCHANGED <<fills, filledBy>>
  BY Zenon DEF PreventCancelBoth
<1>2. r \in OrderType
  BY Zenon, <1>1, FrontIsLive
<1>3. r.remaining \in Nat
  BY Zenon, <1>2 DEF OrderType
<1>4. /\ BookInv' /\ DOMAIN orders' \subseteq DOMAIN orders
      /\ \A i \in DOMAIN orders' :
           orders'[i].sequence < sequence /\ orders'[i].sequence <= sequence
      /\ FilledMatchesFillStream'
  BY Zenon, <1>1, FrontDropped
<1>5. withdrawals' \in Seq(WithdrawalType)
  BY ZenonT(30), <1>1, <1>3, WithdrawalTyped
<1>6. fills' \in Seq(FillType) /\ filledBy' \in [OrderIds -> Nat]
  BY ZenonT(30), <1>1, LoopTypes
<1>7. ~(incoming'.remaining > 0)
  BY SMTT(30), <1>1, GiveWayEffect
<1> QED
  BY ZenonT(30), <1>1, <1>4, <1>5, <1>6, <1>7, GiveWayEffect, LoopKeeps

\* DecrementBoth shrinks both orders and their original sizes, so that what
\* either reports as filled stays what it traded.
LEMMA PreventDecrementBothKeeps ==
  ASSUME IInv, PreventDecrementBoth
  PROVE  IInv'
<1> DEFINE r   == orders[RestingId]
           k   == Lesser(incoming.remaining, r.remaining)
           n   == incoming.remaining - k
           m   == incoming.quantity - k
           stp == result.stp_cancelled + k
<1>1. /\ Iterate /\ r.id = RestingId /\ r \in OrderType
      /\ r.remaining \in 1 .. r.quantity
      /\ incoming \in OrderType
      /\ incoming.remaining \in 1 .. incoming.quantity
  BY Zenon, FrontIsLive DEF PreventDecrementBoth
<1>2. /\ r.remaining \in Nat /\ incoming.remaining \in Nat
      /\ incoming.quantity \in Nat /\ r.quantity \in Nat
  BY Zenon, <1>1 DEF OrderType
<1>3. /\ incoming.remaining + result.stp_cancelled <= requested
      /\ requested \in Nat /\ result.stp_cancelled \in Nat
      /\ filled(incoming) = filledBy[incoming.id]
  BY ZenonT(30), <1>1, LoopTypes
<1>4. k \in 1 .. r.remaining /\ k <= incoming.remaining
  BY Zenon, <1>1, <1>2, LesserTaken
<1>5. /\ incoming' = [incoming EXCEPT !.remaining = n, !.quantity = m]
      /\ TakeFrom(RestingId, k, k)
      /\ result' = [result EXCEPT !.stp_cancelled = stp]
      /\ record_withdrawal(r, k)
      /\ UNCHANGED <<fills, filledBy>>
  BY ZenonT(30), <1>1 DEF PreventDecrementBoth
<1> HIDE DEF k
<1>6. /\ n \in Nat /\ m \in Nat /\ stp \in Nat /\ n <= m /\ k \in Nat
      /\ n + stp <= requested /\ k \in 0 .. k
      /\ m - n = incoming.quantity - incoming.remaining
  BY SMTT(30), <1>1, <1>2, <1>3, <1>4
<1> HIDE DEF n, m, stp
<1>7. /\ incoming' \in OrderType /\ incoming'.remaining = n
      /\ incoming'.quantity = m
      /\ incoming'.id = incoming.id /\ incoming'.type = incoming.type
      /\ incoming'.price = incoming.price
      /\ incoming'.sequence = incoming.sequence
      /\ incoming'.post_only = incoming.post_only
  <2>1. /\ incoming' = [incoming EXCEPT !.remaining = n, !.quantity = m]
        /\ n \in Nat /\ m \in Nat
    BY Zenon, <1>5, <1>6
  <2>2. \A a, b \in Nat :
          LET o == [incoming EXCEPT !.remaining = a, !.quantity = b]
          IN  /\ o \in OrderType /\ o.remaining = a /\ o.quantity = b
              /\ o.id = incoming.id /\ o.type = incoming.type
              /\ o.price = incoming.price
              /\ o.sequence = incoming.sequence
              /\ o.post_only = incoming.post_only
    BY ZenonT(30), <1>1, LoopTypes
  <2> QED
    BY ONLY ZenonT(30), <2>1, <2>2
<1>8. result' \in ResultType /\ result'.stp_cancelled = stp
  BY ZenonT(30), <1>1, <1>5, <1>6, LoopTypes
<1>9. /\ BookInv' /\ DOMAIN orders' \subseteq DOMAIN orders
      /\ \A i \in DOMAIN orders' :
           /\ orders'[i].sequence < sequence /\ orders'[i].sequence <= sequence
           /\ filled(orders[i])' = IF i = RestingId THEN filledBy[i] + k - k
                                   ELSE filledBy[i]
  BY Zenon, <1>1, <1>4, <1>5, <1>6, FrontTaken
<1>10. filledBy' = filledBy /\ filledBy \in [OrderIds -> Nat]
  BY Zenon, <1>5 DEF IInv, TypeOK
<1>11. FilledMatchesFillStream'
  <2>1. DOMAIN orders' \subseteq OrderIds
    BY ZenonT(30), <1>9 DEF BookInv, BookType
  <2>2. ASSUME NEW i \in DOMAIN orders'
        PROVE  filled(orders[i])' = filledBy'[i]
    BY SMTT(30), <2>1, <1>6, <1>9, <1>10
  <2> QED
    BY Zenon, <2>2 DEF FilledMatchesFillStream
<1>12. /\ fills' \in Seq(FillType)
       /\ withdrawals' \in Seq(WithdrawalType)
  BY ZenonT(30), <1>1, <1>5, <1>6, LoopTypes, WithdrawalTyped
<1>13. filled(incoming)' = filledBy'[incoming.id]
  BY Zenon, <1>3, <1>6, <1>7, <1>10 DEF filled
<1>14. /\ incoming'.remaining <= incoming'.quantity
       /\ incoming'.remaining + result'.stp_cancelled <= requested
  BY Zenon, <1>6, <1>7, <1>8
<1> QED
  BY ZenonT(30), <1>1, <1>7, <1>8, <1>9, <1>10, <1>11, <1>12, <1>13, <1>14,
     LoopKeeps

\* Settle: a remainder that rests crosses nothing, because the loop ended.
LEMMA SettleKeeps ==
  ASSUME IInv, Settle
  PROVE  IInv'
<1> DEFINE contra == opposite(incoming.side)
           k      == requested - incoming.remaining - result.stp_cancelled
<1>1. /\ pc = "match" /\ pc' = "return" /\ ~CanMatch
      /\ result' = [result EXCEPT !.filled = k, !.rested = ~Expires(incoming)]
      /\ IF Expires(incoming) THEN UNCHANGED bookVars ELSE rest(incoming)
      /\ UNCHANGED <<policy, sequence, incoming, requested, fills, withdrawals,
                     filledBy, before>>
  BY Zenon DEF Settle, Report, history, Traded
<1>2. /\ incoming \in OrderType /\ incoming.remaining <= incoming.quantity
      /\ incoming.sequence = sequence /\ incoming.id \notin DOMAIN orders
      /\ \A i \in DOMAIN orders : orders[i].sequence < sequence
      /\ \A i \in DOMAIN orders : orders[i].sequence <= sequence
      /\ incoming.type = "Limit" => incoming.price \in Prices
      /\ incoming.remaining > 0 => filled(incoming) = filledBy[incoming.id]
      /\ incoming.remaining + result.stp_cancelled <= requested
  BY Zenon, <1>1 DEF IInv, CommandConsistent
<1>3. /\ result \in ResultType /\ requested \in Nat /\ sequence \in Nat
      /\ filledBy \in [OrderIds -> Nat]
  BY Zenon DEF IInv, TypeOK
<1>4. /\ result.stp_cancelled \in Nat /\ incoming.remaining \in Nat
      /\ incoming.quantity \in Nat /\ incoming.side \in Sides
      /\ incoming.type \in OrderTypes /\ incoming.price \in Int
  BY ZenonT(30), <1>2, <1>3 DEF ResultType, OrderType
<1>5. k \in Nat
  BY SMTT(30), <1>2, <1>3, <1>4
<1> HIDE DEF k
<1>6. result' \in ResultType /\ result'.stp_cancelled = result.stp_cancelled
  <2>1. Expires(incoming) \in BOOLEAN
    BY Zenon DEF Expires
  <2>2. \A b \in BOOLEAN : LET x == [result EXCEPT !.filled = k, !.rested = b]
                           IN  x \in ResultType
                               /\ x.stp_cancelled = result.stp_cancelled
    BY ZenonT(30), <1>3, <1>5 DEF ResultType
  <2> QED
    BY ZenonT(30), <2>1, <2>2, <1>1
<1>7. PostOnlyNeverTakes'
  BY Zenon, <1>1, <1>6 DEF IInv, PostOnlyNeverTakes
<1>8. /\ BookInv' /\ FilledMatchesFillStream'
      /\ \A i \in DOMAIN orders' : orders'[i].sequence <= sequence
  <2>1. CASE Expires(incoming)
    <3>1. UNCHANGED bookVars
      BY Zenon, <2>1, <1>1
    <3>2. BookInv'
      BY Zenon, <3>1, BookUntouched
    <3> QED
      BY Zenon, <3>1, <3>2, <1>1, <1>2
         DEF bookVars, IInv, FilledMatchesFillStream, filled
  <2>2. CASE ~Expires(incoming)
    <3>1. /\ rest(incoming) /\ incoming.type = "Limit"
          /\ incoming.remaining \in 1 .. incoming.quantity
      BY SMTT(30), <2>2, <1>1, <1>2, <1>4 DEF Expires, OrderTypes
    <3>2. BookInv /\ BookType /\ contra \in Sides
      BY ZenonT(30), InvImpliesBookInv DEF BookInv, opposite, Sides
    <3>3. ASSUME NEW p \in occupied[contra]
          PROVE  IF incoming.side = "Buy" THEN incoming.price < p
                 ELSE p < incoming.price
      <4>1. ~crosses(incoming, Best(contra))
        BY SMTT(30), <3>1, <1>1, <1>4 DEF CanMatch
      <4>2. /\ p \in Prices /\ Best(contra) \in Prices
            /\ contra = "Buy" => p <= Best(contra)
            /\ contra = "Sell" => Best(contra) <= p
        BY Zenon, <3>2, BestIsBest DEF BookType
      <4>3. p \in Int /\ Best(contra) \in Int
        BY ZenonT(30), <4>2, PricesInBand
      <4>4. PICK b, x : b = Best(contra) /\ x = incoming.price
        BY Zenon
      <4>5. ~(IF incoming.side = "Buy" THEN x >= b ELSE x <= b)
        BY Zenon, <3>1, <4>1, <4>4 DEF crosses
      <4>6. /\ x \in Int
            /\ \/ incoming.side = "Buy" /\ contra = "Sell"
               \/ incoming.side = "Sell" /\ contra = "Buy"
        BY Zenon, <1>4, <4>4 DEF opposite, Sides
      <4> QED
        BY SMTT(30), <4>2, <4>3, <4>4, <4>5, <4>6
    <3>4. /\ BookInv' /\ DOMAIN orders' = DOMAIN orders \cup {incoming.id}
          /\ orders'[incoming.id] = incoming
          /\ \A i \in DOMAIN orders : orders'[i] = orders[i]
      BY ZenonT(30), <3>1, <3>2, <3>3, <1>2, RestSound
    <3>5. FilledMatchesFillStream'
      BY SMTT(30), <3>1, <3>4, <1>1, <1>2, <1>4
         DEF IInv, FilledMatchesFillStream, filled
    <3>6. \A i \in DOMAIN orders' : orders'[i].sequence <= sequence
      BY <3>4, <1>2, <1>3
    <3> QED
      BY Zenon, <3>4, <3>5, <3>6
  <2> QED
    BY Zenon, <2>1, <2>2
<1>9. CommandConsistent'
  BY Zenon, <1>1, <1>8 DEF CommandConsistent
<1> QED
  BY ZenonT(30), <1>1, <1>6, <1>7, <1>8, <1>9, InvPrimed DEF IInv, TypeOK

-----------------------------------------------------------------------------
(* The theorems.                                                           *)

\* Every step of the specification keeps the invariant.
LEMMA StepKeeps ==
  ASSUME IInv, [Next]_vars
  PROVE  IInv'
<1>1. ASSUME NEW o \in NewOrders, Submit(o) PROVE IInv'
  BY Zenon, <1>1, SubmitKeeps
<1>2. ASSUME NEW id \in OrderIds, Cancel(id) PROVE IInv'
  BY Zenon, <1>2, CancelKeeps
<1>3. ASSUME NEW id \in OrderIds, CancelUnknown(id) PROVE IInv'
  BY Zenon, <1>3, RefusedKeeps DEF CancelUnknown, Rejects
<1>4. ASSUME NEW id \in OrderIds, NEW p \in PriceInputs,
             NEW q \in QuantityInputs, Replace(id, p, q)
      PROVE  IInv'
  <2>1. p \in Int /\ q \in Nat
    BY Zenon, BookAssumption
  <2>2. CASE ReplaceRefused(id, p, q)
    <3>1. ReplaceReject(id, p, q) \in Rejects
      BY Zenon DEF ReplaceReject, Rejects
    <3> QED
      BY Zenon, <2>2, <3>1, RefusedKeeps DEF ReplaceRefused
  <2>3. CASE ReplaceCancels(id, p, q)
    BY Zenon, <2>3, ReplaceCancelsKeeps
  <2>4. CASE ReplaceInPlace(id, p, q)
    BY Zenon, <2>1, <2>4, ReplaceInPlaceKeeps
  <2>5. CASE ReplaceRequeues(id, p, q)
    BY Zenon, <2>1, <2>5, ReplaceRequeuesKeeps
  <2> QED
    BY Zenon, <1>4, <2>2, <2>3, <2>4, <2>5 DEF Replace
<1>5. CASE InsertStep
  BY Zenon, <1>5, InsertKeeps, FillKeeps, PreventCancelIncomingKeeps,
     PreventCancelRestingKeeps, PreventCancelBothKeeps,
     PreventDecrementBothKeeps, SettleKeeps DEF InsertStep
<1>6. CASE Return
  BY Zenon, <1>6, ReturnKeeps
<1>7. CASE UNCHANGED vars
  <2>1. /\ UNCHANGED bookVars
        /\ UNCHANGED <<policy, sequence, pc, incoming, requested, fills,
                       withdrawals, result, filledBy, before>>
    BY Zenon, <1>7 DEF vars, callVars, history
  <2>2. BookInv'
    BY Zenon, <2>1, BookUntouched
  <2>3. FilledMatchesFillStream' /\ PostOnlyNeverTakes'
    BY Zenon, <2>1 DEF IInv, FilledMatchesFillStream, filled, bookVars,
                PostOnlyNeverTakes
  <2>4. would_cross(incoming)' = would_cross(incoming)
    BY ZenonT(30), <2>1 DEF would_cross, Best, crosses, bookVars
  <2>5. CommandConsistent'
    BY Zenon, <2>1, <2>4 DEF IInv, CommandConsistent, bookVars, filled
  <2> QED
    BY ZenonT(30), <2>1, <2>2, <2>3, <2>5, InvPrimed DEF IInv, TypeOK
<1> QED
  BY ZenonT(30), <1>1, <1>2, <1>3, <1>4, <1>5, <1>6, <1>7 DEF Next, Command, Step

\* The inductive invariant holds in every reachable state of the book.
THEOREM BookInvariant == Spec => []IInv
<1>1. Init => IInv
  BY Zenon, InitSound
<1>2. IInv /\ [Next]_vars => IInv'
  BY Zenon, StepKeeps
<1> QED
  BY <1>1, <1>2, PTL DEF Spec

\* Type correctness: no quantity of an order or of a result, all unsigned in
\* the code, is ever driven below zero.
THEOREM TypeCorrect == Spec => []TypeOK
<1>1. IInv => TypeOK
  BY ZenonT(30) DEF IInv
<1> QED
  BY <1>1, BookInvariant, PTL

\* The book is never crossed or locked, not even inside a command.
THEOREM BookNeverCrossed == Spec => []NeverCrossed
<1>1. IInv => NeverCrossed
  BY Zenon DEF IInv
<1> QED
  BY <1>1, BookInvariant, PTL

\* The index, the level queues and the ladder always describe the same book.
THEOREM IndexAgrees == Spec => []IndexMatchesLevels
<1>1. IInv => IndexMatchesLevels
  BY Zenon DEF IInv
<1> QED
  BY <1>1, BookInvariant, PTL

\* Every level is a queue in order of arrival: time priority.
THEOREM TimePriority == Spec => []ArrivalOrder
<1>1. IInv => ArrivalOrder
  BY ZenonT(30) DEF IInv
<1> QED
  BY <1>1, BookInvariant, PTL

\* A live order's filled() is what the fill stream says it traded.
THEOREM FillsAgree == Spec => []FilledMatchesFillStream
<1>1. IInv => FilledMatchesFillStream
  BY Zenon DEF IInv
<1> QED
  BY <1>1, BookInvariant, PTL

\* A post-only order never takes liquidity.
THEOREM PostOnlySafe == Spec => []PostOnlyNeverTakes
<1>1. IInv => PostOnlyNeverTakes
  BY Zenon DEF IInv
<1> QED
  BY <1>1, BookInvariant, PTL

\* The command under way always agrees with the book it runs on.
THEOREM CommandAgrees == Spec => []CommandConsistent
<1>1. IInv => CommandConsistent
  BY Zenon DEF IInv
<1> QED
  BY <1>1, BookInvariant, PTL

-----------------------------------------------------------------------------
(* What the book's steps do to the orders that rest.                       *)

\* The same order, whatever it has left.
StaysOrder(o, p) ==
  /\ p.id = o.id /\ p.account = o.account /\ p.side = o.side
  /\ p.post_only = o.post_only /\ p.tif = o.tif

\* Order id loses q, and goes when that is all it had.
Takes(id, q) ==
  /\ id \in DOMAIN orders /\ q \in 1 .. orders[id].remaining
  /\ DOMAIN orders' = IF q < orders[id].remaining THEN DOMAIN orders
                      ELSE DOMAIN orders \ {id}
  /\ \A i \in DOMAIN orders' :
       /\ orders'[i].account = orders[i].account
       /\ orders'[i].side = orders[i].side
       /\ orders'[i].remaining = IF i = id THEN orders[i].remaining - q
                                 ELSE orders[i].remaining

\* TakeFrom: one order loses some or all of what it had.
LEMMA TakeFromTakes ==
  ASSUME BookInv, NEW id \in DOMAIN orders,
         NEW qty \in 1 .. orders[id].remaining, NEW withdrawn,
         TakeFrom(id, qty, withdrawn)
  PROVE  /\ Takes(id, qty)
         /\ \A i \in DOMAIN orders' :
              StaysOrder(orders[i], orders'[i]) /\ (i # id => orders'[i] = orders[i])
<1> DEFINE left == orders[id].remaining - qty
<1>1. /\ orders \in [DOMAIN orders -> OrderType] /\ orders[id] \in OrderType
      /\ orders[id].remaining \in Nat
  BY Zenon DEF BookInv, BookType, OrderType
<1>2. left \in Nat /\ qty \in Nat /\ (left > 0 <=> qty < orders[id].remaining)
  BY <1>1
<1>3. CASE left > 0
  <2>1. orders' = [orders EXCEPT ![id].remaining = left, ![id].quantity = @ - withdrawn]
    BY Zenon, <1>3 DEF TakeFrom
  <2>2. /\ DOMAIN orders' = DOMAIN orders
        /\ \A i \in DOMAIN orders : i # id => orders'[i] = orders[i]
        /\ orders'[id] = [orders[id] EXCEPT !.remaining = left, !.quantity = @ - withdrawn]
    BY Zenon, <1>1, <2>1
  <2>3. orders'[id].remaining = left /\ StaysOrder(orders[id], orders'[id])
    BY Zenon, <1>1, <2>2 DEF OrderType, StaysOrder
  <2>4. \A i \in DOMAIN orders : i # id => StaysOrder(orders[i], orders'[i])
    BY ZenonT(30), <2>2 DEF StaysOrder
  <2> QED
    BY Zenon, <1>2, <1>3, <2>2, <2>3, <2>4 DEF Takes, StaysOrder
<1>4. CASE ~(left > 0)
  <2>1. orders' = [i \in DOMAIN orders \ {id} |-> orders[i]]
    BY Zenon, <1>4 DEF TakeFrom
  <2>2. DOMAIN orders' = DOMAIN orders \ {id} /\ \A i \in DOMAIN orders' : orders'[i] = orders[i]
    BY Zenon, <2>1
  <2> QED
    BY Zenon, <1>2, <1>4, <2>2 DEF Takes, StaysOrder
<1> QED
  BY Zenon, <1>3, <1>4

\* An iteration that trades: the front order loses q, and a fill says so.
FrontFilled(q) ==
  /\ Takes(RestingId, q)
  /\ withdrawals' = withdrawals
  /\ \E f : /\ fills' = Append(fills, f) /\ f.quantity = q
            /\ f.resting_order = RestingId
            /\ f.resting_account = orders[RestingId].account
            /\ f.aggressor_account = incoming.account
            /\ opposite(f.aggressor_side) = orders[RestingId].side
            /\ f.resting_filled = (q = orders[RestingId].remaining)

\* An iteration that prevents a trade: a withdrawal says so.
FrontWithdrawn(q) ==
  /\ Takes(RestingId, q)
  /\ fills' = fills
  /\ withdrawals' = Append(withdrawals,
       [order |-> RestingId, account |-> orders[RestingId].account,
        side |-> orders[RestingId].side, quantity |-> q,
        fully_removed |-> q = orders[RestingId].remaining])

\* Any iteration: the front order loses what the command reports, or nothing.
IterationEffect ==
  /\ \/ UNCHANGED <<orders, fills, withdrawals>>
     \/ \E q : FrontFilled(q) \/ FrontWithdrawn(q)
  /\ \A i \in DOMAIN orders' :
       StaysOrder(orders[i], orders'[i]) /\ (i # RestingId => orders'[i] = orders[i])
  /\ StaysOrder(incoming, incoming') /\ incoming' \in OrderType
  /\ result'.rested = result.rested /\ result'.reject = result.reject
  /\ UNCHANGED <<pc, before>>

\* record_withdrawal of the front order.
LEMMA Withdraws ==
  ASSUME IInv, Iterate, NEW q \in 1 .. orders[RestingId].remaining, NEW withdrawn,
         record_withdrawal(orders[RestingId], q),
         TakeFrom(orders[RestingId].id, q, withdrawn), fills' = fills
  PROVE  /\ FrontWithdrawn(q)
         /\ \A i \in DOMAIN orders' :
              StaysOrder(orders[i], orders'[i]) /\ (i # RestingId => orders'[i] = orders[i])
<1>1. BookInv /\ RestingId \in DOMAIN orders /\ orders[RestingId].id = RestingId
  BY Zenon, FrontIsLive
<1>2. /\ Takes(RestingId, q)
      /\ \A i \in DOMAIN orders' :
           StaysOrder(orders[i], orders'[i]) /\ (i # RestingId => orders'[i] = orders[i])
  BY Zenon, <1>1, TakeFromTakes
<1> QED
  BY Zenon, <1>1, <1>2 DEF FrontWithdrawn, record_withdrawal

\* The aggressor gives way, and stays the order it was.
LEMMA GivesWay ==
  ASSUME IInv, Iterate, GiveWay
  PROVE  /\ StaysOrder(incoming, incoming') /\ incoming' \in OrderType
         /\ result'.rested = result.rested /\ result'.reject = result.reject
<1>1. incoming \in OrderType /\ result \in ResultType
  BY Zenon, FrontIsLive DEF IInv, TypeOK
<1>2. incoming' = [incoming EXCEPT !.remaining = 0]
  BY Zenon DEF GiveWay
<1>3. StaysOrder(incoming, incoming')
  BY Zenon, <1>1, <1>2 DEF OrderType, StaysOrder
<1>4. result'.rested = result.rested /\ result'.reject = result.reject
  BY Zenon, <1>1 DEF GiveWay, ResultType
<1> QED
  BY Zenon, <1>3, <1>4, GiveWayEffect

\* Fill.
LEMMA FillEffect ==
  ASSUME IInv, Fill
  PROVE  IterationEffect
<1> DEFINE r   == orders[RestingId]
           qty == Lesser(incoming.remaining, r.remaining)
<1>1. /\ Iterate /\ BookInv /\ RestingId \in DOMAIN orders /\ r.id = RestingId
      /\ r \in OrderType /\ r.remaining \in 1 .. r.quantity
      /\ r.side = opposite(incoming.side)
      /\ incoming \in OrderType /\ incoming.remaining \in 1 .. incoming.quantity
  BY Zenon, FrontIsLive DEF Fill
<1>2. /\ r.remaining \in Nat /\ r.quantity \in Nat
      /\ incoming.remaining \in Nat /\ incoming.quantity \in Nat
  BY Zenon, <1>1 DEF OrderType
<1>3. qty \in 1 .. r.remaining /\ incoming.remaining - qty \in Nat
  BY Zenon, <1>1, <1>2, LesserTaken
<1>4. /\ incoming' = [incoming EXCEPT !.remaining = incoming.remaining - qty]
      /\ TakeFrom(RestingId, qty, 0)
      /\ fills' = Append(fills,
                         [price |-> r.price, quantity |-> qty,
                          aggressor_order |-> incoming.id,
                          resting_order |-> RestingId,
                          aggressor_account |-> incoming.account,
                          resting_account |-> r.account,
                          aggressor_side |-> incoming.side,
                          resting_filled |-> qty = r.remaining])
      /\ withdrawals' = withdrawals /\ result' = result
  BY Zenon, <1>1 DEF Fill
<1> HIDE DEF qty
<1>5. /\ Takes(RestingId, qty)
      /\ \A i \in DOMAIN orders' :
           StaysOrder(orders[i], orders'[i]) /\ (i # RestingId => orders'[i] = orders[i])
  BY Zenon, <1>1, <1>3, <1>4, TakeFromTakes
<1>6. StaysOrder(incoming, incoming') /\ incoming' \in OrderType
  BY Zenon, <1>1, <1>3, <1>4 DEF OrderType, StaysOrder
<1>7. FrontFilled(qty)
  <2> DEFINE f == [price |-> r.price, quantity |-> qty,
                   aggressor_order |-> incoming.id, resting_order |-> RestingId,
                   aggressor_account |-> incoming.account,
                   resting_account |-> r.account,
                   aggressor_side |-> incoming.side,
                   resting_filled |-> qty = r.remaining]
  <2>1. /\ f.quantity = qty /\ f.resting_order = RestingId
        /\ f.resting_account = r.account /\ f.aggressor_account = incoming.account
        /\ f.aggressor_side = incoming.side
        /\ f.resting_filled = (qty = r.remaining)
    BY Zenon
  <2>2. fills' = Append(fills, f)
    BY Zenon, <1>4
  <2> HIDE DEF f
  <2> QED
    BY Zenon, <1>1, <1>4, <1>5, <2>1, <2>2 DEF FrontFilled
<1> QED
  BY Zenon, <1>1, <1>4, <1>5, <1>6, <1>7 DEF IterationEffect, Iterate

\* The four ways of prevention.
LEMMA PreventEffect ==
  ASSUME IInv,
         \/ PreventCancelIncoming \/ PreventCancelResting
         \/ PreventCancelBoth \/ PreventDecrementBoth
  PROVE  IterationEffect
<1> DEFINE r       == orders[RestingId]
           overlap == Lesser(incoming.remaining, r.remaining)
<1>1. Iterate
  BY Zenon DEF PreventCancelIncoming, PreventCancelResting, PreventCancelBoth,
               PreventDecrementBoth
<1>2. /\ r \in OrderType /\ r.remaining \in 1 .. r.quantity
      /\ incoming \in OrderType /\ incoming.remaining \in 1 .. incoming.quantity
      /\ result \in ResultType
  BY Zenon, <1>1, FrontIsLive DEF IInv, TypeOK
<1>3. /\ r.remaining \in Nat /\ r.quantity \in Nat
      /\ incoming.remaining \in Nat /\ incoming.quantity \in Nat
  BY Zenon, <1>2 DEF OrderType
<1>4. /\ r.remaining \in 1 .. r.remaining /\ overlap \in 1 .. r.remaining
      /\ incoming.remaining - overlap \in Nat /\ incoming.quantity - overlap \in Nat
  BY Zenon, <1>2, <1>3, LesserTaken, WholeQuantity
<1>5. UNCHANGED <<pc, before>>
  BY Zenon, <1>1 DEF Iterate
<1>6. CASE PreventCancelIncoming
  <2>1. GiveWay /\ UNCHANGED <<orders, fills, withdrawals>>
    BY Zenon, <1>6 DEF PreventCancelIncoming, bookVars
  <2>2. \A i \in DOMAIN orders' :
          StaysOrder(orders[i], orders'[i]) /\ (i # RestingId => orders'[i] = orders[i])
    BY Zenon, <2>1 DEF StaysOrder
  <2> QED
    BY Zenon, <1>1, <1>5, <2>1, <2>2, GivesWay DEF IterationEffect
<1>7. CASE PreventCancelResting
  <2>1. /\ record_withdrawal(r, r.remaining) /\ TakeFrom(r.id, r.remaining, 0)
        /\ fills' = fills /\ incoming' = incoming /\ result' = result
    BY Zenon, <1>7 DEF PreventCancelResting
  <2> QED
    BY Zenon, <1>1, <1>2, <1>4, <1>5, <2>1, Withdraws DEF IterationEffect, StaysOrder
<1>8. CASE PreventCancelBoth
  <2>1. /\ record_withdrawal(r, r.remaining) /\ TakeFrom(r.id, r.remaining, 0)
        /\ fills' = fills /\ GiveWay
    BY Zenon, <1>8 DEF PreventCancelBoth
  <2> QED
    BY Zenon, <1>1, <1>4, <1>5, <2>1, Withdraws, GivesWay DEF IterationEffect
<1>9. CASE PreventDecrementBoth
  <2>1. /\ record_withdrawal(r, overlap) /\ TakeFrom(r.id, overlap, overlap)
        /\ fills' = fills
        /\ incoming' = [incoming EXCEPT !.remaining = incoming.remaining - overlap,
                                        !.quantity = incoming.quantity - overlap]
        /\ result' = [result EXCEPT !.stp_cancelled = result.stp_cancelled + overlap]
    BY Zenon, <1>9 DEF PreventDecrementBoth
  <2> HIDE DEF overlap
  <2>2. StaysOrder(incoming, incoming') /\ incoming' \in OrderType
    BY Zenon, <1>2, <1>4, <2>1 DEF OrderType, StaysOrder
  <2>3. result'.rested = result.rested /\ result'.reject = result.reject
    BY Zenon, <1>2, <2>1 DEF ResultType
  <2> QED
    BY Zenon, <1>1, <1>4, <1>5, <2>1, <2>2, <2>3, Withdraws DEF IterationEffect
<1> QED
  BY Zenon, <1>6, <1>7, <1>8, <1>9

=============================================================================
