---------------------------- MODULE MCOrderBook ----------------------------
(***************************************************************************)
(* Small instances of OrderBook for TLC.                                   *)
(***************************************************************************)
EXTENDS OrderBook, TLC

CONSTANTS a1, a2, o1, o2, o3

\* Ids and accounts are only ever compared for equality.
IdSymmetry      == Permutations(OrderIds)
AccountSymmetry == IdSymmetry \cup Permutations({a1, a2})

MCAccounts     == {a1, a2, NoAccount}
MCPriceInputs  == {2, 3, 4}
MCPreventions  == AllPolicies \ {"Allow"}

Limit(i, a, s, p, q, tif, post) ==
  [id |-> i, account |-> a, side |-> s, type |-> "Limit", tif |-> tif,
   price |-> p, quantity |-> q, post_only |-> post]

Market(i, a, s, q, tif, post) ==
  [Limit(i, a, s, 0, q, tif, post) EXCEPT !.type = "Market"]

\* Every kind of order, from one account.
AllKinds ==
  UNION {
    {Limit(i, a1, s, p, q, tif, FALSE) :
       i \in OrderIds, s \in Sides, p \in Prices, q \in 1 .. 2,
       tif \in TimesInForce \ {"GoodTilCancelled"}},
    {Limit(i, a1, s, p, 1, "GoodTilCancelled", TRUE) :
       i \in OrderIds, s \in Sides, p \in Prices},
    {Market(i, a1, "Buy", q, tif, FALSE) :
       i \in OrderIds, q \in 1 .. 2, tif \in {"Day", "FillOrKill"}},
    {Market(i, a1, "Sell", 1, "Day", TRUE) : i \in OrderIds},
    {Limit(i, a1, "Sell", 3, 1, "Day", FALSE) : i \in OrderIds},
    {Limit(i, a1, "Sell", 2, 0, "Day", FALSE) : i \in OrderIds} }

\* Two accounts that may meet themselves, and orders of no account, which
\* prevention leaves alone.
TwoAccounts ==
  UNION {
    {Limit(i, a, s, p, q, "Day", FALSE) :
       i \in OrderIds, a \in {a1, a2}, s \in Sides, p \in Prices, q \in 1 .. 2},
    {Limit(i, a, "Buy", 4, q, "FillOrKill", FALSE) :
       i \in OrderIds, a \in {a1, a2}, q \in 2 .. 3},
    {Limit(i, NoAccount, "Sell", 2, 1, "Day", FALSE) : i \in OrderIds} }

\* The bound on commands is reached: the model, not the book, stops here.
AtBound == pc = "idle" /\ sequence = MaxSequence /\ UNCHANGED vars

MCNext == Next \/ AtBound

MCSpec == Init /\ [][MCNext]_vars

=============================================================================
