-------------------------- MODULE MCMatchingEngine --------------------------
(***************************************************************************)
(* Small instances of MatchingEngine for TLC.                              *)
(***************************************************************************)
EXTENDS MatchingEngine, TLC

CONSTANTS a1, a2, o1, o2, o3

IdSymmetry      == Permutations(OrderIds)
AccountSymmetry == IdSymmetry \cup Permutations({a1, a2})

MCAccounts == {a1, a2, NoAccount}
MCPrices   == {1, 2}

New(i, a, s, p, q, tif, post) ==
  [id |-> i, account |-> a, side |-> s, type |-> "Limit", tif |-> tif,
   price |-> p, quantity |-> q, post_only |-> post]

\* Orders that rest and trade, from both accounts.
Resters ==
  {New(i, a, "Buy", 1, 1, "Day", FALSE) : i \in OrderIds, a \in {a1, a2}} \cup
  {New(i, a, s, 2, q, "Day", FALSE) :
     i \in OrderIds, a \in {a1, a2}, s \in Sides, q \in 1 .. 2}

\* Orders that rest, trade, fill partly and self-trade, the cheapest ones
\* post-only: those can be amended to a price where they may not rest.
Traders ==
  {New(i, a, "Buy", 1, 1, "Day", TRUE) : i \in OrderIds, a \in {a1, a2}} \cup
  {New(i, a, "Buy", 2, 2, "Day", FALSE) : i \in OrderIds, a \in {a1, a2}} \cup
  {New(i, a, "Sell", 2, q, "Day", FALSE) :
     i \in OrderIds, a \in {a1, a2}, q \in 1 .. 2}

\* Post-only orders and what they may meet.
Posted ==
  {New(i, a1, "Buy", p, 1, "Day", TRUE) : i \in OrderIds, p \in MCPrices} \cup
  {New(i, a2, "Sell", 2, 1, "Day", FALSE) : i \in OrderIds}

\* The bound on commands is reached: the model, not the engine, stops here.
AtBound == pc = "idle" /\ sequence = MaxSequence /\ UNCHANGED allVars

MCNext == EngineNext \/ AtBound

MCSpec == EngineInit /\ [][MCNext]_allVars

MCFairSpec == MCSpec /\ WF_allVars(EngineStep)

=============================================================================
