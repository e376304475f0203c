------------------------------ MODULE MCReplay ------------------------------
(***************************************************************************)
(* A small venue, stopped and replayed, for TLC.                           *)
(***************************************************************************)
EXTENDS Replay, TLC

CONSTANTS a1, a2, o1, o2, o3

MCAccounts == {a1, a2, NoAccount}
MCPrices   == {1, 2}

\* One session per account.
MCAccount == [c \in Connections |-> c]

New(i, a, s, p, q, tif, post) ==
  [id |-> i, account |-> a, side |-> s, type |-> "Limit", tif |-> tif,
   price |-> p, quantity |-> q, post_only |-> post]

\* Orders every gate has something to say about, and one that sweeps past the
\* level published.
MCOrders ==
  {New(o1, a1, "Buy", 1, 1, "Day", TRUE), New(o1, a2, "Sell", 1, 1, "Day", FALSE),
   New(o3, a1, "Buy", 2, 2, "Day", FALSE)} \cup
  {New(o2, a, "Sell", 2, 2, "Day", FALSE) : a \in {a1, a2}}

AtBound == ReplayComplete /\ UNCHANGED systemVars

MCNext == ReplayNext \/ AtBound

\* The feed shows the touch, or one level.
MCInit == ReplayInit /\ (policy = "CancelIncoming") = (published_depth = 0)

MCSpec == MCInit /\ [][MCNext]_systemVars

MCFairSpec == MCSpec /\ WF_systemVars(Progress)

=============================================================================
