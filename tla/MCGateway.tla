----------------------------- MODULE MCGateway ------------------------------
(***************************************************************************)
(* Small instances of Gateway for TLC.                                     *)
(***************************************************************************)
EXTENDS Gateway, TLC

CONSTANTS p1, p2, p3, a1, a2, MaxReplies

OnePeer == {p1}

TwoPeers == {p1, p2}

ThreePeers == {p1, p2, p3}

\* Orders of one of two accounts, and messages that name none or do not decode.
Order(a, n) == [account |-> a, replies |-> n, bad |-> "no"]

Silent == [account |-> NoAccount, replies |-> 0, bad |-> "no"]

Bad(part) == [account |-> NoAccount, replies |-> 0, bad |-> part]

OneKind == {Order(a1, MaxReplies)}

EveryKind ==
  {Order(a1, MaxReplies), Order(a2, 1), Silent, Bad("header"), Bad("payload")}

Symmetry == Permutations(Peers)

\* The venue waits, and no peer has anything left to do.
Stopped ==
  /\ pc = "poll" /\ Ready = {} /\ backlog = << >>
  /\ UNCHANGED vars

MCNext == Next \/ Stopped

MCSpec == Init /\ [][MCNext]_vars

MCFairSpec == MCSpec /\ Fairness

=============================================================================
