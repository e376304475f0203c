------------------------------ MODULE MCFeed -------------------------------
(***************************************************************************)
(* Small instances of Feed for TLC.                                        *)
(***************************************************************************)
EXTENDS Feed

\* Everything published has been delivered or dropped and no snapshot is left.
Stopped ==
  /\ feed_sequence_ = MaxPublished /\ \A n \in Numbers : network[n] = 0
  /\ UNCHANGED vars

MCNext == Next \/ Stopped

MCSpec == Init /\ [][MCNext]_vars

MCFairSpec == MCSpec /\ Fairness

=============================================================================
