----------------------------- MODULE MCJournal -----------------------------
(***************************************************************************)
(* Small instances of Journal for TLC.                                     *)
(***************************************************************************)
EXTENDS Journal

\* Without a process the model may stop: no one restarts a journal that is
\* not usable, and the restarts are bounded.
Stopped == call = "down" /\ UNCHANGED vars

MCNext == Next \/ Stopped

MCSpec == Init /\ [][MCNext]_vars

MCFairSpec == MCSpec /\ WF_vars(Stage)

=============================================================================
