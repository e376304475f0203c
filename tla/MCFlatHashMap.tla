--------------------------- MODULE MCFlatHashMap ---------------------------
(***************************************************************************)
(* Eight keys, enough to leave a tombstone in every slot of a table of     *)
(* eight; two of them share a home slot there and in a table of sixteen,   *)
(* and one may be inserted with either of two values.                      *)
(***************************************************************************)
EXTENDS FlatHashMap

EightKeys == 0 .. 7

Spread == [k \in EightKeys |-> IF k = 1 THEN 16 ELSE k]

Handles == [k \in EightKeys |-> IF k = 0 THEN {0, 8} ELSE {k}]

=============================================================================
