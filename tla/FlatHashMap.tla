---------------------------- MODULE FlatHashMap ----------------------------
(***************************************************************************)
(* The open-addressed map from order id to slab handle: linear probing,    *)
(* tombstones, and a rebuild when occupied and deleted slots together pass *)
(* seven tenths of the table (src/include/xc/util/flat_hash_map.hpp).      *)
(*                                                                         *)
(* The bit mixer is an arbitrary function of the key: Hash.                *)
(***************************************************************************)
EXTENDS Integers, FiniteSetsExt

CONSTANTS
  Keys,
  Values,       \* key -> the values it may be inserted with
  Hash,         \* the mixed hash of each key, before it is masked
  MaxCapacity   \* bound: tables the model lets insert grow to

ASSUME MapAssumption ==
  /\ Hash \in [Keys -> Nat] /\ Values \in [Keys -> SUBSET Nat] /\ MaxCapacity \in Nat

VARIABLES
  table,        \* slot -> empty, a key and its value, or a tombstone
  occupied_,
  tombstones_,
  answer,       \* what the last insert or erase returned
  map           \* history: the entries and the answer a map would have

vars == <<table, occupied_, tombstones_, answer, map>>

kEmpty     == [state |-> "empty"]
kTombstone == [state |-> "tombstone"]

Occupied(k, v) == [state |-> "occupied", key |-> k, value |-> v]

Slots(capacity) == 0 .. capacity - 1

capacity_(t) == Cardinality(DOMAIN t)

\* The slot that linear probing for k looks at after d others.
Probe(t, k, d) == (Hash[k] + d) % capacity_(t)

Holds(t, slot, k) == t[slot].state = "occupied" /\ t[slot].key = k

\* Where probing for k ends: distances at which it finds k or an empty slot.
Ends(t, k) == {d \in Slots(capacity_(t)) :
                 \/ t[Probe(t, k, d)] = kEmpty
                 \/ Holds(t, Probe(t, k, d), k)}

locate(t, k) == Probe(t, k, Min(Ends(t, k)))

find(t, k) == IF Holds(t, locate(t, k), k) THEN {t[locate(t, k)].value} ELSE {}

\* The distances of the tombstones on the way.
Passed(t, k) == {d \in 0 .. Min(Ends(t, k)) : t[Probe(t, k, d)] = kTombstone}

\* insert() looks on past a tombstone before it takes the key for absent.
Fresh(t, k) == ~Holds(t, locate(t, k), k)

\* The slot insert() fills for a key that is absent: the first tombstone seen.
Target(t, k) ==
  IF Passed(t, k) = {} THEN locate(t, k) ELSE Probe(t, k, Min(Passed(t, k)))

Reused(t, k) == IF Passed(t, k) = {} THEN 0 ELSE 1

Placed(t, k, v) == [t EXCEPT ![Target(t, k)] = Occupied(k, v)]

EmptyTable(capacity) == [s \in Slots(capacity) |-> kEmpty]

\* The loop of grow(): the live slots of the old table, in order.
Reinserted(old, fresh) ==
  LET upto[n \in 0 .. capacity_(old)] ==
        IF n = 0 THEN fresh
        ELSE IF old[n - 1].state = "occupied"
             THEN Placed(upto[n - 1], old[n - 1].key, old[n - 1].value)
             ELSE upto[n - 1]
  IN  upto[capacity_(old)]

Limit(capacity) == (capacity * 7) \div 10

\* The capacity grow() picks: doubled only if the live keys demand it, and
\* then once is enough, since they were within the limit before.
Grown(capacity, live) ==
  Min({c \in {capacity * 2 ^ i : i \in 0 .. 1} : live <= Limit(c)})

TooFull_live == occupied_ + 1 > Limit(capacity_(table))

\* insert() rebuilds first when live and deleted slots pass the limit.
TooFull == occupied_ + tombstones_ + 1 > Limit(capacity_(table))

\* grow().
grow == Reinserted(table, EmptyTable(Grown(capacity_(table), occupied_ + 1)))

-----------------------------------------------------------------------------
Init ==
  /\ table = EmptyTable(8)
  /\ occupied_ = 0 /\ tombstones_ = 0 /\ answer = FALSE
  /\ map = [entries |-> {}, answer |-> FALSE]

\* The same operations on a set of entries.
Has(k) == \E e \in map.entries : e[1] = k

MapInsert(k, v) ==
  map' = [entries |-> IF Has(k) THEN map.entries ELSE map.entries \cup {<<k, v>>},
          answer |-> ~Has(k)]

MapErase(k) ==
  map' = [entries |-> {e \in map.entries : e[1] # k}, answer |-> Has(k)]

insert(k, v) ==
  LET t     == IF TooFull THEN grow ELSE table
      tombs == IF TooFull THEN 0 ELSE tombstones_
      fresh == Fresh(t, k)
  IN  /\ capacity_(t) <= MaxCapacity
      /\ answer' = fresh
      /\ table' = IF fresh THEN Placed(t, k, v) ELSE t
      /\ occupied_' = IF fresh THEN occupied_ + 1 ELSE occupied_
      /\ tombstones_' = IF fresh THEN tombs - Reused(t, k) ELSE tombs
      /\ MapInsert(k, v)

erase_emptied(k) ==
  LET slot == locate(table, k)
      hit  == Holds(table, slot, k)
  IN  /\ answer' = hit
      /\ table' = IF hit THEN [table EXCEPT ![slot] = kEmpty] ELSE table
      /\ occupied_' = IF hit THEN occupied_ - 1 ELSE occupied_
      /\ MapErase(k)
      /\ UNCHANGED tombstones_

erase(k) ==
  LET slot == locate(table, k)
      hit  == Holds(table, slot, k)
  IN  /\ answer' = hit
      /\ table' = IF hit THEN [table EXCEPT ![slot] = kTombstone] ELSE table
      /\ occupied_' = IF hit THEN occupied_ - 1 ELSE occupied_
      /\ tombstones_' = IF hit THEN tombstones_ + 1 ELSE tombstones_
      /\ MapErase(k)

clear ==
  /\ table' = EmptyTable(capacity_(table))
  /\ occupied_' = 0 /\ tombstones_' = 0
  /\ map' = [map EXCEPT !.entries = {}]
  /\ UNCHANGED answer

Next ==
  \/ \E k \in Keys : erase(k) \/ \E v \in Values[k] : insert(k, v)
  \/ clear

Spec == Init /\ [][Next]_vars

-----------------------------------------------------------------------------
(* Properties.                                                             *)

\* Every probe ends: some slot is always empty, or the loops of locate and
\* insert, which stop only at an empty slot or at the key, would not.
ProbesEnd == \A k \in Keys : Ends(table, k) # {}

\* The table behaves as a map: what find() answers for every key, and what
\* insert and erase returned, is what a set of entries would have answered.
IsAMap ==
  /\ answer = map.answer
  /\ \A k \in Keys : find(table, k) = {e[2] : e \in {x \in map.entries : x[1] = k}}

=============================================================================
