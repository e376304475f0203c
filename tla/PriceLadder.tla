---------------------------- MODULE PriceLadder ----------------------------
(***************************************************************************)
(* The ladder that finds the best price of one side of a book: one bit per *)
(* tick in l0_, one bit per word of l0_ in l1_, one bit per word of l1_ in *)
(* l2_ (src/include/xc/core/price_ladder.hpp).                             *)
(*                                                                         *)
(* A word is the set of its one-bits; WordBits is 64 in the code.          *)
(***************************************************************************)
EXTENDS Integers, FiniteSetsExt

CONSTANTS
  TickCount,   \* ticks in the instrument's band
  WordBits     \* bits in a word of the bitmaps

ASSUME LadderAssumption == TickCount \in Nat \ {0} /\ WordBits \in Nat \ {0, 1}

VARIABLES
  Descending,  \* the template parameter: TRUE for bids
  l0_, l1_, l2_,
  occupied_    \* number of occupied levels

ladderVars == <<Descending, l0_, l1_, l2_, occupied_>>

kNpos == -1

Indices == 0 .. TickCount - 1

\* The words that hold n bits.
Words(n) == 0 .. (n + WordBits - 1) \div WordBits - 1

W0 == Words(TickCount)
W1 == Words(Cardinality(W0))
W2 == Words(Cardinality(W1))

-----------------------------------------------------------------------------
(* Searching.                                                              *)

above(bit) == bit + 1 .. WordBits - 1
below(bit) == 0 .. bit - 1

\* The first bit of a word in traversal order: highest or lowest.
First(word) == IF Descending THEN Max(word) ELSE Min(word)

\* The bits of a word that traversal reaches after this one.
Rest(word, bit) == word \cap (IF Descending THEN below(bit) ELSE above(bit))

from_l1(w1) ==
  LET w0 == w1 * WordBits + First(l1_[w1])
  IN  w0 * WordBits + First(l0_[w0])

from_l2(w2) == from_l1(w2 * WordBits + First(l2_[w2]))

\* The first of some words of l2_ with a bit set leads to the level.
FromTop(words) ==
  LET some == {w \in words : l2_[w] # {}}
  IN  IF some = {} THEN kNpos ELSE from_l2(First(some))

best_occupied == IF occupied_ = 0 THEN kNpos ELSE FromTop(W2)

next_occupied_skips(index) ==
  LET w0    == index \div WordBits
      w1    == w0 \div WordBits
      rest0 == Rest(l0_[w0], index % WordBits)
      rest1 == Rest(l1_[w1], w0 % WordBits)
      next0 == w1 * WordBits + First(rest1)
      w2    == w1 \div WordBits
  IN  IF rest0 # {} THEN w0 * WordBits + First(rest0)
      ELSE IF rest1 # {} THEN next0 * WordBits + First(l0_[next0])
      ELSE FromTop({w \in W2 : IF Descending THEN w < w2 ELSE w > w2})

\* Outward, one level of summary at a time.
next_occupied(index) ==
  LET w0    == index \div WordBits
      w1    == w0 \div WordBits
      w2    == w1 \div WordBits
      rest0 == Rest(l0_[w0], index % WordBits)
      rest1 == Rest(l1_[w1], w0 % WordBits)
      rest2 == Rest(l2_[w2], w1 % WordBits)
      next0 == w1 * WordBits + First(rest1)
  IN  IF rest0 # {} THEN w0 * WordBits + First(rest0)
      ELSE IF rest1 # {} THEN next0 * WordBits + First(l0_[next0])
      ELSE IF rest2 # {} THEN from_l1(w2 * WordBits + First(rest2))
      ELSE FromTop({w \in W2 : IF Descending THEN w < w2 ELSE w > w2})

test(index) == index % WordBits \in l0_[index \div WordBits]

-----------------------------------------------------------------------------
(* Operations.                                                             *)

\* configure().
LadderInit ==
  /\ Descending \in BOOLEAN
  /\ l0_ = [w \in W0 |-> {}] /\ l1_ = [w \in W1 |-> {}]
  /\ l2_ = [w \in W2 |-> {}]
  /\ occupied_ = 0

set(index) ==
  LET w0 == index \div WordBits
      w1 == w0 \div WordBits
      w2 == w1 \div WordBits
  IN  /\ l0_' = [l0_ EXCEPT ![w0] = @ \cup {index % WordBits}]
      /\ l1_' = [l1_ EXCEPT ![w1] = @ \cup {w0 % WordBits}]
      /\ l2_' = [l2_ EXCEPT ![w2] = @ \cup {w1 % WordBits}]

\* clear_bit(): a summary bit goes only when the word below has emptied.
clear_bit(index) ==
  LET w0 == index \div WordBits
      w1 == w0 \div WordBits
      w2 == w1 \div WordBits
  IN  /\ l0_' = [l0_ EXCEPT ![w0] = @ \ {index % WordBits}]
      /\ IF l0_'[w0] # {} THEN UNCHANGED <<l1_, l2_>>
         ELSE /\ l1_' = [l1_ EXCEPT ![w1] = @ \ {w0 % WordBits}]
              /\ IF l1_'[w1] # {} THEN UNCHANGED l2_
                 ELSE l2_' = [l2_ EXCEPT ![w2] = @ \ {w1 % WordBits}]

\* operator[]: the level at a price of the band, marked as occupied.
Occupy(index) ==
  /\ IF test(index) THEN UNCHANGED <<l0_, l1_, l2_, occupied_>>
     ELSE set(index) /\ occupied_' = occupied_ + 1
  /\ UNCHANGED Descending

\* erase() of the level an iterator points at.
erase(index) ==
  /\ test(index)
  /\ clear_bit(index)
  /\ occupied_' = occupied_ - 1
  /\ UNCHANGED Descending

-----------------------------------------------------------------------------
(* Properties.                                                             *)

\* The ladder of these levels starts at the best of them, and iteration from
\* each goes to the next one in price order; kNpos is end().
Walks(levels) ==
  /\ best_occupied = IF levels = {} THEN kNpos ELSE First(levels)
  /\ \A index \in levels :
       LET later == {i \in levels : IF Descending THEN i < index ELSE i > index}
       IN  next_occupied(index) = IF later = {} THEN kNpos ELSE First(later)

=============================================================================
