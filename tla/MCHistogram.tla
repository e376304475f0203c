---------------------------- MODULE MCHistogram ----------------------------
(***************************************************************************)
(* Two histograms of each of a few shapes, with words of five bits.        *)
(***************************************************************************)
EXTENDS Histogram, TLC

CONSTANTS h1, h2

\* Fewer bits than there may be; a range below the linear part, one that ends
\* inside a bucket and one that ends with the word.
MCShapes ==
  {[significant_bits |-> b, max_value |-> m] : b \in {0, 3}, m \in {1, 18, 31}}

Symmetry == Permutations(Histograms)

=============================================================================
