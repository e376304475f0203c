----------------------------- MODULE Histogram -----------------------------
(***************************************************************************)
(* The log-linear latency histogram (src/src/util/histogram.cpp): threads  *)
(* each record into one of their own, and one is merged into another to    *)
(* combine their results.  Percentiles are whole numbers, and their ranks  *)
(* are computed exactly rather than in doubles.                            *)
(***************************************************************************)
EXTENDS Integers, FiniteSets, FiniteSetsExt

CONSTANTS
  Histograms,   \* the histograms, all of one shape as merge() asserts
  Shapes,       \* what the constructor may be given
  Values,       \* what may be recorded
  Percentiles,  \* what value_at() may be asked
  WordBits,     \* 64
  MaxSamples    \* bound on the samples of one histogram

ASSUME HistogramAssumption ==
  /\ WordBits \in Nat \ {0} /\ MaxSamples \in Nat
  /\ Values \subseteq 0 .. 2^WordBits - 1
  /\ \A s \in Shapes : s.max_value \in 0 .. 2^WordBits - 1

VARIABLES
  shape,    \* the constructor's arguments
  hist,     \* the histograms
  samples   \* history: how often each value was recorded, or merged in

histVars == <<shape, hist, samples>>

-----------------------------------------------------------------------------
(* The shape and its buckets.                                              *)

Larger(a, b)  == IF a > b THEN a ELSE b
Smaller(a, b) == IF a < b THEN a ELSE b

significant_bits_ == Larger(2, Smaller(20, shape.significant_bits))

sub_bucket_half_count_ == 2^significant_bits_ \div 2

max_value_ == Larger(shape.max_value, 2^significant_bits_)

\* 63 - countl_zero: the place of the highest bit.
Magnitude(n) == Cardinality({b \in 1 .. WordBits - 1 : 2^b <= n})

\* Or-ing the mask in keeps small values in bucket zero.
index_for(value) ==
  LET bucket == Magnitude(Larger(value, 2^significant_bits_ - 1))
                  - (significant_bits_ - 1)
      sub    == value \div 2^bucket
  IN  IF bucket = 0 THEN sub
      ELSE (bucket + 1) * sub_bucket_half_count_ + (sub - sub_bucket_half_count_)

Indices == 0 .. index_for(max_value_)

BucketOf(index) ==
  (index - 2 * sub_bucket_half_count_) \div sub_bucket_half_count_ + 1

lowest_value_at(index) ==
  LET sub == (index % sub_bucket_half_count_) + sub_bucket_half_count_
  IN  IF index < 2 * sub_bucket_half_count_ THEN index
      ELSE IF BucketOf(index) >= WordBits THEN max_value_
      ELSE sub * 2^BucketOf(index)

highest_value_at(index) ==
  IF index < 2 * sub_bucket_half_count_ THEN index
  ELSE IF BucketOf(index) >= WordBits THEN max_value_
  ELSE lowest_value_at(index) + 2^BucketOf(index) - 1

-----------------------------------------------------------------------------
Empty ==
  [counts |-> [i \in Indices |-> 0],
   count |-> 0, total |-> 0, min |-> 0, max |-> 0, overflow |-> 0]

Init ==
  /\ shape \in Shapes
  /\ hist = [h \in Histograms |-> Empty]
  /\ samples = [h \in Histograms |-> [v \in Values |-> 0]]

\* The sum of the values wraps; a run long enough to wrap a count is out of
\* reach.
Word(n) == n % 2^WordBits

\* A value past the range is counted apart, but for the maximum.
Recorded(s, value) ==
  IF value > max_value_
  THEN [s EXCEPT !.overflow = @ + 1, !.max = Larger(@, value)]
  ELSE [s EXCEPT !.counts[index_for(value)] = @ + 1,
                 !.count = @ + 1,
                 !.total = Word(@ + value),
                 !.max = Larger(@, value),
                 !.min = IF s.count = 0 \/ value < @ THEN value ELSE @]

Sampled(h) == MapThenSumSet(LAMBDA v : samples[h][v], Values)

record(h, value) ==
  /\ Sampled(h) < MaxSamples
  /\ hist' = [hist EXCEPT ![h] = Recorded(@, value)]
  /\ samples' = [samples EXCEPT ![h][value] = @ + 1]
  /\ UNCHANGED shape

reset(h) ==
  /\ hist' = [hist EXCEPT ![h] = Empty]
  /\ samples' = [samples EXCEPT ![h] = [v \in Values |-> 0]]
  /\ UNCHANGED shape

\* The minimum of an empty histogram is not a sample.
MergedMin(s, other) ==
  IF \/ s.count + other.count = other.count
     \/ other.count > 0 /\ other.min < s.min
  THEN other.min ELSE s.min

Merged_smallest(s, other) ==
  [counts |-> [i \in Indices |-> s.counts[i] + other.counts[i]],
   count |-> s.count + other.count,
   total |-> Word(s.total + other.total),
   min |-> Smaller(s.min, other.min),
   max |-> Larger(s.max, other.max),
   overflow |-> s.overflow + other.overflow]

Merged(s, other) ==
  [counts |-> [i \in Indices |-> s.counts[i] + other.counts[i]],
   count |-> s.count + other.count,
   total |-> Word(s.total + other.total),
   min |-> MergedMin(s, other),
   max |-> Larger(s.max, other.max),
   overflow |-> s.overflow + other.overflow]

merge(h, other) ==
  /\ other # h
  /\ Sampled(h) + Sampled(other) <= MaxSamples
  /\ hist' = [hist EXCEPT ![h] = Merged(@, hist[other])]
  /\ samples' =
       [samples EXCEPT ![h] = [v \in Values |-> @[v] + samples[other][v]]]
  /\ UNCHANGED shape

Next ==
  \E h \in Histograms :
    \/ \E v \in Values : record(h, v)
    \/ \E other \in Histograms : merge(h, other)
    \/ reset(h)

Spec == Init /\ [][Next]_histVars

-----------------------------------------------------------------------------
(* What is read from a histogram.                                          *)

\* llround(percentile / 100 * n)
Rounded(percentile, n) == (2 * percentile * n + 100) \div 200

target_inRange(s, percentile) == Rounded(percentile, s.count)

\* Samples past the range rank above all others.
target(s, percentile) == Rounded(percentile, s.count + s.overflow)

Seen(s, i) == MapThenSumSet(LAMBDA j : s.counts[j], 0 .. i)

value_at(s, percentile) ==
  LET reached == {i \in Indices : Seen(s, i) >= target(s, percentile)}
  IN  IF s.count = 0 THEN 0
      ELSE IF percentile <= 0 THEN s.min
      ELSE IF percentile >= 100 \/ reached = {} THEN s.max
      ELSE Smaller(highest_value_at(Min(reached)), s.max)

-----------------------------------------------------------------------------
(* Properties.                                                             *)

AtMost(h, v) ==
  MapThenSumSet(LAMBDA w : samples[h][w], {w \in Values : w <= v})

\* The sample at a rank, counted from one, when the samples are sorted.
Ranked(h, rank) == Min({v \in Values : AtMost(h, v) >= rank})

\* The rank of a percentile; the first sample if it rounds to none.
RankOf(h, percentile) == Larger(1, Rounded(percentile, Sampled(h)))

\* The percentiles err in one direction only: one is never below the sample
\* that a sort of everything recorded and merged would give, even with samples
\* past the range, and above it by less than a bucket, which is narrower than
\* the sample over half a sub-bucket count (value_at): 0.2% of it with the
\* default of ten bits, 25% with three.  A rank that rounds to zero, and a
\* histogram with nothing in range, are excepted.
PercentilesErrUpwards ==
  \A h \in Histograms, p \in Percentiles :
    hist[h].count > 0 /\ (p > 0 => target(hist[h], p) > 0) =>
      LET exact    == Ranked(h, RankOf(h, p))
          reported == value_at(hist[h], p)
      IN  /\ exact <= reported
          /\ exact <= max_value_ /\ p < 100 =>
               (reported - exact) * sub_bucket_half_count_ <= exact

\* A histogram is that of its samples, whatever was recorded where and merged
\* when, empty histograms included: each bucket, the counts, what a word holds
\* of the sum that the mean is taken of, the minimum in range and the maximum
\* of all.
SummarisesItsSamples ==
  \A h \in Histograms :
    LET s == hist[h]
        held == {v \in Values : samples[h][v] > 0}
        inRange == {v \in held : v <= max_value_}
    IN  /\ \A i \in Indices :
             s.counts[i] = MapThenSumSet(LAMBDA v : samples[h][v],
                             {v \in inRange : lowest_value_at(i) <= v
                                                /\ v <= highest_value_at(i)})
        /\ s.count = MapThenSumSet(LAMBDA v : samples[h][v], inRange)
        /\ s.overflow = Sampled(h) - s.count
        /\ s.total = Word(MapThenSumSet(LAMBDA v : v * samples[h][v], inRange))
        /\ inRange # {} => s.min = Min(inRange)
        /\ held # {} => s.max = Max(held)

\* "3 bits gives about 6%" (histogram.hpp), with a generous reading of about.
ThreeBitsGiveSixPercent ==
  significant_bits_ = 3 =>
    \A h \in Histograms, p \in Percentiles :
      hist[h].count > 0 /\ p < 100 /\ target(hist[h], p) > 0 =>
        LET exact == Ranked(h, RankOf(h, p))
        IN  exact <= max_value_ =>
              (value_at(hist[h], p) - exact) * 100 <= 10 * exact

\* "A reported latency is never lower than the true one" (histogram.hpp), also
\* with few samples.
NeverLower ==
  \A h \in Histograms, p \in Percentiles :
    Sampled(h) > 0 => Ranked(h, RankOf(h, p)) <= value_at(hist[h], p)

=============================================================================
