------------------------------- MODULE Feed --------------------------------
(***************************************************************************)
(* The market data feed: the venue numbers and publishes datagrams         *)
(* (src/src/venue.cpp, net/udp_feed.cpp), a network that may drop,         *)
(* duplicate and reorder them, and a subscriber that tracks continuity     *)
(* with GapDetector (src/include/xc/protocol/gap_detector.hpp).            *)
(***************************************************************************)
EXTENDS Integers, Sequences, FiniteSets

CONSTANTS
  MaxFills,     \* bound: fills of one command
  MaxPublished, \* bound: sequence numbers the feed consumes
  MaxCopies,    \* bound: copies of one datagram in flight
  MaxLosses,    \* bound: datagrams dropped, by the sender or the network
  MaxSyncs      \* bound: snapshots the subscriber takes

ASSUME FeedAssumption ==
  {MaxFills, MaxPublished, MaxCopies, MaxLosses, MaxSyncs} \subseteq Nat

VARIABLES
  feed_sequence_,   \* Venue: the last number consumed
  network,          \* copies in flight of each datagram
  losses,           \* datagrams refused by sendto() or dropped
  started,          \* whether the detector has been given its first number
  expected_, gaps_, missing_,
  last,             \* what observe() last returned, and of which datagram
  \* History.
  received,         \* the numbers the subscriber has received
  base,             \* where tracking last (re)started, and the counts then
  applied,          \* the numbers not dropped as duplicates since then
  syncs

venue == <<feed_sequence_>>
detector == <<started, expected_, gaps_, missing_, last>>
history == <<received, base, applied, syncs>>
vars == <<venue, network, losses, detector, history>>

Checks == {"InOrder", "Gap", "Duplicate"}

Numbers == 1 .. MaxPublished

\* A subscriber there from the start begins at 1; one that joins a running
\* feed begins at the first number it receives.
Init ==
  /\ feed_sequence_ = 0
  /\ network = [n \in Numbers |-> 0] /\ losses = 0
  /\ started \in BOOLEAN
  /\ expected_ = 1 /\ gaps_ = 0 /\ missing_ = 0
  /\ last = [check |-> "InOrder", sequence |-> 0, seen |-> FALSE]
  /\ received = {} /\ applied = << >> /\ syncs = 0
  /\ base = [sequence |-> 0, gaps |-> 0, missing |-> 0]

-----------------------------------------------------------------------------
\* publish(): a datagram is handed to sendto() or refused, an oversized one or
\* a full socket, which is counted and never retried.
publish(numbers) ==
  \E sent \in SUBSET numbers :
    LET refused == Cardinality(numbers \ sent)
    IN  /\ losses + refused <= MaxLosses
        /\ losses' = losses + refused
        /\ network' = [n \in Numbers |-> IF n \in sent THEN 1 ELSE network[n]]

\* handle(): a datagram for each fill of the command and one for the book
\* after it, each with its own number, consumed also when publish() refuses.
handle(fills) ==
  /\ feed_sequence_ + fills + 1 <= MaxPublished
  /\ publish(feed_sequence_ + 1 .. feed_sequence_ + fills + 1)
  /\ feed_sequence_' = feed_sequence_ + fills + 1
  /\ UNCHANGED <<detector, history>>

\* The network.
Drop(n) ==
  /\ network[n] > 0 /\ losses < MaxLosses
  /\ network' = [network EXCEPT ![n] = @ - 1] /\ losses' = losses + 1
  /\ UNCHANGED <<venue, detector, history>>

Duplicated(n) ==
  /\ network[n] \in 1 .. MaxCopies - 1
  /\ network' = [network EXCEPT ![n] = @ + 1]
  /\ UNCHANGED <<venue, losses, detector, history>>

-----------------------------------------------------------------------------
\* observe(), given the number the detector expects.
Classified_lenient(sequence, expected) ==
  IF sequence >= expected THEN "InOrder" ELSE "Duplicate"

Classified_repeats(sequence, expected) ==
  IF sequence \in expected - 1 .. expected THEN "InOrder"
  ELSE IF sequence < expected THEN "Duplicate" ELSE "Gap"

Classified(sequence, expected) ==
  IF sequence = expected THEN "InOrder"
  ELSE IF sequence < expected THEN "Duplicate" ELSE "Gap"

Skipped(sequence, expected) == sequence - expected

observe(sequence, expected) ==
  LET check == Classified(sequence, expected)
  IN  /\ last' = [check |-> check, sequence |-> sequence,
                  seen |-> sequence \in received]
      /\ expected_' = CASE check = "InOrder" -> expected + 1
                        [] check = "Gap" -> sequence + 1
                        [] check = "Duplicate" -> expected
      /\ gaps_' = IF check = "Gap" THEN gaps_ + 1 ELSE gaps_
      /\ missing_' = IF check = "Gap" THEN missing_ + Skipped(sequence, expected)
                     ELSE missing_
      /\ applied' = IF check = "Duplicate" THEN applied ELSE Append(applied, sequence)

\* receive(): the next datagram of the socket, whole: the buffer is as large as
\* the largest one published.
receive(n) ==
  /\ network[n] > 0
  /\ network' = [network EXCEPT ![n] = @ - 1]

\* A datagram reaches the subscriber, which starts the detector at the first.
drain_feed(n) ==
  /\ receive(n)
  /\ started' = TRUE
  /\ IF started THEN observe(n, expected_) /\ UNCHANGED base
     ELSE observe(n, n) /\ base' = [base EXCEPT !.sequence = n - 1]
  /\ received' = received \cup {n}
  /\ UNCHANGED <<venue, losses, syncs>>

\* A snapshot valid as of some published number replaces what was applied.
resynchronise(sequence) ==
  /\ started /\ syncs < MaxSyncs
  /\ expected_' = sequence + 1
  /\ base' = [sequence |-> sequence, gaps |-> gaps_, missing |-> missing_]
  /\ applied' = << >> /\ syncs' = syncs + 1
  /\ UNCHANGED <<venue, network, losses, started, gaps_, missing_, last, received>>

Next ==
  \/ \E fills \in 0 .. MaxFills : handle(fills)
  \/ \E n \in Numbers : Drop(n) \/ Duplicated(n) \/ drain_feed(n)
  \/ \E n \in 1 .. feed_sequence_ : resynchronise(n)

Spec == Init /\ [][Next]_vars

\* What is in flight and not dropped arrives.
Fairness == \A n \in Numbers : WF_vars(drain_feed(n))

-----------------------------------------------------------------------------
(* Properties.                                                             *)

\* Whatever the network repeats or reorders, and whenever a snapshot is taken,
\* observe() passes each number once, in order, and none that the snapshot
\* already reflects.
AppliedOnceInOrder ==
  \A i \in 1 .. Len(applied) :
    applied[i] > (IF i = 1 THEN base.sequence ELSE applied[i - 1])

\* A subscriber that has been told of no gap since it last synchronised has
\* applied every datagram from there to the last one it applied; and missing()
\* counts exactly the numbers that were passed over.
NoSilentLoss ==
  /\ gaps_ = base.gaps =>
       applied = [i \in 1 .. expected_ - 1 - base.sequence |-> base.sequence + i]
  /\ missing_ - base.missing = (expected_ - 1 - base.sequence) - Len(applied)

\* GapDetector's Duplicate is documented as "Already seen": a datagram of the
\* stream since the subscriber joined, dropped as such, was received before.
DuplicatesWereSeen ==
  last.check = "Duplicate" /\ last.sequence > base.sequence => last.seen

\* Once a number has been published, a connected subscriber eventually receives
\* it or notices that it is missing: a quiet feed can be told from a dead one.
LossIsNoticed ==
  \A n \in Numbers : (started /\ feed_sequence_ >= n) ~> (expected_ > n)

=============================================================================
