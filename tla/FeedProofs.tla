----------------------------- MODULE FeedProofs -----------------------------
(***************************************************************************)
(* Proofs for Feed: whatever the network drops, repeats and reorders, for  *)
(* any number of datagrams, copies, losses and snapshots, GapDetector      *)
(* passes each number once and in order and no loss is silent.             *)
(***************************************************************************)
EXTENDS Feed, SequenceTheorems, TLAPS

\* The types of the detector's state and of its history.
Tracking ==
  /\ started \in BOOLEAN
  /\ expected_ \in Nat /\ gaps_ \in Nat /\ missing_ \in Nat
  /\ base \in [sequence : Nat, gaps : Nat, missing : Nat]
  /\ applied \in Seq(Nat)
  /\ feed_sequence_ \in Nat

\* The number the detector expects is one more than the last it passed, which
\* is not before the snapshot, and a detector that has not been started has
\* seen nothing.
Caught ==
  /\ expected_ = 1 + (IF applied = << >> THEN base.sequence ELSE applied[Len(applied)])
  /\ base.sequence < expected_ /\ base.gaps <= gaps_
  /\ ~started => /\ applied = << >> /\ gaps_ = base.gaps
                 /\ missing_ = base.missing

FInv == Tracking /\ Caught /\ AppliedOnceInOrder /\ NoSilentLoss

-----------------------------------------------------------------------------
\* A feed that has published nothing and a detector that has seen nothing.
LEMMA FeedInit == Init => FInv
BY DEF Init, FInv, Tracking, Caught, AppliedOnceInOrder, NoSilentLoss

\* What Append does to the numbers applied.
LEMMA Appended ==
  ASSUME NEW s \in Seq(Nat), NEW n \in Nat
  PROVE  /\ Append(s, n) \in Seq(Nat) /\ Append(s, n) # << >>
         /\ Len(s) \in Nat /\ Len(Append(s, n)) = Len(s) + 1
         /\ Append(s, n)[Len(Append(s, n))] = n
BY AppendProperties

\* A datagram the detector passes is applied after all the earlier ones.
LEMMA AppendKeepsOrder ==
  ASSUME NEW s \in Seq(Nat), NEW b \in Nat, NEW n \in Nat,
         \A i \in 1 .. Len(s) : s[i] > (IF i = 1 THEN b ELSE s[i - 1]),
         n > (IF s = << >> THEN b ELSE s[Len(s)])
  PROVE  \A i \in 1 .. Len(Append(s, n)) :
           Append(s, n)[i] > (IF i = 1 THEN b ELSE Append(s, n)[i - 1])
OBVIOUS

\* The next number in order extends an unbroken run of numbers.
LEMMA AppendKeepsRun ==
  ASSUME NEW s \in Seq(Nat), NEW b \in Nat, NEW e \in Nat, e >= b + 1,
         s = [i \in 1 .. e - 1 - b |-> b + i]
  PROVE  Append(s, e) = [i \in 1 .. e - b |-> b + i]
<1>1. Len(s) = e - 1 - b /\ e - 1 - b \in Nat
  <2>1. DOMAIN s = 1 .. Len(s) /\ DOMAIN s = 1 .. e - 1 - b /\ Len(s) \in Nat
    OBVIOUS
  <2> QED
    BY <2>1
<1>2. /\ Append(s, e) \in Seq(Nat) /\ Len(Append(s, e)) = e - b
      /\ \A i \in 1 .. Len(s) : Append(s, e)[i] = s[i]
      /\ Append(s, e)[Len(s) + 1] = e
  BY <1>1, AppendProperties
<1>3. \A i \in 1 .. e - b : Append(s, e)[i] = b + i
  <2> TAKE i \in 1 .. e - b
  <2>1. CASE i \in 1 .. Len(s)
    BY <1>1, <1>2, <2>1
  <2>2. CASE i = Len(s) + 1
    BY <1>1, <1>2, <2>2
  <2> QED
    BY <1>1, <2>1, <2>2
<1>4. Append(s, e) = [i \in 1 .. e - b |-> Append(s, e)[i]]
  <2>1. Append(s, e) \in [1 .. Len(Append(s, e)) -> Nat]
    BY ZenonT(30), <1>2, LenProperties
  <2>2. Append(s, e) \in [1 .. e - b -> Nat]
    BY <1>2, <2>1
  <2> QED
    BY <2>2, Zenon
<1> QED
  BY <1>3, <1>4, Zenon

\* observe() from a detector that has been started.
LEMMA ObserveStarted ==
  ASSUME FInv, started, NEW n \in Nat, started' = TRUE,
         observe(n, expected_), UNCHANGED <<base, feed_sequence_>>
  PROVE  FInv'
<1>0. /\ expected_ \in Nat /\ gaps_ \in Nat /\ missing_ \in Nat
      /\ base \in [sequence : Nat, gaps : Nat, missing : Nat]
      /\ applied \in Seq(Nat) /\ Len(applied) \in Nat /\ feed_sequence_ \in Nat
      /\ base.sequence \in Nat /\ base.gaps \in Nat /\ base.missing \in Nat
      /\ base' = base /\ feed_sequence_' = feed_sequence_
  BY DEF FInv, Tracking
<1>1. CASE n = expected_
  <2>1. /\ expected_' = expected_ + 1 /\ gaps_' = gaps_ /\ missing_' = missing_
        /\ applied' = Append(applied, expected_)
    BY <1>1 DEF observe, Classified
  <2>a. /\ applied' \in Seq(Nat) /\ applied' # << >>
        /\ Len(applied') = Len(applied) + 1 /\ applied'[Len(applied')] = expected_
    BY <1>0, <2>1, Appended
  <2>2. Tracking' /\ Caught'
    <3>1. Tracking'
      BY <1>0, <2>1, <2>a DEF Tracking
    <3>2. base.sequence < expected_ /\ base.gaps <= gaps_
      BY DEF FInv, Caught
    <3>3. base.sequence < expected_' /\ base.gaps <= gaps_'
      BY <1>0, <2>1, <3>2
    <3> QED
      BY <1>0, <2>1, <2>a, <3>1, <3>3, <1>1 DEF Caught
  <2>3. AppliedOnceInOrder'
    <3>1. expected_ > (IF applied = << >> THEN base.sequence ELSE applied[Len(applied)])
      BY <1>0 DEF FInv, Tracking, Caught
    <3> QED
      BY SMTT(30), <1>0, <2>1, <3>1, AppendKeepsOrder
         DEF AppliedOnceInOrder, FInv
  <2>4. expected_ >= base.sequence + 1
    BY <1>0 DEF FInv, Caught
  <2>5. gaps_ = base.gaps =>
          applied' = [i \in 1 .. expected_ - base.sequence |-> base.sequence + i]
    BY ZenonT(30), <1>0, <2>1, <2>4, AppendKeepsRun DEF NoSilentLoss, FInv
  <2>6. NoSilentLoss'
    BY <1>0, <2>1, <2>a, <2>5 DEF NoSilentLoss, FInv
  <2> QED
    BY <2>2, <2>3, <2>6 DEF FInv
<1>2. CASE n < expected_
  <2>1. UNCHANGED <<expected_, gaps_, missing_, applied>>
    BY <1>0, <1>2 DEF observe, Classified
  <2> QED
    BY <2>1 DEF AppliedOnceInOrder, NoSilentLoss, FInv, Tracking, Caught
<1>3. CASE n > expected_
  <2>1. /\ expected_' = n + 1 /\ gaps_' = gaps_ + 1
        /\ missing_' = missing_ + (n - expected_)
        /\ applied' = Append(applied, n)
    BY SMTT(30), <1>0, <1>3 DEF observe, Classified, Skipped
  <2>a. /\ applied' \in Seq(Nat) /\ applied' # << >>
        /\ Len(applied') = Len(applied) + 1 /\ applied'[Len(applied')] = n
    BY <1>0, <2>1, Appended
  <2>2. Tracking' /\ Caught'
    <3>1. Tracking'
      BY <1>0, <1>3, <2>1, <2>a DEF Tracking
    <3>2. base.sequence < expected_ /\ base.gaps <= gaps_
      BY DEF FInv, Caught
    <3>3. base.sequence < expected_' /\ base.gaps <= gaps_'
      BY <1>0, <1>3, <2>1, <3>2
    <3> QED
      BY <1>0, <2>1, <2>a, <3>1, <3>3 DEF Caught
  <2>3. AppliedOnceInOrder'
    <3>1. n > (IF applied = << >> THEN base.sequence ELSE applied[Len(applied)])
      BY <1>0, <1>3 DEF FInv, Caught
    <3> QED
      BY SMTT(30), <1>0, <2>1, <3>1, AppendKeepsOrder
         DEF AppliedOnceInOrder, FInv
  <2>4. NoSilentLoss'
    <3>1. gaps_' # base'.gaps
      BY <1>0, <2>1 DEF FInv, Caught
    <3>2. missing_ - base.missing = (expected_ - 1 - base.sequence) - Len(applied)
      BY DEF FInv, NoSilentLoss
    <3>3. missing_' - base.missing = (expected_' - 1 - base.sequence) - Len(applied')
      BY SMTT(30), <1>0, <2>1, <2>a, <3>2
    <3> QED
      BY <1>0, <3>1, <3>3 DEF NoSilentLoss
  <2> QED
    BY <2>2, <2>3, <2>4 DEF FInv
<1> QED
  BY <1>0, <1>1, <1>2, <1>3

\* observe() of the datagram that starts the detector.
LEMMA ObserveFirst ==
  ASSUME FInv, ~started, NEW n \in Nat \ {0}, started' = TRUE,
         observe(n, n), base' = [base EXCEPT !.sequence = n - 1],
         UNCHANGED feed_sequence_
  PROVE  FInv'
<1>1. /\ expected_' = n + 1 /\ gaps_' = gaps_ /\ missing_' = missing_
      /\ applied' = <<n>>
  BY DEF observe, Classified, FInv, Caught
<1>2. base'.sequence = n - 1 /\ base'.gaps = gaps_ /\ base'.missing = missing_
  BY DEF FInv, Tracking, Caught
<1>3. Tracking' /\ Caught'
  BY SMTT(30), <1>1, <1>2 DEF FInv, Tracking, Caught
<1>4. AppliedOnceInOrder'
  BY <1>1, <1>2 DEF AppliedOnceInOrder
<1>5. applied' = [i \in 1 .. expected_' - 1 - base'.sequence |-> base'.sequence + i]
  <2>1. expected_' - 1 - base'.sequence = 1 /\ base'.sequence + 1 = n
    BY <1>1, <1>2
  <2>2. <<n>> = [i \in 1 .. 1 |-> base'.sequence + i]
    BY <2>1
  <2> QED
    BY <1>1, <2>1, <2>2
<1>6. NoSilentLoss'
  BY SMTT(30), <1>1, <1>2, <1>5 DEF NoSilentLoss, FInv, Tracking
<1> QED
  BY <1>3, <1>4, <1>6 DEF FInv

\* Every step of the venue, the network and the subscriber.
LEMMA FeedStep == FInv /\ [Next]_vars => FInv'
<1> SUFFICES ASSUME FInv, [Next]_vars PROVE FInv'
  OBVIOUS
<1> USE FeedAssumption
<1>0. Numbers \subseteq Nat \ {0} /\ MaxPublished \in Nat /\ MaxFills \in Nat
  BY DEF Numbers
<1>1. CASE \E fills \in 0 .. MaxFills : handle(fills)
  BY SMTT(30), <1>0, <1>1
     DEF handle, detector, history, FInv, Tracking, Caught,
                    AppliedOnceInOrder, NoSilentLoss
<1>2. CASE \E n \in Numbers : Drop(n) \/ Duplicated(n)
  <2>1. UNCHANGED <<venue, detector, history>>
    BY <1>2 DEF Drop, Duplicated
  <2> QED
    BY SMTT(30), <2>1 DEF venue, detector, history, FInv, Tracking,
                Caught, AppliedOnceInOrder, NoSilentLoss
<1>3. ASSUME NEW n \in Numbers, drain_feed(n) PROVE FInv'
  <2>1. CASE started
    BY <1>0, <1>3, <2>1, ObserveStarted DEF drain_feed, venue
  <2>2. CASE ~started
    BY <1>0, <1>3, <2>2, ObserveFirst DEF drain_feed, venue
  <2> QED
    BY <2>1, <2>2
<1>4. ASSUME NEW n \in 1 .. feed_sequence_, resynchronise(n) PROVE FInv'
  BY <1>4 DEF resynchronise, venue, FInv, Tracking, Caught,
              AppliedOnceInOrder, NoSilentLoss
<1>5. CASE UNCHANGED vars
  BY SMTT(30), <1>5 DEF vars, venue, detector, history, FInv, Tracking, Caught,
              AppliedOnceInOrder, NoSilentLoss
<1> QED
  BY <1>1, <1>2, <1>3, <1>4, <1>5 DEF Next

\* The inductive invariant holds in every reachable state.
LEMMA FeedInvariant == Spec => []FInv
BY FeedInit, FeedStep, PTL DEF Spec

\* The detector passes each number once and in order, and none a snapshot
\* already reflects (GapDetector::observe and resynchronise), for any bounds.
THEOREM OnceInOrder == Spec => []AppliedOnceInOrder
<1>1. FInv => AppliedOnceInOrder
  BY DEF FInv
<1> QED
  BY <1>1, FeedInvariant, PTL

\* No gap reported means nothing was passed over, and missing() is exact
\* (GapDetector::observe), for any number of losses, copies and snapshots.
THEOREM LossesAreCounted == Spec => []NoSilentLoss
<1>1. FInv => NoSilentLoss
  BY DEF FInv
<1> QED
  BY <1>1, FeedInvariant, PTL

=============================================================================
