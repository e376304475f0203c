------------------------------ MODULE Journal ------------------------------
(***************************************************************************)
(* The write-ahead journal: JournalWriter appends one record per command   *)
(* to segment files, JournalReader reads them back after the process died, *)
(* and the next run continues in a new segment                             *)
(* (src/src/journal/writer.cpp, reader.cpp, record.cpp).                   *)
(*                                                                         *)
(* A record is two cells, so that a write or a power cut can stop inside   *)
(* it.  The writer runs on the matching thread; an append is a list of     *)
(* stages (write the buffer, persist the file, create a segment), and the  *)
(* process may die between any two of them.                                *)
(*                                                                         *)
(*   ready -append-> stages -...-> ready     ready -close-> stages -> down *)
(*   anywhere -Kill, PowerLoss-> down        down -Restart-> ready         *)
(***************************************************************************)
EXTENDS Integers, Sequences, FiniteSetsExt

CONSTANTS
  Durabilities,   \* the Durability settings the writer may be configured with
  SegmentCells,   \* WriterConfig::segment_bytes
  BufferCells,    \* WriterConfig::buffer_bytes
  MaxCommands,    \* bound: commands issued in one behaviour, over all runs
  MaxRestarts,    \* bound: runs after the first
  Environment,    \* what may go wrong: the process may be killed ("kill"), the
                  \* machine lose power ("power"), and write(), fsync() and
                  \* open() fail ("fail")
  Truncates,      \* does the operator truncate a torn tail before a restart?
  Resumes         \* is restore_sequence() called before a restarted run?

AllDurabilities == {"None", "Interval", "Always"}

ASSUME JournalAssumption ==
  /\ Durabilities \subseteq AllDurabilities
  /\ SegmentCells \in Nat \ {0} /\ BufferCells \in Nat \ {0}
  /\ MaxCommands \in Nat /\ MaxRestarts \in Nat
  /\ Environment \subseteq {"kill", "power", "fail"}
  /\ {Truncates, Resumes} \subseteq BOOLEAN

VARIABLES
  durability,     \* config_.durability
  files,          \* the segment files: their cells, how many are persisted,
                  \* and (history) the run that opened them
  open,           \* fd_ # -1
  buffer_,        \* encoded cells not yet written
  written,        \* write_all's progress through the buffer
  segment_size_,
  healthy_,
  stages,         \* what is left of the call under way
  call,           \* the call under way, "none", or "down" without a process
  sequence,       \* the engine's sequence_
  status,         \* what became of each command, in the order of issue
  restarts,
  mishaps         \* history: "halfway", this run's last write stopped inside the
                  \* buffer; "rewritten", the buffer was then written again;
                  \* "hollowed", a power cut took records that a later run had
                  \* continued from

setup == <<durability, restarts>>
files_and_status == <<files, status>>
writerVars == <<open, buffer_, written, segment_size_, healthy_, stages, call>>
vars == <<setup, writerVars, files_and_status, sequence, mishaps>>

-----------------------------------------------------------------------------
(* Records and the reader.                                                 *)

Cell == [sequence : Nat, command : Nat, part : 1 .. 2]

\* encode: a header cell and a payload cell.
encode(s, c) == << [sequence |-> s, command |-> c, part |-> 1],
                   [sequence |-> s, command |-> c, part |-> 2] >>

\* decode, of the i-th record of a segment.  A record that lacks its end is
\* incomplete; one whose bytes are not those of one record fails its checksum.
decode(cells, i) ==
  IF Len(cells) < 2 * i THEN "Incomplete"
  ELSE IF SubSeq(cells, 2 * i - 1, 2 * i)
            = encode(cells[2 * i - 1].sequence, cells[2 * i - 1].command)
       THEN "Ok" ELSE "Corrupt"

\* The number expected of the first record of segment s: everything before
\* it has been read by then.
expected(fs, s) ==
  1 + MapThenSumSet(LAMBDA t : Len(fs[t].cells), 1 .. s - 1) \div 2

Good_unnumbered(fs, s) ==
  LET cells == fs[s].cells
  IN  Max({k \in 0 .. Len(cells) \div 2 :
             \A i \in 1 .. k : decode(cells, i) = "Ok"})

\* How many records of segment s are visited before the reader stops.
Good(fs, s) ==
  LET cells == fs[s].cells
  IN  Max({k \in 0 .. Len(cells) \div 2 :
             \A i \in 1 .. k :
               /\ decode(cells, i) = "Ok"
               /\ cells[2 * i].sequence = expected(fs, s) + i - 1})

\* JournalReader::read: the report on a journal, with the commands visited.
read(fs) ==
  LET bad  == {s \in 1 .. Len(fs) : 2 * Good(fs, s) # Len(fs[s].cells)}
      stop == Min(bad)
      upto == IF bad = {} THEN Len(fs) ELSE stop
      next == decode(fs[stop].cells, Good(fs, stop) + 1)
  IN  [outcome |-> IF bad = {} THEN "Clean"
                   ELSE IF next = "Incomplete" THEN "TornTail"
                   ELSE IF next = "Corrupt" THEN "Damaged"
                   ELSE "SequenceGap",
       segment |-> IF bad = {} THEN 0 ELSE stop,
       good |-> IF bad = {} THEN 0 ELSE 2 * Good(fs, stop),
       last_sequence |-> MapThenSumSet(LAMBDA s : Good(fs, s), 1 .. upto),
       visited |-> UNION {{fs[s].cells[2 * i] : i \in 1 .. Good(fs, s)} :
                            s \in 1 .. upto}]

usable(report) == report.outcome \in {"Clean", "TornTail"}

\* truncate_to the offset the report names.
truncate_to(fs, report) ==
  [fs EXCEPT ![report.segment].cells = SubSeq(@, 1, report.good),
             ![report.segment].durable = Min({@, report.good})]

-----------------------------------------------------------------------------
(* The writer.                                                             *)

NewSegment(run) == [cells |-> << >>, durable |-> 0, run |-> run]

Init ==
  /\ durability \in Durabilities
  /\ files = <<NewSegment(0)>>
  /\ open = TRUE /\ buffer_ = << >> /\ written = 0
  /\ segment_size_ = 0 /\ healthy_ = TRUE
  /\ stages = << >> /\ call = "none"
  /\ sequence = 0 /\ status = << >> /\ restarts = 0 /\ mishaps = {}

\* sync_now: the clock decides under Interval.
SyncNow == {sync_now \in BOOLEAN :
              /\ durability = "Always" => sync_now
              /\ durability = "None" => ~sync_now}

StagesOf_flushOnly(size, buffered, sync_now) ==
  (IF buffered >= BufferCells \/ sync_now THEN <<"flush">> ELSE << >>) \o
  (IF size >= SegmentCells THEN <<"flush", "persist", "create">> ELSE << >>)

StagesOf_rollUnsynced(size, buffered, sync_now) ==
  (IF buffered >= BufferCells \/ sync_now THEN <<"flush">> ELSE << >>) \o
  (IF sync_now THEN <<"persist">> ELSE << >>) \o
  (IF size >= SegmentCells THEN <<"flush", "create">> ELSE << >>)

\* The stages of append() after the record is in the buffer.
StagesOf(size, buffered, sync_now) ==
  (IF buffered >= BufferCells \/ sync_now THEN <<"flush">> ELSE << >>) \o
  (IF sync_now THEN <<"persist">> ELSE << >>) \o
  (IF size >= SegmentCells THEN <<"flush", "persist", "create">> ELSE << >>)

Accepting == healthy_ /\ open

\* The engine numbers a command and appends its record.
append ==
  /\ call = "none" /\ Len(status) < MaxCommands
  /\ sequence' = sequence + 1
  /\ IF ~Accepting
     THEN /\ status' = Append(status, "refused")
          /\ UNCHANGED writerVars
     ELSE \E sync_now \in SyncNow :
            LET cells == buffer_ \o encode(sequence + 1, Len(status) + 1)
            IN  /\ buffer_' = cells
                /\ segment_size_' = segment_size_ + 2
                /\ stages' = StagesOf(segment_size_ + 2, Len(cells), sync_now)
                /\ status' = Append(status, "pending")
                /\ call' = "append"
                /\ UNCHANGED <<open, written, healthy_>>
  /\ UNCHANGED <<setup, files, mishaps>>

\* close(), from Venue::stop or the destructor, and the end of the process.
close ==
  /\ call = "none"
  /\ call' = "close"
  /\ stages' = IF open THEN <<"flush", "persist", "exit">> ELSE <<"exit">>
  /\ UNCHANGED <<setup, files_and_status, open, buffer_, written,
                 segment_size_, healthy_, sequence, mishaps>>

At(stage) == stages # << >> /\ Head(stages) = stage

Current == Len(files)

write_all_short ==
  /\ At("flush") /\ buffer_ # << >>
  /\ \E n \in 1 .. Len(buffer_) :
       files' = [files EXCEPT ![Current].cells = @ \o SubSeq(buffer_, 1, n)]
  /\ buffer_' = << >> /\ stages' = Tail(stages)
  /\ UNCHANGED <<setup, open, written, segment_size_, healthy_, call,
                 sequence, status, mishaps>>

\* write(): some of the buffer reaches the file.
write_all ==
  /\ At("flush") /\ buffer_ # << >>
  /\ \E n \in 1 .. Len(buffer_) - written :
       /\ files' = [files EXCEPT ![Current].cells =
                      @ \o SubSeq(buffer_, written + 1, written + n)]
       /\ IF written + n = Len(buffer_)
          THEN buffer_' = << >> /\ written' = 0 /\ stages' = Tail(stages)
          ELSE written' = written + n /\ UNCHANGED <<buffer_, stages>>
  /\ mishaps' = IF "halfway" \in mishaps
                THEN (mishaps \ {"halfway"}) \cup {"rewritten"} ELSE mishaps
  /\ UNCHANGED <<setup, open, segment_size_, healthy_, call, sequence, status>>

\* flush() of an empty buffer.
NothingToFlush ==
  /\ At("flush") /\ buffer_ = << >>
  /\ stages' = Tail(stages)
  /\ UNCHANGED <<setup, files_and_status, open, buffer_, written,
                 segment_size_, healthy_, call, sequence, mishaps>>

persist ==
  /\ At("persist")
  /\ files' = [files EXCEPT ![Current].durable = Len(files[Current].cells)]
  /\ stages' = Tail(stages)
  /\ UNCHANGED <<setup, open, buffer_, written, segment_size_, healthy_,
                 call, sequence, status, mishaps>>

\* The end of roll_segment: the next file.
create ==
  /\ At("create")
  /\ files' = Append(files, NewSegment(restarts))
  /\ segment_size_' = 0
  /\ stages' = Tail(stages)
  /\ UNCHANGED <<setup, open, buffer_, written, healthy_, call, sequence,
                 status, mishaps>>

\* A system call fails.  append() gives up and the command is refused, with
\* the record still in the buffer or already in the file; close() goes on.
fail ==
  /\ "fail" \in Environment
  /\ \/ At("flush") /\ buffer_ # << >>
     \/ At("persist")
     \/ At("create")
  /\ written' = 0
  /\ open' = (open /\ ~At("create"))
  /\ healthy_' = (healthy_ /\ At("persist") /\ call = "close")
  /\ IF call = "append"
     THEN /\ status' = [status EXCEPT ![Len(status)] = "refused"]
          /\ stages' = << >> /\ call' = "none"
     ELSE stages' = Tail(stages) /\ UNCHANGED <<status, call>>
  /\ mishaps' = IF written > 0 THEN mishaps \cup {"halfway"} ELSE mishaps
  /\ UNCHANGED <<setup, files, buffer_, segment_size_, sequence>>

\* append() returns true.
Acknowledge ==
  /\ call = "append" /\ stages = << >>
  /\ status' = [status EXCEPT ![Len(status)] = "acked"]
  /\ call' = "none"
  /\ UNCHANGED <<setup, files, open, buffer_, written, segment_size_,
                 healthy_, stages, sequence, mishaps>>

\* The process is gone and with it the buffer.
Dies ==
  /\ open' = FALSE /\ buffer_' = << >> /\ written' = 0
  /\ stages' = << >> /\ call' = "down"
  /\ UNCHANGED <<setup, segment_size_, healthy_, sequence, status>>

LeavesFiles == UNCHANGED files /\ mishaps' = mishaps \ {"halfway"}

Exit == At("exit") /\ Dies /\ LeavesFiles

Kill == "kill" \in Environment /\ call # "down" /\ Dies /\ LeavesFiles

Unpersisted(f) == Len(f.cells) - f.durable

\* Of what was not persisted, each file keeps some beginning.
PowerLoss ==
  /\ "power" \in Environment
  /\ call = "down" => \E s \in 1 .. Len(files) : Unpersisted(files[s]) > 0
  /\ Dies
  /\ LET most == Max({Unpersisted(files[s]) : s \in 1 .. Len(files)})
     IN  \E lost \in [1 .. Len(files) -> 0 .. most] :
           /\ \A s \in 1 .. Len(files) : lost[s] <= Unpersisted(files[s])
           /\ files' = [s \in 1 .. Len(files) |->
                          LET kept == Len(files[s].cells) - lost[s]
                          IN  [files[s] EXCEPT !.cells = SubSeq(@, 1, kept),
                                               !.durable = kept]]
           /\ mishaps' = (mishaps \ {"halfway"}) \cup
                {"hollowed" : s \in {t \in 1 .. Len(files) :
                   /\ lost[t] > 0
                   /\ \E u \in t + 1 .. Len(files) :
                        files[u].run > files[t].run /\ files'[u].cells # << >>}}

Recovered(fs) == {v.command : v \in read(fs).visited}

\* The next run.  open() starts a segment after the last one.  What is done
\* before it is left to whoever operates the venue: Venue::start() only opens,
\* and numbers from 1; with Resumes and Truncates the journal is read, a torn
\* tail cut off and the last number restored, as the tests do it.
Restart ==
  /\ call = "down" /\ restarts < MaxRestarts
  /\ LET report == read(files)
     IN  /\ Resumes => usable(report)
         /\ files' = Append(IF Truncates /\ report.outcome = "TornTail"
                            THEN truncate_to(files, report) ELSE files,
                            NewSegment(restarts + 1))
         /\ sequence' = IF Resumes THEN report.last_sequence ELSE 0
         /\ status' = [c \in 1 .. Len(status) |->
                         IF c \in Recovered(files) \/ status[c] = "refused"
                         THEN status[c] ELSE "lost"]
  /\ open' = TRUE /\ healthy_' = TRUE /\ segment_size_' = 0
  /\ call' = "none" /\ restarts' = restarts + 1
  /\ mishaps' = mishaps \ {"rewritten"}
  /\ UNCHANGED <<durability, buffer_, written, stages>>

-----------------------------------------------------------------------------
Stage == write_all \/ NothingToFlush \/ persist \/ create \/ Acknowledge \/ Exit

Next == append \/ close \/ Stage \/ fail \/ Kill \/ PowerLoss \/ Restart

Spec == Init /\ [][Next]_vars

\* A call that was started runs on: the writer never waits for anyone.
FairSpec == Spec /\ WF_vars(Stage)

-----------------------------------------------------------------------------
(* Properties.                                                             *)

Acked == {c \in 1 .. Len(status) : status[c] = "acked"}

\* The commands with a whole record in the part of a file that is persisted.
Persisted(fs) ==
  {c \in 1 .. Len(status) :
     \E s \in 1 .. Len(fs) : \E k \in 1 .. fs[s].durable - 1 :
       \E n \in 1 .. MaxCommands : SubSeq(fs[s].cells, k, k + 1) = encode(n, c)}

\* Under Durability::Always the record of a command whose append() returned
\* true is on the disk from then on, through kills, power cuts, failing calls
\* and restarts; and reading finds it, but for one case: a power cut has taken
\* records of an earlier run, which was killed between write and fsync and then
\* continued by another, so that reading stops at the hole (append, open).
AcknowledgedSurvive ==
  durability = "Always" =>
    /\ Acked \subseteq Persisted(files)
    /\ "hollowed" \notin mishaps => Acked \subseteq Recovered(files)

\* Reading visits each number up to the last once and in the engine's order,
\* over any number of runs and also when close() writes a second time what a
\* failed flush() had half written.
RecoveredInOrder ==
  LET report == read(files)
  IN  /\ {v.sequence : v \in report.visited} = 1 .. report.last_sequence
      /\ \A v, w \in report.visited :
           v.sequence < w.sequence <=> v.command < w.command

\* Whatever moments kills, power cuts and failing calls pick, over several
\* runs, the journal they leave is clean or torn at its end, with two
\* exceptions: close() has written a second time what a failed write had half
\* written, or a power cut has taken what a later run had continued from.  But
\* for the second, truncating a torn segment where the report says leaves a
\* journal that reads clean and holds the same commands (append, close, open).
CrashesOnlyTear ==
  LET report == read(files)
      after  == read(truncate_to(files, report))
  IN  /\ mishaps \subseteq {"halfway"} =>
           /\ usable(report)
           /\ report.outcome = "TornTail" =>
                \A s \in report.segment + 1 .. Len(files) : files[s].cells = << >>
      /\ report.outcome = "TornTail" /\ "hollowed" \notin mishaps =>
           after.outcome = "Clean" /\ after.visited = report.visited

\* While the journal is healthy, and reading does not stop at a hole that a
\* power cut has left, a kill would lose no more of what was acknowledged than
\* the user-space buffer holds (append, flush).
KillLosesOnlyTheBuffer ==
  call # "down" /\ healthy_ /\ "hollowed" \notin mishaps =>
    \A c \in Acked \ Recovered(files) :
      \E i \in 1 .. Len(buffer_) : buffer_[i].command = c

-----------------------------------------------------------------------------
(* What the documentation says and the code does not do.                   *)

\* Durability::None "survives the process being killed".
NoneSurvivesKill ==
  durability = "None" /\ call = "down" => Acked \subseteq Recovered(files)

\* TornTail: "the journal stops part-way through its final record".
TornTailIsTheEnd ==
  LET report == read(files)
  IN  report.outcome = "TornTail" =>
        \A s \in report.segment + 1 .. Len(files) : files[s].cells = << >>

\* Under Durability::Always a record is persisted before append returns, so
\* "every acknowledged command" is recovered.
AcknowledgedAreRecovered ==
  durability = "Always" => Acked \subseteq Recovered(files)

\* A short or failed write does not leave a truncated record "in the middle of
\* the journal", where reading calls it damage.
DamageIsAtTheEnd == read(files).outcome # "Damaged"

\* SequenceGap "has exactly one meaning -- records are missing".
GapMeansLoss ==
  read(files).outcome = "SequenceGap" =>
    \E c \in Acked : \A s \in 1 .. Len(files) :
      \A i \in 1 .. Len(files[s].cells) : files[s].cells[i].command # c

\* "What the journal holds is exactly the stream the book saw": a command
\* that was refused is not in it.
RefusedNeverReplayed == \A c \in Recovered(files) : status[c] # "refused"

\* Under Interval a record is persisted within the interval, so eventually.
IntervalPersists ==
  durability = "Interval" /\ Acked # {} ~>
    \A s \in 1 .. Len(files) : Unpersisted(files[s]) = 0 /\ buffer_ = << >>

=============================================================================
