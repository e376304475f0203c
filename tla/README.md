# A TLA+ model of exchange-core

exchange-core is a single-threaded exchange: clients send orders over TCP, a
matching engine checks, journals and executes them against a price-time
priority book, and market data goes out over UDP. This directory holds TLA+
modules that model its parts, the TLC configurations that check them on small
instances, and TLAPS proofs about the book, the engine around it, the risk
limits, order entry and the feed.
`PROJECT.json` lists the components, runs, mutants, source lines, hazards and
theorems.

## 1. The system

```
 clients --TCP--> TcpGateway --> Venue::handle --> MatchingEngine
                     ^  EventLoop                   |  1. kill switch, risk check
                     |                              |  2. sequence number, journal
                     +------ acks, executions ------+  3. OrderBook
                                                    |  4. settle risk, listeners
 subscribers <--UDP-- UdpPublisher <-- Venue <------+
     GapDetector                      JournalReader / replay after a crash
```

Everything on the command path runs on one thread, so a command is never
interleaved with another. What is hard lies elsewhere: the long sequences of
commands a book must survive, the state spread over index, queues, ladder and
risk counters, crashes inside an append, datagrams in any order, and sockets
that change between an event and its handling.

| part | state | operations | hard behaviour |
|---|---|---|---|
| order book | index, level queues, cached totals, ladder, trade ids | submit, cancel, replace, depth | priority under amendment, five self-trade policies, fill-or-kill decided in advance, refusals half-way |
| matching engine | books, sequence number, fills and withdrawals of the command | add_instrument, submit, cancel, replace, restore_sequence | order of gates, numbering, journaling, execution and settlement |
| risk engine | per account: open orders, working quantity, position, rate budget | check, on_order_rested, on_fill, on_working_released, on_order_closed | counters drifting from the book |
| kill switch | venue and account halts, runs of rejects | halt, resume, record_reject, record_accept | trip exactly on the threshold, never block cancels |
| journal writer | file, buffer, segment size, healthy flag | open, append, flush, sync, roll_segment, close | death or failure between any two of these |
| journal reader | none | read, truncate_to | tell torn, damaged, gap and clean apart |
| price ladder | three bitmaps per side | at, erase, best, next | summaries agreeing with words |
| order pool, price level | slab, free list, doubly linked queue | acquire, release, push_back, unlink | stale links after reuse |
| flat hash map | slots, tombstones, counters | insert, find, erase, clear, grow | probes ending, keys unique |
| feed | feed sequence, expected number, gap counters | publish, receive, observe, resynchronise | loss, duplication, reordering, silence |
| venue | current connection, feed sequence, configured accounts | handle, publish_market_data, listener callbacks | replies and feed agreeing with the book |
| replayer | position, restored number | apply, replay | the same book from the records alone |
| histogram | bucket counts, count, sum, extremes | record, merge, reset, value_at | ranks and bucket edges, empty merges |
| gateway, event loop | connections by id and by descriptor, interests, buffers | poll, accept, read, write, send, close | descriptor reuse, partial reads and writes, hang-ups |

Not modelled: CRC and byte layout, build information, applications,
web bridge, benchmarks and fuzzers (section 6).

## 2. Modules

| module | models | notes |
|---|---|---|
| `OrderBook` | `src/core/order_book.cpp` | one step per iteration of the matching loop; `pc` says how far a command is |
| `PriorityBook` | what a book promises | abstract: a set of orders, one taker, the trades printed |
| `MatchingEngine` | `matching_engine.cpp`, `risk_engine.cpp`, `kill_switch.cpp` | extends `OrderBook`; gates, journaling and settlement around the book's own steps |
| `Journal` | `writer.cpp`, `reader.cpp`, `record.cpp` | the stages of an append, crashes and restarts |
| `PriceLadder` | `price_ladder.hpp` | words are sets of bits |
| `FlatHashMap` | `flat_hash_map.hpp` | slots and linear probing |
| `OrderPool` | `order_pool.cpp`, `price_level.cpp` | nodes and their links |
| `BookSide` | one side of the book as stored | extends `PriceLadder` and `OrderPool`, which move together |
| `Feed` | feed side of `venue.cpp`, `udp_feed.cpp`, `gap_detector.hpp` | the network holds a bag of datagrams |
| `Gateway` | `tcp_gateway.cpp`, `event_loop.cpp`, sessions of `venue.cpp` | peers and kernel included |
| `Venue` | `venue.cpp`, listener calls of `matching_engine.cpp`, `depth()` | extends `MatchingEngine`; one session per account, what each is told, what the feed shows |
| `Replay` | `replayer.cpp`, `record.cpp` (payloads), `state_digest.cpp` | extends `Venue`; the records of the live run, then a fresh engine fed from them |
| `RiskLimits` | arithmetic of `risk_engine.cpp`, message rate | words up to `kMax`, with wrapping and casts |
| `Histogram` | `histogram.cpp` | buckets of a small word |
| `OrderBookProofs` | | lemmas and theorems about `OrderBook` |
| `PriorityProofs` | | `OrderBook` implements `PriorityBook` |
| `SumLemmas` | | sums over finite sets and lists, with no state |
| `EngineProofs` | | what a command reports; theorems about `MatchingEngine` |
| `GatewayLemmas`, `GatewayProofs` | | what each step does to the invariant of `Gateway`; the theorems |
| `RiskLimitsProofs`, `FeedProofs` | | theorems about `RiskLimits` and `Feed` |
| `MC*` | | instances, symmetry and the step that marks a bound as reached |

Composition: `MatchingEngine` extends `OrderBook`, `Venue` extends
`MatchingEngine` and `Replay` extends `Venue`, so the engine's behaviour includes
every step of the book, the venue's every step of the engine, and a replay runs
the book again on what the venue journaled. `OrderBook` implements
`PriorityBook` under a refinement mapping that looks only at the index: queues, ladder and loop are
what has to get priority right. `BookSide` drives ladder and slab together, the
way `rest()`, `match()` and `cancel()` do: the first order at a price makes its
level, the last one to leave erases it. `OrderBook` uses what these structures
and the map promise: a function from ids to orders, a sequence per level, and
the best price of a set.

Operators whose name is a definition's name and a suffix (`crosses_strictly`,
`unlink_front`) are mutated forms of it. No specification uses them; each stands
for a plausible slip in the code and makes the property it is paired with in
`PROJECT.json` fail.

### How state and actions correspond to the code

*OrderBook.* `orders` is `index_` with `pool_`, `queue` and `total` are the
levels, `occupied` the ladder. `Submit`, `Cancel` and `Replace*` start the
calls. `insert()` is the step `Insert` and its refusals, then the matching loop
runs (one fill or one self-trade decision per step) and `Settle` rests or drops
the remainder; at `return` the result is available, and `Return` ends the call.
`filledBy` and `before` are history. Price and quantity inputs include invalid
ones. Trade ids, timestamps and the instrument id are left out.

*MatchingEngine.* A command is turned away, not journaled, or admitted; admitted
commands run the book's steps; `SettleFill` and `SettleWithdrawal` are the loop
of `settle_risk`, and `Finish*` the end of each call. Listeners only observe.
An account without configured limits has the widest limits, as the defaults are
numeric maxima. The rate limit is at its default, off, and products are exact
integers: both are the subject of `RiskLimits`. `drift` is history: by how much,
and why, an account's counters may differ from what it has resting.

*RiskLimits.* `consume_rate_budget` with a clock that never goes back and may
stand still, and the notional, collar and position checks in the machine's
words, whose largest is `kMax`: products and sums wrap there, casts to signed
reinterpret, a signed sum wraps as in the build, and the tests that come before
or after a product are those of the code. An order within the rate is charged
whatever the limits say, one over the rate is not. The interval is the second
divided by the rate, rounded down, so a rate that does not divide the second
admits slightly more than it says. Setups (limits, exposure, reference price) are
chosen at the start: the state machine that produces exposures is `MatchingEngine`.

*Venue.* `handle` takes a message of one session and starts the engine's call;
when the engine returns, `Replied` sends what the listener callbacks send to the
session and publishes a trade per fill and the touch or the depth. `believed` is
what each account can work out from its replies. Executions go to the session
that sent the command only, so the owner of the resting order is not told. A
refused cancel or amendment is not answered. The acknowledgement of a new order
carries the quantity before its fills and that of an amendment the quantity
after them; executions follow both. Messages of other types, and for an
instrument that is not listed, change no state and are left out. Numbering of
the datagrams is in `Feed`, partial writes of the replies in `Gateway`.

*Replay.* While `mode` is live, `Noted` keeps the record of every command that
was journaled, as a type and a payload (`encode_payload`), and the replies of
those that ran. Of an append that fails the record may be in the file or not.
`Stop` ends the run between two commands, saves the digest and
starts from a fresh engine without risk, kill switch or journal. `apply` decodes
the next record, restores its number, and runs the command; the definition of
the instrument is the first record. Which records survive a crash, and in what
order they are read, is `Journal`.

*Histogram.* `record`, `merge` and `reset` on histograms of one shape, with
index and bucket bounds computed as in the code. `llround` of a percentile is
exact here; the code computes it in doubles. The sum wraps at the word.

*Journal.* A record is two cells, so a write, a kill or a power cut can stop
inside it. `append` fills the buffer and schedules stages (flush, persist,
create); each stage can be interrupted or fail. `Restart` is what an operator
does: read, optionally truncate, optionally `restore_sequence`, open. The
constants `Truncates` and `Resumes` say which; `Venue::start` does neither, and
the tests of the replayer do both. `Environment` says what may happen to a
behaviour: kills, power cuts, failing system calls, or all of them. `mishaps` is
history: a write that stopped inside the buffer, a buffer then written again, a
power cut that took what a later run had continued from. Assumed of the kernel: fsync also
persists the directory entry, a completed truncation is not undone by a power
cut, and a power cut leaves some beginning of what was not persisted (no
reordered pages, no zero fill). A checksum tells a damaged record from a whole
one. A cut inside a header counts as an incomplete record.

*Feed.* `handle` publishes a datagram per fill and one for the depth; a publish
that is refused consumes its number. `network` counts copies in flight.
`drain_feed` is the subscriber's loop, one datagram per step. The counters
`in_order_` and `duplicates_`, which nothing reads but a report, are left out.

*Gateway.* A pass takes a snapshot of the ready descriptors and services them in
any order while peers go on. A message is two cells, a reply one unit. The
kernel hands out the lowest free descriptor; with `Crowded`, `accept()` may also
fail for want of one although peers wait, and they are left for a later pass.
Whether a FIN is reported as a
hang-up differs between epoll and kqueue and is a free choice. The handler sends
its replies one at a time through `send()`, as the venue's listeners do.

## 3. Runs that pass

| run | instance | shows |
|---|---|---|
| `book_kinds` | 3 ids, 2 ticks and 1 invalid price, 4 commands, no prevention | index, queues and ladder agree, the book is never crossed, time priority holds |
| `book_prevention` | 2 accounts and orders without one, 4 policies, 4 commands | every lost unit is in one fill or withdrawal and removals are flagged, fills add up, fill-or-kill is all or nothing, `OrderBook` implements `PriorityBook` |
| `engine_exposure` | 2 configured accounts, 3 ids, 4 commands, post-only orders, halts of the venue, failing journal | limits on open orders hold; open orders are those that rest and those a refused amendment removed; working quantity is what rests, more by at most what such amendments stranded and less by at most what the account took; positions add up to zero |
| `venue` | 2 sessions, 3 ids, 3 commands, sweeps past the published level, halts of an account, auto-trip at 2, collar, failing journal, touch or one level; then a replay | the feed shows the book after every message, prints only what it had shown on offer; no account has more resting than its replies say; replay rebuilds the book and the replies, and has at most the command of a failed append more; trips on time; every command returns |
| `journal` | 4 commands, 2 restarts; kills, power cuts and failing calls together | acknowledged records stay on the disk under Always, crashes only tear the tail and truncation leaves a clean journal, a kill loses only the buffer, reading is in order; the two mishaps that are excepted are in section 4 |
| `book_side` | 9 ticks in 2-bit words, both directions, 3 nodes | links spell the queues both ways with exact counts and totals, the slab is partitioned, a walk visits the occupied prices best first |
| `map` | 8 keys that can fill 8 slots, colliding, growth to 16 | behaves as a map; probes end |
| `feed` | 4 datagrams, 2 losses, 2 copies, 1 snapshot | nothing applied twice or out of order, no silent loss, exact count of missing |
| `gateway_sessions` | 3 peers, 2 slots, 2 messages of 2 replies, partial drains, slow readers, resets, `accept()` failing | tables agree, events and replies reach their own connection |
| `gateway_service` | 2 peers, 2 messages of 5 kinds, slow readers, hang-ups | messages in order, hang-ups lose nothing; everyone is served, replies are delivered |
| `risk` | rates that do and do not divide the second, bursts of 0 to 3, 4 admissions; words of 4 bits, limits, prices, quantities and exposures throughout them | the rate limiter admits no more than burst and elapsed time earn and refuses nothing else; notional and collar decide as whole numbers would, and so does the position check of an account with room to add |
| `histogram` | 2 histograms, 3 samples each, several shapes, values at bucket edges and past the range | buckets, counts, extremes and the sum, modulo the word, are those of the samples; percentiles are never low and less than a bucket high |

Why the bounds are enough to meet the interesting cases: four commands build two
levels or a queue of two, hit it with a sweep or an amendment and follow up;
nine ticks in two-bit words give three bitmap levels with a partly used last word; two
restarts allow a crash in a run that itself followed a crash; three commands on
two sessions give a rest, an amendment or partial fill, and a command that meets
the result, before the replay; three peers on two
slots force refusal and descriptor reuse within one pass, and four replies to a
socket with room for one a partial drain and a slow reader. Every bound is a
constant of its module. Each property also fails under a mutated definition, so
each run reaches the states its properties speak about.

What some properties do not say.

- `ReplayRebuildsTheBook` compares the books once all that was executed has been
  replayed, and the numbers only one way: a failed append spends a number that no
  record may have, so the live engine may be ahead of the replayed one. A record
  that such an append left behind is replayed after that (`Journal_failing`,
  section 4).
- `ExposureFollowsTheBook` has the two ways in which the counters leave the book
  as terms, rather than excluding the commands that cause them: fills as
  aggressor (`Engine_working`) and an order that a refused amendment removed
  (`Engine_amendment`).
- `AcknowledgedSurvive`, `CrashesOnlyTear` and `KillLosesOnlyTheBuffer` except
  the mishap that `Journal_both` shows, and `CrashesOnlyTear` also the one of
  `Journal_failing`: by the event itself, not by what the environment may do.
- `LimitsAreExact` has no condition for the collar and the limits on size, but
  that the collar refuses, whatever its width, a price so far from the reference
  that the deviation times 10000 would not fit. Of the position it speaks when
  the account is inside `max_position` and `2 * max_position +
  max_order_quantity` fits a signed word; otherwise the check can fail
  (`RiskLimits_position`).
- `RefusesOnlyExcess` reads "charged even for rejected messages"
  (`docs/risk.md:71`) as its test has it: messages that other limits reject are
  charged, messages over the rate are not.
- `EveryoneIsServed` and `RepliesAreDelivered` hold with bounded traffic: a peer
  that never stops sending keeps the others waiting (section 6).
- `PercentilesErrUpwards` bounds the error by the width of a bucket, which is
  0.2% at the default of ten significant bits and 25% at three.

Fairness. `Replay`: weak fairness of the steps of a command under way, live or
replayed, as a call on one thread runs on. `Journal`: the same for the
stages of a call. `Gateway`: weak fairness of the loop's steps (the venue polls
for ever) and of each peer reading its replies; nothing is assumed about peers
sending or hanging up. `Feed`: what is in flight and not dropped arrives.
Deadlock is checked in every run; `AtBound` and `Stopped` are the only places
where a model, not the program, may stop.

## 4. Disagreements between code and documentation

In each of these configurations TLC finds the stated property violated by what
the code does: `tlc -config <cfg> <module>`, with `-continue` where a
configuration appears twice. They are kept beside the runs, as what to look at
when the code or the text changes.

| configuration, module | property, and where it is said | what happens |
|---|---|---|
| `Engine_amendment`, `MCMatchingEngine` | `RefusedAmendmentLeavesOrder`; `matching_engine.cpp:327`, `tests/test_replace.cpp:156` | amending a post-only order to a crossing price removes it (`order_book.cpp:470`) and then refuses the amendment; the engine restores exposure for an order that is gone |
| `Gateway_final`, `MCGateway` | `FinalOrdersHandled`; `tcp_gateway.cpp:390` | a failed reply (`tcp_gateway.cpp:319`) drops orders already received from a client that hung up |
| `Engine_working`, `MCMatchingEngine` | `WorkingMatchesBook`; `exposure.hpp:14` | a fill as aggressor also lowers the working quantity of the account's other, resting orders (`risk_engine.cpp:224`) |
| `Engine_position`, `MCMatchingEngine` | `PositionWithinLimit`; `limits.hpp:38` | amendments skip the risk check (`matching_engine.cpp:322`), so a position can exceed its limit |
| `Journal_none`, `MCJournal` | `NoneSurvivesKill`; `writer.hpp:20` | under None an acknowledged record can still be in the process's buffer (`writer.cpp:199`) |
| `Journal_torn`, `MCJournal` | `TornTailIsTheEnd`; `reader.hpp:18` | an incomplete record in an earlier segment is reported as a torn tail (`reader.cpp:103`) |
| `Journal_fresh`, `MCJournal` | `GapMeansLoss`; `reader.hpp:34` | a venue restarted on its journal numbers from 1 (`venue.cpp:20`), which reads as a gap with nothing missing |
| `Journal_failing`, `MCJournal` | `RefusedNeverReplayed`; `docs/determinism.md:44` | a refused command whose bytes reached the file before the sync failed is replayed (`writer.cpp:204`) |
| `Journal_both`, `MCJournal` | `AcknowledgedAreRecovered`; `writer.hpp:31`, `docs/demo.md:28` | under Always, a kill leaves a record written but not persisted; the restart numbers past it (`writer.cpp:105` starts a new segment without persisting the old one), a power cut loses it, and acknowledged records stand behind a gap |
| `Journal_failing`, `MCJournal` | `DamageIsAtTheEnd`; `docs/failure-modes.md:85`, `writer.cpp:165` | after a write that failed inside a record, `close()` flushes the whole buffer again (`writer.cpp:252`): part of a record stands before its copy, and reading reports damage there |
| `RiskLimits_position`, `MCRiskLimits` | `PositionLimitHolds`; `docs/risk.md:32`, `limits.hpp:38` | nothing bounds a quantity when `max_order_quantity` is unset, so an order of 2^63 lots makes the projected position negative (`exposure.hpp:24`) and passes `max_position` |
| `Journal_interval`, `MCJournal` | `IntervalPersists`; `writer.hpp:51` | the last record before a quiet period is never persisted under Interval (`writer.cpp:195`) |
| `Feed_late`, `MCFeed` | `DuplicatesWereSeen`; `gap_detector.hpp:23` | a late datagram is classed as a duplicate although never seen (`gap_detector.hpp:50`) |
| `Feed_quiet`, `MCFeed` | `LossIsNoticed`; `docs/failure-modes.md:153`, `docs/protocol.md:177` | no heartbeat is sent (`venue.cpp:111`), so a loss before silence goes unnoticed |
| `Histogram_docs`, `MCHistogram` | `NeverLower`; `histogram.hpp:23`, "a reported latency is never lower than the true one" | a percentile whose rank rounds to zero reports the ceiling of bucket zero, and one of samples all past the range reports 0 (`histogram.cpp:101`, `histogram.cpp:120`) |
| `Histogram_docs`, `MCHistogram` | `ThreeBitsGiveSixPercent`; `histogram.hpp:28`, "3 bits gives about 6%" | with three significant bits a bucket is up to a quarter of its values wide (`histogram.cpp:13`), and a percentile can be high by that much |
| `Gateway_buffer`, `MCGateway` | `BufferCompacted`; `tcp_gateway.cpp:22` | a full socket returns (`tcp_gateway.cpp:253`) before the compaction, which is then unreachable (the threshold is one reply here) |

## 5. Proofs

### The book

`OrderBookProofs` proves for every set of ids, accounts, orders, policies and
prices, and for any bound on commands:

- `BookInvariant`: `Spec => []IInv`, the inductive invariant;
- `BookNeverCrossed`, `IndexAgrees`, `TimePriority`, `FillsAgree`, which
  `book_kinds` and `book_prevention` also check, and `TypeCorrect`,
  `PostOnlySafe`, `CommandAgrees`: its conjuncts.

`PriorityProofs` proves `BookImplementsPriority`: `Spec => PriceTimePriority`,
the refinement of `PriorityBook` that `book_prevention` checks.

The assumptions are those of `BookAssumption`: inputs have their types, tick and
lot size are positive. The refinement adds that the value standing for "no order"
is not an order (`ViewAssumption`).

The argument. None of the properties is inductive alone. That the book is not
crossed after a remainder rests needs the matching loop to have emptied every
crossing level, hence that a level exists exactly where an order rests
(`IndexMatchesLevels`). Time priority needs the incoming order to be newer than
all that rests, and the fill counts need to know what it carries from before an
amendment: both are in `CommandConsistent`, which ties the command under way to
the book. `IInv` is the conjunction of all seven. The first lemmas show what the
three changes of a book do to its part of the invariant: taking quantity from a
queued order, removing one, resting one. One lemma per action cites these, and
`StepKeeps` joins them.

The refinement rests on `IInv`. `FrontIsFirst` is its core: the front of the best
level is ahead of every other order of its side, because the ladder has a level
wherever an order rests (`IndexMatchesLevels`), the best price bounds them all,
and a level is in order of arrival (`ArrivalOrder`). `NothingIsLeft` is the
converse at the end of the loop: when it stops, the aggressor accepts no price
that is left. `TakeFromSeen` says what a loss looks like through the mapping, and
one lemma per action names the step of `PriorityBook` it is:

| book | `PriorityBook` |
|---|---|
| `Submit`, refusals | nothing visible |
| `Cancel`, an amendment that takes effect | `Withdraw` |
| `Insert`, when accepted | `Arrive` |
| `Fill` | `Trade` |
| the four policies | `Prevent` |
| `Settle` | `Rest` or `Leave` |
| `Return` | `Clear` |

### What the book reports, and the engine around it

`EngineProofs` proves, for every set of ids, accounts, orders, policies, limits
and halts, with a journal that may or may not fail:

- `LossesReported`: `Spec => []LossesAccounted`, checked by `book_prevention`.
  Whatever a resting order loses to another command is in exactly one fill or
  withdrawal, and it has left the book exactly when one of them says so;
- `EngineKeepsTheBook`: under `EngineSpec`, with the engine's gates, journal and
  settlement around it, the book keeps `NeverCrossed`, `IndexMatchesLevels`,
  `ArrivalOrder` and `LossesAccounted`;
- `PositionsAddUp`: `EngineSpec => []PositionsBalance`, which `engine_exposure`
  checks;
- `RejectsTripTheHalt`: `EngineSpec => []RunTripsHalt`, which `venue` checks.

The assumptions are `BookAssumption` and `EngineAssumption`: the constants have
their types, and there are finitely many accounts.

The argument. `MatchEffect` is what one iteration of the matching loop does to
the book and to its report together: either neither changes, or one fill or one
withdrawal is appended, the order it names loses that quantity and no other order
loses any (`IterationMatches`, for `Fill` and the four policies). So for each order
that was resting, what is left of it, what the fills say it traded and what the
withdrawals say it lost add up to what it had (`LossMoved`), and it is gone
exactly when the last entry about it says so. Both need `IInv`: the order at the
front is live and its id is its own. The engine's steps either are the book's or
leave the book alone (`EngineMovesBook`), which carries `IInv` and the accounting
over to `EngineSpec`.

Positions move in pairs: a fill that is settled adds its quantity to one account
and takes it from another, or both from the same one, so the sum stays
(`FillBalances`). That both accounts have a state needs every order and every
fill to name an account (`Accounted`) and the accounts to be configured, which
the property supposes; `PositionsSound` is the
conjunction that is inductive. For the kill switch it is `KillSound`:
`record_reject` is the only step that lengthens a run, and it halts the account
in the step that reaches the threshold; a resumed account starts its run anew.

`SumLemmas` proves what this needs about `SumFunctionOnSet` for any finite set: a
sum does not depend on the order in which it takes its terms (`SameSums`), it
grows by a term that is added (`SumMore`), a list's quantity for an order grows by
its last entry (`QuantityMore`), and a sum stays when one term gives what another
takes (`SumMoves`). These are inductions over finite sets. The provers cannot
instantiate an induction principle's predicate, so `NatSets` and `FiniteSubsets`
state it with a set of sets in its place.

### The risk limits

`RiskLimitsProofs` proves for every rate, burst, word size, setup and command
(`RiskAssumption`: the types and ranges of the configuration):

- `RateIsBounded`: `RateBound`, no stretch of an account's orders is denser
  than burst and elapsed time allow;
- `RateIsTight`: `RefusesOnlyExcess`, a refusal is owed to such a stretch;
- `LimitsHold`: `LimitsAreExact`, with the condition on the position limit that
  section 3 describes.

The rate theorems rest on what the theoretical arrival time means: it is the
latest of `admitted[i] + (n - i) * interval` over the orders admitted so far, so
it bounds every stretch and is attained by one. The limits are no induction: they
follow, for any state, from lemmas on the wrapped product (`NoWrap`), on dividing
back (`DividesBack`), on signed sums (`NoSignedWrap`) and one lemma per check. For
the position, an account inside its limit has at most `2 * max_position` working
on a side, so that with one more order every sum stays in the signed word.

### Order entry

`GatewayLemmas` and `GatewayProofs` prove for any number of peers, descriptors, messages and
buffer sizes (`GatewayAssumption`):

- `GatewaySound`: `Spec => []GatewayInv`, the inductive invariant;
- `TablesStayInStep` (`TablesAgree`), `EventsFindTheirConnection`
  (`EventsReachTheirConnection`) and `RepliesAreTheSenders`
  (`RepliesReachTheirSender`), which `gateway_sessions` checks;
- `MessagesAreHandledInOrder` (`MessagesArriveInOrder`) and
  `FinishingLosesNothing` (`HangUpLosesNothing`), which `gateway_service` checks.

The argument. `EventsAreCurrent` is why a descriptor that is closed and reused in
the middle of a pass does no harm: a pass has at most one event per descriptor,
the event of the connection being serviced is gone, and accepting comes from an
event of its own, so an event that is left is about the peer that has the
descriptor now. For a connection, the cells handled, buffered and still in the
socket are what the peer sent (`InboundSound`), except that a reset may have
destroyed the end; a buffer holds a whole message only while it is decoded, so a
FIN seen with nothing left to read means that all was handled. Likewise what the
peer has got, what the kernel holds and what the gateway has yet to write are the
replies `send()` accepted (`OutboundSound`). `Sessions` says that a peer connects
once and has one descriptor.

### The feed

`FeedProofs` proves `AppliedOnceInOrder` (`OnceInOrder`) and `NoSilentLoss`
(`LossesAreCounted`) for any number of datagrams, copies, losses and snapshots.
The strengthening says that the expected number is one past the last number
applied, or past the snapshot when there is none, and that gaps only grow.

### Only model-checked

Liveness and `ENABLED`, which are out of the prover's reach (`venue` and
`gateway_service` check it). The engine's `OpenOrderLimit` and
`ExposureFollowsTheBook`: they compare risk counters with sums over the index, and an
invariant would have to follow both through every stage of a settlement under
way. Fill-or-kill (`FillOrKillAllOrNothing`): `fillable` walks the levels by a
recursive function, and what it computes for every book would need induction over
data. So do the modules `FlatHashMap` (probing), `BookSide` (links and bitmaps),
`Histogram` (ranks) and `Journal` (reading back a file record by record). `Venue`
and `Replay` extend `MatchingEngine` with sessions and records, and their
properties compare whole histories; the theorems are about the engine's own
specification.

## 6. Not modelled, and why

- Several instruments: books are independent and share only the sequence number
  and the risk counters.
- The hash of the state digest: `digest` is the state it covers, and equal
  digests stand for equal states.
- The price-to-index arithmetic of the ladder (one subtraction and division of
  validated prices) and its `clear()`, which the book never calls.
- Gateway: failures inside `start()`, `stop()`, the limit of 256 events per wait,
  `EINTR`, and `disconnect()`, which the venue never calls. A peer that never stops sending
  keeps `read_ready` looping; messages are bounded here.
- Opening, binding and joining the feed's sockets: system calls in sequence, an
  error of any of which ends the start.
- Journal: segment names and their limit, reordered pages.
- Byte layout of messages and records, CRC: formatting. Verdicts of the decoders
  on cut and damaged input are modelled (`Gateway`, `Journal`).
- Allocation counters, build information, applications, web bridge, benchmarks,
  fuzzers: no protocol state, or drivers of what is modelled that draw orders at
  random and print.
