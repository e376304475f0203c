------------------------------- MODULE Replay -------------------------------
(***************************************************************************)
(* A venue that may be stopped at any step, and the replay of its journal  *)
(* into a fresh engine (src/src/journal/replayer.cpp).  The replaying      *)
(* engine has no risk engine, no kill switch and no journal: it trusts the *)
(* journal to hold what was admitted, in order, with the numbers it had.   *)
(*                                                                         *)
(* Every record that was appended is read back: what a crash may do to the *)
(* end of the file is the subject of Journal.  So may be the record of the *)
(* append that failed, whose command was refused: its bytes can be in the  *)
(* file when fsync or opening the next segment fails.  The instrument is   *)
(* defined by the first record, before any command is numbered.            *)
(***************************************************************************)
EXTENDS Venue

S == INSTANCE SequencesExt

CONSTANT NotSaved   \* the venue was stopped in the middle of a command

VARIABLES
  records,    \* the journal: each command with its number
  answered,   \* history: the replies to each command that was executed
  mode,       \* "live", "replaying"
  position,   \* number of records replayed
  restored,   \* apply() has set the number of the record being replayed
  replayed,   \* what the replaying engine would tell of each command
  saved       \* history: the engine as it was stopped

replayVars == <<records, answered, mode, position, restored, replayed, saved>>
systemVars == <<siteVars, replayVars>>

-----------------------------------------------------------------------------
(* What record.cpp writes of a command, field by field, and reads back.    *)

encode_payload(m) ==
  CASE m.type = "InstrumentDefined" ->
         <<TickSize, LotSize, MinQuantity, MinPrice, MaxPrice,
           m.self_trade_policy>>
    [] m.type = "NewOrder" ->
         <<m.order.id, m.order.account, m.order.side, m.order.type, m.order.tif,
           m.order.post_only, m.order.price, m.order.quantity>>
    [] m.type = "CancelOrder" -> <<m.id, m.account>>
    [] m.type = "ReplaceOrder" ->
         <<m.id, m.account, m.new_price, m.new_quantity>>

\* Of an instrument only the policy varies here, the rest are constants.
decode_payload(type, payload) ==
  CASE type = "InstrumentDefined" ->
         [type |-> type, self_trade_policy |-> payload[6]]
    [] type = "NewOrder" ->
         [type |-> type, order |->
            [id |-> payload[1], account |-> payload[2], side |-> payload[3],
             type |-> payload[4], tif |-> payload[5], post_only |-> payload[6],
             price |-> payload[7], quantity |-> payload[8]]]
    [] type = "CancelOrder" ->
         [type |-> type, id |-> payload[1], account |-> payload[2]]
    [] type = "ReplaceOrder" ->
         [type |-> type, id |-> payload[1], account |-> payload[2],
          new_price |-> payload[3], new_quantity |-> payload[4]]

Record(number, m) ==
  [sequence |-> number, type |-> m.type, payload |-> encode_payload(m)]

ReplayInit ==
  /\ VenueInit
  /\ records = <<Record(0, [type |-> "InstrumentDefined",
                            self_trade_policy |-> policy])>>
  /\ answered = << >>
  /\ mode = "live" /\ position = 0 /\ restored = FALSE
  /\ replayed = << >>
  /\ saved = NotSaved

-----------------------------------------------------------------------------
(* The live venue, and its end.                                            *)

\* The command being answered reached the book, so its record is in the
\* journal.
Executed == result.reject = "None" \/ incoming # NoOrder \/ subject # NoOrder

Answered ==
  /\ answered' = IF message # NoMessage /\ message' = NoMessage /\ Executed
                 THEN Append(answered, Events(message)) ELSE answered
  /\ UNCHANGED <<mode, position, restored, replayed, saved>>

Noted_accepted ==
  /\ records' = IF message # NoMessage /\ message' = NoMessage
                   /\ result.reject = "None"
                THEN Append(records, Record(sequence, message)) ELSE records
  /\ Answered

\* The append fails in this step; later ones do not touch the file.
Failing == journal_healthy /\ ~journal_healthy'

\* A command is in the journal before it runs, its replies follow it.  The
\* record of a failed append is in the journal or not.
Noted ==
  /\ \/ journal' = journal /\ UNCHANGED records
     \/ /\ journal' # journal \/ Failing
        /\ records' = Append(records, Record(sequence', message'))
  /\ Answered

Serving      == mode = "live" /\ VenueCall /\ Noted
ServingSteps == mode = "live" /\ VenueStep /\ Noted

\* What state_digest.cpp digests: the number of the last command and every
\* resting order, in matching order.
digest ==
  [sequence |-> sequence,
   resting  |-> [s \in Sides |-> [p \in Prices |->
                   [i \in DOMAIN queue[s][p] |-> orders[queue[s][p][i]]]]]]

\* An engine that has just been constructed.  It knows no instrument: the
\* policy stands for none.  It is given no risk engine, kill switch or journal,
\* whose state is put back to where it is never looked at again.
FreshEngine ==
  /\ policy' = CHOOSE p \in Policies : TRUE
  /\ orders' = [i \in {} |-> NoOrder] /\ before' = [i \in {} |-> NoOrder]
  /\ queue' = [s \in Sides |-> [p \in Prices |-> << >>]]
  /\ total' = [s \in Sides |-> [p \in Prices |-> 0]]
  /\ occupied' = [s \in Sides |-> {}]
  /\ sequence' = 0
  /\ pc' = "idle" /\ kind' = "none"
  /\ incoming' = NoOrder /\ subject' = NoOrder
  /\ requested' = 0 /\ settled' = 0
  /\ fills' = << >> /\ withdrawals' = << >> /\ result' = NoResult
  /\ filledBy' = [i \in OrderIds |-> 0]
  /\ known' = {} /\ reference_price' = 0
  /\ open_orders' = [a \in Accounts |-> 0]
  /\ net_position' = open_orders' /\ consecutive_rejects' = open_orders'
  /\ working' = [a \in Accounts |-> [s \in Sides |-> 0]]
  /\ drift' = [a \in Accounts |-> NoDrift]
  /\ venue_halted' = FALSE /\ account_halted' = [a \in Accounts |-> FALSE]
  /\ journal_healthy' = FALSE /\ journal' = << >>

\* The process ends, between two messages or in the middle of one, and its
\* journal is replayed.
Stop ==
  /\ mode = "live" /\ mode' = "replaying"
  /\ saved' = IF pc # "idle" THEN NotSaved
              ELSE [digest |-> digest, journal_healthy |-> journal_healthy,
                    appended |-> 1 + Len(journal)]
  /\ FreshEngine
  /\ current_connection_' = NoConnection /\ message' = NoMessage
  /\ believed' = [id \in OrderIds |-> 0]
  /\ feed' = [trades |-> << >>, book |-> << >>]
  /\ UNCHANGED <<published_depth, records, answered, position, restored,
                 replayed>>

-----------------------------------------------------------------------------
(* Replayer::apply().                                                      *)

Current == records[position + 1]

Decoded == decode_payload(Current.type, Current.payload)

Replaying == mode = "replaying" /\ UNCHANGED <<records, answered, mode, saved>>

Untouched == UNCHANGED <<engineVars, published_depth, current_connection_, feed,
                         believed>>

restore_sequence_late ==
  /\ Replaying /\ pc = "idle" /\ ~restored
  /\ position < Len(records)
  /\ sequence' = Current.sequence
  /\ restored' = TRUE
  /\ UNCHANGED <<policy, bookVars, callVars, history, venueVars, engineVars,
                 position, replayed>>

\* The command is about to be given the number it had.
restore_sequence ==
  /\ Replaying /\ pc = "idle" /\ ~restored
  /\ position < Len(records)
  /\ sequence' = Current.sequence - 1
  /\ restored' = TRUE
  /\ UNCHANGED <<policy, bookVars, callVars, history, venueVars, engineVars,
                 position, replayed>>

\* add_instrument: defining the instrument takes a number too.
apply_instrument ==
  /\ Replaying /\ restored
  /\ Current.type = "InstrumentDefined"
  /\ sequence' = sequence + 1
  /\ policy' = Decoded.self_trade_policy
  /\ position' = position + 1 /\ restored' = FALSE
  /\ UNCHANGED <<bookVars, callVars, history, venueVars, engineVars, replayed>>

\* The engine still wants the order to belong to the account.
Dropped ==
  /\ Refuse("UnknownOrder")
  /\ UNCHANGED <<policy, bookVars, sequence, incoming, requested, fills,
                 withdrawals, history>>

\* submit, cancel or replace of an engine without gates.
apply_command ==
  LET m == Decoded
  IN  /\ Replaying /\ restored /\ pc = "idle"
      /\ \/ m.type = "NewOrder" /\ Submit(m.order)
         \/ /\ m.type = "CancelOrder"
            /\ IF Owns(m.account, m.id) THEN Cancel(m.id) ELSE Dropped
         \/ /\ m.type = "ReplaceOrder"
            /\ IF Owns(m.account, m.id)
               THEN Replace(m.id, m.new_price, m.new_quantity) ELSE Dropped
      /\ message' = m
      /\ Untouched /\ UNCHANGED <<position, restored, replayed>>

apply_step ==
  /\ Replaying
  /\ InsertStep
  /\ Untouched /\ UNCHANGED <<message, position, restored, replayed>>

apply_returns ==
  /\ Replaying
  /\ Return
  /\ replayed' = Append(replayed, Events(message))
  /\ position' = position + 1 /\ restored' = FALSE
  /\ message' = NoMessage
  /\ Untouched

apply ==
  \/ restore_sequence \/ apply_instrument \/ apply_command
  \/ apply_step \/ apply_returns

ReplayNext == Serving \/ ServingSteps \/ Stop \/ apply

ReplaySpec == ReplayInit /\ [][ReplayNext]_systemVars

\* A process that runs takes its next step: handle() returns, and the
\* replayer goes on to the end of the journal.
Progress == ServingSteps \/ apply

ReplayFairSpec == ReplaySpec /\ WF_systemVars(Progress)

-----------------------------------------------------------------------------
(* Properties.                                                             *)

\* What the live orders offer at a price, counted one by one.
Offered(s, p) ==
  LET at == {id \in DOMAIN orders : orders[id].side = s /\ orders[id].price = p}
  IN  [price |-> p, order_count |-> Cardinality(at),
       quantity |-> MapThenSumSet(LAMBDA id : orders[id].remaining, at)]

OfferedPrices(s) ==
  {orders[id].price : id \in {i \in DOMAIN orders : orders[i].side = s}}

\* Between messages the last book published is the book: the best levels with
\* all that live orders offer there, or the touch, also after a message that
\* was refused and yet took an order off the book (publish_market_data).
FeedShowsTheBook ==
  mode = "live" /\ pc = "idle" =>
    \A s \in Sides :
      LET touch == IF s = "Buy" THEN Max(OfferedPrices(s))
                   ELSE Min(OfferedPrices(s))
          shown == {p \in OfferedPrices(s) :
                      Cardinality({q \in OfferedPrices(s) :
                                     IF s = "Buy" THEN q > p ELSE q < p})
                        < published_depth}
      IN  IF published_depth > 0
          THEN feed.book[s] = {Offered(s, p) : p \in shown}
          ELSE feed.book[s] =
                 IF OfferedPrices(s) = {} THEN [price |-> 0, quantity |-> 0]
                 ELSE [price |-> touch, quantity |-> Offered(s, touch).quantity]

\* Trades on the feed never come as a surprise: what a message trades at a
\* price was on offer there in the book published before it, or the price is
\* further away than the depth published (on_fills, publish_market_data).
TradesWereOnOffer ==
  [][published_depth > 0 =>
       \A i \in DOMAIN feed'.trades :
         LET t      == feed'.trades[i]
             levels == feed.book[opposite(t.aggressor_side)]
             same   == {j \in DOMAIN feed'.trades :
                          feed'.trades[j].price = t.price}
         IN  \/ \E level \in levels :
                  /\ level.price = t.price
                  /\ MapThenSumSet(LAMBDA j : feed'.trades[j].quantity, same)
                       <= level.quantity
             \/ /\ \A level \in levels : level.price # t.price
                /\ Cardinality(levels) = published_depth]_feed

\* An account never has more resting than its replies say: between messages
\* every live order was acknowledged, its end was not, and it has no more left
\* than the acknowledgements and executions sent to the account leave it.
RepliesCoverTheBook ==
  mode = "live" /\ pc = "idle" =>
    \A id \in DOMAIN orders : orders[id].remaining <= believed[id]

ReplayComplete == mode = "replaying" /\ position = Len(records)

\* determinism.md: replaying a journal into a fresh engine produces the same
\* state.  Of a venue stopped between two commands: once the records of all
\* commands that were executed have been replayed, the book has the same
\* orders, with the same places in the same queues, and the number is the same
\* unless failed appends had used up more.  No record is left after these, or
\* one, of the command whose append failed (Replayer::apply, journal_command).
ReplayRebuildsTheBook ==
  mode = "replaying" /\ saved # NotSaved =>
    /\ ReplayComplete =>
         Len(records) \in saved.appended
           .. saved.appended + (IF saved.journal_healthy THEN 0 ELSE 1)
    /\ position = saved.appended /\ ~restored =>
         /\ digest.resting = saved.digest.resting
         /\ digest.sequence <= saved.digest.sequence
         /\ saved.journal_healthy => digest = saved.digest

\* No client was told of anything that the journal does not account for,
\* wherever the venue was stopped: replaying it yields the replies and
\* executions of every command that was executed, in the order they were sent,
\* and those of at most one command more, which was being executed when the
\* venue stopped or was refused because its append failed.
RepliesAreRebuilt ==
  ReplayComplete =>
    S!IsPrefix(answered, replayed) /\ Len(replayed) <= Len(answered) + 1

=============================================================================
