--------------------------- MODULE MatchingEngine ---------------------------
(***************************************************************************)
(* The matching engine of one instrument                                   *)
(* (src/src/core/matching_engine.cpp) around the order book, with the risk *)
(* engine, the kill switch and the journal plugged in.                     *)
(*                                                                         *)
(* A command passes the gates of the engine, is numbered and journaled,    *)
(* runs in the book, and then its fills and withdrawals are settled with   *)
(* the risk engine one by one.  The book's steps are those of OrderBook;   *)
(* its pc also tells how far the engine is: what the book reports at       *)
(* "return" is settled before the engine returns to "idle".                *)
(***************************************************************************)
EXTENDS OrderBook

CONSTANTS
  Configured,        \* accounts whose limits an operator configured
  MaxOrderQuantity,  \* AccountLimits of the configured accounts
  MaxOrderNotional,
  MaxOpenOrders,
  MaxPosition,
  CollarBps,         \* InstrumentControls::collar_bps, 0 disables the collar
  AutoTrip,          \* auto_trip_threshold_, 0 disables the trip
  HaltInputs,        \* accounts an operator may halt and resume
  VenueHalts,        \* whether an operator may halt and resume the venue
  JournalMayFail     \* whether an append to the journal may fail

ASSUME EngineAssumption ==
  /\ NoAccount \in Accounts /\ IsFiniteSet(Accounts)
  /\ Configured \subseteq Accounts \ {NoAccount}
  /\ MaxOrderQuantity \in Nat /\ MaxOrderNotional \in Nat
  /\ MaxOpenOrders \in Nat /\ MaxPosition \in Nat
  /\ CollarBps \in Nat /\ AutoTrip \in Nat
  /\ HaltInputs \subseteq Accounts
  /\ VenueHalts \in BOOLEAN /\ JournalMayFail \in BOOLEAN

VARIABLES
  known,                \* accounts_ of the risk engine: accounts with a state
  open_orders,          \* account -> AccountState::open_orders
  working,              \* account -> side -> Exposure::working_buy / _sell
  net_position,         \* account -> Exposure::net_position
  reference_price,      \* price of the last trade, 0 (kNoPrice) before it
  venue_halted,         \* the venue's HaltState
  account_halted,       \* account -> its HaltState
  consecutive_rejects,  \* account -> AccountHalt::consecutive_rejects
  journal_healthy,      \* the journal writer has not failed yet
  journal,              \* history: the sequence numbers journaled, in order
  kind,                 \* the command being executed
  subject,              \* replace: the order as it stood, or NoOrder
  settled,              \* how much of fills and withdrawals is settled
  drift                 \* history: account -> what its counters may be off by

riskVars   == <<known, open_orders, working, net_position, reference_price>>
killVars   == <<venue_halted, account_halted, consecutive_rejects>>
journalVars == <<journal_healthy, journal>>
engineVars == <<riskVars, killVars, journalVars, kind, subject, settled,
                drift>>
allVars    == <<vars, engineVars>>

\* What an account took from the book as an aggressor, and the orders that an
\* amendment removed and then was refused: how many, and their quantity.
NoDrift == [taken |-> [s \in Sides |-> 0], stranded |-> [s \in Sides |-> 0],
            orders |-> 0]

EngineInit ==
  /\ Init
  /\ known = Configured
  /\ open_orders = [a \in Accounts |-> 0]
  /\ working = [a \in Accounts |-> [s \in Sides |-> 0]]
  /\ net_position = [a \in Accounts |-> 0]
  /\ reference_price = 0
  /\ venue_halted = FALSE
  /\ account_halted = [a \in Accounts |-> FALSE]
  /\ consecutive_rejects = [a \in Accounts |-> 0]
  /\ journal_healthy = TRUE
  /\ journal = << >>
  /\ kind = "none"
  /\ subject = NoOrder
  /\ settled = 0
  /\ drift = [a \in Accounts |-> NoDrift]

-----------------------------------------------------------------------------
(* The risk engine (src/src/risk/risk_engine.cpp).                         *)

\* check_collar: only limit orders, and only once the venue has traded.
check_collar(o) ==
  LET deviation == IF o.price > reference_price
                   THEN o.price - reference_price
                   ELSE reference_price - o.price
  IN  /\ CollarBps # 0
      /\ reference_price > 0
      /\ o.type = "Limit" /\ o.price > 0
      /\ deviation * 10000 > reference_price * CollarBps

\* Where the account would stand if all it has working, and o, were to fill.
projected_long(o) ==
  net_position[o.account] + working[o.account]["Buy"]
    + (IF o.side = "Buy" THEN o.quantity ELSE 0)

projected_short(o) ==
  working[o.account]["Sell"] - net_position[o.account]
    + (IF o.side = "Sell" THEN o.quantity ELSE 0)

AtOpenLimit_past(a) == open_orders[a] > MaxOpenOrders

AtOpenLimit(a) == open_orders[a] >= MaxOpenOrders

\* check(): an account nobody configured is unconstrained, before it has a
\* state and, since the default limits are the widest there are, after.
check(o) ==
  IF check_collar(o) THEN "PriceCollar"
  ELSE IF /\ o.account \in Configured
          /\ \/ o.quantity > MaxOrderQuantity
             \/ /\ o.type = "Limit" /\ o.price > 0
                /\ o.price * o.quantity > MaxOrderNotional
             \/ AtOpenLimit(o.account)
             \/ projected_long(o) > MaxPosition
             \/ projected_short(o) > MaxPosition
       THEN "RiskLimit"
  ELSE "None"

\* A release never takes more than was recorded.
Released(w, qty) == w - Lesser(w, qty)

Decremented(n) == IF n > 0 THEN n - 1 ELSE 0

\* on_order_rested: creates the account's state if it has none.
on_order_rested(o) ==
  /\ known' = known \cup {o.account}
  /\ open_orders' = [open_orders EXCEPT ![o.account] = @ + 1]
  /\ working' = [working EXCEPT ![o.account][o.side] = @ + o.remaining]

\* on_working_released and, if the order left the book, on_order_closed.
on_released(account, side, qty, closed) ==
  /\ working' = IF account \in known
                THEN [working EXCEPT ![account][side] = Released(@, qty)]
                ELSE working
  /\ open_orders' = IF account \in known /\ closed
                    THEN [open_orders EXCEPT ![account] = Decremented(@)]
                    ELSE open_orders

PositionAfter_aggressor(f, a) ==
  net_position[a]
    + (IF a # f.aggressor_account THEN 0
       ELSE IF f.aggressor_side = "Buy" THEN f.quantity ELSE -f.quantity)

\* on_fill applied to both sides of f: the position of each known account
\* moves, and so does its working quantity.
PositionAfter(f, a) ==
  LET sign(s) == IF s = "Buy" THEN 1 ELSE -1
  IN  net_position[a]
        + (IF a = f.aggressor_account
           THEN sign(f.aggressor_side) * f.quantity ELSE 0)
        + (IF a = f.resting_account
           THEN sign(opposite(f.aggressor_side)) * f.quantity ELSE 0)

WorkingAfter(f, a, s) ==
  IF \/ a = f.aggressor_account /\ s = f.aggressor_side
     \/ a = f.resting_account /\ s = opposite(f.aggressor_side)
  THEN Released(working[a][s], f.quantity)
  ELSE working[a][s]

on_fill(f) ==
  /\ net_position' = [a \in Accounts |->
       IF a \in known THEN PositionAfter(f, a) ELSE net_position[a]]
  /\ working' = [a \in Accounts |-> [s \in Sides |->
       IF a \in known THEN WorkingAfter(f, a, s) ELSE working[a][s]]]
  /\ open_orders' =
       IF f.resting_filled /\ f.resting_account \in known
       THEN [open_orders EXCEPT ![f.resting_account] = Decremented(@)]
       ELSE open_orders

-----------------------------------------------------------------------------
(* The kill switch (src/src/risk/kill_switch.cpp).                         *)

blocks_new_orders(a) == venue_halted \/ account_halted[a]

record_reject_late(a) ==
  IF AutoTrip = 0 \/ account_halted[a]
  THEN UNCHANGED killVars
  ELSE LET run == consecutive_rejects[a] + 1
       IN  /\ consecutive_rejects' = [consecutive_rejects EXCEPT ![a] = run]
           /\ account_halted' = [account_halted EXCEPT ![a] = run > AutoTrip]
           /\ UNCHANGED venue_halted

\* A rejected order lengthens the account's run, which may trip its halt.
record_reject(a) ==
  IF AutoTrip = 0 \/ account_halted[a]
  THEN UNCHANGED killVars
  ELSE LET run == consecutive_rejects[a] + 1
       IN  /\ consecutive_rejects' = [consecutive_rejects EXCEPT ![a] = run]
           /\ account_halted' = [account_halted EXCEPT ![a] = run >= AutoTrip]
           /\ UNCHANGED venue_halted

record_accept(a) ==
  /\ consecutive_rejects' = [consecutive_rejects EXCEPT ![a] = 0]
  /\ UNCHANGED <<venue_halted, account_halted>>

\* The operator's calls, made between two commands.
Operator ==
  /\ pc = "idle"
  /\ UNCHANGED <<vars, riskVars, journalVars, kind, subject, settled,
                 drift>>

halt_venue ==
  /\ Operator /\ VenueHalts
  /\ venue_halted' = TRUE
  /\ UNCHANGED <<account_halted, consecutive_rejects>>

resume_venue ==
  /\ Operator /\ VenueHalts
  /\ venue_halted' = FALSE
  /\ UNCHANGED <<account_halted, consecutive_rejects>>

halt_account(a) ==
  /\ Operator
  /\ account_halted' = [account_halted EXCEPT ![a] = TRUE]
  /\ UNCHANGED <<venue_halted, consecutive_rejects>>

\* Resuming clears the run as well.
resume_account(a) ==
  /\ Operator
  /\ account_halted' = [account_halted EXCEPT ![a] = FALSE]
  /\ consecutive_rejects' = [consecutive_rejects EXCEPT ![a] = 0]
  /\ UNCHANGED venue_halted

-----------------------------------------------------------------------------
(* journal_command(): numbered, then appended, then executed.              *)

\* The writer accepted the record of the command being numbered.
Journaled ==
  /\ journal_healthy
  /\ journal' = Append(journal, sequence + 1)
  /\ UNCHANGED journal_healthy

\* A command turned away before the book sees it.
TurnedAway(command, reason) ==
  /\ pc = "idle"
  /\ Refuse(reason)
  /\ kind' = command
  /\ UNCHANGED <<policy, bookVars, incoming, requested, fills, withdrawals,
                 history, riskVars, subject, settled, drift>>

\* The append failed, now or earlier: the number is spent, the venue halted
\* and the command refused.
NotJournaled(command) ==
  /\ TurnedAway(command, "Halted")
  /\ ~journal_healthy \/ JournalMayFail
  /\ sequence < MaxSequence
  /\ sequence' = sequence + 1
  /\ journal_healthy' = FALSE
  /\ venue_halted' = TRUE
  /\ UNCHANGED <<journal, account_halted, consecutive_rejects>>

-----------------------------------------------------------------------------
(* submit, cancel and replace of the engine.                               *)

\* The gates a new order passes before it is numbered.
Gate(o) ==
  IF o.account = NoAccount THEN "UnknownOrder"
  ELSE IF blocks_new_orders(o.account) THEN "Halted"
  ELSE check(o)

SubmitTurnedAway(o) ==
  /\ Gate(o) # "None"
  /\ TurnedAway("submit", Gate(o))
  /\ IF Gate(o) \in {"RiskLimit", "PriceCollar"}
     THEN record_reject(o.account) ELSE UNCHANGED killVars
  /\ UNCHANGED <<sequence, journalVars>>

SubmitNotJournaled(o) == Gate(o) = "None" /\ NotJournaled("submit")

SubmitAdmitted(o) ==
  /\ Gate(o) = "None"
  /\ Journaled
  /\ Submit(o)
  /\ kind' = "submit"
  /\ UNCHANGED <<riskVars, killVars, subject, settled, drift>>

\* An account may only touch its own orders.
Owns(account, id) == id \in DOMAIN orders /\ orders[id].account = account

NotOwned(command, account, id) ==
  /\ ~Owns(account, id)
  /\ TurnedAway(command, "UnknownOrder")
  /\ UNCHANGED <<sequence, killVars, journalVars>>

CancelNotJournaled(account, id) == Owns(account, id) /\ NotJournaled("cancel")

CancelAdmitted(account, id) ==
  LET o == orders[id]
  IN  /\ Owns(account, id)
      /\ Journaled
      /\ Cancel(id)
      /\ on_released(o.account, o.side, o.remaining, TRUE)
      /\ kind' = "cancel"
      /\ UNCHANGED <<known, net_position, reference_price, killVars, subject,
                     settled, drift>>

ReplaceNotJournaled(account, id) == Owns(account, id) /\ NotJournaled("replace")

\* The exposure of the order is released before the amendment runs.
ReplaceAdmitted(account, id, price, quantity) ==
  LET o == orders[id]
  IN  /\ Owns(account, id)
      /\ Journaled
      /\ Replace(id, price, quantity)
      /\ on_released(o.account, o.side, o.remaining, TRUE)
      /\ kind' = "replace"
      /\ subject' = o
      /\ UNCHANGED <<known, net_position, reference_price, killVars, settled,
                     drift>>

-----------------------------------------------------------------------------
(* settle_risk(): the fills, then the withdrawals, in order.               *)

SettleFill ==
  /\ pc = "return"
  /\ settled < Len(fills)
  /\ on_fill(fills[settled + 1])
  /\ settled' = settled + 1
  /\ LET f == fills[settled + 1]
     IN  drift' = [drift EXCEPT ![f.aggressor_account].taken[f.aggressor_side] =
                                  @ + f.quantity]
  /\ UNCHANGED <<vars, known, reference_price, killVars, journalVars, kind,
                 subject>>

SettleWithdrawal ==
  LET w == withdrawals[settled - Len(fills) + 1]
  IN  /\ pc = "return"
      /\ settled \in Len(fills) .. Len(fills) + Len(withdrawals) - 1
      /\ on_released(w.account, w.side, w.quantity, w.fully_removed)
      /\ settled' = settled + 1
      /\ UNCHANGED <<vars, known, net_position, reference_price, killVars,
                     journalVars, kind, subject, drift>>

\* All is settled: the collar follows the last trade and the call returns.
Finish ==
  /\ settled = Len(fills) + Len(withdrawals)
  /\ Return
  /\ reference_price' = IF fills = << >> THEN reference_price
                        ELSE fills[Len(fills)].price
  /\ kind' = "none"
  /\ subject' = NoOrder
  /\ settled' = 0
  /\ UNCHANGED <<net_position, journalVars>>

Recorded_asSubmitted(id) ==
  IF id \in DOMAIN orders
  THEN on_order_rested([orders[id] EXCEPT !.remaining = orders[id].quantity])
  ELSE UNCHANGED <<known, open_orders, working>>

\* The order as it actually rests goes on the account's books.
Recorded(id) ==
  IF id \in DOMAIN orders
  THEN on_order_rested(orders[id])
  ELSE UNCHANGED <<known, open_orders, working>>

\* Cancels, and commands turned away at a gate: nothing is left to do.
FinishOther ==
  /\ incoming = NoOrder /\ subject = NoOrder
  /\ Finish
  /\ UNCHANGED <<known, open_orders, working, killVars, drift>>

FinishSubmitRejected ==
  /\ kind = "submit" /\ incoming # NoOrder /\ result.reject # "None"
  /\ Finish
  /\ record_reject(incoming.account)
  /\ UNCHANGED <<known, open_orders, working, drift>>

FinishSubmitAccepted ==
  /\ kind = "submit" /\ incoming # NoOrder /\ result.reject = "None"
  /\ Finish
  /\ record_accept(incoming.account)
  /\ IF result.rested THEN Recorded(incoming.id)
     ELSE UNCHANGED <<known, open_orders, working>>
  /\ UNCHANGED drift

\* A refused amendment puts back what ReplaceAdmitted released, also when the
\* book has removed the order before it refused.
FinishReplaceRefused ==
  /\ kind = "replace" /\ subject # NoOrder /\ result.reject # "None"
  /\ Finish
  /\ on_order_rested(subject)
  /\ drift' = IF subject.id \in DOMAIN orders THEN drift
              ELSE [drift EXCEPT
                      ![subject.account].stranded[subject.side] =
                        @ + subject.remaining,
                      ![subject.account].orders = @ + 1]
  /\ UNCHANGED killVars

FinishReplaceAccepted ==
  /\ kind = "replace" /\ subject # NoOrder /\ result.reject = "None"
  /\ Finish
  /\ Recorded(subject.id)
  /\ UNCHANGED <<killVars, drift>>

-----------------------------------------------------------------------------
EngineCommand ==
  \/ \E o \in NewOrders :
       SubmitTurnedAway(o) \/ SubmitNotJournaled(o) \/ SubmitAdmitted(o)
  \/ \E a \in Accounts \ {NoAccount}, id \in OrderIds :
       \/ NotOwned("cancel", a, id) \/ NotOwned("replace", a, id)
       \/ CancelNotJournaled(a, id) \/ CancelAdmitted(a, id)
       \/ ReplaceNotJournaled(a, id)
       \/ \E p \in PriceInputs, q \in QuantityInputs :
            ReplaceAdmitted(a, id, p, q)

OperatorCall ==
  \/ halt_venue \/ resume_venue
  \/ \E a \in HaltInputs : halt_account(a) \/ resume_account(a)

EngineStep ==
  \/ InsertStep /\ UNCHANGED engineVars
  \/ SettleFill \/ SettleWithdrawal
  \/ FinishOther \/ FinishSubmitRejected \/ FinishSubmitAccepted
  \/ FinishReplaceRefused \/ FinishReplaceAccepted

EngineNext == EngineCommand \/ OperatorCall \/ EngineStep

EngineSpec == EngineInit /\ [][EngineNext]_allVars

\* A command that has started runs to its end.
EngineFairSpec == EngineSpec /\ WF_allVars(EngineStep)

-----------------------------------------------------------------------------
(* Properties.                                                             *)

\* The orders an account has on the book.
Live(a) == {id \in DOMAIN orders : orders[id].account = a}

Resting(a, s) ==
  SumFunctionOnSet([id \in DOMAIN orders |-> orders[id].remaining],
                   {id \in Live(a) : orders[id].side = s})

\* A configured account never has more orders resting than max_open_orders:
\* the count kept by the risk engine never falls behind the book, through
\* fills, prevention, cancels and amendments.
OpenOrderLimit == \A a \in Configured : Cardinality(Live(a)) <= MaxOpenOrders

\* Between commands the risk engine's counters follow the book, and miss it
\* only where the code lets them: open_orders counts the live orders and those
\* a refused amendment has removed, working exceeds what rests by no more than
\* those had left, and falls short of it by no more than the account has taken
\* as an aggressor, whose fills also release working quantity (on_order_rested,
\* on_fill, on_working_released, on_order_closed).
ExposureFollowsTheBook ==
  pc = "idle" =>
    \A a \in Accounts :
      /\ open_orders[a] = Cardinality(Live(a)) + drift[a].orders
      /\ \A s \in Sides :
           working[a][s] \in Resting(a, s) - drift[a].taken[s]
                                .. Resting(a, s) + drift[a].stranded[s]

\* Every fill has two sides: when all accounts have a state in the risk
\* engine, their positions add up to zero between commands.
PositionsBalance ==
  pc = "idle" /\ Accounts \ {NoAccount} \subseteq Configured =>
    SumFunctionOnSet(net_position, Accounts) = 0

\* A run of rejects as long as the threshold has halted the account, and
\* resuming the account does not leave it one reject from the next halt.
RunTripsHalt ==
  AutoTrip > 0 =>
    \A a \in Accounts :
      consecutive_rejects[a] < AutoTrip \/ account_halted[a]

\* Every command the engine starts is settled and returns.
EngineCompletes == pc # "idle" ~> pc = "idle"

\* exposure.hpp: working_buy and working_sell are the unfilled quantity
\* resting on each side.
WorkingMatchesBook ==
  pc = "idle" =>
    \A a \in Accounts, s \in Sides : working[a][s] = Resting(a, s)

\* matching_engine.cpp, replace: a refused amendment leaves the order
\* untouched.
RefusedAmendmentLeavesOrder ==
  pc = "return" /\ subject # NoOrder /\ result.reject # "None" =>
    subject.id \in DOMAIN orders /\ orders[subject.id] = subject

\* limits.hpp: max_position is the largest absolute net position.
PositionWithinLimit ==
  \A a \in Configured : net_position[a] \in -MaxPosition .. MaxPosition

=============================================================================
