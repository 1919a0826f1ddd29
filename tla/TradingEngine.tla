---------------------------- MODULE TradingEngine ----------------------------
(***************************************************************************)
(* The engine thread of a live process (afuture/engine.py with the overrides *)
(* of afuture/directional_engine.py, started and stopped by cli._run_live)  *)
(* on top of CtpBroker: fills are applied to a persisted book, every        *)
(* position snapshot is compared with it, and any doubt stops the trading.  *)
(*                                                                          *)
(* The configuration is the portfolio one without an order journal: no      *)
(* arbitrage pairs, and no technical activation permit.  The contract       *)
(* metadata gate is taken to pass.                                          *)
(***************************************************************************)
EXTENDS CtpBroker

CONSTANT NoDay            \* model value: no trading day recorded

ASSUME EngineAssumption == NoDay \notin Nat

VARIABLES
    proc,           \* where cli._run_live is
    state,          \* the RuntimeState in memory
    halted,         \* engine.halted
    disk            \* the RuntimeState StateStore.save wrote last

engineVars == <<proc, state, halted, disk>>
vars == <<ctpVars, engineVars>>

-----------------------------------------------------------------------------

Modes == {"RUNNING", "REDUCE_ONLY", "HALTED"}

\* Reasons that stop the engine: the account's limits, or anything else.
Reasons == {"daily loss", "hard limit", "other"}

RuntimeState ==
    [positions : Book(Contracts), recent_trade_ids : SUBSET TradeKeys, mode : Modes,
     kill_switch : BOOLEAN, reconciled : BOOLEAN,
     trading_day : (1..MaxDay) \cup {NoDay}, circuit_day : (1..MaxDay) \cup {NoDay}]

InitialState ==
    [positions |-> EmptyBook(Contracts), recent_trade_ids |-> {}, mode |-> "RUNNING",
     kill_switch |-> FALSE, reconciled |-> FALSE,
     trading_day |-> NoDay, circuit_day |-> NoDay]

\* has_risk: any position in the broker's mirror.
HasRisk == HasPosition(mirror)

\* Seeded bug: the new day is recorded without rolling the lots.
AdvanceDayWithoutRoll(s, newDay) ==
    [s EXCEPT !.trading_day = newDay,
              !.recent_trade_ids = {key \in @ : key[1] = newDay}]

\* _advance_trading_day: today's lots become yesterday's, and of the trade
\* identities only those of the new day are kept.
AdvanceDay(s, newDay) ==
    IF s.trading_day \in {NoDay, newDay}
    THEN [s EXCEPT !.trading_day = newDay]
    ELSE [s EXCEPT !.trading_day = newDay,
                   !.positions = RollBook(@),
                   !.recent_trade_ids = {key \in @ : key[1] = newDay}]

ReduceOnly(s) == [s EXCEPT !.mode = "REDUCE_ONLY", !.kill_switch = TRUE]

Halt(s) == [s EXCEPT !.mode = "HALTED", !.kill_switch = TRUE, !.reconciled = FALSE]

Resume(s) == [s EXCEPT !.mode = "RUNNING", !.kill_switch = FALSE]

\* Every save follows the change it makes durable in the same call.
Save(s) == state' = s /\ disk' = s

\* Seeded bug: the stop is not written before the call returns.
EmergencyStopUnsaved(s, reason) ==
    /\ state' = IF reason # "other" /\ HasRisk THEN ReduceOnly(s) ELSE Halt(s)
    /\ halted' = (state'.mode = "HALTED")
    /\ UNCHANGED disk

\* emergency_stop as DirectionalTradingEngine overrides it.  A daily loss marks
\* its day; an account limit met with positions open reduces instead of halting,
\* unless the engine is already halted, which enter_reduce_only leaves alone.
EmergencyStop(s, reason) ==
    LET marked == [s EXCEPT !.circuit_day =
                        IF reason = "daily loss" THEN s.trading_day ELSE NoDay]
    IN  \/ /\ reason # "other" /\ HasRisk /\ s.mode # "HALTED"
           /\ Save(ReduceOnly(marked))
           /\ halted' = FALSE
        \/ /\ reason # "other" /\ HasRisk /\ s.mode = "HALTED"
           /\ state' = marked
           /\ UNCHANGED <<halted, disk>>
        \/ /\ reason = "other" \/ ~HasRisk
           /\ Save(Halt(marked))
           /\ halted' = TRUE

-----------------------------------------------------------------------------
(* Starting a process: cli._run_live up to its loop. *)

EngineInit ==
    /\ proc = "down"
    /\ state = InitialState /\ disk = InitialState /\ halted = FALSE

Init == BrokerInit /\ EngineInit

\* engine.start: load the state, seed the broker with its trade identities.
Start ==
    /\ proc = "down"
    /\ proc' = "connecting"
    /\ state' = disk
    /\ halted' = disk.kill_switch
    /\ Connect(disk.recent_trade_ids)
    /\ UNCHANGED disk

\* Orders of an earlier process are still working: cancel, stop, leave.
RefuseActiveOrders ==
    /\ proc = "connecting" /\ snapshotFresh /\ active # {}
    /\ EmergencyStop(state, "other")
    /\ proc' = "draining"
    /\ UNCHANGED ctpVars

\* _try_daily_circuit_recovery: only on a later day, flat, with nothing working,
\* inside the account's limits and reconciled.
CircuitRecoverable(s, isHalted) ==
    /\ s.circuit_day \notin {NoDay, day}
    /\ isHalted /\ s.mode = "HALTED"
    /\ active = {} /\ ~HasRisk

CircuitRecovered(s) ==
    [Resume(s) EXCEPT !.reconciled = TRUE, !.circuit_day = NoDay]

\* initialize_after_ready with its account check, then the recovery attempt.
Initialize(risk) ==
    /\ proc = "connecting" /\ snapshotFresh /\ active = {}
    /\ proc' = "initialized"
    /\ LET s == AdvanceDay(state, day)
       IN  \/ /\ risk # "ok"
              /\ EmergencyStop(s, risk)
           \/ /\ risk = "ok"
              /\ CircuitRecoverable(s, halted)
              /\ IF Matches(s.positions, mirror)
                 THEN Save(CircuitRecovered(s)) /\ halted' = FALSE
                 ELSE EmergencyStop(s, "other")
           \/ /\ risk = "ok"
              /\ ~CircuitRecoverable(s, halted)
              /\ Save(s)
              /\ UNCHANGED halted
    /\ UNCHANGED ctpVars

\* reconcile_startup, and for a halted engine the clearing of its kill switch.
ReconcileStartup(risk) ==
    /\ proc = "initialized"
    /\ \/ /\ ~Matches(state.positions, mirror)
          /\ EmergencyStop(state, "other")
          /\ proc' = "draining"
       \/ /\ Matches(state.positions, mirror)
          /\ ~halted
          /\ Save([state EXCEPT !.reconciled = TRUE])
          /\ proc' = "looping"
          /\ UNCHANGED halted
       \/ /\ Matches(state.positions, mirror)
          /\ halted /\ risk = "ok"
          /\ Save(Resume([state EXCEPT !.reconciled = TRUE]))
          /\ halted' = FALSE
          /\ proc' = "looping"
       \/ /\ Matches(state.positions, mirror)
          /\ halted /\ risk # "ok"
          /\ Save([state EXCEPT !.reconciled = TRUE])
          /\ proc' = "draining"
          /\ UNCHANGED halted
    /\ UNCHANGED ctpVars

-----------------------------------------------------------------------------
(* The loop: run_once, one critical event at a time. *)

Polling(type) ==
    /\ proc \in {"looping", "draining"}
    /\ fifo # <<>> /\ Head(fifo).type = type
    /\ fifo' = Tail(fifo)
    /\ UNCHANGED <<proc, exchangeVars, gatewayVars,
                   mirror, seen, handling, active, snapshotFresh>>

\* _handle_trade_event.  The identity is recorded before the fill is applied.
HandleTrade ==
    /\ Polling("trade")
    /\ LET t == Head(fifo).trade
           s == AdvanceDay(state, day)
           key == TradeKey(day, t)
           known == [s EXCEPT !.recent_trade_ids = @ \cup {key}]
       IN  \/ /\ key \in s.recent_trade_ids
              /\ state' = s
              /\ UNCHANGED <<halted, disk>>
           \/ /\ key \notin s.recent_trade_ids
              /\ ~OwnsOrder(t.order)
              /\ EmergencyStop(s, "other")
           \/ /\ key \notin s.recent_trade_ids
              /\ OwnsOrder(t.order)
              /\ IF BookCanApply(s.positions, t)
                 THEN /\ Save([known EXCEPT !.positions = BookApply(@, t)])
                      /\ UNCHANGED halted
                 ELSE EmergencyStop(known, "other")

\* _handle_order_event: an order of ours changes nothing but is persisted.
HandleOrder ==
    /\ Polling("order")
    /\ Save(state)
    /\ UNCHANGED halted

\* _reconcile_runtime_snapshot.
HandleSnapshot ==
    /\ Polling("position_snapshot")
    /\ \/ /\ halted
          /\ UNCHANGED <<state, halted, disk>>
       \/ /\ ~halted
          /\ Matches(state.positions, Head(fifo).positions)
          /\ Save([state EXCEPT !.reconciled = TRUE])
          /\ UNCHANGED halted
       \/ /\ ~halted
          /\ ~Matches(state.positions, Head(fifo).positions)
          /\ EmergencyStop(state, "other")

\* _handle_account_event of both classes.
HandleAccount ==
    /\ Polling("account")
    /\ LET s == AdvanceDay(state, Head(fifo).day)
           risk == Head(fifo).risk
       IN  \/ /\ risk # "ok"
              /\ EmergencyStop(s, risk)
           \/ /\ risk = "ok"
              /\ CircuitRecoverable(s, halted)
              /\ IF Matches(s.positions, mirror)
                 THEN Save(CircuitRecovered(s)) /\ halted' = FALSE
                 ELSE EmergencyStop(s, "other")
           \/ /\ risk = "ok"
              /\ ~CircuitRecoverable(s, halted)
              /\ Save(s)
              /\ UNCHANGED halted

HandleBrokerError ==
    /\ Polling("broker_error")
    /\ EmergencyStop(state, "other")

\* run_once finds the session gone or its snapshots stale.
SessionUnhealthy ==
    /\ proc \in {"looping", "draining"} /\ ~halted
    /\ EmergencyStop(state, "other")
    /\ UNCHANGED <<proc, ctpVars>>

\* The close orders of flatten for every position of the mirror, contract by
\* contract and long before short, as plan_close splits them.
ClosingPlan(c) ==
    LET p == mirror[c]
        close(side, v) ==
            IF v = 0 THEN <<>> ELSE PlanClose(p, c \in Special, side, v, FALSE)
        orders == close("SELL", LongTotal(p)) \o close("BUY", ShortTotal(p))
    IN  [i \in DOMAIN orders |->
            [contract |-> c, side |-> orders[i].side, offset |-> orders[i].offset,
             volume |-> orders[i].volume]]

\* _reduce_only_cycle at the end of run_once: flatten while the mirror holds a
\* position, one contract at a time here, then halt for review.
ReduceOnlyCycle ==
    /\ proc \in {"looping", "draining"} /\ state.mode = "REDUCE_ONLY"
    /\ \/ /\ HasRisk /\ active = {}
          /\ \E c \in Contracts : mirror[c] # Flat /\ SendOrders(ClosingPlan(c))
          /\ UNCHANGED engineVars
       \/ /\ ~HasRisk
          /\ Save([state EXCEPT !.mode = "HALTED", !.kill_switch = TRUE])
          /\ halted' = TRUE
          /\ UNCHANGED <<proc, ctpVars>>

\* maybe_rebalance, reached only when no critical event is pending: the target
\* portfolio asks to close part of a position, or to open.
Rebalance ==
    /\ proc = "looping" /\ ~halted /\ state.mode = "RUNNING"
    /\ ~CriticalPending /\ active = {}
    /\ \E c \in Contracts, side \in Sides, v \in 1..MaxVolume :
          \/ SendOrders(<<[contract |-> c, side |-> side, offset |-> "OPEN", volume |-> v]>>)
          \/ /\ CanPlanClose(mirror[c], side, v)
             /\ LET plan == PlanClose(mirror[c], c \in Special, side, v, FALSE)
                IN  SendOrders([i \in DOMAIN plan |->
                        [contract |-> c, side |-> side, offset |-> plan[i].offset,
                         volume |-> plan[i].volume]])
    /\ UNCHANGED engineVars

\* _run_live leaves its loop once an iteration ends halted.
LeaveLoop ==
    /\ proc = "looping" /\ halted
    /\ proc' = "draining"
    /\ UNCHANGED <<state, halted, disk, ctpVars>>

\* engine.stop saves the state and closes the broker.
Stop ==
    /\ proc = "draining" \/ (proc = "looping" /\ ~halted)
    /\ proc' = "down"
    /\ Save(state)
    /\ halted' = FALSE
    /\ Disconnect

\* The process dies between two steps of any of its threads.
Crash ==
    /\ proc # "down"
    /\ proc' = "down"
    /\ state' = disk /\ halted' = FALSE
    /\ Disconnect
    /\ UNCHANGED disk

-----------------------------------------------------------------------------

HandleEvent ==
    \/ HandleTrade
    \/ HandleOrder
    \/ HandleSnapshot
    \/ HandleAccount
    \/ HandleBrokerError

EngineStep ==
    \/ Start
    \/ RefuseActiveOrders
    \/ \E risk \in AccountRisks : Initialize(risk)
    \/ \E risk \in AccountRisks : ReconcileStartup(risk)
    \/ HandleEvent
    \/ SessionUnhealthy
    \/ ReduceOnlyCycle
    \/ Rebalance
    \/ LeaveLoop
    \/ Stop
    \/ Crash

\* VeighNa's event-engine thread, and the CTP API thread.
EventThreadStep ==
    /\ \/ OrderCallback
       \/ AccountCallback
       \/ TradeCallback
       \/ TradeEnqueue
    /\ UNCHANGED engineVars

ApiThreadStep == SnapshotCallback /\ UNCHANGED engineVars

Up == proc # "down"

ExchangeStep ==
    /\ \/ \E o \in working : ExFill(o, Up)
       \/ \E o \in working : ExCancel(o, Up)
       \/ \E c \in Contracts, side \in Sides, offset \in Offsets, v \in 1..MaxVolume :
             ExForeignFill(c, side, offset, v, Up)
       \/ ExRollDay
       \/ Up /\ ExResume
       \/ Up /\ ExAnswerPositions
       \/ Up /\ \E risk \in AccountRisks : ExAnswerAccount(risk)
    /\ UNCHANGED engineVars

Next == EngineStep \/ EventThreadStep \/ ApiThreadStep \/ ExchangeStep

Spec == Init /\ [][Next]_vars

\* The callback threads run while the process does, and run_once is called
\* every 0.1 s until it has emptied the FIFO and the loop is left.
Fairness ==
    /\ WF_vars(EventThreadStep)
    /\ WF_vars(ApiThreadStep)
    /\ WF_vars(HandleEvent)
    /\ WF_vars(LeaveLoop)

FairSpec == Spec /\ Fairness

-----------------------------------------------------------------------------

TypeOK ==
    /\ BrokerTypeOK
    /\ proc \in {"down", "connecting", "initialized", "looping", "draining"}
    /\ state \in RuntimeState
    /\ disk \in RuntimeState
    /\ halted \in BOOLEAN

\* What applying, in the exchange's order, today's trades with these identities
\* to the opening book of the day gives.
Replay(identities) ==
    LET ours == SelectSeq(exTrades, LAMBDA t : TradeKey(day, t) \in identities)
    IN  FoldLeft(BookApply, dayBook, ours)

\* Each fill counts exactly once (engine.py _handle_trade_event): in the trading
\* loop, until the engine stops, the saved book is the day's opening book plus
\* exactly the fills whose identities are saved with it, whatever was redelivered,
\* replayed to this process after a restart or lost with an earlier one.  (A fill
\* by somebody else ends the trading, but may first undo a fill of ours that was
\* lost overnight, and then the books agree again without it.)
SavedBookIsItsFills ==
    (/\ proc = "looping" /\ disk.mode # "HALTED" /\ disk.trading_day = day
     /\ \A i \in DOMAIN exTrades : OwnsOrder(exTrades[i].order))
        => disk.positions = Replay(disk.recent_trade_ids)

\* A trade return is somewhere between the exchange and the engine, or the error that
\* the broker made of it.
FillUnderway ==
    \/ handling # NoTrade \/ Queued(upstream \o fifo, "trade")
    \/ Queued(fifo, "broker_error")

\* While the engine trades and has drained every queue, its book is the exchange's: no
\* fill was missed, doubled or taken from somebody else.  And a stopped engine starts
\* trading again only with nothing on order and, unless word of a fill is still on its
\* way to it, with the exchange's own book: it compares no more than its saved book with
\* its mirror, and either may be out of date (engine.py
\* clear_kill_switch_after_reconcile, directional_engine.py _try_daily_circuit_recovery).
TradesOnTheTruth ==
    /\ []((/\ proc = "looping" /\ state.mode = "RUNNING" /\ state.trading_day = day
           /\ ~CriticalPending)
              => state.positions = exBook)
    /\ [][(state.mode # "RUNNING" /\ state'.mode = "RUNNING" /\ ~FillUnderway)
              => state'.positions = exBook /\ working = {}]_vars

\* A stop survives the death of the process at any point (engine.py
\* emergency_stop, enter_reduce_only, _persist): the file a restart loads has the
\* kill switch on whenever the engine in memory has stopped trading, and a later
\* file without it was written by a resumption.
StopSurvivesCrash ==
    (halted \/ state.mode # "RUNNING") => disk.mode # "RUNNING" /\ disk.kill_switch
=============================================================================
