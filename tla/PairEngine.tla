------------------------------ MODULE PairEngine ------------------------------
(***************************************************************************)
(* A calendar-spread pair on top of CtpBroker: the engine thread of         *)
(* afuture/engine.py turns the signals of afuture/strategy.py into two legs, *)
(* which afuture/execution.py sends one after the other, audits that no leg *)
(* is left naked, and repairs one by reducing.                              *)
(*                                                                          *)
(* Every order of the run belongs to the one pair.  The process has started *)
(* and reconciled with the pair flat or held.  Restarts, trading days, saved *)
(* books, position snapshots (they may set the mirror back, see there) and   *)
(* the fills of other people are the subject of TradingEngine; StopForCause *)
(* stands for their stops.  Which signal comes, and whether a limit or a    *)
(* quote refuses it, is a nondeterministic choice.                           *)
(***************************************************************************)
EXTENDS CtpBroker

CONSTANTS Near, Far,      \* the legs
          PairVolume,     \* pair.volume: most lots of one leg
          NoBatch

ASSUME PairAssumption ==
    Near # Far /\ Contracts = {Near, Far} /\ PairVolume \in Nat \ {0} /\ PairVolume <= MaxVolume

VARIABLES
    mode,           \* state.runtime_mode
    book,           \* state.positions
    trades,         \* state.recent_trade_ids
    spread,         \* the strategy's _position: 1 long the spread, -1 short, 0 none
    imbalanced,     \* _imbalance_since has an entry
    batch           \* execute_signal under way: the requests to send, those sent

pairVars == <<mode, book, trades, spread, imbalanced, batch>>
vars == <<ctpVars, pairVars>>

-----------------------------------------------------------------------------
(* The pair in a book. *)

LongSpread(b) ==
    /\ LongTotal(b[Near]) = ShortTotal(b[Far])
    /\ ShortTotal(b[Near]) = 0 /\ LongTotal(b[Far]) = 0
ShortSpread(b) ==
    /\ ShortTotal(b[Near]) = LongTotal(b[Far])
    /\ LongTotal(b[Near]) = 0 /\ ShortTotal(b[Far]) = 0

BothLegsMatch(b) == LongSpread(b) \/ ShortSpread(b)

\* Mutant: the strategy keeps the position it intended.
SyncedToIntent(s, b) == s

\* _sync_strategy_positions: a naked leg leaves the strategy's position as it is.
Synced(s, b) ==
    CASE ~HasPosition(b) -> 0
      [] HasPosition(b) /\ LongSpread(b) -> 1
      [] HasPosition(b) /\ ShortSpread(b) -> -1
      [] OTHER -> s

\* Mutant: orders at work do not make a pair count as balanced.
BalancedAnyway == TRUE

\* pair_is_balanced: while an order of it works a pair counts as balanced.
Balanced == active # {} \/ BothLegsMatch(mirror)

-----------------------------------------------------------------------------
(* Modes. *)

\* Mutant: the time of the first notice is forgotten at every audit.
AuditOutcomesForgetting(m) ==
    IF m = "RUNNING" THEN {<<m, ~Balanced>>} ELSE {<<m, imbalanced>>}

\* _audit_pair_balance in mode m: notices a naked leg, and after the legging timeout
\* reduces.  What it may leave in `mode` and `imbalanced`.
AuditOutcomes(m) ==
    CASE m # "RUNNING" -> {<<m, imbalanced>>}
      [] m = "RUNNING" /\ Balanced -> {<<m, FALSE>>}
      [] m = "RUNNING" /\ ~Balanced ->
            {<<m, TRUE>>} \cup IF imbalanced THEN {<<"REDUCE_ONLY", TRUE>>} ELSE {}

Audit(m) == \E outcome \in AuditOutcomes(m) : mode' = outcome[1] /\ imbalanced' = outcome[2]

\* emergency_stop and enter_reduce_only ask the exchange to cancel what works, which
\* it may do of its own at any time.
EmergencyStop == mode' = "HALTED"
EnterReduceOnly == mode' = IF mode = "HALTED" THEN "HALTED" ELSE "REDUCE_ONLY"

\* run_once finds the session or the quotes unhealthy, on_tick the account, or an
\* event tells of a fault.
StopForCause ==
    /\ batch = NoBatch /\ mode # "HALTED"
    /\ EmergencyStop
    /\ UNCHANGED <<ctpVars, book, trades, spread, imbalanced, batch>>

-----------------------------------------------------------------------------
(* Signals and their execution. *)

Opening == {"LONG_SPREAD", "SHORT_SPREAD"}

Request(c, side, offset, v) ==
    [contract |-> c, side |-> side, offset |-> offset, volume |-> v]

Children(c, side, v) ==
    IF v = 0 THEN <<>>
    ELSE LET plan == PlanClose(mirror[c], c \in Special, side, v, FALSE)
         IN  [i \in DOMAIN plan |-> Request(c, side, plan[i].offset, plan[i].volume)]

\* _build_open_orders.
OpenLegs(signal, v) ==
    LET nearSide == IF signal = "LONG_SPREAD" THEN "BUY" ELSE "SELL"
        farSide == IF signal = "LONG_SPREAD" THEN "SELL" ELSE "BUY"
    IN  <<Request(Near, nearSide, "OPEN", v), Request(Far, farSide, "OPEN", v)>>

\* _build_close_orders: as much as both legs have.
CloseLegs ==
    LET close(nearSide, v) ==
            Children(Near, nearSide, v)
              \o Children(Far, IF nearSide = "SELL" THEN "BUY" ELSE "SELL", v)
        long == SmallerOf(LongTotal(mirror[Near]), ShortTotal(mirror[Far]))
        short == SmallerOf(ShortTotal(mirror[Near]), LongTotal(mirror[Far]))
    IN  IF long > 0 THEN close("SELL", long) ELSE close("BUY", short)

\* The thinner leg goes first (_prioritize_requests).
Legs(signal) ==
    IF signal \in Opening
    THEN UNION {{OpenLegs(signal, v), Reverse(OpenLegs(signal, v))} : v \in 1..PairVolume}
    ELSE {CloseLegs, Reverse(CloseLegs)}

Intended(signal) ==
    CASE signal = "LONG_SPREAD" -> 1 [] signal = "SHORT_SPREAD" -> -1 [] OTHER -> 0

\* The strategy opens without a position and closes with one.
Signals(s) == IF s = 0 THEN Opening ELSE {"EXIT", "EMERGENCY_EXIT"}

\* on_tick without a signal.
TickHold ==
    /\ batch = NoBatch /\ mode = "RUNNING"
    /\ spread' = Synced(spread, book)
    /\ UNCHANGED <<ctpVars, mode, book, trades, imbalanced, batch>>

\* on_tick for a signal that a limit, a quote or an empty plan refuses: the strategy
\* gets back the position it had (restore_after_rejected_signal).
TickRejected(signal) ==
    /\ batch = NoBatch /\ mode = "RUNNING" /\ Balanced /\ active = {}
    /\ signal \in Signals(Synced(spread, book))
    /\ spread' = Synced(spread, book)
    /\ IF signal = "EMERGENCY_EXIT" THEN EnterReduceOnly ELSE UNCHANGED mode
    /\ UNCHANGED <<ctpVars, book, trades, imbalanced, batch>>

\* on_tick for a signal that is carried out: execute_signal begins.
TickExecutes(signal) ==
    /\ batch = NoBatch /\ mode = "RUNNING" /\ Balanced /\ active = {}
    /\ signal \in Signals(Synced(spread, book))
    /\ \E legs \in Legs(signal) \ {<<>>} :
          batch' = [signal |-> signal, todo |-> legs, ids |-> {},
                    before |-> Synced(spread, book)]
    /\ spread' = Intended(signal)
    /\ UNCHANGED <<ctpVars, mode, book, trades, imbalanced>>

\* One leg is sent; after the last one the signal is accepted.
SendLeg ==
    /\ batch # NoBatch
    /\ SendOrders(<<Head(batch.todo)>>)
    /\ batch' = IF Len(batch.todo) = 1 THEN NoBatch
                ELSE [batch EXCEPT !.todo = Tail(@), !.ids = @ \cup {Len(sent) + 1}]
    /\ UNCHANGED <<mode, book, trades, spread, imbalanced>>

\* What the broker's order says was traded: its final return has been taken.
KnownTraded(o) ==
    LET returned == ~\E i \in DOMAIN upstream :
                        upstream[i].type = "order" /\ upstream[i].order = o
    IN  IF returned /\ \E i \in DOMAIN exTrades : exTrades[i].order = o
        THEN sent[o].volume ELSE 0

\* _rollback_submitted: close again what an opening leg is known to have traded.
Rollback ==
    LET side(o) == IF sent[o].side = "BUY" THEN "SELL" ELSE "BUY"
        held(o) == AvailableToClose(mirror[sent[o].contract], side(o), "CLOSE")
        opens == {o \in batch.ids : sent[o].offset = "OPEN"}
        close(o) == Children(sent[o].contract, side(o), SmallerOf(KnownTraded(o), held(o)))
    IN  FlattenSeq([i \in 1..Cardinality(opens) |-> close(SetToSortSeq(opens, <)[i])])

\* The rate limiter or the gateway refuses a leg: rollback, and the signal counts as
\* rejected.  An order of the rollback may be refused too.
LegRefused ==
    /\ batch # NoBatch
    /\ \E n \in 0..Len(Rollback) : SendOrders(SubSeq(Rollback, 1, n))
    /\ spread' = batch.before
    /\ batch' = NoBatch
    /\ IF batch.signal = "EMERGENCY_EXIT" THEN EnterReduceOnly ELSE UNCHANGED mode
    /\ UNCHANGED <<book, trades, imbalanced>>

-----------------------------------------------------------------------------
(* Events. *)

Polling(type) ==
    /\ batch = NoBatch
    /\ fifo # <<>> /\ Head(fifo).type = type
    /\ fifo' = Tail(fifo)
    /\ UNCHANGED <<exchangeVars, gatewayVars, mirror, seen, handling, active, snapshotFresh,
                   batch>>

\* _handle_trade_event.
HandleTrade ==
    /\ Polling("trade")
    /\ LET t == Head(fifo).trade
           key == TradeKey(day, t)
       IN  \/ /\ key \in trades
              /\ UNCHANGED <<mode, imbalanced, book, trades, spread>>
           \/ /\ key \notin trades /\ ~OwnsOrder(t.order)
              /\ EmergencyStop
              /\ UNCHANGED <<imbalanced, book, trades, spread>>
           \/ /\ key \notin trades /\ OwnsOrder(t.order)
              /\ trades' = trades \cup {key}
              /\ IF BookCanApply(book, t)
                 THEN /\ book' = BookApply(book, t)
                      /\ spread' = Synced(spread, book')
                      /\ Audit(mode)
                 ELSE EmergencyStop /\ UNCHANGED <<imbalanced, book, spread>>

\* _handle_order_event.
HandleOrder ==
    /\ Polling("order")
    /\ Audit(mode)
    /\ UNCHANGED <<book, trades, spread>>

-----------------------------------------------------------------------------
(* The end of run_once. *)

\* flatten_imbalance: everything both legs hold.
RepairOrders ==
    Children(Near, "SELL", LongTotal(mirror[Near])) \o Children(Near, "BUY", ShortTotal(mirror[Near]))
      \o Children(Far, "SELL", LongTotal(mirror[Far])) \o Children(Far, "BUY", ShortTotal(mirror[Far]))

\* _audit_pair_balance, then _reduce_only_cycle: halt once nothing counts as naked,
\* else send the repair; an order that is refused ends it for this time.
EndOfCycle ==
    /\ batch = NoBatch
    /\ \E outcome \in AuditOutcomes(mode) :
         /\ imbalanced' = outcome[2]
         /\ \/ /\ outcome[1] # "REDUCE_ONLY"
               /\ mode' = outcome[1]
               /\ UNCHANGED ctpVars
            \/ /\ outcome[1] = "REDUCE_ONLY" /\ Balanced
               /\ mode' = "HALTED"
               /\ UNCHANGED ctpVars
            \/ /\ outcome[1] = "REDUCE_ONLY" /\ ~Balanced
               /\ mode' = "REDUCE_ONLY"
               /\ \E n \in 0..Len(RepairOrders) : SendOrders(SubSeq(RepairOrders, 1, n))
    /\ UNCHANGED <<book, trades, spread, batch>>

-----------------------------------------------------------------------------

\* The pair may be held since an earlier day; start reconciled it.
HeldBooks ==
    {EmptyBook(Contracts)} \cup
        {[c \in Contracts |-> Opened(Flat, IF c = leg THEN "BUY" ELSE "SELL", PairVolume)] :
            leg \in Contracts}

Init ==
    /\ exBook \in {RollBook(b) : b \in HeldBooks}
    /\ day = 1 /\ dayBook = exBook /\ mirror = exBook /\ book = exBook
    /\ sent = <<>> /\ working = {} /\ exTrades = <<>> /\ external = 0 /\ resumes = 0
    /\ upstream = <<>> /\ snapReply = NoBook /\ snapshotFresh = TRUE
    /\ seen = {} /\ handling = NoTrade /\ active = {} /\ fifo = <<>>
    /\ mode = "RUNNING" /\ trades = {} /\ spread = Synced(0, exBook)
    /\ imbalanced = FALSE /\ batch = NoBatch

HandleEvent ==
    HandleTrade \/ HandleOrder

Submit == SendLeg \/ LegRefused

EngineStep ==
    \/ TickHold
    \/ \E signal \in Opening \cup {"EXIT", "EMERGENCY_EXIT"} :
          TickRejected(signal) \/ TickExecutes(signal)
    \/ Submit \/ HandleEvent \/ EndOfCycle \/ StopForCause

CallbackStep ==
    /\ OrderCallback \/ TradeCallback \/ TradeEnqueue
    /\ UNCHANGED pairVars

EndOrder ==
    /\ \E o \in working : ExFill(o, TRUE) \/ ExCancel(o, TRUE)
    /\ UNCHANGED pairVars

Next == EngineStep \/ CallbackStep \/ EndOrder

Spec == Init /\ [][Next]_vars

\* All orders are fill-and-kill, so each ends; the callback threads run; the engine
\* goes round every 0.1 s, hands out the critical events before the ticks of a round,
\* and the legging timeout passes.
Fairness ==
    WF_vars(EndOrder) /\ WF_vars(CallbackStep) /\ WF_vars(Submit) /\ SF_vars(HandleEvent)
      /\ SF_vars(EndOfCycle)

FairSpec == Spec /\ Fairness

-----------------------------------------------------------------------------
(***************************************************************************)
(* Properties.                                                             *)
(***************************************************************************)

Quiet == working = {} /\ ~CriticalPending

\* A naked leg is noticed: a pair that stays naked at the exchange does not go on
\* trading (engine.py _audit_pair_balance).
NakedLegIsNoticed ==
    ~BothLegsMatch(exBook) ~> (BothLegsMatch(exBook) \/ mode # "RUNNING")

\* A signal is carried out from the position that the pair really has, unless word of
\* an order is still under way: neither a rejected signal, a rolled back leg nor an
\* unfilled batch leaves the strategy with a position of its own
\* (restore_after_rejected_signal, _sync_strategy_positions).
SignalsOnTheTruth ==
    [][(batch = NoBatch /\ batch' # NoBatch /\ Quiet)
          => BothLegsMatch(exBook) /\ batch'.before = Synced(0, exBook)]_vars

\* Reduce-only ends by itself only when the pair is in balance, unless an order of it
\* is still under way (_reduce_only_cycle).
ReduceOnlyEndsBalanced ==
    [][(mode = "REDUCE_ONLY" /\ EndOfCycle /\ mode' = "HALTED" /\ Quiet)
          => BothLegsMatch(exBook)]_vars
=============================================================================
