------------------------------ MODULE CtpBroker ------------------------------
(***************************************************************************)
(* The fill path of afuture/broker/ctp.py without an order journal: the     *)
(* exchange behind the CTP session, the VeighNa event engine that queues    *)
(* its order and trade returns, and the broker that mirrors positions and   *)
(* feeds one critical FIFO.                                                 *)
(*                                                                          *)
(* Three threads touch the broker.  The event-engine thread runs _on_order  *)
(* and _on_trade; the CTP API thread delivers complete position snapshots   *)
(* straight to _handle_position_snapshot; the engine thread polls.  A step  *)
(* of this module is what one thread does under one lock.  TradingEngine    *)
(* adds the engine thread.                                                  *)
(***************************************************************************)
EXTENDS PositionBook, FiniteSets, SequencesExt

CONSTANTS Contracts,      \* traded contracts; each stands for its exchange too
          Special,        \* those on SHFE or INE, whose closes name a bucket
          MaxOrders,      \* bound: orders this account sends
          MaxExternal,    \* bound: fills of orders this program never sent
          MaxResumes,     \* bound: times a running session is resumed
          MaxVolume,      \* bound: lots of one order
          MaxDay,         \* bound: trading days
          AccountRisks,   \* what an account return may say, of "ok", "daily loss",
                          \* "hard limit"; a run narrows it
          NoTrade, NoBook \* model values: nothing being handled, no reply due

ASSUME BrokerAssumption ==
    /\ Special \subseteq Contracts
    /\ MaxOrders \in Nat /\ MaxExternal \in Nat /\ MaxResumes \in Nat
    /\ MaxVolume \in Nat \ {0} /\ MaxDay \in Nat \ {0}
    /\ AccountRisks \subseteq {"ok", "daily loss", "hard limit"}

VARIABLES
    day,            \* trading day of the CTP session
    exBook,         \* the account's positions as the exchange has them
    dayBook,        \* the same when the trading day began
    sent,           \* order requests sent, in OrderRef order
    working,        \* the indices of those still working at the exchange
    exTrades,       \* today's trades of the account, oldest first
    external,       \* how many of all trades this program never ordered
    resumes,        \* how often a running session was resumed
    upstream,       \* events VeighNa has queued for its event-engine thread
    snapReply,      \* position query reply on its way to the API thread
    mirror,         \* _positions
    seen,           \* _seen_trade_keys
    handling,       \* the trade between _position_lock and _enqueue_critical
    active,         \* order ids VeighNa reports active (get_active_orders)
    fifo,           \* _critical_events
    snapshotFresh   \* a snapshot has arrived since the session connected

exchangeVars == <<day, exBook, dayBook, sent, working, exTrades, external,
                 resumes>>
gatewayVars  == <<upstream, snapReply>>
brokerVars   == <<mirror, seen, handling, active, fifo, snapshotFresh>>
ctpVars      == <<exchangeVars, gatewayVars, brokerVars>>

-----------------------------------------------------------------------------

OrderIds == 1..MaxOrders

\* The order of a trade this program did not place.
ForeignOrder == 0

OrderRequest ==
    [contract : Contracts, side : Sides, offset : Offsets, volume : Nat \ {0}]

Trade ==
    [id : Nat \ {0}, order : {ForeignOrder} \cup OrderIds, contract : Contracts,
     side : Sides, offset : Offsets, volume : Nat \ {0}]

\* Seeded bug: the identity of a trade without its day.
TradeKeyWithoutDay(d, t) == <<1, t.contract, t.id>>

\* An exchange numbers its trades afresh every day and knows nothing of the
\* numbers of the others; only all three parts together are an identity.
TradeKey(d, t) == <<d, t.contract, t.id>>

TradeKeys == (1..MaxDay) \X Contracts \X (Nat \ {0})

OwnsOrder(order) == order # ForeignOrder

TradeEvent(t)            == [type |-> "trade", trade |-> t]
OrderEvent(o, isActive)  == [type |-> "order", order |-> o, active |-> isActive]
AccountEvent(d, r)       == [type |-> "account", day |-> d, risk |-> r]
SnapshotEvent(book)      == [type |-> "position_snapshot", positions |-> book]
BrokerError              == [type |-> "broker_error"]

UpstreamEvents ==
    [type : {"trade"}, trade : Trade]
        \cup [type : {"order"}, order : OrderIds, active : BOOLEAN]
        \cup [type : {"account"}, day : 1..MaxDay, risk : AccountRisks]

FifoEvents ==
    UpstreamEvents
        \cup [type : {"position_snapshot"}, positions : Book(Contracts)]
        \cup [type : {"broker_error"}]

BrokerTypeOK ==
    /\ day \in 1..MaxDay
    /\ exBook \in Book(Contracts) /\ dayBook \in Book(Contracts)
    /\ sent \in Seq(OrderRequest) /\ Len(sent) <= MaxOrders
    /\ working \subseteq DOMAIN sent
    /\ exTrades \in Seq(Trade)
    /\ external \in 0..MaxExternal /\ resumes \in 0..MaxResumes
    /\ upstream \in Seq(UpstreamEvents)
    /\ snapReply \in Book(Contracts) \cup {NoBook}
    /\ mirror \in Book(Contracts)
    /\ seen \subseteq TradeKeys
    /\ handling \in Trade \cup {NoTrade}
    /\ active \subseteq OrderIds
    /\ fifo \in Seq(FifoEvents)
    /\ snapshotFresh \in BOOLEAN

BrokerInit ==
    /\ day = 1
    /\ exBook = EmptyBook(Contracts) /\ dayBook = exBook
    /\ sent = <<>> /\ working = {} /\ exTrades = <<>> /\ external = 0 /\ resumes = 0
    /\ upstream = <<>> /\ snapReply = NoBook
    /\ mirror = exBook /\ seen = {} /\ handling = NoTrade
    /\ active = {} /\ fifo = <<>> /\ snapshotFresh = FALSE

-----------------------------------------------------------------------------
(* The exchange and the CTP session (external).  `up' says that the process *)
(* is connected, so that the returns of a fill reach its event engine.      *)

Push(up, events) == upstream' = IF up THEN upstream \o events ELSE upstream

NextTradeId(contract) ==
    Cardinality({i \in DOMAIN exTrades : exTrades[i].contract = contract}) + 1

\* A working order is filled: the order return goes ahead of the trade return.
ExFill(o, up) ==
    LET req == sent[o]
        t == [id |-> NextTradeId(req.contract), order |-> o, contract |-> req.contract,
              side |-> req.side, offset |-> req.offset, volume |-> req.volume]
    IN  /\ o \in working
        /\ BookCanApply(exBook, t)
        /\ working' = working \ {o}
        /\ exBook' = BookApply(exBook, t)
        /\ exTrades' = Append(exTrades, t)
        /\ Push(up, <<OrderEvent(o, FALSE), TradeEvent(t)>>)
        /\ UNCHANGED <<day, dayBook, sent, external, resumes, snapReply, brokerVars>>

\* A FAK remainder, a cancel request or a rejection ends the order unfilled.
ExCancel(o, up) ==
    /\ o \in working
    /\ working' = working \ {o}
    /\ Push(up, <<OrderEvent(o, FALSE)>>)
    /\ UNCHANGED <<day, exBook, dayBook, sent, exTrades, external, resumes, snapReply,
                   brokerVars>>

\* Somebody trades the account by hand.
ExForeignFill(contract, side, offset, v, up) ==
    LET t == [id |-> NextTradeId(contract), order |-> ForeignOrder, contract |-> contract,
              side |-> side, offset |-> offset, volume |-> v]
    IN  /\ external < MaxExternal
        /\ BookCanApply(exBook, t)
        /\ external' = external + 1
        /\ exBook' = BookApply(exBook, t)
        /\ exTrades' = Append(exTrades, t)
        /\ Push(up, <<TradeEvent(t)>>)
        /\ UNCHANGED <<day, dayBook, sent, working, resumes, snapReply, brokerVars>>

\* Between two trading days the market is closed for hours: nothing is working
\* and whatever was queued has been handled.
ExRollDay ==
    /\ day < MaxDay
    /\ working = {} /\ upstream = <<>> /\ fifo = <<>>
    /\ handling = NoTrade /\ snapReply = NoBook
    /\ day' = day + 1
    /\ exBook' = RollBook(exBook)
    /\ dayBook' = exBook'
    /\ exTrades' = <<>>
    /\ UNCHANGED <<sent, working, external, resumes, gatewayVars, brokerVars>>

ReplayedTrades == [i \in DOMAIN exTrades |-> TradeEvent(exTrades[i])]

Queued(queue, type) == \E i \in DOMAIN queue : queue[i].type = type

\* The session resumes from its start: CTP sends today's trades once more.
ExResume ==
    /\ resumes < MaxResumes
    /\ exTrades # <<>>
    /\ resumes' = resumes + 1
    /\ upstream' = upstream \o ReplayedTrades
    /\ UNCHANGED <<day, exBook, dayBook, sent, working, exTrades, external, snapReply,
                   brokerVars>>

\* A position query is answered with the positions of this moment.  Queries are
\* seconds apart and the engine polls every 0.1 s: one answer at a time.
ExAnswerPositions ==
    /\ snapReply = NoBook /\ ~Queued(fifo, "position_snapshot")
    /\ snapReply' = exBook
    /\ UNCHANGED <<exchangeVars, upstream, brokerVars>>

\* An account query is answered; what it says depends on the market.
ExAnswerAccount(risk) ==
    /\ ~Queued(upstream \o fifo, "account")
    /\ upstream' = Append(upstream, AccountEvent(day, risk))
    /\ UNCHANGED <<exchangeVars, snapReply, brokerVars>>

\* A new process connects: nothing of the old one's memory is left, the durable
\* identities are seeded, and VeighNa replays the session's orders and trades.
\* Its order returns come at once and nobody reads them one by one: only the
\* resulting set of active orders is kept.
Connect(identities) ==
    /\ mirror' = EmptyBook(Contracts)
    /\ seen' = identities
    /\ handling' = NoTrade
    /\ active' = working
    /\ fifo' = <<>>
    /\ snapReply' = NoBook
    /\ snapshotFresh' = FALSE
    /\ upstream' = ReplayedTrades
    /\ UNCHANGED exchangeVars

\* The process is gone, and its queues and memory with it.
Disconnect ==
    /\ mirror' = EmptyBook(Contracts)
    /\ seen' = {} /\ handling' = NoTrade /\ active' = {} /\ fifo' = <<>>
    /\ snapReply' = NoBook /\ upstream' = <<>> /\ snapshotFresh' = FALSE
    /\ UNCHANGED exchangeVars

-----------------------------------------------------------------------------
(* The broker's callbacks. *)

NextIs(type) == upstream # <<>> /\ Head(upstream).type = type /\ handling = NoTrade

\* _on_order, after VeighNa's own order cache has taken the return.
OrderCallback ==
    /\ NextIs("order")
    /\ LET e == Head(upstream)
       IN  /\ active' = IF e.active THEN active \cup {e.order} ELSE active \ {e.order}
           /\ fifo' = Append(fifo, e)
    /\ upstream' = Tail(upstream)
    /\ UNCHANGED <<exchangeVars, snapReply, mirror, seen, handling, snapshotFresh>>

\* _on_account.
AccountCallback ==
    /\ NextIs("account")
    /\ fifo' = Append(fifo, Head(upstream))
    /\ upstream' = Tail(upstream)
    /\ UNCHANGED <<exchangeVars, snapReply, mirror, seen, handling, active, snapshotFresh>>

\* Seeded bug: the mirror takes a fill it has no lots for.
TradeCallbackUnchecked ==
    /\ NextIs("trade")
    /\ upstream' = Tail(upstream)
    /\ LET t == Head(upstream).trade
           key == TradeKey(day, t)
       IN  IF key \in seen
           THEN UNCHANGED <<mirror, seen, handling>>
           ELSE /\ mirror' = BookApply(mirror, t)
                /\ seen' = seen \cup {key}
                /\ handling' = t
    /\ UNCHANGED <<exchangeVars, snapReply, active, fifo, snapshotFresh>>

\* _on_trade up to the end of the position lock: a known key is dropped, a fill
\* the mirror cannot take becomes an error, any other changes the mirror.  Its
\* event is queued only afterwards, by TradeEnqueue.
TradeCallback ==
    /\ NextIs("trade")
    /\ upstream' = Tail(upstream)
    /\ LET t == Head(upstream).trade
           key == TradeKey(day, t)
       IN  \/ /\ key \in seen
              /\ UNCHANGED <<mirror, seen, handling, fifo>>
           \/ /\ key \notin seen
              /\ ~BookCanApply(mirror, t)
              /\ fifo' = Append(fifo, BrokerError)
              /\ UNCHANGED <<mirror, seen, handling>>
           \/ /\ key \notin seen
              /\ BookCanApply(mirror, t)
              /\ mirror' = BookApply(mirror, t)
              /\ seen' = seen \cup {key}
              /\ handling' = t
              /\ UNCHANGED fifo
    /\ UNCHANGED <<exchangeVars, snapReply, active, snapshotFresh>>

\* The last statement of _on_trade_impl, outside the position lock.
TradeEnqueue ==
    /\ handling # NoTrade
    /\ fifo' = Append(fifo, TradeEvent(handling))
    /\ handling' = NoTrade
    /\ UNCHANGED <<exchangeVars, gatewayVars, mirror, seen, active, snapshotFresh>>

\* _handle_position_snapshot: mirror and event change under one position lock.
SnapshotCallback ==
    /\ snapReply # NoBook
    /\ mirror' = snapReply
    /\ fifo' = Append(fifo, SnapshotEvent(snapReply))
    /\ snapReply' = NoBook
    /\ snapshotFresh' = TRUE
    /\ UNCHANGED <<exchangeVars, upstream, seen, handling, active>>

\* has_pending_critical_events.
CriticalPending == upstream # <<>> \/ handling # NoTrade \/ fifo # <<>>

\* send_order: the gateway takes the request and queues its first order return.
SendOrders(requests) ==
    /\ Len(sent) + Len(requests) <= MaxOrders
    /\ sent' = sent \o requests
    /\ working' = working \cup (Len(sent) + 1)..(Len(sent) + Len(requests))
    /\ upstream' = upstream \o [i \in DOMAIN requests |-> OrderEvent(Len(sent) + i, TRUE)]
    /\ UNCHANGED <<day, exBook, dayBook, exTrades, external, resumes, snapReply, brokerVars>>
=============================================================================
