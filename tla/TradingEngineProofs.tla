------------------------- MODULE TradingEngineProofs -------------------------
(***************************************************************************)
(* Type correctness of the broker and the engine, for any contracts, orders, *)
(* lots, days and account returns.  Its substance is that no book ever has a *)
(* negative bucket: not the exchange's, nor the mirror, which snapshots and  *)
(* fills change in any order, nor the engine's saved one.  And that a stop   *)
(* survives the death of the process.                                        *)
(***************************************************************************)
EXTENDS TradingEngine, FiniteSetTheorems, TLAPS

\* The bounds of the model, as the proofs use them.
LEMMA Bounds ==
    /\ MaxOrders \in Nat /\ MaxExternal \in Nat /\ MaxResumes \in Nat
    /\ MaxVolume \in Nat \ {0} /\ MaxDay \in Nat \ {0}
  BY BrokerAssumption DEF BrokerAssumption

-----------------------------------------------------------------------------
(* Books. *)

\* A fill that passes the program's check leaves every bucket non-negative.
LEMMA ApplyTradeTyped ==
    ASSUME NEW p \in Position, NEW t,
           t.side \in Sides, t.offset \in Offsets, t.volume \in Nat, CanApply(p, t)
    PROVE  ApplyTrade(p, t) \in Position
  <1>1. CASE t.offset = "OPEN"
    <2>1. OpenBucket(t.side) \in Buckets
      BY DEF OpenBucket, Buckets
    <2>2. p[OpenBucket(t.side)] + t.volume \in Nat
      BY <2>1 DEF Position
    <2> QED BY <1>1, <2>1, <2>2 DEF ApplyTrade, Opened, Position
  <1>2. CASE t.offset # "OPEN"
    <2> DEFINE fromYesterday == CASE t.offset = "CLOSE_TODAY"     -> 0
                                  [] t.offset = "CLOSE_YESTERDAY" -> t.volume
                                  [] OTHER -> SmallerOf(t.volume, p[YesterdayBucket(t.side)])
    <2>1. /\ TodayBucket(t.side) \in Buckets /\ YesterdayBucket(t.side) \in Buckets
          /\ TodayBucket(t.side) # YesterdayBucket(t.side)
      BY DEF TodayBucket, YesterdayBucket, Buckets
    <2>2. p[TodayBucket(t.side)] \in Nat /\ p[YesterdayBucket(t.side)] \in Nat
      BY <2>1 DEF Position
    <2>3. /\ fromYesterday \in Nat /\ fromYesterday <= p[YesterdayBucket(t.side)]
          /\ t.volume - fromYesterday \in Nat
          /\ t.volume - fromYesterday <= p[TodayBucket(t.side)]
      BY <1>2, <2>2 DEF CanApply, AvailableToClose, SmallerOf, Offsets
    <2>4. ApplyTrade(p, t) =
             [p EXCEPT ![YesterdayBucket(t.side)] = @ - fromYesterday,
                       ![TodayBucket(t.side)]     = @ - (t.volume - fromYesterday)]
      BY <1>2 DEF ApplyTrade, Consumed
    <2>5. /\ p[YesterdayBucket(t.side)] - fromYesterday \in Nat
          /\ p[TodayBucket(t.side)] - (t.volume - fromYesterday) \in Nat
      BY <2>2, <2>3
    <2> HIDE DEF fromYesterday
    <2> QED BY <2>1, <2>4, <2>5 DEF Position
  <1> QED BY <1>1, <1>2

LEMMA BookApplyTyped ==
    ASSUME NEW book \in Book(Contracts), NEW t \in Trade, BookCanApply(book, t)
    PROVE  BookApply(book, t) \in Book(Contracts)
  <1>1. /\ t.contract \in Contracts /\ t.side \in Sides /\ t.offset \in Offsets
        /\ t.volume \in Nat
    BY DEF Trade
  <1>2. book[t.contract] \in Position
    BY <1>1 DEF Book
  <1>3. ApplyTrade(book[t.contract], t) \in Position
    BY <1>1, <1>2, ApplyTradeTyped DEF BookCanApply
  <1> QED BY <1>1, <1>3 DEF BookApply, Book

LEMMA EmptyBookTyped == EmptyBook(Contracts) \in Book(Contracts)
  BY DEF EmptyBook, Book, Flat, Position

LEMMA RollBookTyped ==
    ASSUME NEW book \in Book(Contracts)
    PROVE  RollBook(book) \in Book(Contracts)
  <1>1. ASSUME NEW p \in Position PROVE RollPosition(p) \in Position
    <2>1. LongTotal(p) \in Nat /\ ShortTotal(p) \in Nat
      BY DEF LongTotal, ShortTotal, Position, Buckets
    <2> QED BY <2>1 DEF RollPosition, Position
  <1> QED BY <1>1 DEF RollBook, Book

\* What plan_close plans.
ChildOrder == [side : Sides, offset : Offsets, volume : Nat \ {0}]

LEMMA PlanCloseTyped ==
    ASSUME NEW p \in Position, NEW special, NEW side \in Sides, NEW v \in Nat, NEW first
    PROVE  PlanClose(p, special, side, v, first) \in Seq(ChildOrder)
  <1> DEFINE child(offset, w) ==
               IF w = 0 THEN <<>> ELSE << [side |-> side, offset |-> offset, volume |-> w] >>
  <1>1. ASSUME NEW offset \in Offsets, NEW w \in Nat
        PROVE  child(offset, w) \in Seq(ChildOrder)
    <2>1. CASE w = 0
      BY <2>1
    <2>2. CASE w # 0
      <3>1. [side |-> side, offset |-> offset, volume |-> w] \in ChildOrder
        BY <2>2 DEF ChildOrder
      <3> QED BY <2>2, <3>1
    <2> QED BY <2>1, <2>2
  <1>2. p[TodayBucket(side)] \in Nat /\ p[YesterdayBucket(side)] \in Nat
    BY DEF TodayBucket, YesterdayBucket, Position, Buckets
  <1>3. ASSUME NEW a \in Nat, NEW b \in Nat
        PROVE  SmallerOf(v, a) \in Nat /\ SmallerOf(v - SmallerOf(v, a), b) \in Nat
    BY DEF SmallerOf
  <1>4. "CLOSE" \in Offsets /\ "CLOSE_TODAY" \in Offsets /\ "CLOSE_YESTERDAY" \in Offsets
    BY DEF Offsets
  <1>5. ASSUME NEW s \in Seq(ChildOrder), NEW u \in Seq(ChildOrder)
        PROVE  s \o u \in Seq(ChildOrder)
    OBVIOUS
  <1> HIDE DEF child
  <1>6. \/ PlanClose(p, special, side, v, first) = child("CLOSE", v)
        \/ \E f, s \in Offsets : \E x, y \in Nat :
              PlanClose(p, special, side, v, first) = child(f, x) \o child(s, y)
    BY <1>2, <1>3, <1>4 DEF PlanClose, child
  <1> QED BY <1>1, <1>4, <1>5, <1>6

-----------------------------------------------------------------------------
(* Events and queues. *)

LEMMA EventsTyped ==
    /\ \A t \in Trade : TradeEvent(t) \in UpstreamEvents
    /\ \A o \in OrderIds, a \in BOOLEAN : OrderEvent(o, a) \in UpstreamEvents
    /\ \A d \in 1..MaxDay, r \in AccountRisks : AccountEvent(d, r) \in UpstreamEvents
    /\ \A book \in Book(Contracts) : SnapshotEvent(book) \in FifoEvents
    /\ BrokerError \in FifoEvents
    /\ UpstreamEvents \subseteq FifoEvents
  BY DEF UpstreamEvents, FifoEvents, TradeEvent, OrderEvent, AccountEvent, SnapshotEvent,
         BrokerError

LEMMA AppendTyped ==
    ASSUME NEW S, NEW s \in Seq(S), NEW e \in S
    PROVE  Append(s, e) \in Seq(S)
  OBVIOUS

LEMMA ConcatTyped ==
    ASSUME NEW S, NEW s \in Seq(S), NEW u \in Seq(S)
    PROVE  s \o u \in Seq(S)
  OBVIOUS

LEMMA OneTyped ==
    ASSUME NEW S, NEW e \in S
    PROVE  <<e>> \in Seq(S)
  OBVIOUS

LEMMA TwoTyped ==
    ASSUME NEW S, NEW e \in S, NEW f \in S
    PROVE  <<e, f>> \in Seq(S)
  OBVIOUS

LEMMA ReplayedTyped ==
    ASSUME exTrades \in Seq(Trade)
    PROVE  ReplayedTrades \in Seq(UpstreamEvents)
  BY EventsTyped DEF ReplayedTrades

\* The first return in the queue is what its type says.
LEMMA HeadTyped ==
    ASSUME BrokerTypeOK, upstream # <<>>
    PROVE  /\ Head(upstream) \in UpstreamEvents /\ Head(upstream) \in FifoEvents
           /\ Tail(upstream) \in Seq(UpstreamEvents)
           /\ Head(upstream).type = "trade" => Head(upstream).trade \in Trade
           /\ Head(upstream).type = "order" => Head(upstream).order \in OrderIds
  <1>1. Head(upstream) \in UpstreamEvents /\ Tail(upstream) \in Seq(UpstreamEvents)
    BY DEF BrokerTypeOK
  <1> QED BY <1>1, EventsTyped DEF UpstreamEvents

LEMMA FifoHeadTyped ==
    ASSUME BrokerTypeOK, fifo # <<>>
    PROVE  /\ Tail(fifo) \in Seq(FifoEvents)
           /\ Head(fifo).type = "trade" => Head(fifo).trade \in Trade
           /\ Head(fifo).type = "account" =>
                 Head(fifo).day \in 1..MaxDay /\ Head(fifo).risk \in AccountRisks
  <1>1. Head(fifo) \in FifoEvents /\ Tail(fifo) \in Seq(FifoEvents)
    BY DEF BrokerTypeOK
  <1> QED BY <1>1 DEF FifoEvents, UpstreamEvents

\* The counters and the order indices stay within their bounds.
LEMMA Counted ==
    ASSUME BrokerTypeOK
    PROVE  /\ working \subseteq OrderIds /\ DOMAIN sent \subseteq OrderIds
           /\ external < MaxExternal => external + 1 \in 0..MaxExternal
           /\ resumes < MaxResumes => resumes + 1 \in 0..MaxResumes
           /\ day < MaxDay => day + 1 \in 1..MaxDay
  <1>1. sent \in Seq(OrderRequest) /\ Len(sent) <= MaxOrders /\ working \subseteq DOMAIN sent
    BY DEF BrokerTypeOK
  <1>2. external \in 0..MaxExternal /\ resumes \in 0..MaxResumes /\ day \in 1..MaxDay
    BY DEF BrokerTypeOK
  <1>3. DOMAIN sent \subseteq OrderIds
    BY <1>1, Bounds DEF OrderIds
  <1>4. external < MaxExternal => external + 1 \in 0..MaxExternal
    BY <1>2, Bounds
  <1>5. resumes < MaxResumes => resumes + 1 \in 0..MaxResumes
    BY <1>2, Bounds
  <1>6. day < MaxDay => day + 1 \in 1..MaxDay
    BY <1>2, Bounds
  <1> QED BY <1>1, <1>3, <1>4, <1>5, <1>6

\* The identity of a trade.
LEMMA TradeKeyTyped ==
    ASSUME NEW d \in 1..MaxDay, NEW t \in Trade
    PROVE  TradeKey(d, t) \in TradeKeys
  BY DEF TradeKey, TradeKeys, Trade

-----------------------------------------------------------------------------
(* The exchange and the session. *)

LEMMA NewTradeTyped ==
    ASSUME BrokerTypeOK, NEW o \in {ForeignOrder} \cup OrderIds, NEW c \in Contracts,
           NEW side \in Sides, NEW offset \in Offsets, NEW v \in Nat \ {0}
    PROVE  [id |-> NextTradeId(c), order |-> o, contract |-> c, side |-> side,
            offset |-> offset, volume |-> v] \in Trade
  <1>1. IsFiniteSet(DOMAIN exTrades)
    <2>1. Len(exTrades) \in Nat /\ DOMAIN exTrades = 1..Len(exTrades)
      BY DEF BrokerTypeOK
    <2> QED BY <2>1, FS_Interval
  <1>2. IsFiniteSet({i \in DOMAIN exTrades : exTrades[i].contract = c})
    BY <1>1, FS_Subset
  <1>3. NextTradeId(c) \in Nat \ {0}
    BY <1>2, FS_CardinalityType DEF NextTradeId
  <1> QED BY <1>3 DEF Trade

LEMMA PushTyped ==
    ASSUME BrokerTypeOK, NEW up, NEW events \in Seq(UpstreamEvents), Push(up, events)
    PROVE  upstream' \in Seq(UpstreamEvents)
  BY ConcatTyped DEF BrokerTypeOK, Push

LEMMA ExFillTyped ==
    ASSUME BrokerTypeOK, NEW o \in working, NEW up, ExFill(o, up)
    PROVE  BrokerTypeOK'
  <1> DEFINE req == sent[o]
             t == [id |-> NextTradeId(req.contract), order |-> o, contract |-> req.contract,
                   side |-> req.side, offset |-> req.offset, volume |-> req.volume]
  <1>1. o \in OrderIds /\ req \in OrderRequest
    BY Counted DEF BrokerTypeOK
  <1>2. t \in Trade
    BY <1>1, NewTradeTyped DEF OrderRequest
  <1>3. exBook' \in Book(Contracts)
    BY <1>2, BookApplyTyped DEF ExFill, BrokerTypeOK
  <1>4. <<OrderEvent(o, FALSE), TradeEvent(t)>> \in Seq(UpstreamEvents)
    BY <1>1, <1>2, EventsTyped, TwoTyped
  <1>5. upstream' \in Seq(UpstreamEvents)
    BY <1>4, PushTyped DEF ExFill
  <1>6. exTrades' \in Seq(Trade)
    BY <1>2, AppendTyped DEF ExFill, BrokerTypeOK
  <1>7. working' \subseteq DOMAIN sent'
    BY DEF ExFill, BrokerTypeOK
  <1> QED BY <1>3, <1>5, <1>6, <1>7 DEF ExFill, BrokerTypeOK, brokerVars

LEMMA ExCancelTyped ==
    ASSUME BrokerTypeOK, NEW o \in working, NEW up, ExCancel(o, up)
    PROVE  BrokerTypeOK'
  <1>1. o \in OrderIds
    BY Counted
  <1>2. <<OrderEvent(o, FALSE)>> \in Seq(UpstreamEvents)
    BY <1>1, EventsTyped, OneTyped
  <1>3. upstream' \in Seq(UpstreamEvents)
    BY <1>2, PushTyped DEF ExCancel
  <1>4. working' \subseteq DOMAIN sent'
    BY DEF ExCancel, BrokerTypeOK
  <1> QED BY <1>3, <1>4 DEF ExCancel, BrokerTypeOK, brokerVars

LEMMA ExForeignFillTyped ==
    ASSUME BrokerTypeOK, NEW c \in Contracts, NEW side \in Sides, NEW offset \in Offsets,
           NEW v \in 1..MaxVolume, NEW up, ExForeignFill(c, side, offset, v, up)
    PROVE  BrokerTypeOK'
  <1> DEFINE t == [id |-> NextTradeId(c), order |-> ForeignOrder, contract |-> c,
                   side |-> side, offset |-> offset, volume |-> v]
  <1>1. t \in Trade
    <2>1. v \in Nat \ {0}
      BY Bounds
    <2> QED BY <2>1, NewTradeTyped
  <1>2. exBook' \in Book(Contracts)
    BY <1>1, BookApplyTyped DEF ExForeignFill, BrokerTypeOK
  <1>3. upstream' \in Seq(UpstreamEvents)
    BY <1>1, EventsTyped, OneTyped, PushTyped DEF ExForeignFill
  <1>4. exTrades' \in Seq(Trade)
    BY <1>1, AppendTyped DEF ExForeignFill, BrokerTypeOK
  <1>5. external' \in 0..MaxExternal
    BY Counted DEF ExForeignFill
  <1> QED BY <1>2, <1>3, <1>4, <1>5 DEF ExForeignFill, BrokerTypeOK, brokerVars

LEMMA SessionTyped ==
    ASSUME BrokerTypeOK,
           \/ ExRollDay \/ ExResume \/ ExAnswerPositions
           \/ \E risk \in AccountRisks : ExAnswerAccount(risk)
    PROVE  BrokerTypeOK'
  <1>1. CASE ExRollDay
    <2>1. exBook' \in Book(Contracts) /\ dayBook' \in Book(Contracts)
      BY <1>1, RollBookTyped DEF ExRollDay, BrokerTypeOK
    <2>2. day' \in 1..MaxDay
      BY <1>1, Counted DEF ExRollDay
    <2>3. exTrades' \in Seq(Trade)
      BY <1>1 DEF ExRollDay
    <2> QED BY <1>1, <2>1, <2>2, <2>3 DEF ExRollDay, BrokerTypeOK, gatewayVars, brokerVars
  <1>2. CASE ExResume
    <2>1. upstream' \in Seq(UpstreamEvents)
      BY <1>2, ReplayedTyped, ConcatTyped DEF ExResume, BrokerTypeOK
    <2>2. resumes' \in 0..MaxResumes
      BY <1>2, Counted DEF ExResume
    <2> QED BY <1>2, <2>1, <2>2 DEF ExResume, BrokerTypeOK, brokerVars
  <1>3. CASE ExAnswerPositions
    BY <1>3 DEF ExAnswerPositions, BrokerTypeOK, exchangeVars, brokerVars
  <1>4. CASE \E risk \in AccountRisks : ExAnswerAccount(risk)
    <2>1. PICK risk \in AccountRisks : ExAnswerAccount(risk)
      BY <1>4
    <2>2. upstream' \in Seq(UpstreamEvents)
      BY <2>1, EventsTyped, AppendTyped DEF ExAnswerAccount, BrokerTypeOK
    <2> QED BY <2>1, <2>2 DEF ExAnswerAccount, BrokerTypeOK, exchangeVars, brokerVars
  <1> QED BY <1>1, <1>2, <1>3, <1>4

LEMMA ConnectTyped ==
    ASSUME BrokerTypeOK, NEW identities \in SUBSET TradeKeys, Connect(identities)
    PROVE  BrokerTypeOK'
  <1>1. working \subseteq OrderIds
    BY Counted
  <1>2. upstream' \in Seq(UpstreamEvents)
    BY ReplayedTyped DEF Connect, BrokerTypeOK
  <1>3. fifo' \in Seq(FifoEvents)
    BY DEF Connect
  <1> QED BY <1>1, <1>2, <1>3, EmptyBookTyped DEF Connect, BrokerTypeOK, exchangeVars

LEMMA DisconnectTyped ==
    ASSUME BrokerTypeOK, Disconnect
    PROVE  BrokerTypeOK'
  <1>1. fifo' \in Seq(FifoEvents) /\ upstream' \in Seq(UpstreamEvents)
    BY DEF Disconnect
  <1> QED BY <1>1, EmptyBookTyped DEF Disconnect, BrokerTypeOK, exchangeVars

-----------------------------------------------------------------------------
(* The broker. *)

LEMMA CallbacksTyped ==
    ASSUME BrokerTypeOK,
           OrderCallback \/ AccountCallback \/ TradeCallback \/ TradeEnqueue \/ SnapshotCallback
    PROVE  BrokerTypeOK'
  <1>1. CASE OrderCallback
    <2>1. /\ Head(upstream) \in FifoEvents /\ Tail(upstream) \in Seq(UpstreamEvents)
          /\ Head(upstream).order \in OrderIds
      BY <1>1, HeadTyped DEF OrderCallback, NextIs
    <2>2. fifo' \in Seq(FifoEvents)
      BY <1>1, <2>1, AppendTyped DEF OrderCallback, BrokerTypeOK
    <2>3. active' \subseteq OrderIds
      BY <1>1, <2>1 DEF OrderCallback, BrokerTypeOK
    <2> QED BY <1>1, <2>1, <2>2, <2>3 DEF OrderCallback, BrokerTypeOK, exchangeVars
  <1>2. CASE AccountCallback
    <2>1. Head(upstream) \in FifoEvents /\ Tail(upstream) \in Seq(UpstreamEvents)
      BY <1>2, HeadTyped DEF AccountCallback, NextIs
    <2>2. fifo' \in Seq(FifoEvents)
      BY <1>2, <2>1, AppendTyped DEF AccountCallback, BrokerTypeOK
    <2> QED BY <1>2, <2>1, <2>2 DEF AccountCallback, BrokerTypeOK, exchangeVars
  <1>3. CASE TradeCallback
    <2> DEFINE t == Head(upstream).trade
    <2>1. Tail(upstream) \in Seq(UpstreamEvents) /\ t \in Trade
      BY <1>3, HeadTyped DEF TradeCallback, NextIs
    <2>2. TradeKey(day, t) \in TradeKeys
      BY <2>1, TradeKeyTyped DEF BrokerTypeOK
    <2>3. BookCanApply(mirror, t) => BookApply(mirror, t) \in Book(Contracts)
      BY <2>1, BookApplyTyped DEF BrokerTypeOK
    <2>4. Append(fifo, BrokerError) \in Seq(FifoEvents)
      BY EventsTyped, AppendTyped DEF BrokerTypeOK
    <2>5. /\ mirror' \in Book(Contracts) /\ seen' \subseteq TradeKeys
          /\ handling' \in Trade \cup {NoTrade} /\ fifo' \in Seq(FifoEvents)
      BY <1>3, <2>1, <2>2, <2>3, <2>4 DEF TradeCallback, BrokerTypeOK
    <2> QED BY <1>3, <2>1, <2>5 DEF TradeCallback, BrokerTypeOK, exchangeVars
  <1>4. CASE TradeEnqueue
    <2>1. handling \in Trade
      BY <1>4 DEF TradeEnqueue, BrokerTypeOK
    <2>2. fifo' \in Seq(FifoEvents)
      BY <1>4, <2>1, EventsTyped, AppendTyped DEF TradeEnqueue, BrokerTypeOK
    <2> QED BY <1>4, <2>2 DEF TradeEnqueue, BrokerTypeOK, exchangeVars, gatewayVars
  <1>5. CASE SnapshotCallback
    <2>1. snapReply \in Book(Contracts)
      BY <1>5 DEF SnapshotCallback, BrokerTypeOK
    <2>2. fifo' \in Seq(FifoEvents)
      BY <1>5, <2>1, EventsTyped, AppendTyped DEF SnapshotCallback, BrokerTypeOK
    <2> QED BY <1>5, <2>1, <2>2 DEF SnapshotCallback, BrokerTypeOK, exchangeVars
  <1> QED BY <1>1, <1>2, <1>3, <1>4, <1>5

LEMMA SendOrdersTyped ==
    ASSUME BrokerTypeOK, NEW requests \in Seq(OrderRequest), SendOrders(requests)
    PROVE  BrokerTypeOK'
  <1> DEFINE new == (Len(sent) + 1)..(Len(sent) + Len(requests))
             returns == [i \in DOMAIN requests |-> OrderEvent(Len(sent) + i, TRUE)]
  <1>1. /\ sent \in Seq(OrderRequest) /\ working \subseteq DOMAIN sent
        /\ Len(sent) + Len(requests) <= MaxOrders
        /\ sent' = sent \o requests /\ working' = working \cup new
        /\ upstream' = upstream \o returns
    BY DEF SendOrders, BrokerTypeOK
  <1>2. /\ sent' \in Seq(OrderRequest) /\ Len(sent') <= MaxOrders
        /\ working' \subseteq DOMAIN sent'
    BY <1>1, Bounds
  <1>3. \A i \in DOMAIN requests : Len(sent) + i \in OrderIds
    BY <1>1, Bounds DEF OrderIds
  <1>4. \A i \in DOMAIN requests : returns[i] \in UpstreamEvents
    BY <1>3, EventsTyped
  <1>5. returns \in Seq(UpstreamEvents)
    <2>1. Len(requests) \in Nat /\ DOMAIN requests = 1..Len(requests)
      OBVIOUS
    <2>2. returns \in [1..Len(requests) -> UpstreamEvents]
      BY <1>4, <2>1
    <2> HIDE DEF returns
    <2> QED BY <2>1, <2>2
  <1>6. upstream' \in Seq(UpstreamEvents)
    BY <1>1, <1>5, ConcatTyped DEF BrokerTypeOK
  <1> QED BY <1>2, <1>6 DEF SendOrders, BrokerTypeOK, brokerVars

-----------------------------------------------------------------------------
(* The engine's records. *)

LEMMA InitialTyped == InitialState \in RuntimeState
  BY EmptyBookTyped DEF InitialState, RuntimeState, Modes

\* Every change the engine makes to a RuntimeState yields one.
LEMMA ChangesTyped ==
    ASSUME NEW s \in RuntimeState
    PROVE  /\ ReduceOnly(s) \in RuntimeState /\ Halt(s) \in RuntimeState
           /\ Resume(s) \in RuntimeState /\ CircuitRecovered(s) \in RuntimeState
           /\ [s EXCEPT !.reconciled = TRUE] \in RuntimeState
           /\ [s EXCEPT !.mode = "HALTED", !.kill_switch = TRUE] \in RuntimeState
           /\ \A d \in (1..MaxDay) \cup {NoDay} : [s EXCEPT !.circuit_day = d] \in RuntimeState
           /\ \A book \in Book(Contracts) : [s EXCEPT !.positions = book] \in RuntimeState
           /\ \A ids \in SUBSET TradeKeys : [s EXCEPT !.recent_trade_ids = ids] \in RuntimeState
  BY DEF RuntimeState, Modes, ReduceOnly, Halt, Resume, CircuitRecovered

LEMMA AdvanceDayTyped ==
    ASSUME NEW s \in RuntimeState, NEW d \in 1..MaxDay
    PROVE  AdvanceDay(s, d) \in RuntimeState
  <1>1. RollBook(s.positions) \in Book(Contracts)
    BY RollBookTyped DEF RuntimeState
  <1>2. {key \in s.recent_trade_ids : key[1] = d} \subseteq TradeKeys
    BY DEF RuntimeState
  <1> QED BY <1>1, <1>2 DEF AdvanceDay, RuntimeState

EngineTypeOK == state \in RuntimeState /\ disk \in RuntimeState /\ halted \in BOOLEAN

LEMMA EmergencyStopTyped ==
    ASSUME EngineTypeOK, NEW s \in RuntimeState, NEW reason, EmergencyStop(s, reason)
    PROVE  EngineTypeOK'
  <1> DEFINE marked == [s EXCEPT !.circuit_day =
                          IF reason = "daily loss" THEN s.trading_day ELSE NoDay]
  <1>1. marked \in RuntimeState
    <2>1. s.trading_day \in (1..MaxDay) \cup {NoDay}
      BY DEF RuntimeState
    <2> QED BY <2>1, ChangesTyped
  <1>2. ReduceOnly(marked) \in RuntimeState /\ Halt(marked) \in RuntimeState
    BY <1>1, ChangesTyped
  <1> QED BY <1>1, <1>2 DEF EmergencyStop, EngineTypeOK, Save
\* With only the engine's part of the state changing, or only its queue.
LEMMA EventTakenTyped ==
    ASSUME BrokerTypeOK, NEW type, Polling(type)
    PROVE  BrokerTypeOK'
  <1>1. Tail(fifo) \in Seq(FifoEvents)
    BY FifoHeadTyped DEF Polling
  <1> QED BY <1>1 DEF Polling, BrokerTypeOK, exchangeVars, gatewayVars

LEMMA BrokerUnchanged ==
    ASSUME BrokerTypeOK, UNCHANGED ctpVars
    PROVE  BrokerTypeOK'
  BY DEF BrokerTypeOK, ctpVars, exchangeVars, gatewayVars, brokerVars

LEMMA SaveTyped ==
    ASSUME NEW s \in RuntimeState, Save(s), halted' \in BOOLEAN
    PROVE  EngineTypeOK'
  BY DEF Save, EngineTypeOK

\* The requests the engine makes of child orders.
LEMMA RequestsTyped ==
    ASSUME NEW orders \in Seq(ChildOrder), NEW c \in Contracts, NEW side \in Sides
    PROVE  /\ [i \in DOMAIN orders |->
                 [contract |-> c, side |-> orders[i].side, offset |-> orders[i].offset,
                  volume |-> orders[i].volume]] \in Seq(OrderRequest)
           /\ [i \in DOMAIN orders |->
                 [contract |-> c, side |-> side, offset |-> orders[i].offset,
                  volume |-> orders[i].volume]] \in Seq(OrderRequest)
  <1>1. \A i \in DOMAIN orders : orders[i] \in ChildOrder
    OBVIOUS
  <1>2. Len(orders) \in Nat /\ DOMAIN orders = 1..Len(orders)
    OBVIOUS
  <1>3. ASSUME NEW e, e \in ChildOrder
        PROVE  /\ [contract |-> c, side |-> e.side, offset |-> e.offset, volume |-> e.volume]
                    \in OrderRequest
               /\ [contract |-> c, side |-> side, offset |-> e.offset, volume |-> e.volume]
                    \in OrderRequest
    BY <1>3 DEF ChildOrder, OrderRequest
  <1>4. ASSUME NEW f, f \in [1..Len(orders) -> OrderRequest]
        PROVE  f \in Seq(OrderRequest)
    BY <1>2, <1>4
  <1>5. /\ [i \in DOMAIN orders |->
              [contract |-> c, side |-> orders[i].side, offset |-> orders[i].offset,
               volume |-> orders[i].volume]] \in [1..Len(orders) -> OrderRequest]
        /\ [i \in DOMAIN orders |->
              [contract |-> c, side |-> side, offset |-> orders[i].offset,
               volume |-> orders[i].volume]] \in [1..Len(orders) -> OrderRequest]
    BY <1>1, <1>2, <1>3
  <1> QED BY <1>4, <1>5

LEMMA ClosingPlanTyped ==
    ASSUME BrokerTypeOK, NEW c \in Contracts
    PROVE  ClosingPlan(c) \in Seq(OrderRequest)
  <1> DEFINE p == mirror[c]
             close(side, v) ==
                 IF v = 0 THEN <<>> ELSE PlanClose(p, c \in Special, side, v, FALSE)
             orders == close("SELL", LongTotal(p)) \o close("BUY", ShortTotal(p))
  <1>1. p \in Position
    BY DEF BrokerTypeOK, Book
  <1>2. LongTotal(p) \in Nat /\ ShortTotal(p) \in Nat
    BY <1>1 DEF LongTotal, ShortTotal, Position, Buckets
  <1>3. "BUY" \in Sides /\ "SELL" \in Sides
    BY DEF Sides
  <1>4. ASSUME NEW side \in Sides, NEW v \in Nat
        PROVE  close(side, v) \in Seq(ChildOrder)
    <2>1. PlanClose(p, c \in Special, side, v, FALSE) \in Seq(ChildOrder)
      BY <1>1, PlanCloseTyped
    <2>2. <<>> \in Seq(ChildOrder)
      OBVIOUS
    <2> QED BY <2>1, <2>2
  <1>5. close("SELL", LongTotal(p)) \in Seq(ChildOrder)
        /\ close("BUY", ShortTotal(p)) \in Seq(ChildOrder)
    BY <1>2, <1>3, <1>4
  <1>6. orders \in Seq(ChildOrder)
    BY <1>5, ConcatTyped
  <1>7. ClosingPlan(c) = [i \in DOMAIN orders |->
                            [contract |-> c, side |-> orders[i].side,
                             offset |-> orders[i].offset, volume |-> orders[i].volume]]
    BY DEF ClosingPlan
  <1> HIDE DEF orders
  <1> QED BY <1>3, <1>6, <1>7, RequestsTyped

-----------------------------------------------------------------------------
(* The engine thread. *)

Procs == {"down", "connecting", "initialized", "looping", "draining"}

LEMMA StartingTyped ==
    ASSUME BrokerTypeOK, EngineTypeOK, proc \in Procs,
           Start \/ RefuseActiveOrders \/ LeaveLoop \/ Stop \/ Crash \/ SessionUnhealthy
    PROVE  BrokerTypeOK' /\ EngineTypeOK' /\ proc' \in Procs
  <1>1. CASE Start
    <2>1. disk \in RuntimeState /\ disk.recent_trade_ids \in SUBSET TradeKeys
          /\ disk.kill_switch \in BOOLEAN
      BY DEF EngineTypeOK, RuntimeState
    <2>2. BrokerTypeOK'
      BY <1>1, <2>1, ConnectTyped DEF Start
    <2> QED BY <1>1, <2>1, <2>2 DEF Start, EngineTypeOK, Procs
  <1>2. CASE RefuseActiveOrders
    <2>1. EngineTypeOK'
      BY <1>2, EmergencyStopTyped DEF RefuseActiveOrders, EngineTypeOK
    <2> QED BY <1>2, <2>1, BrokerUnchanged DEF RefuseActiveOrders, Procs
  <1>3. CASE LeaveLoop
    <2>1. BrokerTypeOK'
      BY <1>3, BrokerUnchanged DEF LeaveLoop
    <2> QED BY <1>3, <2>1 DEF LeaveLoop, EngineTypeOK, Procs
  <1>4. CASE Stop
    <2>1. BrokerTypeOK'
      BY <1>4, DisconnectTyped DEF Stop
    <2> QED BY <1>4, <2>1 DEF Stop, Save, EngineTypeOK, Procs
  <1>5. CASE Crash
    <2>1. BrokerTypeOK'
      BY <1>5, DisconnectTyped DEF Crash
    <2> QED BY <1>5, <2>1 DEF Crash, EngineTypeOK, Procs
  <1>6. CASE SessionUnhealthy
    <2>1. EngineTypeOK'
      BY <1>6, EmergencyStopTyped DEF SessionUnhealthy, EngineTypeOK
    <2> QED BY <1>6, <2>1, BrokerUnchanged DEF SessionUnhealthy
  <1> QED BY <1>1, <1>2, <1>3, <1>4, <1>5, <1>6

\* What the account check of the startup and of an account return makes of s.
LEMMA AccountCheckTyped ==
    ASSUME EngineTypeOK, NEW s \in RuntimeState, NEW risk,
           \/ EmergencyStop(s, risk)
           \/ EmergencyStop(s, "other")
           \/ Save(CircuitRecovered(s)) /\ halted' = FALSE
           \/ Save(s) /\ UNCHANGED halted
    PROVE  EngineTypeOK'
  <1>1. CASE EmergencyStop(s, risk) \/ EmergencyStop(s, "other")
    BY <1>1, EmergencyStopTyped
  <1>2. CASE Save(CircuitRecovered(s)) /\ halted' = FALSE
    <2>1. CircuitRecovered(s) \in RuntimeState
      BY ChangesTyped
    <2> QED BY <1>2, <2>1, SaveTyped
  <1>3. CASE Save(s) /\ UNCHANGED halted
    BY <1>3, SaveTyped DEF EngineTypeOK
  <1> QED BY <1>1, <1>2, <1>3

LEMMA InitializeTyped ==
    ASSUME BrokerTypeOK, EngineTypeOK, NEW risk, Initialize(risk)
    PROVE  BrokerTypeOK' /\ EngineTypeOK' /\ proc' \in Procs
  <1>1. AdvanceDay(state, day) \in RuntimeState
    BY AdvanceDayTyped DEF EngineTypeOK, BrokerTypeOK
  <1>2. EngineTypeOK'
    <2> DEFINE s == AdvanceDay(state, day)
    <2>1. \/ EmergencyStop(s, risk)
          \/ EmergencyStop(s, "other")
          \/ Save(CircuitRecovered(s)) /\ halted' = FALSE
          \/ Save(s) /\ UNCHANGED halted
      BY DEF Initialize
    <2> HIDE DEF s
    <2>2. s \in RuntimeState
      BY <1>1 DEF s
    <2> QED BY <2>1, <2>2, AccountCheckTyped
  <1> QED BY <1>2, BrokerUnchanged DEF Initialize, Procs

LEMMA ReconcileStartupTyped ==
    ASSUME BrokerTypeOK, EngineTypeOK, NEW risk, ReconcileStartup(risk)
    PROVE  BrokerTypeOK' /\ EngineTypeOK' /\ proc' \in Procs
  <1> DEFINE s == [state EXCEPT !.reconciled = TRUE]
  <1>1. state \in RuntimeState /\ halted \in BOOLEAN
    BY DEF EngineTypeOK
  <1>2. s \in RuntimeState /\ Resume(s) \in RuntimeState
    BY <1>1, ChangesTyped
  <1>3. \/ EmergencyStop(state, "other")
        \/ Save(s) /\ UNCHANGED halted
        \/ Save(Resume(s)) /\ halted' = FALSE
    BY DEF ReconcileStartup
  <1> HIDE DEF s
  <1>4. EngineTypeOK'
    BY <1>1, <1>2, <1>3, EmergencyStopTyped, SaveTyped
  <1> QED BY <1>4, BrokerUnchanged DEF ReconcileStartup, Procs

LEMMA HandleTradeTyped ==
    ASSUME BrokerTypeOK, EngineTypeOK, HandleTrade
    PROVE  EngineTypeOK'
  <1> DEFINE t == Head(fifo).trade
             s == AdvanceDay(state, day)
             known == [s EXCEPT !.recent_trade_ids = @ \cup {TradeKey(day, t)}]
             booked == [known EXCEPT !.positions = BookApply(@, t)]
  <1>1. t \in Trade
    BY FifoHeadTyped DEF HandleTrade, Polling
  <1>2. s \in RuntimeState
    BY AdvanceDayTyped DEF EngineTypeOK, BrokerTypeOK
  <1>3. \/ state' = s /\ UNCHANGED <<halted, disk>>
        \/ EmergencyStop(s, "other")
        \/ EmergencyStop(known, "other")
        \/ BookCanApply(s.positions, t) /\ Save(booked) /\ UNCHANGED halted
    BY DEF HandleTrade
  <1>4. TradeKey(day, t) \in TradeKeys
    BY <1>1, TradeKeyTyped DEF BrokerTypeOK
  <1> HIDE DEF t, s
  <1>5. s.recent_trade_ids \cup {TradeKey(day, t)} \in SUBSET TradeKeys
        /\ s.positions \in Book(Contracts)
    BY <1>2, <1>4 DEF RuntimeState
  <1>6. known \in RuntimeState /\ known.positions = s.positions
    BY <1>2, <1>5 DEF RuntimeState
  <1>7. BookCanApply(s.positions, t) => BookApply(s.positions, t) \in Book(Contracts)
    BY <1>1, <1>5, BookApplyTyped
  <1> HIDE DEF known
  <1>8. BookCanApply(s.positions, t) => booked \in RuntimeState
    BY <1>6, <1>7, ChangesTyped
  <1> HIDE DEF booked
  <1>9. CASE state' = s /\ UNCHANGED <<halted, disk>>
    BY <1>2, <1>9 DEF EngineTypeOK
  <1>10. CASE BookCanApply(s.positions, t) /\ Save(booked) /\ UNCHANGED halted
    BY <1>8, <1>10, SaveTyped DEF EngineTypeOK
  <1> QED BY <1>2, <1>3, <1>6, <1>9, <1>10, EmergencyStopTyped

LEMMA HandleEventTyped ==
    ASSUME BrokerTypeOK, EngineTypeOK, proc \in Procs, HandleEvent
    PROVE  BrokerTypeOK' /\ EngineTypeOK' /\ proc' \in Procs
  <1>1. BrokerTypeOK'
    BY EventTakenTyped DEF HandleEvent, HandleTrade, HandleOrder, HandleSnapshot,
                           HandleAccount, HandleBrokerError
  <1>2. proc' \in Procs
    BY DEF HandleEvent, HandleTrade, HandleOrder, HandleSnapshot, HandleAccount,
           HandleBrokerError, Polling
  <1>3. state \in RuntimeState /\ halted \in BOOLEAN
    BY DEF EngineTypeOK
  <1>4. EngineTypeOK'
    <2>1. CASE HandleOrder
      BY <1>3, <2>1, SaveTyped DEF HandleOrder
    <2>2. CASE HandleSnapshot
      <3> DEFINE s == [state EXCEPT !.reconciled = TRUE]
      <3>1. s \in RuntimeState
        BY <1>3, ChangesTyped
      <3>2. \/ UNCHANGED <<state, halted, disk>>
            \/ Save(s) /\ UNCHANGED halted
            \/ EmergencyStop(state, "other")
        BY <2>2 DEF HandleSnapshot
      <3> HIDE DEF s
      <3>3. CASE UNCHANGED <<state, halted, disk>>
        BY <3>3 DEF EngineTypeOK
      <3> QED BY <1>3, <3>1, <3>2, <3>3, SaveTyped, EmergencyStopTyped
    <2>3. CASE HandleAccount
      <3> DEFINE s == AdvanceDay(state, Head(fifo).day)
                 risk == Head(fifo).risk
      <3>1. Head(fifo).day \in 1..MaxDay
        BY <2>3, FifoHeadTyped DEF HandleAccount, Polling
      <3>2. s \in RuntimeState
        BY <1>3, <3>1, AdvanceDayTyped
      <3>3. \/ EmergencyStop(s, risk)
            \/ EmergencyStop(s, "other")
            \/ Save(CircuitRecovered(s)) /\ halted' = FALSE
            \/ Save(s) /\ UNCHANGED halted
        BY <2>3 DEF HandleAccount
      <3> HIDE DEF s, risk
      <3> QED BY <3>2, <3>3, AccountCheckTyped
    <2>4. CASE HandleBrokerError
      BY <1>3, <2>4, EmergencyStopTyped DEF HandleBrokerError
    <2> QED BY <2>1, <2>2, <2>3, <2>4, HandleTradeTyped DEF HandleEvent
  <1> QED BY <1>1, <1>2, <1>4

LEMMA TradingTyped ==
    ASSUME BrokerTypeOK, EngineTypeOK, proc \in Procs, ReduceOnlyCycle \/ Rebalance
    PROVE  BrokerTypeOK' /\ EngineTypeOK' /\ proc' \in Procs
  <1>1. ASSUME NEW requests \in Seq(OrderRequest), SendOrders(requests), UNCHANGED engineVars
        PROVE  BrokerTypeOK' /\ EngineTypeOK' /\ proc' \in Procs
    <2>1. BrokerTypeOK'
      BY <1>1, SendOrdersTyped
    <2> QED BY <1>1, <2>1 DEF engineVars, EngineTypeOK
  <1>2. CASE ReduceOnlyCycle
    <2>1. CASE UNCHANGED engineVars /\ \E c \in Contracts : SendOrders(ClosingPlan(c))
      BY <1>1, <2>1, ClosingPlanTyped
    <2>2. CASE /\ Save([state EXCEPT !.mode = "HALTED", !.kill_switch = TRUE])
               /\ halted' = TRUE
               /\ UNCHANGED <<proc, ctpVars>>
      <3>1. [state EXCEPT !.mode = "HALTED", !.kill_switch = TRUE] \in RuntimeState
        BY ChangesTyped DEF EngineTypeOK
      <3>2. EngineTypeOK'
        BY <2>2, <3>1, SaveTyped
      <3> QED BY <2>2, <3>2, BrokerUnchanged
    <2> QED BY <1>2, <2>1, <2>2 DEF ReduceOnlyCycle
  <1>3. CASE Rebalance
    <2>1. PICK c \in Contracts, side \in Sides, v \in 1..MaxVolume :
             \/ SendOrders(<<[contract |-> c, side |-> side, offset |-> "OPEN", volume |-> v]>>)
             \/ LET plan == PlanClose(mirror[c], c \in Special, side, v, FALSE)
                IN  SendOrders([i \in DOMAIN plan |->
                        [contract |-> c, side |-> side, offset |-> plan[i].offset,
                         volume |-> plan[i].volume]])
      BY <1>3 DEF Rebalance
    <2>2. UNCHANGED engineVars
      BY <1>3 DEF Rebalance
    <2>3. v \in Nat \ {0}
      BY Bounds
    <2>4. <<[contract |-> c, side |-> side, offset |-> "OPEN", volume |-> v]>>
             \in Seq(OrderRequest)
      <3>1. [contract |-> c, side |-> side, offset |-> "OPEN", volume |-> v] \in OrderRequest
        BY <2>3 DEF OrderRequest, Offsets
      <3> QED BY <3>1, OneTyped
    <2>5. PlanClose(mirror[c], c \in Special, side, v, FALSE) \in Seq(ChildOrder)
      <3>1. mirror[c] \in Position
        BY DEF BrokerTypeOK, Book
      <3> QED BY <2>3, <3>1, PlanCloseTyped
    <2> DEFINE plan == PlanClose(mirror[c], c \in Special, side, v, FALSE)
               requests == [i \in DOMAIN plan |->
                              [contract |-> c, side |-> side, offset |-> plan[i].offset,
                               volume |-> plan[i].volume]]
    <2>6. requests \in Seq(OrderRequest)
      <3> HIDE DEF plan
      <3> QED BY <2>5, RequestsTyped DEF plan
    <2>7. CASE SendOrders(<<[contract |-> c, side |-> side, offset |-> "OPEN",
                             volume |-> v]>>)
      BY <1>1, <2>2, <2>4, <2>7
    <2>8. CASE SendOrders(requests)
      <3> HIDE DEF requests
      <3> QED BY <1>1, <2>2, <2>6, <2>8
    <2> QED BY <2>1, <2>7, <2>8
  <1> QED BY <1>2, <1>3

-----------------------------------------------------------------------------
(* The theorems. *)

LEMMA StepTyped ==
    ASSUME TypeOK, Next
    PROVE  TypeOK'
  <1>1. BrokerTypeOK /\ EngineTypeOK /\ proc \in Procs
    BY DEF TypeOK, EngineTypeOK, Procs
  <1>2. CASE EngineStep
    <2>1. BrokerTypeOK' /\ EngineTypeOK' /\ proc' \in Procs
      BY <1>1, <1>2, StartingTyped, InitializeTyped, ReconcileStartupTyped,
         HandleEventTyped, TradingTyped DEF EngineStep
    <2> QED BY <2>1 DEF TypeOK, EngineTypeOK, Procs
  <1>3. ASSUME UNCHANGED engineVars, BrokerTypeOK'
        PROVE  TypeOK'
    BY <1>1, <1>3 DEF TypeOK, engineVars, EngineTypeOK, Procs
  <1>4. CASE EventThreadStep \/ ApiThreadStep
    BY <1>1, <1>3, <1>4, CallbacksTyped DEF EventThreadStep, ApiThreadStep
  <1>5. CASE ExchangeStep
    BY <1>1, <1>3, <1>5, ExFillTyped, ExCancelTyped, ExForeignFillTyped, SessionTyped
       DEF ExchangeStep
  <1> QED BY <1>2, <1>4, <1>5 DEF Next

\* Whatever the exchange, the callbacks, snapshots, account returns and crashes
\* do, every book stays a book, so no bucket of the exchange, of the mirror or
\* of the saved state is ever negative (position.py apply_trade and its checks).
THEOREM TypeCorrect == Spec => []TypeOK
  <1>1. Init => TypeOK
    <2> SUFFICES ASSUME Init PROVE TypeOK
      OBVIOUS
    <2>1. BrokerTypeOK
      <3>1. 1 \in 1..MaxDay /\ 0 \in 0..MaxExternal /\ 0 \in 0..MaxResumes
        BY Bounds
      <3>2. Len(<<>>) = 0 /\ 0 <= MaxOrders /\ \A S : <<>> \in Seq(S)
        BY Bounds
      <3> QED BY <3>1, <3>2, EmptyBookTyped DEF Init, BrokerInit, BrokerTypeOK
    <2>2. EngineTypeOK /\ proc \in Procs
      BY InitialTyped DEF Init, EngineInit, EngineTypeOK, Procs
    <2> QED BY <2>1, <2>2 DEF TypeOK, EngineTypeOK, Procs
  <1>2. TypeOK /\ [Next]_vars => TypeOK'
    <2> SUFFICES ASSUME TypeOK, UNCHANGED vars PROVE TypeOK'
      BY StepTyped
    <2>1. BrokerTypeOK'
      BY BrokerUnchanged DEF vars, TypeOK
    <2> QED BY <2>1 DEF TypeOK, vars, engineVars
  <1> QED BY <1>1, <1>2, PTL DEF Spec
-----------------------------------------------------------------------------
(* A stop survives the death of the process. *)

Stopped(s) == s.mode # "RUNNING"

\* The inductive form: in memory and on disk the kill switch says what the mode
\* says, a halted engine has a stopped state, and so has the file of a stopped
\* engine.
StopInv ==
    /\ state.kill_switch = Stopped(state) /\ disk.kill_switch = Stopped(disk)
    /\ halted => Stopped(state)
    /\ Stopped(state) => Stopped(disk)

\* A state that is saved needs only agree with itself and with `halted'.
LEMMA SavedStops ==
    ASSUME NEW s, Save(s), s.kill_switch = Stopped(s), halted' => Stopped(s)
    PROVE  StopInv'
  BY DEF Save, StopInv, Stopped

\* A new day leaves the mode and the kill switch alone.
LEMMA DayKeepsMode ==
    ASSUME NEW s \in RuntimeState, NEW d
    PROVE  AdvanceDay(s, d).mode = s.mode /\ AdvanceDay(s, d).kill_switch = s.kill_switch
  BY DEF RuntimeState, AdvanceDay

\* The changes that set them.
LEMMA ChangesMode ==
    ASSUME NEW s \in RuntimeState
    PROVE  /\ ReduceOnly(s).mode = "REDUCE_ONLY" /\ ReduceOnly(s).kill_switch = TRUE
           /\ Halt(s).mode = "HALTED" /\ Halt(s).kill_switch = TRUE
           /\ Resume(s).mode = "RUNNING" /\ Resume(s).kill_switch = FALSE
           /\ CircuitRecovered(s).mode = "RUNNING" /\ CircuitRecovered(s).kill_switch = FALSE
  BY DEF RuntimeState, ReduceOnly, Halt, Resume, CircuitRecovered

LEMMA EmergencyStopStops ==
    ASSUME StopInv, NEW s \in RuntimeState, s.kill_switch = Stopped(s), s.mode = state.mode,
           NEW reason, EmergencyStop(s, reason)
    PROVE  StopInv'
  <1> DEFINE marked == [s EXCEPT !.circuit_day =
                          IF reason = "daily loss" THEN s.trading_day ELSE NoDay]
  <1>1. marked \in RuntimeState /\ marked.mode = s.mode /\ marked.kill_switch = s.kill_switch
    <2>1. (IF reason = "daily loss" THEN s.trading_day ELSE NoDay) \in (1..MaxDay) \cup {NoDay}
      BY DEF RuntimeState
    <2> QED BY <2>1 DEF RuntimeState
  <1>2. /\ ReduceOnly(marked).mode = "REDUCE_ONLY" /\ ReduceOnly(marked).kill_switch = TRUE
        /\ Halt(marked).mode = "HALTED" /\ Halt(marked).kill_switch = TRUE
    BY <1>1, ChangesMode
  <1>3. \/ Save(ReduceOnly(marked))
        \/ /\ s.mode = "HALTED" /\ state' = marked
           /\ UNCHANGED <<halted, disk>>
        \/ Save(Halt(marked))
    BY DEF EmergencyStop
  <1> HIDE DEF marked
  <1>4. CASE Save(ReduceOnly(marked)) \/ Save(Halt(marked))
    BY <1>2, <1>4, SavedStops DEF Stopped
  <1>5. CASE /\ s.mode = "HALTED" /\ state' = marked
             /\ UNCHANGED <<halted, disk>>
    BY <1>1, <1>5 DEF StopInv, Stopped
  <1> QED BY <1>3, <1>4, <1>5

\* Any state the engine goes on with, saved, keeps the invariant.
LEMMA AccountCheckStops ==
    ASSUME StopInv, NEW s \in RuntimeState, s.kill_switch = Stopped(s), s.mode = state.mode,
           NEW risk,
           \/ EmergencyStop(s, risk)
           \/ EmergencyStop(s, "other")
           \/ Save(CircuitRecovered(s)) /\ halted' = FALSE
           \/ Save(s) /\ UNCHANGED halted
    PROVE  StopInv'
  <1>1. CASE EmergencyStop(s, risk) \/ EmergencyStop(s, "other")
    BY <1>1, EmergencyStopStops
  <1>2. CASE Save(CircuitRecovered(s)) /\ halted' = FALSE
    BY <1>2, ChangesMode, SavedStops DEF Stopped
  <1>3. CASE Save(s) /\ UNCHANGED halted
    BY <1>3, SavedStops DEF StopInv, Stopped
  <1> QED BY <1>1, <1>2, <1>3

LEMMA HandleTradeStops ==
    ASSUME TypeOK, StopInv, HandleTrade
    PROVE  StopInv'
  <1> DEFINE t == Head(fifo).trade
             s == AdvanceDay(state, day)
             known == [s EXCEPT !.recent_trade_ids = @ \cup {TradeKey(day, t)}]
             booked == [known EXCEPT !.positions = BookApply(@, t)]
  <1>1. /\ BrokerTypeOK /\ day \in 1..MaxDay /\ state \in RuntimeState
        /\ t \in Trade
    BY FifoHeadTyped DEF TypeOK, BrokerTypeOK, HandleTrade, Polling
  <1>2. s \in RuntimeState /\ s.mode = state.mode /\ s.kill_switch = Stopped(s)
    BY <1>1, AdvanceDayTyped, DayKeepsMode DEF StopInv, Stopped
  <1>3. \/ state' = s /\ UNCHANGED <<halted, disk>>
        \/ EmergencyStop(s, "other")
        \/ EmergencyStop(known, "other")
        \/ Save(booked) /\ UNCHANGED halted
    BY DEF HandleTrade
  <1>4. TradeKey(day, t) \in TradeKeys
    BY <1>1, TradeKeyTyped
  <1> HIDE DEF t, s
  <1>5. s.recent_trade_ids \cup {TradeKey(day, t)} \in SUBSET TradeKeys
    BY <1>2, <1>4 DEF RuntimeState
  <1>6. known \in RuntimeState /\ known.mode = s.mode /\ known.kill_switch = s.kill_switch
    BY <1>2, <1>5, ChangesTyped DEF RuntimeState
  <1> HIDE DEF known
  <1>7. booked.mode = s.mode /\ booked.kill_switch = s.kill_switch
    BY <1>6 DEF RuntimeState
  <1> HIDE DEF booked
  <1>8. CASE state' = s /\ UNCHANGED <<halted, disk>>
    BY <1>2, <1>8 DEF StopInv, Stopped
  <1>9. CASE EmergencyStop(s, "other") \/ EmergencyStop(known, "other")
    <2>1. known.kill_switch = Stopped(known) /\ known.mode = state.mode
      BY <1>2, <1>6 DEF Stopped
    <2> QED BY <1>2, <1>6, <1>9, <2>1, EmergencyStopStops
  <1>10. CASE Save(booked) /\ UNCHANGED halted
    <2>1. booked.kill_switch = Stopped(booked) /\ (halted' => Stopped(booked))
      BY <1>2, <1>7, <1>10 DEF StopInv, Stopped
    <2> QED BY <1>10, <2>1, SavedStops
  <1> QED BY <1>3, <1>8, <1>9, <1>10

LEMMA HandleEventStops ==
    ASSUME TypeOK, StopInv, HandleEvent
    PROVE  StopInv'
  <1> DEFINE marked == [state EXCEPT !.reconciled = TRUE]
  <1>1. BrokerTypeOK /\ state \in RuntimeState /\ state.kill_switch = Stopped(state)
    BY DEF TypeOK, StopInv
  <1>2. marked.mode = state.mode /\ marked.kill_switch = state.kill_switch
    BY <1>1 DEF RuntimeState
  <1> HIDE DEF marked
  <1>3. CASE HandleTrade
    BY <1>3, HandleTradeStops
  <1>4. CASE HandleOrder
    BY <1>1, <1>4, SavedStops DEF HandleOrder, StopInv
  <1>5. CASE HandleSnapshot
    <2>1. CASE UNCHANGED <<state, halted, disk>>
      BY <2>1 DEF StopInv
    <2>2. CASE ~halted /\ Save(marked) /\ UNCHANGED halted
      BY <1>1, <1>2, <2>2, SavedStops DEF Stopped
    <2>3. CASE EmergencyStop(state, "other")
      BY <1>1, <2>3, EmergencyStopStops
    <2> QED BY <1>5, <2>1, <2>2, <2>3 DEF HandleSnapshot, marked
  <1>6. CASE HandleAccount
    <2> DEFINE s == AdvanceDay(state, Head(fifo).day)
               risk == Head(fifo).risk
    <2>1. Head(fifo).day \in 1..MaxDay
      BY <1>1, <1>6, FifoHeadTyped DEF HandleAccount, Polling
    <2>2. s \in RuntimeState /\ s.mode = state.mode /\ s.kill_switch = Stopped(s)
      BY <1>1, <2>1, AdvanceDayTyped, DayKeepsMode DEF Stopped
    <2>3. \/ EmergencyStop(s, risk)
          \/ EmergencyStop(s, "other")
          \/ Save(CircuitRecovered(s)) /\ halted' = FALSE
          \/ Save(s) /\ UNCHANGED halted
      BY <1>6 DEF HandleAccount
    <2> HIDE DEF s, risk
    <2> QED BY <2>2, <2>3, AccountCheckStops
  <1>7. CASE HandleBrokerError
    BY <1>1, <1>7, EmergencyStopStops DEF HandleBrokerError
  <1> QED BY <1>3, <1>4, <1>5, <1>6, <1>7 DEF HandleEvent

LEMMA EngineStepStops ==
    ASSUME TypeOK, StopInv, EngineStep
    PROVE  StopInv'
  <1> DEFINE marked == [state EXCEPT !.reconciled = TRUE]
             halting == [state EXCEPT !.mode = "HALTED", !.kill_switch = TRUE]
  <1>1. /\ BrokerTypeOK /\ day \in 1..MaxDay
        /\ state \in RuntimeState /\ state.kill_switch = Stopped(state)
    BY DEF TypeOK, BrokerTypeOK, StopInv
  <1>2. /\ marked \in RuntimeState
        /\ marked.mode = state.mode /\ marked.kill_switch = state.kill_switch
    BY <1>1 DEF RuntimeState
  <1>3. halting.mode = "HALTED" /\ halting.kill_switch = TRUE
    BY <1>1 DEF RuntimeState
  <1> HIDE DEF marked, halting
  <1>4. CASE Start
    BY <1>4 DEF Start, StopInv, Stopped
  <1>5. CASE RefuseActiveOrders
    BY <1>1, <1>5, EmergencyStopStops DEF RefuseActiveOrders
  <1>6. ASSUME NEW risk \in AccountRisks, Initialize(risk)
        PROVE  StopInv'
    <2> DEFINE s == AdvanceDay(state, day)
    <2>1. s \in RuntimeState /\ s.mode = state.mode /\ s.kill_switch = Stopped(s)
      BY <1>1, AdvanceDayTyped, DayKeepsMode DEF Stopped
    <2>2. \/ EmergencyStop(s, risk)
          \/ EmergencyStop(s, "other")
          \/ Save(CircuitRecovered(s)) /\ halted' = FALSE
          \/ Save(s) /\ UNCHANGED halted
      BY <1>6 DEF Initialize
    <2> HIDE DEF s
    <2> QED BY <2>1, <2>2, AccountCheckStops
  <1>7. ASSUME NEW risk \in AccountRisks, ReconcileStartup(risk)
        PROVE  StopInv'
    <2>1. \/ EmergencyStop(state, "other")
          \/ Save(marked) /\ UNCHANGED halted
          \/ Save(Resume(marked)) /\ halted' = FALSE
      BY <1>7 DEF ReconcileStartup, marked
    <2>2. CASE EmergencyStop(state, "other")
      BY <1>1, <2>2, EmergencyStopStops
    <2>3. CASE Save(marked) /\ UNCHANGED halted
      <3>1. marked.kill_switch = Stopped(marked) /\ (halted' => Stopped(marked))
        BY <1>1, <1>2, <2>3 DEF StopInv, Stopped
      <3> QED BY <2>3, <3>1, SavedStops
    <2>4. CASE Save(Resume(marked)) /\ halted' = FALSE
      <3>1. marked.kill_switch = Stopped(marked)
        BY <1>1, <1>2 DEF Stopped
      <3>2. Resume(marked).mode = "RUNNING" /\ Resume(marked).kill_switch = FALSE
        BY <1>2, ChangesMode
      <3> QED BY <2>4, <3>2, SavedStops DEF Stopped
    <2> QED BY <2>1, <2>2, <2>3, <2>4
  <1>8. CASE SessionUnhealthy
    BY <1>1, <1>8, EmergencyStopStops DEF SessionUnhealthy
  <1>9. CASE ReduceOnlyCycle
    <2>1. CASE UNCHANGED engineVars
      BY <2>1 DEF engineVars, StopInv
    <2>2. CASE Save(halting)
      BY <1>3, <2>2, SavedStops DEF Stopped
    <2> QED BY <1>9, <2>1, <2>2 DEF ReduceOnlyCycle, halting
  <1>10. CASE Rebalance
    BY <1>10 DEF Rebalance, engineVars, StopInv
  <1>11. CASE LeaveLoop
    BY <1>11 DEF LeaveLoop, StopInv
  <1>12. CASE Stop
    BY <1>1, <1>12, SavedStops DEF Stop
  <1>13. CASE Crash
    BY <1>13 DEF Crash, StopInv, Stopped
  <1> QED BY <1>4, <1>5, <1>6, <1>7, <1>8, <1>9, <1>10, <1>11, <1>12, <1>13, HandleEventStops
          DEF EngineStep

\* Whatever stops the engine, on whichever thread's evidence, and wherever the
\* process dies afterwards: the file the next process loads has its kill switch
\* on, so no restart trades on without an explicit resumption (engine.py
\* emergency_stop, enter_reduce_only, _persist, start).
THEOREM StopSurvivesCrashHolds == Spec => []StopSurvivesCrash
  <1>1. Init => StopInv
    <2>1. InitialState.mode = "RUNNING" /\ InitialState.kill_switch = FALSE
      BY DEF InitialState
    <2> QED BY <2>1 DEF Init, EngineInit, StopInv, Stopped
  <1>2. TypeOK /\ StopInv /\ [Next]_vars => StopInv'
    <2> SUFFICES ASSUME TypeOK, StopInv, [Next]_vars PROVE StopInv'
      OBVIOUS
    <2>1. CASE UNCHANGED engineVars
      BY <2>1 DEF engineVars, StopInv
    <2>2. CASE EngineStep
      BY <2>2, EngineStepStops
    <2> QED BY <2>1, <2>2 DEF Next, EventThreadStep, ApiThreadStep, ExchangeStep, vars
  <1>3. TypeOK /\ StopInv => StopSurvivesCrash
    BY DEF StopInv, Stopped, StopSurvivesCrash
  <1> QED BY TypeCorrect, <1>1, <1>2, <1>3, PTL DEF Spec
=============================================================================
