--------------------------- MODULE OrderSubmission ---------------------------
(***************************************************************************)
(* How an order gets out when the CTP broker keeps a durable order journal  *)
(* (Stress-90): CtpBroker.send_order reserves an exact OrderRef and the     *)
(* fill capacity in the journal before the official send, callbacks collect *)
(* evidence in memory, and DirectionalTradingEngine.run_once checkpoints it *)
(* and acknowledges a quiescent boundary before anything else is sent.      *)
(*                                                                          *)
(* The engine thread walks run_once step by step (variable `at'); VeighNa's *)
(* event thread, the exchange and the death of the process come in between. *)
(* One contract and one trading day; a trade is one lot, known by its place *)
(* in the exchange's list.  The position mirror is corrected by snapshots   *)
(* in CtpBroker at any time; here only until the trading loop begins.        *)
(***************************************************************************)
EXTENDS Integers, Sequences, FiniteSets, SequencesExt

CONSTANTS MaxSessions,    \* bound: times the process connects
          MaxOrders,      \* bound: reservations in the journal
          MaxVolume,      \* bound: lots of one order
          MaxAccounts,    \* bound: account returns
          MaxExternal,    \* bound: trades of orders the program never sent
          Capacity,       \* _MAX_SEEN_TRADE_KEYS
          NoOrder,        \* model value: no submission going on
          NoTrade         \* model value: no trade being handled

ASSUME SubmissionAssumption ==
    /\ MaxSessions \in Nat /\ MaxOrders \in Nat /\ MaxVolume \in Nat \ {0}
    /\ MaxAccounts \in Nat /\ MaxExternal \in Nat /\ Capacity \in Nat
    /\ NoTrade \notin Nat

VARIABLES
    orders,        \* orders the exchange has accepted, by identity
    live,          \* the identities of those still working
    trades,        \* per trade, in exchange order, the order it belongs to
    accounts,      \* account returns so far
    journal,       \* CtpOrderSubmissionJournal on disk: entries by identity
    engine,        \* the RuntimeState on disk (saved with every change)
    session,       \* CTP session number of the running process
    orderRef,      \* td_api.order_ref
    known,         \* _order_submission_entries
    seeded,        \* _external_trade_keys: identities from the RuntimeState
    seen,          \* _seen_trade_keys
    evidenced,     \* _seen_trade_fingerprints
    pending,       \* _pending_order_journal_status and _fills
    snapshot,      \* the copy of it a checkpoint is writing
    mirror,        \* _positions
    upstream,      \* events marked pending before VeighNa dispatches them
    handling,      \* the trade whose callback has not queued its event yet
    fifo,          \* _critical_events
    acknowledged,  \* _critical_acknowledged = _critical_enqueued
    capability,    \* startup session capability
    at,            \* where the engine thread is
    request        \* the reserved order being submitted, and who submits it

exchangeVars == <<orders, live, trades, accounts>>
diskVars     == <<journal, engine>>
memoryVars   == <<session, orderRef, known, seeded, seen, evidenced, pending,
                  snapshot, mirror>>
queueVars    == <<upstream, handling, fifo, acknowledged, capability>>
vars == <<exchangeVars, diskVars, memoryVars, queueVars, at, request>>

-----------------------------------------------------------------------------

\* CTP.<front>_<session>_<OrderRef>: one front, and refs count from 1 again in
\* every session.
OrderId == (1..MaxSessions) \X (1..MaxOrders)

\* The order of a trade the program never sent.
Foreign == <<0, 0>>

Statuses == {"prepared", "submitted", "terminal", "aborted_before_send"}

Order == [offset : {"OPEN", "CLOSE"}, volume : 1..MaxVolume]
Entry == [offset : {"OPEN", "CLOSE"}, volume : 1..MaxVolume,
          status : Statuses, fills : SUBSET Nat]

TradeEvent(n)           == [type |-> "trade", trade |-> n]
OrderEvent(id, active)  == [type |-> "order", order |-> id, active |-> active]
AccountEvent(loss)      == [type |-> "account", loss |-> loss]
BrokerError             == [type |-> "broker_error"]

Nothing == [terminal |-> {}, fills |-> {}]

TradesOf(id) == {n \in DOMAIN trades : trades[n] = id}

\* A lot opened counts one, a lot closed minus one; a foreign trade opens.
Lots(n) == IF trades[n] = Foreign \/ orders[trades[n]].offset = "OPEN" THEN 1 ELSE -1

\* The position at the exchange.
ExchangeLots == SumFunction([n \in DOMAIN trades |-> Lots(n)])

FillsOf(entries) == UNION {entries[id].fills : id \in DOMAIN entries}

\* The entries that may have fills, or get some.
MayFill(entries) == {id \in DOMAIN entries : entries[id].status # "aborted_before_send"}

\* Fill slots still owed to the orders of a set of entries.
Reserved(entries) ==
    SumFunction([id \in MayFill(entries) |->
                    entries[id].volume - Cardinality(entries[id].fills)])

-----------------------------------------------------------------------------

Init ==
    /\ orders = <<>> /\ live = {} /\ trades = <<>> /\ accounts = 0
    /\ journal = <<>>
    /\ engine = [lots |-> 0, ids |-> {}, mode |-> "RUNNING"]
    /\ session = 0 /\ orderRef = 0
    /\ known = <<>> /\ seeded = {} /\ seen = {} /\ evidenced = {}
    /\ pending = Nothing /\ snapshot = Nothing /\ mirror = 0
    /\ upstream = <<>> /\ handling = NoTrade /\ fifo = <<>>
    /\ acknowledged = TRUE /\ capability = "missing"
    /\ at = "down" /\ request = NoOrder

-----------------------------------------------------------------------------
(* The exchange (external).  An event that reaches a connected process is    *)
(* marked pending at once; order and trade activity outdates a startup       *)
(* capability that was not consumed yet.                                     *)

Up == at # "down"

Publish(events) ==
    /\ upstream' = IF Up THEN upstream \o events ELSE upstream
    /\ capability' = IF capability = "fresh" /\ Up THEN "stale" ELSE capability

ExFill(id) ==
    LET filled == Cardinality(TradesOf(id)) + 1
        done == filled = orders[id].volume
        n == Len(trades) + 1
    IN  /\ id \in live
        /\ orders[id].offset = "CLOSE" => ExchangeLots > 0
        /\ trades' = Append(trades, id)
        /\ live' = IF done THEN live \ {id} ELSE live
        /\ Publish(<<OrderEvent(id, ~done), TradeEvent(n)>>)
        /\ UNCHANGED <<orders, accounts, diskVars, memoryVars,
                       handling, fifo, acknowledged, at, request>>

ExCancel(id) ==
    /\ id \in live
    /\ live' = live \ {id}
    /\ Publish(<<OrderEvent(id, FALSE)>>)
    /\ UNCHANGED <<orders, trades, accounts, diskVars, memoryVars,
                   handling, fifo, acknowledged, at, request>>

ExForeignFill ==
    /\ Cardinality(TradesOf(Foreign)) < MaxExternal
    /\ trades' = Append(trades, Foreign)
    /\ Publish(<<OrderEvent(Foreign, FALSE), TradeEvent(Len(trades) + 1)>>)
    /\ UNCHANGED <<orders, live, accounts, diskVars, memoryVars,
                   handling, fifo, acknowledged, at, request>>

\* An account query is answered, in good order or beyond the daily loss limit.
ExAccount(loss) ==
    /\ Up /\ accounts < MaxAccounts
    /\ accounts' = accounts + 1
    /\ upstream' = Append(upstream, AccountEvent(loss))
    /\ UNCHANGED <<orders, live, trades, diskVars, memoryVars,
                   handling, fifo, acknowledged, capability, at, request>>

-----------------------------------------------------------------------------
(* Callbacks on VeighNa's event thread. *)

Enqueue(event) ==
    /\ fifo' = Append(fifo, event)
    /\ acknowledged' = FALSE

Dispatching(type) ==
    /\ handling = NoTrade /\ upstream # <<>> /\ Head(upstream).type = type
    /\ upstream' = Tail(upstream)
    /\ UNCHANGED <<exchangeVars, diskVars, capability, at, request>>

\* _on_order: the order must be in the journal, and may not work again once the
\* journal has it final.
OrderCallback ==
    /\ Dispatching("order")
    /\ LET e == Head(upstream)
           refused == e.order \in DOMAIN known
                         => \/ known[e.order].status = "aborted_before_send"
                            \/ known[e.order].status = "terminal" /\ e.active
       IN  \/ /\ refused
              /\ Enqueue(BrokerError)
              /\ UNCHANGED pending
           \/ /\ ~refused
              /\ Enqueue(e)
              /\ pending' = IF e.active THEN pending
                            ELSE [pending EXCEPT !.terminal = @ \cup {e.order}]
    /\ UNCHANGED <<session, orderRef, known, seeded, seen, evidenced, snapshot,
                   mirror, handling>>

AccountCallback ==
    /\ Dispatching("account")
    /\ Enqueue(Head(upstream))
    /\ UNCHANGED <<memoryVars, handling>>

\* What _on_trade refuses to book: an order the journal does not have or has as
\* never sent, a fill beyond the order's volume, a full replay set, or a close
\* the mirror has no lot for.
Bookable(n) ==
    LET id == trades[n]
    IN  /\ id \in DOMAIN known
        /\ known[id].status # "aborted_before_send"
        /\ Cardinality(seen) < Capacity
        /\ mirror + Lots(n) >= 0
        /\ Cardinality(known[id].fills \cup (pending.fills \cap TradesOf(id))) < known[id].volume

TradeCallback ==
    /\ Dispatching("trade")
    /\ LET n == Head(upstream).trade
       IN  \/ /\ n \in seen /\ n \in evidenced
              /\ UNCHANGED <<seen, evidenced, pending, mirror, handling, fifo, acknowledged>>
           \/ /\ \/ n \in seen /\ n \notin evidenced
                 \/ n \notin seen /\ ~Bookable(n)
              /\ Enqueue(BrokerError)
              /\ UNCHANGED <<seen, evidenced, pending, mirror, handling>>
           \/ /\ n \notin seen /\ Bookable(n)
              /\ seen' = seen \cup {n} /\ evidenced' = evidenced \cup {n}
              /\ pending' = [pending EXCEPT !.fills = @ \cup {n}]
              /\ mirror' = mirror + Lots(n)
              /\ handling' = n
              /\ UNCHANGED <<fifo, acknowledged>>
    /\ UNCHANGED <<session, orderRef, known, seeded, snapshot>>

\* The trade event is queued after the position lock is gone.
TradeEnqueue ==
    /\ handling # NoTrade
    /\ Enqueue(TradeEvent(handling))
    /\ handling' = NoTrade
    /\ UNCHANGED <<exchangeVars, diskVars, memoryVars, upstream, capability, at, request>>

EventThread == OrderCallback \/ AccountCallback \/ TradeCallback \/ TradeEnqueue

-----------------------------------------------------------------------------
(* The engine thread: run_once's poll. *)

HasRisk == mirror # 0

Halted(s) == [s EXCEPT !.mode = "HALTED"]

\* emergency_stop on a daily loss reduces first while a position is open.
DailyLossStop(s) ==
    IF HasRisk /\ s.mode # "HALTED" THEN [s EXCEPT !.mode = "REDUCE_ONLY"] ELSE Halted(s)

\* What handling one event makes of the RuntimeState.
Handled(s, e) ==
    CASE e.type = "trade" /\ e.trade \in s.ids -> s
      [] e.type = "trade" /\ e.trade \notin s.ids /\ trades[e.trade] \notin DOMAIN known ->
            Halted(s)
      [] e.type = "trade" /\ e.trade \notin s.ids /\ trades[e.trade] \in DOMAIN known ->
            LET marked == [s EXCEPT !.ids = @ \cup {e.trade}]
            IN  IF s.lots + Lots(e.trade) >= 0
                THEN [marked EXCEPT !.lots = @ + Lots(e.trade)]
                ELSE Halted(marked)
      [] e.type = "account" /\ e.loss -> DailyLossStop(s)
      [] e.type = "broker_error" -> Halted(s)
      [] OTHER -> s

HandleEvent ==
    /\ at \in {"starting", "poll"} /\ fifo # <<>>
    /\ fifo' = Tail(fifo)
    /\ engine' = Handled(engine, Head(fifo))
    /\ UNCHANGED <<exchangeVars, journal, memoryVars, upstream, handling,
                   acknowledged, capability, at, request>>

\* The batch poll_events returned is used up; later events wait for the next.
PollDone ==
    /\ at = "poll"
    /\ at' = IF engine.mode = "REDUCE_ONLY" THEN "reduce" ELSE "checkpoint"
    /\ UNCHANGED <<exchangeVars, diskVars, memoryVars, queueVars, request>>

-----------------------------------------------------------------------------
(* The engine thread: send_order. *)

\* Nothing critical is queued, being handled, or handled but unacknowledged.
Boundary == upstream = <<>> /\ handling = NoTrade /\ fifo = <<>> /\ acknowledged

CapabilityCurrent == capability \in {"fresh", "consumed"}

NextOrderId == <<session, orderRef + 1>>

\* Seeded bug: only the fills that have arrived take a slot.
CanReserveIgnoringReserved(volume) ==
    /\ NextOrderId \notin DOMAIN journal
    /\ Max({Cardinality(seen), Cardinality(FillsOf(journal))}) + volume <= Capacity

\* journal.prepare: a fresh identity, and a slot for every lot it may fill.
CanReserve(volume) ==
    /\ NextOrderId \notin DOMAIN journal
    /\ Max({Cardinality(seen), Cardinality(FillsOf(journal))})
          + Reserved(journal) + volume <= Capacity

\* send_order up to the durable reservation.
Reserve(offset, volume, back) ==
    LET entry == [offset |-> offset, volume |-> volume, status |-> "prepared", fills |-> {}]
    IN  /\ Cardinality(DOMAIN journal) < MaxOrders
        /\ Boundary /\ CapabilityCurrent
        /\ CanReserve(volume)
        /\ journal' = [id \in DOMAIN journal \cup {NextOrderId} |->
                          IF id = NextOrderId THEN entry ELSE journal[id]]
        /\ known' = [id \in DOMAIN known \cup {NextOrderId} |->
                          IF id = NextOrderId THEN entry ELSE known[id]]
        /\ request' = [id |-> NextOrderId, back |-> back]
        /\ at' = "prepared"
        /\ UNCHANGED <<exchangeVars, engine, session, orderRef, seeded, seen, evidenced,
                       pending, snapshot, mirror, queueVars>>

\* send_order raises before reserving anything, and its caller gives up.
SendRefused(volume, back) ==
    /\ ~(Boundary /\ CapabilityCurrent /\ CanReserve(volume))
    /\ at' = back
    /\ UNCHANGED <<exchangeVars, diskVars, memoryVars, queueVars, request>>

\* Seeded bug: the boundary is not checked again after the reservation's fsync.
OfficialSendUnchecked ==
    /\ at = "prepared"
    /\ capability' = "consumed"
    /\ orderRef' = orderRef + 1
    /\ orders' = [i \in DOMAIN orders \cup {request.id} |->
                     IF i = request.id THEN [offset |-> journal[i].offset,
                                             volume |-> journal[i].volume]
                     ELSE orders[i]]
    /\ live' = live \cup {request.id}
    /\ upstream' = Append(upstream, OrderEvent(request.id, TRUE))
    /\ at' = "sent"
    /\ UNCHANGED <<trades, accounts, diskVars, session, known, seeded, seen, evidenced,
                   pending, snapshot, mirror, handling, fifo, acknowledged, request>>

\* The official send, atomic with the second boundary check.
OfficialSend ==
    /\ at = "prepared" /\ Boundary /\ CapabilityCurrent
    /\ capability' = "consumed"
    /\ orderRef' = orderRef + 1
    /\ LET id == request.id
       IN  \/ /\ orders' = [i \in DOMAIN orders \cup {id} |->
                               IF i = id THEN [offset |-> journal[id].offset,
                                               volume |-> journal[id].volume]
                               ELSE orders[i]]
              /\ live' = live \cup {id}
              /\ upstream' = Append(upstream, OrderEvent(id, TRUE))
              /\ at' = "sent" /\ UNCHANGED request
           \/ /\ at' = request.back /\ request' = NoOrder
              /\ UNCHANGED <<orders, live, upstream>>
    /\ UNCHANGED <<trades, accounts, diskVars, session, known, seeded, seen, evidenced,
                   pending, snapshot, mirror, handling, fifo, acknowledged>>

WithStatus(entries, id, status) == [entries EXCEPT ![id].status = status]

\* Something critical came in during the reservation's fsync.
AbortBeforeSend ==
    /\ at = "prepared" /\ ~(Boundary /\ CapabilityCurrent)
    /\ journal' = WithStatus(journal, request.id, "aborted_before_send")
    /\ known' = WithStatus(known, request.id, "aborted_before_send")
    /\ at' = request.back /\ request' = NoOrder
    /\ UNCHANGED <<exchangeVars, engine, session, orderRef, seeded, seen, evidenced,
                   pending, snapshot, mirror, queueVars>>

\* send_order's last journal write.
MarkSubmitted ==
    /\ at = "sent"
    /\ journal' = WithStatus(journal, request.id, "submitted")
    /\ known' = WithStatus(known, request.id, "submitted")
    /\ at' = request.back /\ request' = NoOrder
    /\ UNCHANGED <<exchangeVars, engine, session, orderRef, seeded, seen, evidenced,
                   pending, snapshot, mirror, queueVars>>

-----------------------------------------------------------------------------
(* The engine thread: the callers of send_order. *)

\* Orders VeighNa reports active, as far as its event thread has got.
ActiveOrders == live \cup {e.order : e \in {upstream[i] : i \in
                    {j \in DOMAIN upstream : upstream[j].type = "order"}}}

\* _reduce_only_cycle: close what the mirror holds; flat, halt for review.
Reduce ==
    /\ at = "reduce"
    /\ \/ /\ HasRisk /\ ActiveOrders = {}
          /\ LET volume == IF mirror < MaxVolume THEN mirror ELSE MaxVolume
             IN  Reserve("CLOSE", volume, "checkpoint") \/ SendRefused(volume, "checkpoint")
       \/ /\ HasRisk /\ ActiveOrders # {}
          /\ at' = "checkpoint"
          /\ UNCHANGED <<exchangeVars, diskVars, memoryVars, queueVars, request>>
       \/ /\ ~HasRisk
          /\ engine' = Halted(engine)
          /\ at' = "checkpoint"
          /\ UNCHANGED <<exchangeVars, journal, memoryVars, queueVars, request>>

\* maybe_rebalance wants to open, to close a part, or nothing.
Rebalance ==
    /\ at = "rebalance"
    /\ \/ /\ engine.mode = "RUNNING" /\ ActiveOrders = {}
          /\ \E offset \in {"OPEN", "CLOSE"}, volume \in 1..MaxVolume :
                /\ offset = "CLOSE" => volume <= mirror
                /\ Reserve(offset, volume, "poll")
       \/ /\ at' = "poll"
          /\ UNCHANGED <<exchangeVars, diskVars, memoryVars, queueVars, request>>

-----------------------------------------------------------------------------
(* The engine thread: checkpoint_order_submission_journal and acknowledgement. *)

\* apply_updates refuses a fill the journal already has.
CanApply(updates) == updates.fills \cap FillsOf(journal) = {}

\* Seeded bug: the fills of this batch replace those of the earlier ones.
AppliedOverwriting(entries, updates) ==
    [id \in DOMAIN entries |->
        [entries[id] EXCEPT
            !.status = IF id \in updates.terminal THEN "terminal" ELSE @,
            !.fills = IF updates.fills \cap TradesOf(id) = {} THEN @
                      ELSE updates.fills \cap TradesOf(id)]]

Applied(entries, updates) ==
    [id \in DOMAIN entries |->
        [entries[id] EXCEPT
            !.status = IF id \in updates.terminal THEN "terminal" ELSE @,
            !.fills = @ \cup (updates.fills \cap TradesOf(id))]]

\* The replay set and the reservations of a runtime record about to be installed.
Installable(entries) ==
    Cardinality(seeded \cup FillsOf(entries)) + Reserved(entries) <= Capacity

Install(entries) ==
    /\ known' = entries
    /\ seen' = seeded \cup FillsOf(entries)
    /\ evidenced' = FillsOf(entries)

\* A copy of what the callbacks have collected goes to disk while they collect
\* more.  A journal that refuses it stops the engine, or at startup the process.
CheckpointApply ==
    /\ at \in {"checkpoint", "verify"}
    /\ \/ /\ CanApply(pending)
          /\ journal' = Applied(journal, pending)
          /\ snapshot' = pending
          /\ at' = IF at = "verify" THEN "verify install" ELSE "install"
          /\ UNCHANGED engine
       \/ /\ ~CanApply(pending) /\ at = "checkpoint"
          /\ engine' = Halted(engine)
          /\ at' = "poll"
          /\ UNCHANGED <<journal, snapshot>>
    /\ UNCHANGED <<exchangeVars, session, orderRef, known, seeded, seen, evidenced, pending,
                   mirror, queueVars, request>>

Quiescent == upstream = <<>> /\ handling = NoTrade /\ fifo = <<>>

\* Seeded bugs: what callbacks added during the write is cleared with the rest.
RemainingWithoutFills ==
    [terminal |-> pending.terminal \ snapshot.terminal, fills |-> {}]

RemainingWithoutTerminal ==
    [terminal |-> {}, fills |-> pending.fills \ snapshot.fills]

Remaining == [terminal |-> pending.terminal \ snapshot.terminal,
              fills    |-> pending.fills \ snapshot.fills]

\* What was written is dropped from what is pending, and the entries in memory
\* follow the disk; the runtime record is installed again only if no callback has
\* been at work since.
CheckpointInstall ==
    /\ at \in {"install", "verify install"}
    /\ pending' = Remaining
    /\ snapshot' = Nothing
    /\ LET idle == Quiescent /\ Remaining = Nothing
           failed == idle /\ ~Installable(journal)
       IN  /\ \/ /\ idle /\ ~failed
                 /\ Install(journal)
              \/ /\ ~idle \/ failed
                 /\ known' = Applied(known, snapshot)
                 /\ UNCHANGED <<seen, evidenced>>
           /\ \/ /\ at = "verify install" /\ ~failed
                 /\ at' = "session query" /\ UNCHANGED engine
              \/ /\ at = "install"
                 /\ at' = IF failed THEN "poll" ELSE "acknowledge"
                 /\ engine' = IF failed THEN Halted(engine) ELSE engine
    /\ UNCHANGED <<exchangeVars, journal, session, orderRef, seeded, mirror, queueVars,
                   request>>

\* acknowledge_critical_events, and run_once's return when there is more to poll.
Acknowledge ==
    /\ at = "acknowledge"
    /\ IF Quiescent THEN acknowledged' = TRUE /\ at' = "rebalance"
                    ELSE at' = "poll" /\ UNCHANGED acknowledged
    /\ UNCHANGED <<exchangeVars, diskVars, memoryVars, upstream, handling, fifo,
                   capability, request>>

-----------------------------------------------------------------------------
(* Starting and dying. *)

\* The day's orders in some order, each as it stands, and the day's trades.
Replayed(ids) ==
    [i \in DOMAIN ids |-> OrderEvent(ids[i], ids[i] \in live)]
       \o [n \in DOMAIN trades |-> TradeEvent(n)]

Orderings(S) ==
    {ids \in [1..Cardinality(S) -> S] : \A id \in S : \E i \in DOMAIN ids : ids[i] = id}

\* A process that was not halted starts again: configure_order_submission_journal
\* installs the entries from disk, seed_trade_identities adds the identities of
\* the RuntimeState, the first snapshot gives the mirror, and VeighNa replays.
Start ==
    /\ at = "down" /\ engine.mode = "RUNNING" /\ session < MaxSessions
    /\ Cardinality(FillsOf(journal)) + Reserved(journal) <= Capacity
    /\ Cardinality(engine.ids \cup FillsOf(journal)) <= Capacity
    /\ at' = "starting"
    /\ session' = session + 1 /\ orderRef' = 0
    /\ known' = journal
    /\ seeded' = engine.ids
    /\ seen' = engine.ids \cup FillsOf(journal)
    /\ evidenced' = FillsOf(journal)
    /\ pending' = Nothing /\ snapshot' = Nothing
    /\ mirror' = ExchangeLots
    /\ \E ids \in Orderings(DOMAIN orders) : upstream' = Replayed(ids)
    /\ handling' = NoTrade /\ fifo' = <<>>
    /\ acknowledged' = TRUE /\ capability' = "missing"
    /\ UNCHANGED <<exchangeVars, diskVars, request>>

Starting == at \in {"starting", "verify", "verify install", "session query"}

\* A position snapshot during the startup.
Snapshot ==
    /\ Starting /\ mirror # ExchangeLots
    /\ mirror' = ExchangeLots
    /\ UNCHANGED <<exchangeVars, diskVars, session, orderRef, known, seeded, seen, evidenced,
                   pending, snapshot, queueVars, at, request>>

\* wait_for_stress90_startup_orders is done: no order is active any more.
StartupOrdersSettled ==
    /\ at = "starting" /\ ActiveOrders = {}
    /\ at' = "verify"
    /\ UNCHANGED <<exchangeVars, diskVars, memoryVars, queueVars, request>>

\* Seeded bug: an order without a fill counts as never sent.
RecoveredByFills ==
    [id \in DOMAIN journal |->
        [journal[id] EXCEPT
            !.status = IF TradesOf(id) # {} THEN "terminal" ELSE "aborted_before_send",
            !.fills = TradesOf(id)]]

\* recover_stress90_session_activity: what the complete session query shows goes
\* into the journal; what was reserved and never arrived is closed.
Recovered ==
    [id \in DOMAIN journal |->
        [journal[id] EXCEPT
            !.status = IF id \in DOMAIN orders THEN "terminal" ELSE "aborted_before_send",
            !.fills = TradesOf(id)]]

\* No order or trade return is on its way (_quiescent_order_trade_generation).
OrderTradeQuiescent ==
    handling = NoTrade /\ \A i \in DOMAIN upstream : upstream[i].type = "account"

\* The query is complete and current, every trade in it belongs to an order of
\* the journal, and reconcile_startup compares the book: the loop begins.  If
\* not, the process gives up (Down).
VerifySession ==
    /\ at = "session query" /\ OrderTradeQuiescent
    /\ TradesOf(Foreign) = {} /\ Installable(Recovered)
    /\ journal' = Recovered
    /\ Install(Recovered)
    /\ capability' = "fresh"
    /\ at' = "poll"
    /\ engine' = IF engine.lots = mirror THEN engine ELSE Halted(engine)
    /\ UNCHANGED <<exchangeVars, session, orderRef, seeded, pending, snapshot, mirror,
                   upstream, handling, fifo, acknowledged, request>>

\* The process stops or dies; what it had only in memory is gone.
Down ==
    /\ Up
    /\ at' = "down" /\ request' = NoOrder
    /\ orderRef' = 0 /\ known' = <<>> /\ seeded' = {} /\ seen' = {} /\ evidenced' = {}
    /\ pending' = Nothing /\ snapshot' = Nothing /\ mirror' = 0
    /\ upstream' = <<>> /\ handling' = NoTrade /\ fifo' = <<>>
    /\ acknowledged' = TRUE /\ capability' = "missing"
    /\ UNCHANGED <<exchangeVars, diskVars, session>>

-----------------------------------------------------------------------------

RunOnce ==
    \/ HandleEvent
    \/ PollDone
    \/ Reduce
    \/ OfficialSend
    \/ AbortBeforeSend
    \/ MarkSubmitted
    \/ CheckpointApply
    \/ CheckpointInstall
    \/ Acknowledge
    \/ Rebalance

Startup == Start \/ Snapshot \/ StartupOrdersSettled \/ VerifySession

Exchange ==
    \/ \E id \in live : ExFill(id)
    \/ \E id \in live : ExCancel(id)
    \/ ExForeignFill
    \/ \E loss \in BOOLEAN : ExAccount(loss)

Next == RunOnce \/ Startup \/ Down \/ EventThread \/ Exchange

Spec == Init /\ [][Next]_vars

\* Every wait of the startup has its timeout, and the process ends with it.
StartupTimesOut == Starting /\ Down

\* The loop of _run_live goes on while the process lives and polls the oldest
\* events first, the event thread empties its queue, no startup takes forever,
\* and the exchange ends every FAK order.
Fairness ==
    /\ WF_vars(RunOnce)
    /\ SF_vars(HandleEvent)
    /\ WF_vars(EventThread)
    /\ WF_vars(StartupTimesOut)
    /\ \A id \in OrderId : WF_vars(ExFill(id) \/ ExCancel(id))

FairSpec == Spec /\ Fairness

-----------------------------------------------------------------------------

TypeOK ==
    /\ DOMAIN orders \subseteq OrderId /\ \A id \in DOMAIN orders : orders[id] \in Order
    /\ live \subseteq DOMAIN orders
    /\ trades \in Seq(OrderId \cup {Foreign})
    /\ accounts \in 0..MaxAccounts
    /\ \A entries \in {journal, known} :
          DOMAIN entries \subseteq OrderId /\ \A id \in DOMAIN entries : entries[id] \in Entry
    /\ engine \in [lots : Nat, ids : SUBSET Nat, mode : {"RUNNING", "REDUCE_ONLY", "HALTED"}]
    /\ session \in 0..MaxSessions /\ orderRef \in 0..MaxOrders
    /\ seeded \subseteq Nat /\ seen \subseteq Nat /\ evidenced \subseteq seen
    /\ \A p \in {pending, snapshot} : p.terminal \subseteq OrderId /\ p.fills \subseteq Nat
    /\ mirror \in Nat
    /\ handling \in Nat \cup {NoTrade}
    /\ acknowledged \in BOOLEAN
    /\ capability \in {"missing", "fresh", "stale", "consumed"}

\* Write-ahead: an order the exchange has is in the durable journal with the same
\* economics, and not as one that was never sent (ctp.py send_order, abort and
\* crash recovery included).
WriteAhead ==
    \A id \in DOMAIN orders :
        /\ id \in DOMAIN journal
        /\ journal[id].status # "aborted_before_send"
        /\ journal[id].offset = orders[id].offset /\ journal[id].volume = orders[id].volume

\* Every lot an accepted reservation may still fill has a slot in the replay set:
\* a genuine fill is never refused for capacity (ctp_order_journal.py prepare).
EnoughSlots ==
    Up => Cardinality(seen)
            + SumFunction([id \in MayFill(known) |->
                              known[id].volume - Cardinality(seen \cap TradesOf(id))])
                <= Capacity

\* At the boundary from which the strategy trades, three records that are written
\* at different moments agree: the engine's book is the exchange's position, and
\* the journal has evidence of every trade (directional_engine.py run_once).
RecordsAgreeAtBoundary ==
    at = "rebalance" /\ engine.mode = "RUNNING" /\ Boundary
        => engine.lots = ExchangeLots /\ FillsOf(journal) = DOMAIN trades

\* Nothing is sent while the process has been told of a fill, its own or somebody
\* else's, that the engine's book does not have yet, however the returns interleave
\* with the reservation's fsync (ctp.py _critical_order_submission_scope).
SendsOnHandledFills ==
    [][DOMAIN orders' # DOMAIN orders => engine.lots = ExchangeLots]_vars

\* The journal neither forgets nor changes its mind, whatever is checkpointed,
\* recovered after a crash or aborted (ctp_order_journal.py apply_updates,
\* _validate_entry_revision): no entry goes, no fill once recorded is lost, and a
\* final status stays.
JournalKeepsItsEvidence ==
    [][\A id \in DOMAIN journal :
          /\ id \in DOMAIN journal'
          /\ journal[id].fills \subseteq journal'[id].fills
          /\ journal[id].status \in {"terminal", "aborted_before_send"}
                => journal'[id].status = journal[id].status]_vars

Settled(id) ==
    /\ id \in DOMAIN journal
    /\ journal[id].status = "terminal" /\ journal[id].fills = TradesOf(id)

\* While the process runs, every order it sent becomes terminal in the journal
\* with all its fills, whichever of the two returns and checkpoints came first.
JournalSettles ==
    \A id \in OrderId : (id \in DOMAIN orders /\ Up) ~> (~Up \/ Settled(id))

\* docs/live-trading.md:234-236: past the daily loss the engine goes reduce-only
\* and gets out of its risk.  (Reservations the bound does not allow are not
\* counted against it.)
ReductionGoesOn ==
    (engine.mode = "REDUCE_ONLY" /\ at # "down")
        ~> (\/ engine.mode = "HALTED" \/ at = "down"
            \/ Cardinality(DOMAIN journal) = MaxOrders)
=============================================================================
