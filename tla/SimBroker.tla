------------------------------ MODULE SimBroker ------------------------------
(***************************************************************************)
(* The simulated broker as a persistent Shadow runs it (broker/sim.py,      *)
(* sim_state.py, shadow.py): orders matched on live ticks, a book, and two  *)
(* stores, the broker's truth and a sidecar with the market it has seen.    *)
(* Every change of the truth is two writes around it, "begin" with a marker *)
(* and "complete", each of a previous and a current file, and the sidecar   *)
(* is bound to it anew.  The process may die before any of these writes.    *)
(*                                                                           *)
(* One contract.  A price is whether an order crosses a tick; money is left  *)
(* out.  A file's sequence number stands for its checksum.  "lots" is a      *)
(* reference beside the book (LotLedger), saved and restored with it.        *)
(***************************************************************************)
EXTENDS LotLedger

CONSTANTS Requests,      \* the orders the engine may send: [side, offset, volume, type]
          Latency,       \* ticks before an order may fill
          Depths,        \* lots a tick shows on either side
          Configured,    \* the contract is in config.contracts
          Books,         \* what the runtime may hold at first: [long, short] of yesterday
          Special,       \* SHFE and INE, whose closes name a bucket
          NoTick, NoFile,
          MaxLots, MaxDay, MaxOrders, MaxTicks, MaxUpdates, MaxFailures,
          MaxSequence   \* bounds; the last on the writes of the truth

ASSUME SimAssumption ==
    /\ {Latency, MaxLots, MaxDay, MaxOrders, MaxTicks, MaxUpdates, MaxFailures,
        MaxSequence} \subseteq Nat
    /\ Depths \subseteq Nat /\ {Configured, Special} \subseteq BOOLEAN
    /\ \A r \in Requests : r.side \in Sides /\ r.offset \in Offsets /\ r.volume \in Nat \ {0}

VARIABLES live,      \* CTP's trading day
          proc,      \* "down", "waiting" for is_ready, "running"
          sim,       \* the broker's memory
          unverified,   \* a restored contract still lacks its live metadata
          call,      \* the operation under way, or NoCall
          todo,      \* its steps that are left
          events,    \* trades that wait for poll_events
          told,      \* the highest trade the engine was told of
          files,     \* [main, market], each [current, previous]
          updates, failures

vars == <<live, proc, sim, unverified, call, todo, events, told, files, updates, failures>>

-----------------------------------------------------------------------------
\* Orders and fills, on a memory m.

IsActive(o) == o.status \in {"NOT_TRADED", "PART_TRADED"}
SomeActive(m) == \E i \in DOMAIN m.orders : IsActive(m.orders[i])
NextOrder(m) == m.base.nextOrder + Len(m.orders)
NextTrade(m) == m.base.nextTrade + Len(m.trades)

\* PositionBook.apply_trade raises on a close of what is not there; the process is then
\* of no more use.
FillOrder(m, i, v) ==
    LET o == m.orders[i]
        t == [order |-> i, side |-> o.side, offset |-> o.offset, volume |-> v,
              day |-> m.day, tick |-> m.ticks]
        filled == o.traded + v
    IN  IF ~CanApply(m.position, t) THEN [m EXCEPT !.broken = TRUE]
        ELSE [m EXCEPT !.position = ApplyTrade(@, t), !.lots = LotsAfter(@, t, m.day),
                       !.trades = Append(@, t),
                       !.orders[i].traded = filled,
                       !.orders[i].status =
                           IF filled = o.volume THEN "FILLED" ELSE "PART_TRADED"]

\* Mutant: an order fills what the tick shows, whatever was filled on it before.
MatchOrderOnShown(m, i) ==
    LET o == m.orders[i]
        v == SmallerOf(o.volume - o.traded, m.tick.shown)
    IN  IF \/ m.tick = NoTick \/ ~IsActive(o) \/ m.ticks < o.eligible
           \/ o.side \notin m.tick.crosses \/ v = 0
           \/ o.type = "FOK" /\ v < o.volume - o.traded
        THEN m ELSE FillOrder(m, i, v)

\* _match_order: what an order takes is not there for the next one on the same tick.
MatchOrder(m, i) ==
    LET o == m.orders[i]
        v == SmallerOf(o.volume - o.traded, m.depth[o.side])
    IN  IF \/ m.tick = NoTick \/ ~IsActive(o) \/ m.ticks < o.eligible
           \/ o.side \notin m.tick.crosses \/ v = 0
           \/ o.type = "FOK" /\ v < o.volume - o.traded
        THEN m ELSE FillOrder([m EXCEPT !.depth[o.side] = @ - v], i, v)

CancelRemainder(m, i) ==
    IF m.orders[i].type \in {"FAK", "FOK"} /\ IsActive(m.orders[i])
    THEN [m EXCEPT !.orders[i].status = "CANCELLED"] ELSE m

MatchSymbol(m) ==
    LET Visit(n, i) ==
            IF n.broken \/ ~IsActive(n.orders[i]) THEN n
            ELSE LET k == MatchOrder(n, i)
                 IN  IF k.ticks >= k.orders[i].eligible THEN CancelRemainder(k, i) ELSE k
    IN  FoldLeft(Visit, m, [i \in DOMAIN m.orders |-> i])

\* publish_tick of the day in a market batch, with a fresh depth.
TickOn(m, crosses, shown) ==
    MatchSymbol([m EXCEPT !.ticks = @ + 1, !.tick = [crosses |-> crosses, shown |-> shown],
                          !.depth = [s \in Sides |-> shown]])

\* send_order: without latency it is matched at once with what the last tick has left.
SentOn(m, r) ==
    LET i == Len(m.orders) + 1
        o == [side |-> r.side, offset |-> r.offset, volume |-> r.volume, type |-> r.type,
              status |-> "NOT_TRADED", traded |-> 0, eligible |-> m.ticks + Latency]
        n == [m EXCEPT !.orders = Append(@, o)]
    IN  IF Latency > 0 THEN n ELSE CancelRemainder(MatchOrder(n, i), i)

CancelledOn(m, i) ==
    IF i \in DOMAIN m.orders /\ IsActive(m.orders[i])
    THEN [m EXCEPT !.orders[i].status = "CANCELLED"] ELSE m

\* _apply_trading_day, _compact_session_history: active orders are cancelled, the book is
\* rolled, and the day's orders and trades are folded into the baseline.
Compacted(m, d) ==
    LET rolled == RollPosition(m.position)
    IN  [m EXCEPT !.day = d, !.position = rolled, !.settlement = @ + 1,
                  !.tick = NoTick, !.depth = [s \in Sides |-> 0],
                  !.orders = <<>>, !.trades = <<>>,
                  !.base = [day |-> d, position |-> rolled, through |-> m.day,
                            nextOrder |-> NextOrder(m), nextTrade |-> NextTrade(m)]]

-----------------------------------------------------------------------------
\* Reading the files back.

Market(m) == [day |-> m.day, tick |-> m.tick, ticks |-> m.ticks, depth |-> m.depth]

\* decode_sim_broker_state: the baseline is of an earlier day's end;
BaselineSound(m) == m.base.day <= m.day /\ m.base.through < m.base.day

\* an order was filled by its trades, as its status says;
StatusFits(o) ==
    CASE o.status = "NOT_TRADED"  -> o.traded = 0
      [] o.status = "PART_TRADED" -> 0 < o.traded /\ o.traded < o.volume
      [] o.status = "FILLED"      -> o.traded = o.volume
      [] OTHER                    -> o.traded < o.volume
OrdersHaveTheirTrades(m) ==
    LET Volume(i) == FoldLeft(LAMBDA v, t : IF t.order = i THEN v + t.volume ELSE v, 0, m.trades)
    IN  \A i \in DOMAIN m.orders :
            m.orders[i].traded = Volume(i) /\ StatusFits(m.orders[i])

\* the book is the baseline with the trades replayed on it;
BookIsReplayed(m) ==
    LET Replay(r, t) ==
            LET p == IF t.day = r.day THEN r.position ELSE RollPosition(r.position)
            IN  [position |-> IF CanApply(p, t) THEN ApplyTrade(p, t) ELSE p, day |-> t.day,
                 ok |-> r.ok /\ CanApply(p, t) /\ r.day <= t.day /\ t.day <= m.day]
        end == FoldLeft(Replay, [position |-> m.base.position, day |-> m.base.day, ok |-> TRUE],
                        m.trades)
    IN  /\ end.ok
        /\ m.position = IF end.day < m.day THEN RollPosition(end.position) ELSE end.position

\* and depth is known of the contracts with a tick, which is what fills came from.
MarketFits(m) ==
    /\ m.tick = NoTick => m.depth = [s \in Sides |-> 0]
    /\ \A i \in DOMAIN m.trades : m.trades[i].tick <= m.ticks

Decodable(m) ==
    BaselineSound(m) /\ OrdersHaveTheirTrades(m) /\ BookIsReplayed(m) /\ MarketFits(m)

\* validate_sim_broker_state_transition.
Follows(n, m) ==
    /\ n.day >= m.day
    /\ n.settlement = m.settlement + (IF n.day = m.day THEN 0 ELSE 1)
    /\ \/ n.base = m.base
       \/ n.base = [day |-> n.day, position |-> RollPosition(m.position), through |-> m.day,
                    nextOrder |-> NextOrder(m), nextTrade |-> NextTrade(m)]

\* SimBrokerStateStore.load, _validate_previous.
Chained(s) ==
    IF s.previous = NoFile THEN s.current.seq = 1
    ELSE s.previous = s.current \/ s.previous.seq + 1 = s.current.seq

Marked(f) == f.main.current.op # "none" \/ f.market.current.op # "none"

\* The sidecar is of an operation just completed, whose begin has its content.
Absorbed(f) ==
    LET k == f.market.current.state
        p == f.main.previous
    IN  /\ p # NoFile /\ p.seq = k.bound + 1 /\ f.main.current.seq = p.seq + 1
        /\ k.market = Market(p.state)
        /\ k.market.ticks <= f.main.current.state.ticks

\* _restore_market_state: or it is of the truth as it is, with what was seen since.
Bound(f) ==
    LET k == f.market.current.state
        m == f.main.current.state
    IN  k.bound = f.main.current.seq /\ k.market.ticks >= m.ticks /\ k.market.day = m.day

Restored(f) ==
    LET m == f.main.current.state
        k == f.market.current.state.market
    IN  IF Absorbed(f) THEN m
        ELSE [m EXCEPT !.tick = k.tick, !.ticks = k.ticks, !.depth = k.depth]

\* What a new process accepts (SimBroker.__init__).
Restorable(f) ==
    /\ Chained(f.main) /\ Chained(f.market) /\ ~Marked(f)
    /\ Decodable(f.main.current.state)
    /\ f.main.previous # NoFile => Follows(f.main.current.state, f.main.previous.state)
    /\ Absorbed(f) \/ Bound(f)

-----------------------------------------------------------------------------
\* Operations: their steps, and the writes among them.

NoCall == [op |-> "none"]
Idle == proc = "running" /\ call = NoCall

Body == [do |-> "body"]
Return == [do |-> "return"]
Advance(store, op) ==
    [i \in 1..2 |-> [do |-> IF i = 1 THEN "previous" ELSE "current", store |-> store, op |-> op]]

\* Mutant: the sidecar is left bound to the truth before.
DurableUnbound(op) == Advance("main", op) \o <<Body>> \o Advance("main", "none") \o <<Return>>

\* _durable_operation, _rebind_market_store.
Rebind == Advance("market", "bind_broker_truth") \o Advance("market", "none")
Durable(op) ==
    Advance("main", op) \o <<Body>> \o Advance("main", "none") \o Rebind \o <<Return>>

Doing(step) == todo # <<>> /\ Head(todo).do = step
Start(c, steps) ==
    /\ files.main.current.seq + 2 <= MaxSequence
    /\ call' = c /\ todo' = steps
    /\ UNCHANGED <<live, proc, sim, unverified, events, told, files, failures>>

\* Shadow brings the simulated day up to CTP's before it does anything else.
SynchronizeTradingDay ==
    /\ Idle /\ sim.day < live
    /\ Start([op |-> "synchronize_trading_day", day |-> live], Durable("synchronize_trading_day"))
    /\ UNCHANGED updates
SendOrder(r) ==
    /\ Idle /\ sim.day = live /\ NextOrder(sim) <= MaxOrders
    /\ Start([op |-> "send_order", request |-> r], Durable("send_order"))
    /\ UNCHANGED updates
CancelOrder(i) ==
    /\ Idle /\ sim.day = live /\ IsActive(sim.orders[i])
    /\ Start([op |-> "cancel_order", order |-> i], Durable("cancel_order"))
    /\ UNCHANGED updates
\* The metadata of a contract the broker has not known.
UpdateSpecs ==
    /\ Idle /\ updates < MaxUpdates /\ updates' = updates + 1
    /\ Start([op |-> "update_specs"], Durable("update_specs"))

\* Mutant: a batch is only of the market, whatever may fill in it.
BeginMarketBatchOfMarket ==
    /\ Idle /\ sim.day = live /\ sim.ticks < MaxTicks
    /\ Start([op |-> "market_event_batch", truth |-> FALSE, ticked |-> FALSE], <<>>)
    /\ UNCHANGED updates

\* Shadow.poll_events: the truth is marked first if an order may fill.
BeginMarketBatch ==
    /\ Idle /\ sim.day = live /\ sim.ticks < MaxTicks
    /\ LET truth == SomeActive(sim)
       IN  Start([op |-> "market_event_batch", truth |-> truth, ticked |-> FALSE],
                 IF truth THEN Advance("main", "market_event_batch") ELSE <<>>)
    /\ UNCHANGED updates

InBatch == call.op = "market_event_batch" /\ todo = <<>>

\* A tick of another day, or a fill that cannot be, faults the process: it is as good as
\* dead (_persistence_fault).
Broken(m) == m.broken
Keep(m) ==
    IF Broken(m)
    THEN proc' = "down" /\ call' = NoCall /\ todo' = <<>> /\ events' = {} /\ UNCHANGED sim
    ELSE /\ sim' = m /\ UNCHANGED proc
         /\ events' = events \cup NextTrade(sim)..NextTrade(m) - 1

PublishTick(crosses, shown) ==
    /\ InBatch /\ sim.ticks < MaxTicks
    /\ LET m == TickOn(sim, crosses, shown)
       IN  /\ Keep(m)
           /\ ~Broken(m) => call' = [call EXCEPT !.ticked = TRUE] /\ UNCHANGED todo
    /\ UNCHANGED <<live, unverified, told, files, updates, failures>>

CompleteMarketBatch ==
    /\ InBatch
    /\ todo' = IF call.truth THEN Advance("main", "none") \o Rebind \o <<Return>>
               ELSE IF call.ticked
                    THEN Advance("market", "market_event_batch") \o Advance("market", "none")
                         \o <<Return>>
                    ELSE <<Return>>
    /\ UNCHANGED <<live, proc, sim, unverified, call, events, told, files, updates, failures>>

\* The change itself, between begin and complete.
Apply ==
    /\ Doing("body")
    /\ LET m == CASE call.op = "send_order"              -> SentOn(sim, call.request)
                  [] call.op = "cancel_order"            -> CancelledOn(sim, call.order)
                  [] call.op = "synchronize_trading_day" -> Compacted(sim, call.day)
                  [] OTHER                               -> sim
       IN  /\ Keep(m)
           /\ ~Broken(m) => todo' = Tail(todo) /\ UNCHANGED call
    /\ UNCHANGED <<live, unverified, told, files, updates, failures>>

\* _advance: the current file is kept as the previous one and then replaced.
KeepPrevious ==
    /\ Doing("previous") /\ todo' = Tail(todo)
    /\ LET w == Head(todo)
       IN  files' = [files EXCEPT ![w.store].previous = files[w.store].current]
    /\ UNCHANGED <<live, proc, sim, unverified, call, events, told, updates, failures>>
ReplaceCurrent ==
    /\ Doing("current") /\ todo' = Tail(todo)
    /\ LET w == Head(todo)
           content == IF w.store = "main" THEN sim
                      ELSE [bound |-> files.main.current.seq, market |-> Market(sim)]
       IN  files' = [files EXCEPT ![w.store].current =
                        [seq |-> files[w.store].current.seq + 1, op |-> w.op, state |-> content]]
    /\ UNCHANGED <<live, proc, sim, unverified, call, events, told, updates, failures>>

\* The call returns; a batch hands out the events that have come up to now.
ReturnToEngine ==
    /\ Doing("return") /\ todo' = <<>> /\ call' = NoCall
    /\ IF call.op = "market_event_batch"
       THEN told' = NextTrade(sim) - 1 /\ events' = {}
       ELSE UNCHANGED <<told, events>>
    /\ UNCHANGED <<live, proc, sim, unverified, files, updates, failures>>

-----------------------------------------------------------------------------
\* Processes and days.

Crash ==
    /\ proc # "down" /\ failures < MaxFailures /\ failures' = failures + 1
    /\ proc' = "down" /\ call' = NoCall /\ todo' = <<>> /\ events' = {}
    /\ UNCHANGED <<live, sim, unverified, told, files, updates>>

\* The contracts of positions and active orders need their metadata again, from
\* config.contracts or from CTP (_restore_state, update_specs).
Restart ==
    /\ proc = "down" /\ Restorable(files)
    /\ proc' = "waiting" /\ sim' = Restored(files)
    /\ unverified' = (~Configured /\ (sim'.position # Flat \/ SomeActive(sim')))
    /\ UNCHANGED <<live, call, todo, events, told, files, updates, failures>>

\* _wait_until_ready; only then does the engine ask for metadata.
BecomeReady ==
    /\ proc = "waiting" /\ ~unverified /\ proc' = "running"
    /\ UNCHANGED <<live, sim, unverified, call, todo, events, told, files, updates, failures>>

\* Only a broker between two operations asks for the day.
NextTradingDay ==
    /\ call = NoCall /\ live < MaxDay /\ live' = live + 1
    /\ UNCHANGED <<proc, sim, unverified, call, todo, events, told, files, updates, failures>>

\* A runtime of some days' standing, with yesterday's lots.
Init ==
    /\ live = 1 /\ proc = "running" /\ unverified = FALSE
    /\ call = NoCall /\ todo = <<>> /\ events = {} /\ told = 0
    /\ updates = 0 /\ failures = 0
    /\ \E held \in Books :
         LET book == [Flat EXCEPT !["long_yesterday"] = held.long,
                                  !["short_yesterday"] = held.short]
         IN  sim = [day |-> 1, position |-> book,
                    lots |-> [d \in Directions |->
                                 [i \in 1..held[d] |-> 0]],
                    orders |-> <<>>, trades |-> <<>>,
                    base |-> [day |-> 1, position |-> book, through |-> 0,
                              nextOrder |-> 1, nextTrade |-> 1],
                    tick |-> NoTick, ticks |-> 0, depth |-> [s \in Sides |-> 0],
                    settlement |-> 0, broken |-> FALSE]
    /\ files = [main |-> [current |-> [seq |-> 1, op |-> "none", state |-> sim],
                          previous |-> NoFile],
                market |-> [current |-> [seq |-> 1, op |-> "none",
                                         state |-> [bound |-> 1, market |-> Market(sim)]],
                            previous |-> NoFile]]

Operation ==
    \/ SynchronizeTradingDay \/ UpdateSpecs
    \/ \E r \in Requests : SendOrder(r)
    \/ \E i \in DOMAIN sim.orders : CancelOrder(i)
    \/ BeginMarketBatch \/ CompleteMarketBatch
    \/ \E crosses \in SUBSET Sides, shown \in Depths : PublishTick(crosses, shown)
Next ==
    \/ Operation \/ Apply \/ KeepPrevious \/ ReplaceCurrent \/ ReturnToEngine
    \/ Crash \/ Restart \/ BecomeReady \/ NextTradingDay

Spec == Init /\ [][Next]_vars

-----------------------------------------------------------------------------
\* The four counters are the exchange's lots, whatever was filled, rolled, compacted and
\* restored (position.py apply_trade, roll_trading_day); so the program's own check accepts
\* a closing fill exactly when the exchange has lots for it: neither is a real fill refused
\* nor an impossible one booked (_validate_close_volume); and with nothing working a close
\* planned by plan_close executes to its last child order.
BucketsAreLots ==
    /\ Counts(sim.position, sim.lots, sim.day)
    /\ \A side \in Sides, offset \in Offsets \ {"OPEN"}, v \in 1..MaxLots :
         AgreeOn(sim.position, sim.lots, [side |-> side, offset |-> offset, volume |-> v],
                 sim.day)
    /\ Idle /\ ~SomeActive(sim) =>
         \A side \in Sides, todayFirst \in BOOLEAN :
            \A v \in {w \in 1..MaxLots : CanPlanClose(sim.position, side, w)} :
                Executes(sim.position, Special, side, v, todayFirst)

\* Between two operations the files are the memory, wherever the truth has been changed or
\* only the market; and one death leaves files that a restart accepts unless they bear a
\* marker (SimBroker.__init__).
RestartsAsLeft ==
    /\ Idle => Restorable(files) /\ Restored(files) = sim
    /\ proc = "down" /\ failures <= 1 => Restorable(files) \/ Marked(files)

\* The lots a tick shows are filled once: orders of one batch, an order sent later and a
\* restart in between share them (_match_order, _restore_market_state).
DepthIsSpentOnce ==
    proc # "down" /\ sim.tick # NoTick =>
        \A side \in Sides :
            LET Add(v, t) == IF t.tick = sim.ticks /\ t.side = side THEN v + t.volume ELSE v
            IN  FoldLeft(Add, 0, sim.trades) + sim.depth[side] <= sim.tick.shown

\* A trade the engine was told of is in the truth that a restart accepts: its number is
\* never given to another one (complete_market_batch: "Commit one event batch before its
\* events may be returned to strategy code").
ToldIsDurable == ~Marked(files) => told < NextTrade(files.main.current.state)
=============================================================================
