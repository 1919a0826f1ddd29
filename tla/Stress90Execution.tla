-------------------------- MODULE Stress90Execution --------------------------
(***************************************************************************)
(* From the decision of a trading day to the orders of that day, across    *)
(* partial fills, passes, stops and restarts: maybe_rebalance and          *)
(* reconcile_authorized_crash_fills (directional_stress90_runtime.py), the *)
(* lot-stage planner (directional_stress90_planner.py) and the durable     *)
(* execution intent (directional_stress90_execution.py), driven by         *)
(* directional_engine.run_once.                                            *)
(*                                                                         *)
(* Lots are net and signed; prices are constant, one lot of a contract is  *)
(* worth Notional of it.  A decision is a sign per product; the size that  *)
(* margin and gross limits leave of a target is any size up to MaxLots.    *)
(* Policy state and intent are each one atomic file here; the two          *)
(* generations of such files are the subject of JournalStore.              *)
(***************************************************************************)
EXTENDS Integers, FiniteSets, Functions

CONSTANTS
    Products,   \* the products, each the set of its contracts
    Heavy,      \* the contracts of which one lot is worth two, not one
    MaxLots,    \* max_contract_volume
    MaxDay,     \* bound: trading days
    NoIntent    \* there is no execution intent

ASSUME SizesAssumption ==
    /\ MaxLots \in Nat \ {0}
    /\ MaxDay \in Nat \ {0}
    /\ IsFiniteSet(Products)
    /\ \A p \in Products : IsFiniteSet(p) /\ p # {}
    /\ \A p, q \in Products : p # q => p \cap q = {}

Symbols == UNION Products
ProductOf(s) == CHOOSE p \in Products : s \in p
Lots == [Symbols -> -MaxLots..MaxLots]

VARIABLES
    day,        \* the CTP trading day
    activity,   \* completed activity: the contracts' ranks by open interest, by volume
    exLots,     \* the exchange's position
    orders,     \* per contract: lots still to be opened and closed, and the intent
                \* of an opening order that is not settled
    decision,   \* file: the prepared decision of the newest target day
    intent,     \* file: the newest execution intent
    book,       \* file: the saved position, which is the one the engine works with
    bookDay,    \* file: the trading day of the saved state
    mode,       \* the engine's runtime mode
    at,         \* where the process is
    quoted,     \* contracts whose tick the manager has seen
    planned,    \* an intent that is not saved yet
    batch       \* orders of the pass that are still to be sent

exchange == <<activity, exLots, orders>>
files == <<decision, intent, book, bookDay>>
vars == <<day, activity, exLots, orders, decision, intent, book, bookDay,
          mode, at, quoted, planned, batch>>

-----------------------------------------------------------------------------
(* Lots.                                                                   *)

Abs(n) == IF n < 0 THEN -n ELSE n
Sign(n) == IF n > 0 THEN 1 ELSE IF n < 0 THEN -1 ELSE 0
Least(m, n) == IF m < n THEN m ELSE n

Flat == [s \in Symbols |-> 0]
Held(lots) == {s \in Symbols : lots[s] # 0}
Signs(lots, p) == {Sign(lots[s]) : s \in p} \ {0}
Notional(s) == IF s \in Heavy THEN 2 ELSE 1
Gross(lots, p) == SumFunction([s \in p |-> Abs(lots[s]) * Notional(s)])

\* What is left of n lots if not more than m are allowed.
Cap(n, m) == Sign(n) * Least(Abs(n), Abs(m))
\* One row of a target within a budget: as many lots as it pays for.
Fit(n, s, budget) == Cap(n, budget \div Notional(s))

-----------------------------------------------------------------------------
(* Contract selection.                                                     *)

Activities ==
    {[interest |-> i, volume |-> v] :
        i, v \in {r \in [Symbols -> 1..Cardinality(Symbols)] :
                    \A p \in Products : {r[s] : s \in p} = 1..Cardinality(p)}}

Top(S) == CHOOSE s \in S : \A t \in S : activity.interest[t] <= activity.interest[s]

\* An incumbent stays unless another contract has more of both.
Selected(p) ==
    LET Dominant(i) == {s \in p : /\ activity.interest[s] > activity.interest[i]
                                  /\ activity.volume[s] > activity.volume[i]}
        incumbents == p \cap Held(book)
        incumbent == CHOOSE i \in incumbents : TRUE
    IN  IF incumbents = {} THEN Top(p)
        ELSE IF Dominant(incumbent) = {} THEN incumbent
        ELSE Top(Dominant(incumbent))

Required == {p \in Products : decision.weight[p] # 0}
Available == {p \in Required : Selected(p) \in quoted}
Unavailable == Required \ Available
KnownSymbols == Held(book) \cup {Selected(p) : p \in Available}

-----------------------------------------------------------------------------
(* The planner.                                                            *)

\* The products for which the intent replaces one contract or side by another.
Transitions(i) ==
    IF i = NoIntent THEN {}
    ELSE {p \in Products :
            LET old == p \cap Held(i.initial)
                new == p \cap Held(i.authorized)
            IN  /\ old # {} /\ new # {}
                /\ old # new \/ Signs(i.initial, p) # Signs(i.authorized, p)}

Reverses(i, p) == Signs(i.initial, p) # Signs(i.authorized, p)

Authorized(want, i) ==
    IF i = NoIntent THEN want
    ELSE [s \in Symbols |-> IF Sign(want[s]) = Sign(i.authorized[s])
                              THEN Cap(want[s], i.authorized[s]) ELSE 0]

\* Mutant: an authorised transition opens without a budget.
FreezeWithoutBudget(now, want, blocked, i) ==
    LET target == Authorized(want, i)
        Row(s, p) ==
            IF p \notin blocked \/ p \in Transitions(i) THEN target[s]
            ELSE IF p \cap Held(now) # {} /\ Signs(now, p) # Signs(target, p) THEN target[s]
            ELSE Fit(target[s], s, Gross(now, p))
    IN  [s \in Symbols |-> Row(s, ProductOf(s))]

\* freeze_new_risk_target: exits, reversals and rolls pass, entries and adds of
\* the blocked products do not.
Freeze(now, want, blocked, i) ==
    LET target == Authorized(want, i)
        Budget(p) == IF p \in Transitions(i) THEN Gross(i.initial, p) ELSE Gross(now, p)
        Row(s, p) ==
            IF p \notin blocked \/ \A t \in p : now[t] = target[t]
              THEN target[s]
            ELSE IF /\ p \notin Transitions(i)
                    /\ p \cap Held(now) # {} /\ Signs(now, p) # Signs(target, p)
              THEN target[s]
            ELSE Fit(target[s], s, Budget(p))
    IN  [s \in Symbols |-> Row(s, ProductOf(s))]

FrozenProducts == IF decision.frozen THEN Products ELSE {}

\* The target of a pass before the freezes: what cannot be quoted stays as it is
\* or goes, and whatever the gross limit asks for is cut.
Targets(want, kept) ==
    {t \in Lots : \A s \in Symbols :
        IF ProductOf(s) \in Unavailable
          THEN t[s] = IF s \in kept THEN book[s] ELSE 0
          ELSE t[s] = Cap(want[s], t[s])}

\* The plan of the day before there is an intent: any size in the decision's sign.
FirstTargets ==
    Targets([s \in Symbols |-> IF s \in {Selected(p) : p \in Available}
                                 THEN MaxLots * decision.weight[ProductOf(s)] ELSE 0],
            {s \in Symbols : Sign(book[s]) = decision.weight[ProductOf(s)]})

LaterTargets ==
    Targets(intent.fitted,
            {s \in Symbols : Signs(intent.fitted, ProductOf(s)) = {Sign(book[s])}})

\* Entries, additions and the opening half of a reversal wait for the product's
\* first window; a roll does not.
WaitsForWindow(now, want, s) ==
    LET p == ProductOf(s)
    IN  \/ /\ now[s] = 0 /\ want[s] # 0
           /\ IF p \in Transitions(intent) THEN Reverses(intent, p)
              ELSE p \cap Held(now) = {}
        \/ now[s] # 0 /\ Sign(now[s]) = Sign(want[s]) /\ Abs(want[s]) > Abs(now[s])

Closed(now, want, shut) ==
    IF Unavailable # {} THEN Products
    ELSE {p \in shut : \E s \in p : WaitsForWindow(now, want, s)}

FinalTarget(want, shut) ==
    LET frozen == Freeze(book, want, FrozenProducts, intent)
    IN  Freeze(book, frozen, Closed(book, frozen, shut), intent)

Reductions(now, want) ==
    [s \in Symbols |-> IF now[s] # 0 /\ Cap(want[s], now[s]) # now[s]
                         THEN (IF Sign(want[s]) = Sign(now[s]) THEN want[s] ELSE 0) - now[s]
                         ELSE 0]

\* Nothing is opened while anything is to be reduced.
Moves(now, want) ==
    IF Reductions(now, want) # Flat
      THEN [moves |-> Reductions(now, want), kind |-> "risk_reduction"]
      ELSE [moves |-> [s \in Symbols |-> want[s] - now[s]], kind |-> "candidate"]

-----------------------------------------------------------------------------
NoOrder == [opening |-> 0, closing |-> 0, under |-> NoIntent]
NoBatch == [moves |-> Flat, kind |-> "none"]
NoOrders == [s \in Symbols |-> NoOrder]

NoneActive == \A s \in Symbols : orders[s].opening = 0 /\ orders[s].closing = 0

\* Mutant: a pass waits for orders but not for their fills.
PassesOverFills == NoneActive

\* No order is at work or unresolved in the journal, and every fill is handled.
Quiet == NoneActive /\ book = exLots

\* An order leaves the picture when it has ended and its fills are handled.
Settled(order, handled) ==
    IF order.opening = 0 /\ order.closing = 0 /\ handled THEN NoOrder ELSE order

Sides == {"opening", "closing"}
Less(order, side, lots) == [order EXCEPT ![side] = @ - lots]

\* Lots added to what a contract's orders still have to open, or to close.
Opening(order, lots) == [order EXCEPT !.opening = @ + lots, !.under = intent]
Closing(order, lots) == [order EXCEPT !.closing = @ + lots]

InitialLots == {l \in Lots : \A p \in Products : Cardinality(p \cap Held(l)) <= 1}

Init ==
    /\ day = 1 /\ bookDay = 1
    /\ activity \in Activities
    /\ exLots \in InitialLots /\ book = exLots
    /\ orders = NoOrders
    /\ decision = [day |-> 0, weight |-> [p \in Products |-> 0], frozen |-> FALSE]
    /\ intent = NoIntent
    /\ mode = "HALTED" /\ at = "down"
    /\ quoted = {} /\ planned = NoIntent /\ batch = NoBatch

HasIntent == intent # NoIntent /\ intent.day = day
Decided == decision.day = day
Rebalances == at = "running" /\ mode = "RUNNING" /\ Quiet

-----------------------------------------------------------------------------
(* The exchange.                                                           *)

\* One lot is traded.  A close never takes more than there is.
Fill(s, side) ==
    LET step == Sign(orders[s][side])
    IN  /\ step # 0
        /\ side = "closing" => Sign(exLots[s]) = -step
        /\ exLots' = [exLots EXCEPT ![s] = @ + step]
        /\ orders' = [orders EXCEPT ![s] =
                        Settled(Less(orders[s], side, step), book[s] = exLots[s] + step)]
        /\ UNCHANGED <<day, activity, files, mode, at, quoted, planned, batch>>

\* Fill-and-kill: what is not traded is cancelled.
EndOrder(s, side) ==
    /\ orders[s][side] # 0
    /\ orders' = [orders EXCEPT ![s] =
                     Settled(Less(@, side, orders[s][side]), book[s] = exLots[s])]
    /\ UNCHANGED <<day, activity, exLots, files, mode, at, quoted, planned, batch>>

\* The orders and trades of a session end with it, and no process trades into
\* the next day: the first tick of a new day stops the engine.
NewDay ==
    /\ day < MaxDay
    /\ day' = day + 1
    /\ activity' \in Activities
    /\ orders' = NoOrders
    /\ at' = "down" /\ mode' = "HALTED"
    /\ quoted' = {} /\ planned' = NoIntent /\ batch' = NoBatch
    /\ UNCHANGED <<exLots, files>>

-----------------------------------------------------------------------------
(* The process.                                                            *)

Stopped == at \in {"down", "refused", "failed"}

\* A crash or an emergency stop; memory is lost, orders at the exchange are not.
Stop ==
    /\ ~Stopped
    /\ at' = "down" /\ mode' = "HALTED"
    /\ quoted' = {} /\ planned' = NoIntent /\ batch' = NoBatch
    /\ UNCHANGED <<day, exchange, files>>

\* The operator carries the saved state over to the new trading day.
RollForward ==
    /\ Stopped /\ bookDay # day
    /\ book = exLots
    /\ bookDay' = day
    /\ UNCHANGED <<day, exchange, decision, intent, book, mode, at, quoted, planned, batch>>

\* A stopped runtime starts again with a new permit.
Start ==
    /\ Stopped /\ bookDay = day
    /\ at' = "starting" /\ mode' = "RUNNING" /\ quoted' = {}
    /\ UNCHANGED <<day, exchange, files, planned, batch>>

\* Mutant: only fills of the intent are adopted.
AdoptsIntentOnly(s) == HasIntent /\ Decided /\ orders[s].under = intent

\* reconcile_authorized_crash_fills on the fills of one contract that the saved
\* state lacks: they belong to reductions, or to the intent and the decision of today.
Adoptable(s) ==
    \/ orders[s].under = NoIntent
    \/ HasIntent /\ Decided /\ orders[s].under = intent

\* The startup waits for the orders of the dead process and takes over its fills.
Reconcile ==
    /\ at = "starting" /\ NoneActive
    /\ IF \A s \in Symbols : book[s] # exLots[s] => Adoptable(s)
         THEN book' = exLots /\ at' = "running" /\ UNCHANGED mode
         ELSE at' = "refused" /\ mode' = "HALTED" /\ UNCHANGED book
    /\ orders' = NoOrders
    /\ UNCHANGED <<day, activity, exLots, decision, intent, bookDay, quoted, planned, batch>>

Tick(s) ==
    /\ at = "running" /\ s \notin quoted
    /\ quoted' = quoted \cup {s}
    /\ UNCHANGED <<day, exchange, files, mode, at, planned, batch>>

HandleTrades(s) ==
    /\ at = "running" /\ book[s] # exLots[s]
    /\ book' = [book EXCEPT ![s] = exLots[s]]
    /\ orders' = [orders EXCEPT ![s] = Settled(@, TRUE)]
    /\ UNCHANGED <<day, activity, exLots, decision, intent, bookDay, mode, at, quoted,
                   planned, batch>>

\* The decision of a target day reaches its file before anything else is read.
PrepareDecision ==
    /\ Rebalances /\ ~Decided
    /\ \E weight \in [Products -> {-1, 0, 1}], frozen \in BOOLEAN :
         decision' = [day |-> day, weight |-> weight, frozen |-> frozen]
    /\ UNCHANGED <<day, exchange, intent, book, bookDay, mode, at, quoted, planned, batch>>

\* Mutant: every pass plans the day anew.
PlanIntentAgain ==
    /\ Rebalances /\ Decided
    /\ Held(book) \subseteq quoted
    /\ \E fitted \in FirstTargets :
         planned' = [day |-> day, initial |-> book, fitted |-> fitted,
                     authorized |-> Freeze(book, fitted, FrozenProducts, NoIntent)]
    /\ at' = "planned"
    /\ UNCHANGED <<day, exchange, files, mode, quoted, batch>>

\* The first pass of the day that has its data fixes what the day may do.
PlanIntent ==
    /\ Rebalances /\ Decided /\ ~HasIntent
    /\ Held(book) \subseteq quoted
    /\ \E fitted \in FirstTargets :
         planned' = [day |-> day, initial |-> book, fitted |-> fitted,
                     authorized |-> Freeze(book, fitted, FrozenProducts, NoIntent)]
    /\ at' = "planned"
    /\ UNCHANGED <<day, exchange, files, mode, quoted, batch>>

SaveIntent ==
    /\ at = "planned"
    /\ intent' = planned /\ planned' = NoIntent
    /\ at' = "running"
    /\ UNCHANGED <<day, exchange, decision, book, bookDay, mode, quoted, batch>>

\* The planner knows the product of every contract of the day's intent.
Plannable == Held(intent.fitted) \subseteq KnownSymbols

\* A pass of maybe_rebalance under the intent of the day.
Rebalance ==
    /\ Rebalances /\ Decided /\ HasIntent
    /\ Held(book) \subseteq quoted /\ Plannable
    /\ \E want \in LaterTargets, shut \in SUBSET Products :
         batch' = Moves(book, FinalTarget(want, shut))
    /\ IF batch'.moves # Flat THEN at' = "sending" /\ UNCHANGED mode
       ELSE /\ mode' = IF Unavailable # {} /\ Held(book) # {} THEN "REDUCE_ONLY" ELSE mode
            /\ UNCHANGED at
    /\ UNCHANGED <<day, exchange, files, quoted, planned>>

\* The planner does not find a contract's product and raises; the engine stops.
RebalanceFails ==
    /\ Rebalances /\ Decided /\ HasIntent
    /\ Held(book) \subseteq quoted /\ ~Plannable
    /\ at' = "failed" /\ mode' = "HALTED"
    /\ UNCHANGED <<day, exchange, files, quoted, planned, batch>>

\* The realized gross guard, which runs before each pass, cuts positions.
GuardReduces ==
    /\ Rebalances
    /\ Held(book) \subseteq quoted
    /\ \E want \in {l \in Lots : \A s \in Symbols : l[s] = Cap(book[s], l[s])} :
         batch' = [moves |-> Reductions(book, want), kind |-> "risk_reduction"]
    /\ batch'.moves # Flat
    /\ at' = "sending"
    /\ UNCHANGED <<day, exchange, files, mode, quoted, planned>>

\* An input of the pass is missing, or an account return is over a limit, while
\* there is a position: the strategy's day is over.
EnterReduceOnly ==
    /\ at = "running" /\ mode = "RUNNING" /\ Held(book) # {}
    /\ mode' = "REDUCE_ONLY"
    /\ UNCHANGED <<day, exchange, files, at, quoted, planned, batch>>

\* The reduce-only cycle closes everything; it looks at orders, not at queued fills.
Flatten ==
    /\ at = "running" /\ mode = "REDUCE_ONLY" /\ NoneActive
    /\ Held(book) # {} /\ Held(book) \subseteq quoted
    /\ batch' = [moves |-> Reductions(book, Flat), kind |-> "risk_reduction"]
    /\ at' = "sending"
    /\ UNCHANGED <<day, exchange, files, mode, quoted, planned>>

Send(s) ==
    LET rest == [batch.moves EXCEPT ![s] = 0]
    IN  /\ at = "sending" /\ batch.moves[s] # 0
        /\ orders' = [orders EXCEPT ![s] =
                        IF batch.kind = "candidate" THEN Opening(@, batch.moves[s])
                        ELSE Closing(@, batch.moves[s])]
        /\ batch' = IF rest = Flat THEN NoBatch ELSE [batch EXCEPT !.moves = rest]
        /\ at' = IF rest = Flat THEN "running" ELSE "sending"
        /\ UNCHANGED <<day, activity, exLots, files, mode, quoted, planned>>

\* A risk check, the rate limit or the gateway refuses; the rest is not sent.
GiveUp ==
    /\ at = "sending"
    /\ batch' = NoBatch /\ at' = "running"
    /\ UNCHANGED <<day, exchange, files, mode, quoted, planned>>

Next ==
    \/ \E s \in Symbols, side \in Sides : Fill(s, side) \/ EndOrder(s, side)
    \/ \E s \in Symbols : Tick(s) \/ HandleTrades(s) \/ Send(s)
    \/ NewDay \/ Stop \/ RollForward \/ Start \/ Reconcile
    \/ PrepareDecision \/ PlanIntent \/ SaveIntent
    \/ Rebalance \/ RebalanceFails \/ GuardReduces \/ EnterReduceOnly \/ Flatten \/ GiveUp

Spec == Init /\ [][Next]_vars

-----------------------------------------------------------------------------
(* Properties.                                                             *)

IntentType == [day : 1..MaxDay, initial : Lots, fitted : Lots, authorized : Lots]

\* Types: no order, fill or restart takes a contract beyond max_contract_volume.
TypeOK ==
    /\ day \in 1..MaxDay /\ bookDay \in 1..MaxDay
    /\ activity \in Activities
    /\ exLots \in Lots /\ book \in Lots
    /\ orders \in [Symbols -> [opening : (-2 * MaxLots)..(2 * MaxLots),
                               closing : (-2 * MaxLots)..(2 * MaxLots),
                               under : IntentType \cup {NoIntent}]]
    /\ decision \in [day : 0..MaxDay, weight : [Products -> {-1, 0, 1}], frozen : BOOLEAN]
    /\ {intent, planned} \subseteq IntentType \cup {NoIntent}
    /\ mode \in {"RUNNING", "REDUCE_ONLY", "HALTED"}
    /\ at \in {"down", "refused", "failed", "starting", "running", "planned", "sending"}
    /\ quoted \subseteq Symbols
    /\ batch \in [moves : [Symbols -> (-2 * MaxLots)..(2 * MaxLots)],
                 kind : {"none", "risk_reduction", "candidate"}]

\* The position with everything that an opening order may still add to it.
Exposure == [s \in Symbols |-> exLots[s] + orders[s].opening]

\* However often the day's plan is repeated, over partial fills, stops and
\* restarts: no contract ever leaves the range from what was held when the
\* intent was made, over nothing, to what the intent allows; and a roll or a
\* reversal opens only when the exchange, not only the plan, has nothing of the
\* old contract.
StaysWithinIntent ==
    /\ HasIntent => \A s \in Symbols :
        LET ends == {0, intent.initial[s], intent.authorized[s]}
        IN  /\ \E e \in ends : e <= Exposure[s]
            /\ \E e \in ends : Exposure[s] <= e
    /\ \A p \in Products : Cardinality(p \cap (Held(exLots) \cup Held(Exposure))) <= 1

\* On a frozen day no product ends with more gross value than it began with,
\* also when a reversal or a roll is interrupted and taken up again.
FrozenAddsNoRisk ==
    HasIntent /\ decision.frozen =>
        \A p \in Products : Gross(Exposure, p) <= Gross(intent.initial, p)

\* A restart on the same trading day accounts for every fill that the dead
\* process had not saved: those of the guard and of the reduce-only cycle, which
\* need no intent, and those of orders sent before or after the file was read.
OwnFillsAreAdopted == at # "refused"

\* A trading day is decided once and planned once, whatever happens later.
DayIsDecidedOnce ==
    [][/\ Decided /\ day' = day => decision' = decision
       /\ HasIntent /\ day' = day => intent' = intent]_vars
=============================================================================
