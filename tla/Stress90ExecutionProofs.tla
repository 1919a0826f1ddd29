----------------------- MODULE Stress90ExecutionProofs -----------------------
(***************************************************************************)
(* A trading day is decided and planned once; a restart on that day never   *)
(* refuses the fills of its own dead process; no order of the day takes a   *)
(* contract out of what its intent allows, no product is held in two        *)
(* contracts, and a frozen day adds no risk: for any products, contracts,   *)
(* lot limits and number of days.                                           *)
(*                                                                          *)
(* The first two rest on one fact: while an opening order is not settled,   *)
(* the intent it was sent under is the one in the file, and it is of today. *)
(* An intent is replaced only where there is none of today, hence no such   *)
(* order (IInv).                                                            *)
(*                                                                          *)
(* The others are about the potential: what is held with everything that    *)
(* orders and the pass at hand may still open.  A pass plans only when no   *)
(* order is at work and every fill is handled, so its target becomes the    *)
(* potential, and every other step leaves the potential as it is or takes   *)
(* it closer to nothing, contract by contract.  So it is enough that the    *)
(* target of a pass is a part of what the intent allows, in one contract    *)
(* per product, and on a frozen day worth no more than the intent's start   *)
(* (PInv).  The target is twice frozen: what the lemmas show of Freeze is   *)
(* that it only takes away (FreezeToward), and that under a frozen day's    *)
(* intent no product grows (FrozenPass): where it lets a change of side     *)
(* pass that the intent does not make, that change only leaves (OnlyLeaves).*)
(***************************************************************************)
EXTENDS Stress90Execution, FiniteSetTheorems, WellFoundedInduction, TLAPS

\* An order is a record of its three fields.
OrderShape(o) ==
    /\ DOMAIN o = {"opening", "closing", "under"}
    /\ o = [f \in DOMAIN o |-> o[f]]

\* Unsettled openings were sent under the intent in the file, which is today's.
SentUnderTodaysIntent ==
    \A s \in Symbols :
        /\ OrderShape(orders[s])
        /\ orders[s].under # NoIntent => HasIntent /\ Decided /\ orders[s].under = intent

\* What the process carries from one step of a pass to the next.
PassesAreCurrent ==
    /\ at = "planned" => Decided /\ ~HasIntent
    /\ at = "sending" /\ batch.kind = "candidate" => HasIntent /\ Decided

\* The inductive invariant of what is decided, planned and adopted.
IInv ==
    /\ orders = [s \in Symbols |-> orders[s]]
    /\ SentUnderTodaysIntent
    /\ PassesAreCurrent
    /\ at # "refused"

\* Before the first day there is neither an order nor a plan.
LEMMA InitInvariant == Init => IInv
BY SMT DEF Init, IInv, SentUnderTodaysIntent, PassesAreCurrent, OrderShape, NoOrders, NoOrder, NoBatch

-----------------------------------------------------------------------------
\* An order keeps its intent until it is settled, and then it has none.
LEMMA SettledOrder ==
    ASSUME NEW order, NEW handled \in BOOLEAN, OrderShape(order)
    PROVE  /\ OrderShape(Settled(order, handled))
           /\ Settled(order, handled).under \in {order.under, NoIntent}
BY DEF OrderShape, Settled, NoOrder

\* One order changes and keeps or loses its intent; the files and the day stay.
LEMMA OrderStep ==
    ASSUME IInv, NEW s \in Symbols, NEW order,
           OrderShape(order), order.under \in {orders[s].under, NoIntent},
           orders' = [orders EXCEPT ![s] = order],
           UNCHANGED <<day, decision, intent>>
    PROVE  SentUnderTodaysIntent' /\ orders' = [t \in Symbols |-> orders'[t]]
BY DEF IInv, SentUnderTodaysIntent, HasIntent, Decided

\* Fewer lots to trade change neither the shape of an order nor its intent.
LEMMA LessOrder ==
    ASSUME NEW order, NEW side \in Sides, NEW lots, OrderShape(order)
    PROVE  OrderShape(Less(order, side, lots)) /\ Less(order, side, lots).under = order.under
BY Zenon DEF OrderShape, Less, Sides

\* A fill changes one order, which keeps its intent or is settled.
LEMMA FillInvariant ==
    ASSUME IInv, NEW s \in Symbols, NEW side \in Sides, Fill(s, side)
    PROVE  IInv'
<1>1. PICK traded : \E handled \in BOOLEAN :
        /\ OrderShape(traded) /\ traded.under = orders[s].under
        /\ orders' = [orders EXCEPT ![s] = Settled(traded, handled)]
  <2> DEFINE step == Sign(orders[s][side])
  <2>1. orders' = [orders EXCEPT ![s] =
                     Settled(Less(orders[s], side, step), book[s] = exLots[s] + step)]
    BY DEF Fill
  <2> HIDE DEF step
  <2>. QED
    BY <2>1, LessOrder DEF IInv, SentUnderTodaysIntent
<1>2. SentUnderTodaysIntent' /\ orders' = [t \in Symbols |-> orders'[t]]
  <2>1. UNCHANGED <<day, decision, intent>>
    BY DEF Fill, files
  <2>. QED
    BY <1>1, <2>1, SettledOrder, OrderStep
<1>. QED
  BY <1>2 DEF IInv, Fill, files, PassesAreCurrent, HasIntent, Decided

\* So does the end of an order.
LEMMA EndOrderInvariant ==
    ASSUME IInv, NEW s \in Symbols, NEW side \in Sides, EndOrder(s, side)
    PROVE  IInv'
<1>1. PICK ended : \E handled \in BOOLEAN :
        /\ OrderShape(ended) /\ ended.under = orders[s].under
        /\ orders' = [orders EXCEPT ![s] = Settled(ended, handled)]
  <2>1. orders' = [orders EXCEPT ![s] =
                     Settled(Less(orders[s], side, orders[s][side]), book[s] = exLots[s])]
    BY DEF EndOrder
  <2>. QED
    BY <2>1, LessOrder DEF IInv, SentUnderTodaysIntent
<1>2. SentUnderTodaysIntent' /\ orders' = [t \in Symbols |-> orders'[t]]
  <2>1. UNCHANGED <<day, decision, intent>>
    BY DEF EndOrder, files
  <2>. QED
    BY <1>1, <2>1, SettledOrder, OrderStep
<1>. QED
  BY <1>2 DEF IInv, EndOrder, files, PassesAreCurrent, HasIntent, Decided

\* And so does the handling of its fills.
LEMMA HandleTradesInvariant ==
    ASSUME IInv, NEW s \in Symbols, HandleTrades(s)
    PROVE  IInv'
<1>1. OrderShape(orders[s])
  BY DEF IInv, SentUnderTodaysIntent
<1>2. SentUnderTodaysIntent' /\ orders' = [t \in Symbols |-> orders'[t]]
  <2>1. orders' = [orders EXCEPT ![s] = Settled(orders[s], TRUE)]
    BY DEF HandleTrades
  <2>. QED
    BY <1>1, <2>1, SettledOrder, OrderStep DEF HandleTrades
<1>. QED
  BY <1>2 DEF IInv, HandleTrades, PassesAreCurrent, HasIntent, Decided

\* An opening order is sent under the intent that is in the file, and of today.
LEMMA SendInvariant ==
    ASSUME IInv, NEW s \in Symbols, Send(s)
    PROVE  IInv'
<1>1. OrderShape(orders[s])
  BY DEF IInv, SentUnderTodaysIntent
<1>2. at = "sending"
  BY DEF Send
<1>3. CASE batch.kind = "candidate"
  <2>1. PICK order : OrderShape(order) /\ order.under = intent
                     /\ orders' = [orders EXCEPT ![s] = order]
    <3>1. /\ OrderShape(Opening(orders[s], batch.moves[s]))
          /\ Opening(orders[s], batch.moves[s]).under = intent
      BY <1>1, Zenon DEF OrderShape, Opening
    <3>. QED
      BY <1>3, <3>1 DEF Send
  <2>2. HasIntent /\ Decided
    BY <1>2, <1>3 DEF IInv, PassesAreCurrent
  <2>. QED
    BY <2>1, <2>2, SMT
    DEF IInv, SentUnderTodaysIntent, PassesAreCurrent, Send, files, HasIntent, Decided, NoBatch
<1>4. CASE batch.kind # "candidate"
  <2>1. PICK order : OrderShape(order) /\ order.under = orders[s].under
                     /\ orders' = [orders EXCEPT ![s] = order]
    <3>1. /\ OrderShape(Closing(orders[s], batch.moves[s]))
          /\ Closing(orders[s], batch.moves[s]).under = orders[s].under
      BY <1>1, Zenon DEF OrderShape, Closing
    <3>. QED
      BY <1>4, <3>1 DEF Send
  <2>2. SentUnderTodaysIntent' /\ orders' = [t \in Symbols |-> orders'[t]]
    BY <2>1, OrderStep DEF Send, files
  <2>. QED
    BY <1>4, <2>2, SMT DEF IInv, PassesAreCurrent, Send, files, NoBatch
<1>. QED
  BY <1>3, <1>4

-----------------------------------------------------------------------------
\* Without an intent of today, or without a decision, no opening is unsettled.
LEMMA NothingUnderOldPlans ==
    ASSUME IInv, ~HasIntent \/ ~Decided
    PROVE  \A s \in Symbols : orders[s].under = NoIntent
BY DEF IInv, SentUnderTodaysIntent

\* A decision is prepared only where there is none of today: nothing is unsettled.
LEMMA PrepareDecisionInvariant == IInv /\ PrepareDecision => IInv'
<1> SUFFICES ASSUME IInv, PrepareDecision PROVE IInv'
  OBVIOUS
<1>1. \A s \in Symbols : orders[s].under = NoIntent
  BY NothingUnderOldPlans DEF PrepareDecision
<1>. QED
  BY <1>1 DEF IInv, SentUnderTodaysIntent, PassesAreCurrent, PrepareDecision, Rebalances,
              exchange

\* An intent is saved only where there is none of today: nothing is unsettled.
LEMMA SaveIntentInvariant == IInv /\ SaveIntent => IInv'
<1> SUFFICES ASSUME IInv, SaveIntent PROVE IInv'
  OBVIOUS
<1>1. \A s \in Symbols : orders[s].under = NoIntent
  BY NothingUnderOldPlans DEF SaveIntent, IInv, PassesAreCurrent
<1>. QED
  BY <1>1 DEF IInv, SentUnderTodaysIntent, PassesAreCurrent, SaveIntent, exchange

\* The fills that the saved state lacks are those of reductions or of today's intent.
LEMMA ReconcileInvariant == IInv /\ Reconcile => IInv'
<1> SUFFICES ASSUME IInv, Reconcile PROVE IInv'
  OBVIOUS
<1>1. \A s \in Symbols : Adoptable(s)
  BY DEF Adoptable, IInv, SentUnderTodaysIntent
<1>2. at' = "running"
  BY <1>1 DEF Reconcile
<1>3. \A s \in Symbols : orders'[s] = NoOrder
  BY DEF Reconcile, NoOrders
<1>4. orders' = [s \in Symbols |-> orders'[s]]
  BY DEF Reconcile, NoOrders
<1>. QED
  BY <1>2, <1>3, <1>4 DEF IInv, SentUnderTodaysIntent, PassesAreCurrent, OrderShape, NoOrder

\* The orders of a session end with it.
LEMMA NewDayInvariant == IInv /\ NewDay => IInv'
<1> SUFFICES ASSUME IInv, NewDay PROVE IInv'
  OBVIOUS
<1>1. \A s \in Symbols : orders'[s] = NoOrder
  BY DEF NewDay, NoOrders
<1>2. orders' = [s \in Symbols |-> orders'[s]]
  BY DEF NewDay, NoOrders
<1>. QED
  BY <1>1, <1>2 DEF IInv, NewDay, SentUnderTodaysIntent, PassesAreCurrent, OrderShape, NoOrder

\* The steps that touch neither orders nor files.
Quietly == UNCHANGED <<day, orders, decision, intent>>

\* A step that touches neither keeps what orders and files have in common.
LEMMA QuietInvariant == IInv /\ Quietly /\ PassesAreCurrent' /\ at' # "refused" => IInv'
BY DEF IInv, Quietly, SentUnderTodaysIntent, HasIntent, Decided

\* The steps of a pass before its orders.
LEMMA PassInvariant ==
    IInv /\ (PlanIntent \/ Rebalance \/ RebalanceFails \/ GuardReduces \/ Flatten \/ GiveUp) => IInv'
<1> SUFFICES ASSUME IInv,
                    PlanIntent \/ Rebalance \/ RebalanceFails \/ GuardReduces \/ Flatten \/ GiveUp
             PROVE  IInv'
  OBVIOUS
<1>1. Quietly
  BY DEF Quietly, PlanIntent, Rebalance, RebalanceFails, GuardReduces, Flatten, GiveUp,
         exchange, files
<1>2. PassesAreCurrent' /\ at' # "refused"
  <2>1. CASE PlanIntent
    BY <2>1, <1>1 DEF PlanIntent, PassesAreCurrent, HasIntent, Decided, Quietly
  <2>2. CASE Rebalance
    BY <2>2, <1>1 DEF Rebalance, Rebalances, PassesAreCurrent, HasIntent, Decided, Quietly
  <2>3. CASE RebalanceFails \/ GiveUp
    BY <2>3 DEF RebalanceFails, GiveUp, PassesAreCurrent
  <2>4. CASE GuardReduces
    BY <2>4 DEF GuardReduces, PassesAreCurrent
  <2>5. CASE Flatten
    BY <2>5 DEF Flatten, PassesAreCurrent
  <2>. QED
    BY <2>1, <2>2, <2>3, <2>4, <2>5
<1>. QED
  BY <1>1, <1>2, QuietInvariant

\* Stops, starts, the change of mode, ticks.
LEMMA LifeInvariant ==
    IInv /\ (Stop \/ RollForward \/ Start \/ EnterReduceOnly \/ \E s \in Symbols : Tick(s)) => IInv'
<1> SUFFICES ASSUME IInv,
                    Stop \/ RollForward \/ Start \/ EnterReduceOnly \/ \E s \in Symbols : Tick(s)
             PROVE  IInv'
  OBVIOUS
<1>1. Quietly
  BY DEF Quietly, Stop, RollForward, Start, EnterReduceOnly, Tick, exchange, files
<1>2. PassesAreCurrent' /\ at' # "refused"
  BY <1>1 DEF IInv, Stop, RollForward, Start, EnterReduceOnly, Tick, Stopped, PassesAreCurrent,
              HasIntent, Decided, Quietly
<1>. QED
  BY <1>1, <1>2, QuietInvariant

\* Every step.
LEMMA NextInvariant == IInv /\ [Next]_vars => IInv'
<1> SUFFICES ASSUME IInv, [Next]_vars PROVE IInv'
  OBVIOUS
<1>1. CASE \E s \in Symbols, side \in Sides : Fill(s, side) \/ EndOrder(s, side)
  BY <1>1, FillInvariant, EndOrderInvariant
<1>2. CASE \E s \in Symbols : HandleTrades(s) \/ Send(s)
  BY <1>2, HandleTradesInvariant, SendInvariant
<1>3. CASE NewDay \/ Reconcile \/ PrepareDecision \/ SaveIntent
  BY <1>3, NewDayInvariant, ReconcileInvariant, PrepareDecisionInvariant, SaveIntentInvariant
<1>4. CASE PlanIntent \/ Rebalance \/ RebalanceFails \/ GuardReduces \/ Flatten \/ GiveUp
  BY <1>4, PassInvariant
<1>5. CASE Stop \/ RollForward \/ Start \/ EnterReduceOnly \/ \E s \in Symbols : Tick(s)
  BY <1>5, LifeInvariant
<1>6. CASE UNCHANGED vars
  <2>1. Quietly /\ UNCHANGED <<at, batch>>
    BY <1>6 DEF vars, Quietly
  <2>. QED
    BY <2>1, QuietInvariant DEF IInv, PassesAreCurrent, Quietly, HasIntent, Decided
<1>. QED
  BY <1>1, <1>2, <1>3, <1>4, <1>5, <1>6 DEF Next

-----------------------------------------------------------------------------
\* The only files that a step of the same day replaces are those that are not of
\* that day: PrepareDecision and SaveIntent, and both only once a day.
LEMMA StepsDecideOnce ==
    IInv /\ [Next]_vars =>
        /\ Decided /\ day' = day => decision' = decision
        /\ HasIntent /\ day' = day => intent' = intent
<1> SUFFICES ASSUME IInv, [Next]_vars
             PROVE  /\ Decided /\ day' = day => decision' = decision
                    /\ HasIntent /\ day' = day => intent' = intent
  OBVIOUS
<1>1. CASE PrepareDecision
  BY <1>1 DEF PrepareDecision
<1>2. CASE SaveIntent
  BY <1>2 DEF SaveIntent, IInv, PassesAreCurrent
<1>3. CASE ~PrepareDecision /\ ~SaveIntent
  <2>1. UNCHANGED <<decision, intent>>
    BY <1>3 DEF Next, vars, exchange, files, Fill, EndOrder, Tick, HandleTrades, Send, NewDay, Stop,
       RollForward, Start, Reconcile, PlanIntent, Rebalance, RebalanceFails, GuardReduces,
       EnterReduceOnly, Flatten, GiveUp
  <2>. QED
    BY <2>1
<1>. QED
  BY <1>1, <1>2, <1>3

\* A restart on the same trading day accounts for every fill of its dead process,
\* whatever the limits and however orders, fills and restarts interleave.
THEOREM OwnFillsAreAdoptedHolds == Spec => []OwnFillsAreAdopted
<1>1. IInv => OwnFillsAreAdopted
  BY DEF IInv, OwnFillsAreAdopted
<1>. QED
  BY <1>1, InitInvariant, NextInvariant, PTL DEF Spec

\* A trading day has one decision and one intent, over passes, fills and restarts.
THEOREM DayIsDecidedOnceHolds == Spec => DayIsDecidedOnce
<1>. QED
  BY InitInvariant, NextInvariant, StepsDecideOnce, PTL DEF Spec, DayIsDecidedOnce

-----------------------------------------------------------------------------
(* Sums over finite sets: an induction over the size of the set, from the    *)
(* fact that a set of natural numbers has a least element.                   *)

\* Every non-empty set of natural numbers has a least element.
LEMMA LeastNatural ==
    ASSUME NEW T \in SUBSET Nat, T # {}
    PROVE  \E m \in T : \A n \in T : m <= n
  <1> DEFINE R == OpToRel(<, Nat)
  <1>1. IsWellFoundedOn(R, Nat)
    BY NatLessThanWellFounded
  <1>2. \A x \in Nat, y \in Nat : <<y, x>> \in R <=> y < x
    BY DEF OpToRel
  <1> HIDE DEF R
  <1>3. PICK m \in T : \A y \in T : ~ (<<y, m>> \in R)
    BY <1>1, WFMin
  <1>4. \A n \in T : ~ (n < m)
    BY <1>2, <1>3
  <1>5. m \in Nat /\ \A n \in T : n \in Nat
    OBVIOUS
  <1> QED BY <1>4, <1>5

\* So a set of natural numbers that holds 0 and every successor of its elements
\* holds them all.
LEMMA NatByInduction ==
    ASSUME NEW P \in SUBSET Nat, 0 \in P, \A n \in P : n + 1 \in P
    PROVE  P = Nat
  <1> SUFFICES ASSUME Nat \ P # {} PROVE FALSE
    OBVIOUS
  <1>1. PICK m \in Nat \ P : \A n \in Nat \ P : m <= n
    BY LeastNatural
  <1>2. m # 0 /\ m - 1 \in Nat
    BY <1>1
  <1>3. m - 1 \in P
    BY <1>1, <1>2
  <1> QED BY <1>1, <1>2, <1>3

\* The element the fold takes first.
First(s) == CHOOSE x \in s : TRUE

\* A function on the subsets of a set that adds up as the fold does.
IsFold(g, f, D) ==
    g = [s \in D |-> IF s = {} THEN 0 ELSE f[First(s)] + g[s \ {First(s)}]]

\* The sum is the fold of the community modules.
LEMMA SumIsFold ==
    ASSUME NEW f, NEW S
    PROVE  SumFunctionOnSet(f, S) = (CHOOSE g : IsFold(g, f, SUBSET S))[S]
  BY DEF SumFunctionOnSet, FoldFunctionOnSet, MapThenFoldSet, IsFold, First

\* The element a fold takes first is an element of the set.
LEMMA FirstIn ==
    ASSUME NEW s, s # {}
    PROVE  First(s) \in s
  BY DEF First

\* The set without the element a fold takes first is one smaller.
LEMMA WithoutFirst ==
    ASSUME NEW s, IsFiniteSet(s), s # {}
    PROVE  /\ IsFiniteSet(s \ {First(s)})
           /\ Cardinality(s \ {First(s)}) = Cardinality(s) - 1
           /\ Cardinality(s) \in Nat \ {0}
  <1>1. First(s) \in s
    BY FirstIn
  <1> QED BY <1>1, FS_RemoveElement, FS_CardinalityType, FS_EmptySet

\* Such a function exists: it is built up by the size of the subsets.
LEMMA FoldExists ==
    ASSUME NEW f, NEW S, IsFiniteSet(S)
    PROVE  \E g : IsFold(g, f, SUBSET S)
  <1> DEFINE Upto(n) == {s \in SUBSET S : Cardinality(s) <= n}
             P == {n \in Nat : \E g : IsFold(g, f, Upto(n))}
  <1>1. \A s \in SUBSET S : IsFiniteSet(s) /\ Cardinality(s) \in Nat
    BY FS_Subset, FS_CardinalityType
  <1>2. 0 \in P
    <2> DEFINE g == [s \in Upto(0) |-> 0]
    <2>1. \A s \in Upto(0) : s = {}
      BY <1>1, FS_EmptySet
    <2>2. IsFold(g, f, Upto(0))
      BY <2>1 DEF IsFold
    <2> QED BY <2>2
  <1>3. ASSUME NEW n \in P PROVE n + 1 \in P
    <2>1. PICK h : IsFold(h, f, Upto(n))
      OBVIOUS
    <2> DEFINE g == [s \in Upto(n + 1) |->
                        IF s = {} THEN 0 ELSE f[First(s)] + h[s \ {First(s)}]]
    <2>2. \A s \in Upto(n) : s \in Upto(n + 1)
      BY <1>1
    <2>3. \A s \in Upto(n) : g[s] = h[s]
      BY <2>1, <2>2 DEF IsFold
    <2>4. \A s \in Upto(n + 1) : s # {} => s \ {First(s)} \in Upto(n)
      BY <1>1, WithoutFirst
    <2> HIDE DEF Upto
    <2>5. g = [s \in Upto(n + 1) |->
                  IF s = {} THEN 0 ELSE f[First(s)] + g[s \ {First(s)}]]
      BY <2>3, <2>4
    <2>6. IsFold(g, f, Upto(n + 1))
      BY <2>5 DEF IsFold
    <2> HIDE DEF g
    <2>7. n + 1 \in Nat
      OBVIOUS
    <2> QED BY <2>6, <2>7
  <1> HIDE DEF P
  <1>4. P = Nat
    BY <1>2, <1>3, NatByInduction DEF P
  <1>5. Cardinality(S) \in P
    BY <1>1, <1>4
  <1>6. Upto(Cardinality(S)) = SUBSET S
    BY <1>1, FS_Subset
  <1> QED BY <1>5, <1>6 DEF P

\* And it is unique, whatever set it was built for and however the summands are
\* given outside the set summed over.
LEMMA FoldUnique ==
    ASSUME NEW S, NEW T, NEW f, NEW h, NEW g, NEW k, NEW U, IsFiniteSet(U),
           U \subseteq S, U \subseteq T, \A x \in U : f[x] = h[x],
           IsFold(g, f, SUBSET S), IsFold(k, h, SUBSET T)
    PROVE  g[U] = k[U]
  <1> DEFINE P == {n \in Nat : \A s \in SUBSET U : Cardinality(s) = n => g[s] = k[s]}
  <1>1. \A s \in SUBSET U : IsFiniteSet(s) /\ Cardinality(s) \in Nat
    BY FS_Subset, FS_CardinalityType
  <1>2. \A s \in SUBSET U : s # {} => /\ g[s] = f[First(s)] + g[s \ {First(s)}]
                                      /\ k[s] = h[First(s)] + k[s \ {First(s)}]
    BY DEF IsFold
  <1>3. g[{}] = 0 /\ k[{}] = 0
    BY DEF IsFold
  <1>4. 0 \in P
    BY <1>1, <1>3, FS_EmptySet
  <1>5. ASSUME NEW n \in P PROVE n + 1 \in P
    <2> SUFFICES ASSUME NEW s \in SUBSET U, Cardinality(s) = n + 1 PROVE g[s] = k[s]
      OBVIOUS
    <2>1. s # {}
      <3>1. n \in Nat /\ Cardinality({}) = 0
        BY FS_EmptySet
      <3> QED BY <3>1
    <2>2. /\ Cardinality(s \ {First(s)}) = n /\ s \ {First(s)} \in SUBSET U
          /\ First(s) \in U
      BY <1>1, <2>1, WithoutFirst, FirstIn
    <2> QED BY <1>2, <2>1, <2>2
  <1> HIDE DEF P
  <1>6. P = Nat
    BY <1>4, <1>5, NatByInduction DEF P
  <1> QED BY <1>1, <1>6 DEF P

\* So the fold of a set is that of a smaller one, where both are.
LEMMA FoldRestricts ==
    ASSUME NEW S, NEW f, NEW g, NEW k, NEW U, IsFiniteSet(U), U \subseteq S,
           IsFold(g, f, SUBSET S), IsFold(k, f, SUBSET U)
    PROVE  g[U] = k[U]
  <1>1. U \subseteq U /\ \A x \in U : f[x] = f[x]
    OBVIOUS
  <1> QED BY <1>1, FoldUnique

\* The sum, with the element a fold takes first taken out.
LEMMA SumUnfold ==
    ASSUME NEW f, NEW S, IsFiniteSet(S)
    PROVE  /\ S = {} => SumFunctionOnSet(f, S) = 0
           /\ S # {} => SumFunctionOnSet(f, S)
                           = f[First(S)] + SumFunctionOnSet(f, S \ {First(S)})
  <1> DEFINE g == CHOOSE g : IsFold(g, f, SUBSET S)
             R == S \ {First(S)}
             h == CHOOSE h : IsFold(h, f, SUBSET R)
  <1>1. IsFiniteSet(R)
    BY FS_Subset
  <1>2. IsFold(g, f, SUBSET S) /\ IsFold(h, f, SUBSET R)
    BY <1>1, FoldExists
  <1>3. SumFunctionOnSet(f, S) = g[S] /\ SumFunctionOnSet(f, R) = h[R]
    BY SumIsFold
  <1> HIDE DEF g, h
  <1> HIDE DEF R
  <1>4. g[R] = h[R]
    <2>1. R \subseteq S
      BY DEF R
    <2> QED BY <1>1, <1>2, <2>1, FoldRestricts
  <1> USE DEF R
  <1>5. /\ S = {} => g[S] = 0
        /\ S # {} => g[S] = f[First(S)] + g[R]
    BY <1>2 DEF IsFold
  <1> QED BY <1>3, <1>4, <1>5

\* A sum of natural numbers is one, it is at least each of its terms, and at most a term
\* when there is one term only that is not zero.
SumFits(f, S) ==
    /\ SumFunctionOnSet(f, S) \in Nat
    /\ \A x \in S : f[x] <= SumFunctionOnSet(f, S)
    /\ (\A x \in S : f[x] = 0) => SumFunctionOnSet(f, S) = 0
    /\ \A K \in Nat :
         (\A x \in S : f[x] <= K) /\ (\A x, y \in S : f[x] # 0 /\ f[y] # 0 => x = y)
           => SumFunctionOnSet(f, S) <= K

LEMMA SumBounds ==
    ASSUME NEW S, IsFiniteSet(S), NEW f, \A x \in S : f[x] \in Nat
    PROVE  SumFits(f, S)
<1> DEFINE P == {n \in Nat : \A s \in SUBSET S : Cardinality(s) = n => SumFits(f, s)}
<1>1. \A s \in SUBSET S : IsFiniteSet(s) /\ Cardinality(s) \in Nat
  BY FS_Subset, FS_CardinalityType
<1>2. 0 \in P
  <2> SUFFICES ASSUME NEW s \in SUBSET S, Cardinality(s) = 0 PROVE SumFits(f, s)
    OBVIOUS
  <2>1. s = {}
    BY <1>1, FS_EmptySet
  <2>2. SumFunctionOnSet(f, s) = 0
    BY <1>1, <2>1, SumUnfold
  <2>. QED
    BY <2>1, <2>2 DEF SumFits
<1>3. ASSUME NEW n \in P PROVE n + 1 \in P
  <2> SUFFICES ASSUME NEW s \in SUBSET S, Cardinality(s) = n + 1 PROVE SumFits(f, s)
    OBVIOUS
  <2>1. n \in Nat /\ s # {}
    <3>1. n \in Nat /\ Cardinality({}) = 0
      BY FS_EmptySet
    <3>. QED
      BY <3>1
  <2>2. PICK p, r : p = First(s) /\ r = s \ {p}
    OBVIOUS
  <2>3. Cardinality(r) = n /\ r \in SUBSET S /\ p \in s
    BY <1>1, <2>1, <2>2, WithoutFirst, FirstIn
  <2>4. SumFunctionOnSet(f, s) = f[p] + SumFunctionOnSet(f, r)
    BY <1>1, <2>1, <2>2, SumUnfold
  <2>5. SumFits(f, r)
    BY <2>3
  <2>6. PICK rest, first : rest = SumFunctionOnSet(f, r) /\ first = f[p]
    OBVIOUS
  <2>7. /\ rest \in Nat /\ first \in Nat /\ \A x \in r : f[x] <= rest
        /\ (\A x \in r : f[x] = 0) => rest = 0
    BY <2>3, <2>5, <2>6 DEF SumFits
  <2>8. ASSUME NEW x \in s PROVE f[x] <= first + rest
    BY <2>2, <2>6, <2>7
  <2>9. ASSUME \A x \in s : f[x] = 0 PROVE first + rest = 0
    BY <2>2, <2>3, <2>6, <2>7, <2>9
  <2>10. ASSUME NEW K \in Nat, \A x \in s : f[x] <= K,
                \A x, y \in s : f[x] # 0 /\ f[y] # 0 => x = y
         PROVE  first + rest <= K
    <3>1. CASE first = 0
      BY <2>2, <2>5, <2>6, <2>7, <2>10, <3>1 DEF SumFits
    <3>2. CASE first # 0
      <4>1. \A x \in r : f[x] = 0
        BY <2>2, <2>3, <2>6, <2>10, <3>2
      <4>. QED
        BY <2>3, <2>6, <2>7, <2>10, <4>1
    <3>. QED
      BY <3>1, <3>2
  <2>. QED
    BY <2>4, <2>6, <2>7, <2>8, <2>9, <2>10 DEF SumFits
<1>4. P = Nat
  <2>1. P \in SUBSET Nat
    OBVIOUS
  <2> HIDE DEF P
  <2>. QED
    BY <1>2, <1>3, <2>1, NatByInduction
<1>5. Cardinality(S) \in P
  <2> HIDE DEF P
  <2>. QED
    BY <1>1, <1>4
<1>. QED
  BY <1>5

-----------------------------------------------------------------------------
(* Lots: what caps and budgets leave, and the gross value of a product.      *)

\* a is b or closer to nothing.
Toward(a, b) == (0 <= a /\ a <= b) \/ (b <= a /\ a <= 0)

\* Positions of any size.
Ints == [Symbols -> Int]

\* A part of a part is a part.
LEMMA TowardTransitive ==
    ASSUME NEW a \in Int, NEW b \in Int, NEW c \in Int, Toward(a, b), Toward(b, c)
    PROVE  Toward(a, c)
BY DEF Toward

\* A cap leaves a part of the lots, and no more than it allows.
LEMMA CapToward ==
    ASSUME NEW n \in Int, NEW m \in Int
    PROVE  /\ Cap(n, m) \in Int /\ Toward(Cap(n, m), n)
           /\ Abs(Cap(n, m)) <= Abs(m)
<1>1. CASE n > 0
  BY <1>1 DEF Cap, Toward, Abs, Sign, Least
<1>2. CASE n < 0
  BY <1>2 DEF Cap, Toward, Abs, Sign, Least
<1>3. CASE n = 0
  BY <1>3 DEF Cap, Toward, Abs, Sign, Least
<1>. QED
  BY <1>1, <1>2, <1>3

\* A row within a budget is a part of the row, and worth no more than the budget.
LEMMA FitToward ==
    ASSUME NEW n \in Int, NEW s, NEW budget \in Nat
    PROVE  /\ Fit(n, s, budget) \in Int /\ Toward(Fit(n, s, budget), n)
           /\ Abs(Fit(n, s, budget)) * Notional(s) <= budget
<1> DEFINE k == budget \div Notional(s)
<1>1. k \in Nat /\ k * Notional(s) <= budget /\ Notional(s) \in {1, 2}
  BY DEF Notional
<1>2. Cap(n, k) \in Int /\ Toward(Cap(n, k), n) /\ Abs(Cap(n, k)) <= k
  <2>1. Abs(k) = k
    BY <1>1 DEF Abs
  <2>2. k \in Int
    BY <1>1
  <2> HIDE DEF k
  <2>3. Abs(Cap(n, k)) <= Abs(k) /\ Cap(n, k) \in Int /\ Toward(Cap(n, k), n)
    BY <2>2, CapToward, Zenon
  <2>. QED
    BY <2>1, <2>3
<1>3. Abs(Cap(n, k)) \in Nat
  <2> HIDE DEF k
  <2>. QED
    BY <1>2 DEF Abs
<1>4. Abs(Cap(n, k)) * Notional(s) <= budget
  <2> HIDE DEF k
  <2>. QED
    BY <1>1, <1>2, <1>3
<1>. QED
  BY <1>2, <1>4 DEF Fit

\* The value of one contract of a position.
Worth(lots, s) == Abs(lots[s]) * Notional(s)

\* A contract that is held is worth something.
LEMMA WorthType ==
    ASSUME NEW lots \in Ints, NEW s \in Symbols
    PROVE  /\ Worth(lots, s) \in Nat
           /\ Worth(lots, s) = 0 <=> lots[s] = 0
BY DEF Worth, Abs, Notional, Ints

\* A contract belongs to one product.
LEMMA ProductsAre ==
    ASSUME NEW p \in Products
    PROVE  /\ IsFiniteSet(p) /\ p \subseteq Symbols
           /\ \A s \in p : ProductOf(s) = p
BY SizesAssumption DEF SizesAssumption, Symbols, ProductOf

\* A product is worth at least what each of its contracts is.
LEMMA GrossType ==
    ASSUME NEW lots \in Ints, NEW p \in Products
    PROVE  /\ Gross(lots, p) \in Nat
           /\ \A s \in p : Worth(lots, s) <= Gross(lots, p)
<1> DEFINE f == [s \in p |-> Abs(lots[s]) * Notional(s)]
<1>1. Gross(lots, p) = SumFunctionOnSet(f, p)
  BY DEF Gross, SumFunction
<1>2. \A s \in p : f[s] = Worth(lots, s) /\ f[s] \in Nat
  BY WorthType, ProductsAre DEF Worth
<1> HIDE DEF f
<1>3. SumFits(f, p)
  BY <1>2, ProductsAre, SumBounds
<1>. QED
  BY <1>1, <1>2, <1>3 DEF SumFits

\* No product is held in two contracts.
Single(lots) == \A p \in Products : \A s, t \in p : lots[s] # 0 /\ lots[t] # 0 => s = t

\* A product that is held in one contract is worth what that one is.
LEMMA GrossSmall ==
    ASSUME NEW lots \in Ints, NEW p \in Products, Single(lots),
           NEW K \in Nat, \A s \in p : Worth(lots, s) <= K
    PROVE  Gross(lots, p) <= K
<1> DEFINE f == [s \in p |-> Abs(lots[s]) * Notional(s)]
<1>1. Gross(lots, p) = SumFunctionOnSet(f, p)
  BY DEF Gross, SumFunction
<1>2. \A s \in p : f[s] = Worth(lots, s) /\ f[s] \in Nat
  BY WorthType, ProductsAre DEF Worth
<1>3. \A s \in p : lots[s] = 0 => f[s] = 0
  BY <1>2, WorthType, ProductsAre
<1> HIDE DEF f
<1>4. SumFits(f, p)
  BY <1>2, ProductsAre, SumBounds
<1>5. \A s, t \in p : f[s] # 0 /\ f[t] # 0 => s = t
  BY <1>3 DEF Single
<1>. QED
  BY <1>1, <1>2, <1>4, <1>5 DEF SumFits

\* What is closer to nothing is worth less.
LEMMA GrossToward ==
    ASSUME NEW lots \in Ints, NEW more \in Ints, NEW p \in Products, Single(lots),
           \A s \in p : Toward(lots[s], more[s])
    PROVE  Gross(lots, p) <= Gross(more, p)
<1>1. ASSUME NEW s \in p PROVE Worth(lots, s) <= Gross(more, p)
  <2>1. s \in Symbols /\ lots[s] \in Int /\ more[s] \in Int
    BY ProductsAre DEF Ints
  <2>2. Abs(lots[s]) <= Abs(more[s]) /\ Abs(lots[s]) \in Nat /\ Abs(more[s]) \in Nat
    BY <2>1 DEF Toward, Abs
  <2>3. Worth(lots, s) <= Worth(more, s)
    BY <2>2 DEF Worth, Notional
  <2>4. Worth(more, s) <= Gross(more, p) /\ Gross(more, p) \in Nat
    BY GrossType
  <2>. QED
    BY <2>1, <2>3, <2>4, WorthType
<1>2. Gross(more, p) \in Nat
  BY GrossType
<1>. QED
  BY <1>1, <1>2, GrossSmall

-----------------------------------------------------------------------------
(* The freezes.                                                              *)

\* An intent whose rows are numbers.
PlanTyped(i) ==
    i # NoIntent => i.initial \in Ints /\ i.fitted \in Ints /\ i.authorized \in Ints

\* What the intent allows of a target is a part of both.
LEMMA AuthorizedToward ==
    ASSUME NEW want \in Ints, NEW i, PlanTyped(i)
    PROVE  /\ Authorized(want, i) \in Ints
           /\ \A s \in Symbols : Toward(Authorized(want, i)[s], want[s])
           /\ i # NoIntent =>
                 \A s \in Symbols : Toward(Authorized(want, i)[s], i.authorized[s])
<1>1. CASE i = NoIntent
  BY <1>1 DEF Authorized, Toward, Ints
<1>2. CASE i # NoIntent
  <2> DEFINE row(s) == IF Sign(want[s]) = Sign(i.authorized[s])
                         THEN Cap(want[s], i.authorized[s]) ELSE 0
  <2>1. Authorized(want, i) = [s \in Symbols |-> row(s)]
    BY <1>2 DEF Authorized
  <2>2. ASSUME NEW s \in Symbols
        PROVE  /\ row(s) \in Int /\ Toward(row(s), want[s])
               /\ Toward(row(s), i.authorized[s])
    <3>1. want[s] \in Int /\ i.authorized[s] \in Int
      BY <1>2 DEF PlanTyped, Ints
    <3>2. CASE Sign(want[s]) # Sign(i.authorized[s])
      BY <3>1, <3>2 DEF Toward
    <3>3. CASE Sign(want[s]) = Sign(i.authorized[s])
      <4> DEFINE c == Cap(want[s], i.authorized[s])
      <4>1. c \in Int /\ Toward(c, want[s]) /\ Abs(c) <= Abs(i.authorized[s])
        BY <3>1, CapToward
      <4> HIDE DEF c
      <4>2. Toward(c, i.authorized[s])
        BY <3>1, <3>3, <4>1 DEF Toward, Abs, Sign
      <4>. QED
        BY <3>3, <4>1, <4>2 DEF c
    <3>. QED
      BY <3>2, <3>3
  <2> HIDE DEF row
  <2>. QED
    BY <1>2, <2>1, <2>2 DEF Ints
<1>. QED
  BY <1>1, <1>2

\* The rows of a frozen target, product by product.
Budget(now, i, p) == IF p \in Transitions(i) THEN Gross(i.initial, p) ELSE Gross(now, p)

\* The products whose rows a freeze lets pass.
Passes(now, target, i, p) ==
    \/ \A t \in p : now[t] = target[t]
    \/ /\ p \notin Transitions(i)
       /\ p \cap Held(now) # {} /\ Signs(now, p) # Signs(target, p)

\* A row of a frozen target is the authorised row, or what the budget pays of it.
LEMMA FreezeRows ==
    ASSUME NEW now, NEW want, NEW blocked, NEW i, NEW p \in Products, NEW s \in p,
           NEW F, F = Freeze(now, want, blocked, i),
           NEW target, target = Authorized(want, i)
    PROVE  F[s] = target[s] \/ F[s] = Fit(target[s], s, Budget(now, i, p))
<1>1. s \in Symbols /\ ProductOf(s) = p
  BY ProductsAre
<1>. QED
  BY <1>1 DEF Freeze, Budget

\* A row of a blocked product that does not pass is what the budget pays of it.
LEMMA FrozenRows ==
    ASSUME NEW now, NEW want, NEW blocked, NEW i, NEW p \in Products, NEW s \in p,
           NEW F, F = Freeze(now, want, blocked, i),
           NEW target, target = Authorized(want, i),
           p \in blocked, ~Passes(now, target, i, p)
    PROVE  F[s] = Fit(target[s], s, Budget(now, i, p))
<1>1. s \in Symbols /\ ProductOf(s) = p
  BY ProductsAre
<1>. QED
  BY <1>1 DEF Freeze, Passes, Budget

\* Every contract has a product.
LEMMA ProductExists ==
    ASSUME NEW s \in Symbols
    PROVE  \E p \in Products : s \in p
BY DEF Symbols

\* A frozen target is a part of the target, and of what the intent allows.
LEMMA FreezeToward ==
    ASSUME NEW now \in Ints, NEW want \in Ints, NEW blocked, NEW i, PlanTyped(i)
    PROVE  /\ Freeze(now, want, blocked, i) \in Ints
           /\ \A s \in Symbols : Toward(Freeze(now, want, blocked, i)[s], want[s])
           /\ i # NoIntent =>
                 \A s \in Symbols : Toward(Freeze(now, want, blocked, i)[s], i.authorized[s])
<1> SUFFICES ASSUME NEW F, F = Freeze(now, want, blocked, i)
             PROVE  /\ F \in Ints
                    /\ \A s \in Symbols : Toward(F[s], want[s])
                    /\ i # NoIntent => \A s \in Symbols : Toward(F[s], i.authorized[s])
  OBVIOUS
<1> DEFINE target == Authorized(want, i)
<1>1. /\ target \in Ints
      /\ \A s \in Symbols : Toward(target[s], want[s])
      /\ i # NoIntent => \A s \in Symbols : Toward(target[s], i.authorized[s])
  BY AuthorizedToward
<1>2. ASSUME NEW s \in Symbols PROVE F[s] \in Int /\ Toward(F[s], target[s])
  <2>1. PICK p \in Products : s \in p
    BY ProductExists
  <2>2. target[s] \in Int
    BY <1>1 DEF Ints
  <2>3. Budget(now, i, p) \in Nat
    BY GrossType DEF Budget, PlanTyped, Transitions
  <2>4. F[s] \in {target[s], Fit(target[s], s, Budget(now, i, p))}
    BY <2>1, FreezeRows
  <2> HIDE DEF target
  <2>5. Toward(target[s], target[s])
    BY <2>2 DEF Toward
  <2>6. /\ Fit(target[s], s, Budget(now, i, p)) \in Int
        /\ Toward(Fit(target[s], s, Budget(now, i, p)), target[s])
    BY <2>2, <2>3, FitToward
  <2>. QED
    BY <2>2, <2>4, <2>5, <2>6
<1>3. F \in Ints
  BY <1>2 DEF Ints, Freeze
<1> HIDE DEF target
<1>4. ASSUME NEW s \in Symbols PROVE Toward(F[s], want[s])
  BY <1>1, <1>2, TowardTransitive DEF Ints
<1>5. ASSUME i # NoIntent, NEW s \in Symbols PROVE Toward(F[s], i.authorized[s])
  BY <1>1, <1>2, <1>5, TowardTransitive DEF Ints, PlanTyped
<1>. QED
  BY <1>3, <1>4, <1>5

\* A part of a position with one contract per product has one contract per product.
LEMMA TowardSingle ==
    ASSUME NEW lots \in Ints, NEW more \in Ints, Single(more),
           \A s \in Symbols : Toward(lots[s], more[s])
    PROVE  Single(lots)
<1>1. \A s \in Symbols : lots[s] # 0 => more[s] # 0
  BY DEF Toward, Ints
<1>. QED
  BY <1>1, ProductsAre DEF Single

-----------------------------------------------------------------------------
(* A frozen day: no product grows.                                           *)

\* Every contract between what was held, nothing, and what the intent allows.
Within(lots, i) ==
    \A s \in Symbols :
        /\ \E e \in {0, i.initial[s], i.authorized[s]} : e <= lots[s]
        /\ \E e \in {0, i.initial[s], i.authorized[s]} : lots[s] <= e

\* A product held in one contract has that contract's side.
LEMMA SignsOne ==
    ASSUME NEW lots \in Ints, NEW p \in Products, NEW g \in p, \A t \in p \ {g} : lots[t] = 0
    PROVE  Signs(lots, p) = IF lots[g] = 0 THEN {} ELSE {Sign(lots[g])}
<1>1. \A t \in p : lots[t] \in Int
  BY ProductsAre DEF Ints
<1>. QED
  BY <1>1 DEF Signs, Sign

\* Frozen, a product that is not held is not entered.
LEMMA NothingFromNothing ==
    ASSUME NEW initial \in Ints, NEW fitted \in Ints, Single(initial), NEW p \in Products,
           \A s \in p : initial[s] = 0
    PROVE  \A s \in p : Freeze(initial, fitted, Products, NoIntent)[s] = 0
<1> SUFFICES ASSUME NEW F, F = Freeze(initial, fitted, Products, NoIntent), NEW s \in p
             PROVE  F[s] = 0
  OBVIOUS
<1>1. s \in Symbols /\ PlanTyped(NoIntent)
  BY ProductsAre DEF PlanTyped
<1>2. F[s] \in Int /\ Toward(F[s], fitted[s])
  BY <1>1, FreezeToward DEF Ints
<1>3. fitted[s] \in Int
  BY <1>1 DEF Ints
<1>4. Authorized(fitted, NoIntent) = fitted /\ Transitions(NoIntent) = {}
  BY DEF Authorized, Transitions
<1>5. CASE Passes(initial, fitted, NoIntent, p)
  <2>1. p \cap Held(initial) = {}
    BY DEF Held
  <2>2. fitted[s] = 0
    BY <1>5, <2>1 DEF Passes
  <2>. QED
    BY <1>2, <1>3, <2>2 DEF Toward
<1>6. CASE ~Passes(initial, fitted, NoIntent, p)
  <2>1. Gross(initial, p) = 0
    <3>1. \A t \in p : Worth(initial, t) <= 0
      BY WorthType, ProductsAre
    <3>2. Gross(initial, p) <= 0
      BY <3>1, GrossSmall
    <3>. QED
      BY <3>2, GrossType
  <2>2. F[s] = Fit(fitted[s], s, 0)
    BY <1>4, <1>6, <2>1, FrozenRows DEF Budget
  <2>3. Abs(F[s]) * Notional(s) <= 0
    BY <1>3, <2>2, FitToward
  <2>. QED
    BY <1>2, <2>3 DEF Abs, Notional
<1>. QED
  BY <1>5, <1>6

\* An intent of a frozen day.
FrozenPlan(i) ==
    /\ i # NoIntent /\ PlanTyped(i) /\ Single(i.initial)
    /\ i.authorized = Freeze(i.initial, i.fitted, Products, NoIntent)

\* Where a pass goes against the product's side, and the intent does not change that
\* side, the pass only leaves.
LEMMA OnlyLeaves ==
    ASSUME NEW i, FrozenPlan(i), NEW p \in Products, p \notin Transitions(i),
           NEW now \in Ints, Within(now, i), p \cap Held(now) # {},
           NEW target \in Ints, \A s \in Symbols : Toward(target[s], i.authorized[s]),
           Signs(now, p) # Signs(target, p)
    PROVE  \A s \in p : target[s] = 0
<1>1. /\ i.initial \in Ints /\ i.authorized \in Ints /\ Single(i.initial)
      /\ (\A s \in p : i.initial[s] = 0) => \A s \in p : i.authorized[s] = 0
  BY NothingFromNothing DEF FrozenPlan, PlanTyped
<1>2. ASSUME NEW s \in p
      PROVE  /\ s \in Symbols /\ now[s] \in Int /\ target[s] \in Int
             /\ i.initial[s] \in Int /\ i.authorized[s] \in Int
             /\ Toward(target[s], i.authorized[s])
  BY <1>1, ProductsAre DEF Ints
<1>3. CASE \A s \in p : i.authorized[s] = 0
  BY <1>2, <1>3 DEF Toward
<1>4. CASE \E s \in p : i.authorized[s] # 0
  <2>1. PICK g \in p : i.initial[g] # 0
    BY <1>1, <1>4
  <2>2. p \cap Held(i.initial) # {} /\ p \cap Held(i.authorized) # {}
    BY <1>2, <1>4, <2>1 DEF Held
  <2>3. /\ p \cap Held(i.initial) = p \cap Held(i.authorized)
        /\ Signs(i.initial, p) = Signs(i.authorized, p)
    BY <2>2 DEF Transitions, FrozenPlan
  <2>4. \A t \in p \ {g} : i.initial[t] = 0 /\ i.authorized[t] = 0
    <3>1. \A t \in p \ {g} : i.initial[t] = 0
      BY <1>1, <2>1 DEF Single
    <3>. QED
      BY <1>2, <2>3, <3>1 DEF Held
  <2>5. i.authorized[g] # 0
    BY <1>4, <2>4
  <2>6. Sign(i.initial[g]) = Sign(i.authorized[g])
    <3>1. Signs(i.initial, p) = {Sign(i.initial[g])}
      BY <1>1, <2>1, <2>4, SignsOne
    <3>2. Signs(i.authorized, p) = {Sign(i.authorized[g])}
      BY <1>1, <2>4, <2>5, SignsOne
    <3>. QED
      BY <2>3, <3>1, <3>2
  <2>7. \A t \in p \ {g} : now[t] = 0 /\ target[t] = 0
    BY <1>2, <2>4 DEF Within, Toward
  <2>8. now[g] # 0
    BY <2>7 DEF Held
  <2>9. Sign(now[g]) = Sign(i.authorized[g])
    BY <1>2, <2>6, <2>8 DEF Within, Sign
  <2>10. target[g] # 0 => Sign(target[g]) = Sign(now[g])
    BY <1>2, <2>9 DEF Toward, Sign
  <2>11. target[g] = 0
    <3>1. Signs(now, p) = {Sign(now[g])}
      BY <2>7, <2>8, SignsOne
    <3>2. target[g] # 0 => Signs(target, p) = {Sign(target[g])}
      BY <2>7, SignsOne
    <3>. QED
      BY <2>10, <3>1, <3>2
  <2>. QED
    BY <2>7, <2>11
<1>. QED
  BY <1>3, <1>4

\* A pass on a frozen day leaves no product with more than the day began with.
LEMMA FrozenPass ==
    ASSUME NEW i, FrozenPlan(i), NEW p \in Products,
           NEW now \in Ints, Within(now, i), Gross(now, p) <= Gross(i.initial, p),
           NEW want \in Ints, Single(want),
           NEW F, F = Freeze(now, want, Products, i)
    PROVE  Gross(F, p) <= Gross(i.initial, p)
<1> DEFINE target == Authorized(want, i)
           I == Gross(i.initial, p)
<1>1. PlanTyped(i) /\ i # NoIntent /\ i.initial \in Ints
  BY DEF FrozenPlan, PlanTyped
<1>2. /\ target \in Ints
      /\ \A s \in Symbols : Toward(target[s], want[s]) /\ Toward(target[s], i.authorized[s])
  BY <1>1, AuthorizedToward
<1>3. F \in Ints /\ \A s \in Symbols : Toward(F[s], want[s])
  BY <1>1, FreezeToward
<1>4. Single(F)
  BY <1>3, TowardSingle
<1>5. I \in Nat /\ Gross(now, p) \in Nat /\ Budget(now, i, p) \in Nat /\ Budget(now, i, p) <= I
  BY <1>1, GrossType DEF Budget
<1>6. \A s \in p : F[s] = target[s] \/ F[s] = Fit(target[s], s, Budget(now, i, p))
  BY FreezeRows
<1>7. ASSUME NEW s \in p
      PROVE  s \in Symbols /\ target[s] \in Int /\ F[s] \in Int /\ Toward(F[s], target[s])
  <2>1. s \in Symbols /\ target[s] \in Int /\ F[s] \in Int
    BY <1>2, <1>3, ProductsAre DEF Ints
  <2> HIDE DEF target
  <2>2. Toward(Fit(target[s], s, Budget(now, i, p)), target[s])
    BY <1>5, <2>1, FitToward
  <2>. QED
    BY <1>6, <2>1, <2>2 DEF Toward
<1>8. CASE \A t \in p : now[t] = target[t]
  <2>1. Gross(F, p) <= Gross(now, p)
    BY <1>3, <1>4, <1>7, <1>8, GrossToward
  <2>. QED
    BY <1>3, <1>5, <2>1, GrossType
<1>9. CASE /\ p \notin Transitions(i)
           /\ p \cap Held(now) # {} /\ Signs(now, p) # Signs(target, p)
  <2>1. \A s \in p : target[s] = 0
    BY <1>2, <1>9, OnlyLeaves
  <2>2. \A s \in p : F[s] = 0
    BY <1>7, <2>1 DEF Toward
  <2>3. \A s \in p : Worth(F, s) <= 0
    BY <1>3, <2>2, WorthType, ProductsAre
  <2>4. Gross(F, p) <= 0
    BY <1>3, <1>4, <2>3, GrossSmall
  <2>. QED
    BY <1>3, <1>5, <2>4, GrossType
<1>10. CASE ~Passes(now, target, i, p)
  <2>1. \A s \in p : F[s] = Fit(target[s], s, Budget(now, i, p))
    BY <1>10, FrozenRows
  <2>2. ASSUME NEW s \in p PROVE Worth(F, s) <= I
    <3>1. Abs(F[s]) * Notional(s) <= Budget(now, i, p)
      <4> HIDE DEF target
      <4>. QED
        BY <1>5, <1>7, <2>1, FitToward
    <3>2. Worth(F, s) \in Nat
      BY <1>3, <1>7, WorthType
    <3>. QED
      BY <1>5, <3>1, <3>2 DEF Worth
  <2>. QED
    BY <1>3, <1>4, <1>5, <2>2, GrossSmall
<1>. QED
  BY <1>8, <1>9, <1>10 DEF Passes

-----------------------------------------------------------------------------
(* What a pass plans.                                                        *)

\* What the contract selection and the passes work with.
Typed ==
    /\ exLots \in Ints /\ book \in Ints
    /\ DOMAIN batch = {"moves", "kind"} /\ batch.moves \in Ints
    /\ \A s \in Symbols : orders[s].opening \in Int /\ orders[s].closing \in Int
    /\ activity.interest \in [Symbols -> 1..Cardinality(Symbols)]
    /\ day \in Nat

\* There are finitely many contracts.
LEMMA SymbolsFinite == IsFiniteSet(Symbols) /\ Cardinality(Symbols) \in Nat
BY SizesAssumption, FS_UNION, FS_CardinalityType DEF SizesAssumption, Symbols

\* Lots within the limit are lots.
LEMMA LotsAreInts == Lots \subseteq Ints
BY SizesAssumption DEF SizesAssumption, Lots, Ints

\* Some contract has the most open interest.
LEMMA TopIn ==
    ASSUME Typed, NEW S, S \subseteq Symbols, S # {}
    PROVE  Top(S) \in S
<1> DEFINE N == Cardinality(Symbols)
           D == {n \in Nat : \A s \in S : activity.interest[s] <= n}
<1>1. N \in Nat /\ \A s \in S : activity.interest[s] \in 1..N
  BY SymbolsFinite DEF Typed
<1>2. PICK m \in D : \A n \in D : m <= n
  <2>1. D \in SUBSET Nat /\ N \in D
    BY <1>1
  <2> HIDE DEF D
  <2>. QED
    BY <2>1, LeastNatural
<1>3. \E s \in S : activity.interest[s] = m
  <2>1. SUFFICES ASSUME \A s \in S : activity.interest[s] # m PROVE FALSE
    OBVIOUS
  <2> HIDE DEF N
  <2>2. m \in Nat /\ \A s \in S : activity.interest[s] <= m - 1 /\ activity.interest[s] >= 1
    BY <1>1, <1>2, <2>1
  <2>3. m - 1 \in D
    <3>1. PICK s \in S : activity.interest[s] <= m - 1 /\ activity.interest[s] >= 1
      BY <2>2
    <3>2. m - 1 \in Nat
      BY <1>1, <2>2, <3>1
    <3>. QED
      BY <2>2, <3>2
  <2>. QED
    BY <1>2, <2>2, <2>3
<1>4. \E s \in S : \A t \in S : activity.interest[t] <= activity.interest[s]
  BY <1>2, <1>3
<1>. QED
  BY <1>4 DEF Top

\* The selected contract is one of the product.
LEMMA SelectedIn ==
    ASSUME Typed, NEW p \in Products
    PROVE  Selected(p) \in p
<1> DEFINE Dominant(i) == {s \in p : /\ activity.interest[s] > activity.interest[i]
                                     /\ activity.volume[s] > activity.volume[i]}
           incumbents == p \cap Held(book)
           incumbent == CHOOSE i \in incumbents : TRUE
<1>1. p # {} /\ p \subseteq Symbols
  BY ProductsAre, SizesAssumption DEF SizesAssumption
<1>2. incumbents # {} => incumbent \in p
  OBVIOUS
<1>3. Dominant(incumbent) # {} => Top(Dominant(incumbent)) \in Dominant(incumbent)
  BY <1>1, TopIn
<1>4. Top(p) \in p
  BY <1>1, TopIn
<1>5. Selected(p) = IF incumbents = {} THEN Top(p)
                    ELSE IF Dominant(incumbent) = {} THEN incumbent
                    ELSE Top(Dominant(incumbent))
  BY DEF Selected
<1>6. Dominant(incumbent) \subseteq p
  OBVIOUS
<1> HIDE DEF Dominant, incumbents, incumbent
<1>. QED
  BY <1>2, <1>3, <1>4, <1>5, <1>6

\* A target holds a product in the contract it is wanted in, or as it is held.
LEMMA TargetsSingle ==
    ASSUME Typed, Single(book), NEW want, NEW kept, NEW t \in Targets(want, kept),
           \A p \in Products \ Unavailable : \A s, u \in p : want[s] # 0 /\ want[u] # 0 => s = u
    PROVE  t \in Ints /\ Single(t)
<1>1. t \in Ints
  BY LotsAreInts DEF Targets
<1>2. \A s \in Symbols : t[s] \in Int
  BY <1>1 DEF Ints
<1>3. ASSUME NEW p \in Products, NEW s \in p, NEW u \in p, t[s] # 0, t[u] # 0
      PROVE  s = u
  <2>1. /\ s \in Symbols /\ u \in Symbols
        /\ ProductOf(s) = p /\ ProductOf(u) = p
    BY <1>3, ProductsAre
  <2>2. CASE p \in Unavailable
    <3>1. book[s] # 0 /\ book[u] # 0
      BY <1>3, <2>1, <2>2 DEF Targets
    <3>. QED
      BY <1>3, <3>1 DEF Single
  <2>3. CASE p \notin Unavailable
    <3>1. t[s] = Cap(want[s], t[s]) /\ t[u] = Cap(want[u], t[u])
      BY <1>3, <2>1, <2>3 DEF Targets
    <3>2. \A n \in Int : Cap(0, n) = 0
      BY CapToward DEF Toward
    <3>3. want[s] # 0 /\ want[u] # 0
      BY <1>2, <1>3, <2>1, <3>1, <3>2
    <3>. QED
      BY <1>3, <2>3, <3>3
  <2>. QED
    BY <2>2, <2>3
<1>. QED
  BY <1>1, <1>3 DEF Single

\* The first plan of a day wants each product in the contract selected for it.
LEMMA FirstTargetsSingle ==
    ASSUME Typed, Single(book), NEW t \in FirstTargets
    PROVE  t \in Ints /\ Single(t)
<1> DEFINE chosen == {Selected(p) : p \in Available}
           want == [s \in Symbols |-> IF s \in chosen
                                        THEN MaxLots * decision.weight[ProductOf(s)] ELSE 0]
           kept == {s \in Symbols : Sign(book[s]) = decision.weight[ProductOf(s)]}
<1>1. t \in Targets(want, kept)
  BY DEF FirstTargets
<1>2. ASSUME NEW p \in Products, NEW s \in p, want[s] # 0
      PROVE  s = Selected(p)
  <2>1. s \in Symbols /\ s \in chosen
    BY <1>2, ProductsAre
  <2>2. PICK q \in Available : s = Selected(q)
    BY <2>1
  <2>3. q \in Products
    BY DEF Available, Required
  <2>4. s \in q
    BY <2>2, <2>3, SelectedIn
  <2>5. q = p
    BY <1>2, <2>3, <2>4, ProductsAre
  <2>. QED
    BY <2>2, <2>5
<1> HIDE DEF want, kept
<1>3. \A p \in Products \ Unavailable : \A s, u \in p : want[s] # 0 /\ want[u] # 0 => s = u
  BY <1>2
<1>. QED
  BY <1>1, <1>3, TargetsSingle

\* A later pass wants each product in the contract that the day's intent wants.
LEMMA LaterTargetsSingle ==
    ASSUME Typed, Single(book), Single(intent.fitted), NEW t \in LaterTargets
    PROVE  t \in Ints /\ Single(t)
<1> DEFINE kept == {s \in Symbols : Signs(intent.fitted, ProductOf(s)) = {Sign(book[s])}}
<1>1. t \in Targets(intent.fitted, kept)
  BY DEF LaterTargets
<1> HIDE DEF kept
<1>2. \A p \in Products \ Unavailable : \A s, u \in p :
         intent.fitted[s] # 0 /\ intent.fitted[u] # 0 => s = u
  BY DEF Single
<1>. QED
  BY <1>1, <1>2, TargetsSingle

\* An order of a pass adds to what is held, or takes from it, and never both at once.
LEMMA MovesAre ==
    ASSUME NEW now \in Ints, NEW want \in Ints, NEW m, m = Moves(now, want)
    PROVE  /\ DOMAIN m = {"moves", "kind"} /\ m.moves \in Ints
           /\ m.kind = "candidate" =>
                 \A s \in Symbols : m.moves[s] = want[s] - now[s] /\ Toward(now[s], want[s])
<1> DEFINE r == Reductions(now, want)
<1>1. \A s \in Symbols : now[s] \in Int /\ want[s] \in Int
  BY DEF Ints
<1>2. r \in Ints
  BY <1>1 DEF Reductions, Ints
<1>3. CASE r # Flat
  BY <1>2, <1>3 DEF Moves
<1>4. CASE r = Flat
  <2>1. m = [moves |-> [s \in Symbols |-> want[s] - now[s]], kind |-> "candidate"]
    BY <1>4 DEF Moves
  <2>2. ASSUME NEW s \in Symbols PROVE Toward(now[s], want[s])
    <3>1. r[s] = 0
      BY <1>4 DEF Flat
    <3>2. CASE now[s] = 0
      BY <1>1, <3>2 DEF Toward
    <3>3. CASE now[s] # 0
      <4> DEFINE c == Cap(want[s], now[s])
      <4>1. c = now[s] \/ want[s] = now[s]
        BY <1>1, <3>1, <3>3 DEF Reductions
      <4>2. Toward(c, want[s])
        BY <1>1, CapToward
      <4> HIDE DEF c
      <4>. QED
        BY <1>1, <4>1, <4>2 DEF Toward
    <3>. QED
      BY <3>2, <3>3
  <2>. QED
    BY <1>1, <2>1, <2>2 DEF Ints
<1>. QED
  BY <1>3, <1>4

-----------------------------------------------------------------------------
(* What the exchange may still get from the orders and the pass of today.    *)

\* Openings that are planned and not sent.
Waiting == IF batch.kind = "candidate" THEN batch.moves ELSE Flat

\* The position once everything that opens is filled.
Potential == [s \in Symbols |-> exLots[s] + orders[s].opening + Waiting[s]]

\* Openings only ever add to what is held.
OneSided ==
    \A s \in Symbols :
        \/ exLots[s] >= 0 /\ orders[s].opening >= 0 /\ Waiting[s] >= 0
        \/ exLots[s] <= 0 /\ orders[s].opening <= 0 /\ Waiting[s] <= 0

\* An intent made today under the decision of today.
Sound(i) ==
    /\ i.day = day /\ Decided
    /\ i.initial \in Ints /\ i.fitted \in Ints /\ i.authorized \in Ints
    /\ Single(i.initial) /\ Single(i.fitted)
    /\ i.authorized = Freeze(i.initial, i.fitted, FrozenProducts, NoIntent)

\* The plans of the process: nothing happens between the making of an intent and
\* its file, and a pass that is not being sent is over.
PlansSound ==
    /\ at # "sending" => batch.moves = Flat
    /\ intent # NoIntent => intent.day \in Nat /\ intent.day <= day
    /\ HasIntent => Sound(intent)
    /\ at = "planned" => Sound(planned) /\ planned.initial = book /\ Quiet

\* Inside the intent, and on a frozen day inside what the day began with.
PotentialAllowed ==
    HasIntent =>
        /\ Within(Potential, intent)
        /\ decision.frozen =>
              \A p \in Products : Gross(Potential, p) <= Gross(intent.initial, p)

\* The inductive invariant of what may be held.
PInv == IInv /\ Typed /\ OneSided /\ PlansSound /\ Single(Potential) /\ PotentialAllowed

\* What may be held is a number for every contract.
LEMMA PotentialTyped ==
    ASSUME Typed
    PROVE  Waiting \in Ints /\ Potential \in Ints
           /\ \A s \in Symbols : exLots[s] \in Int /\ orders[s].opening \in Int
                                 /\ orders[s].closing \in Int /\ Waiting[s] \in Int
                                 /\ Potential[s] = exLots[s] + orders[s].opening + Waiting[s]
<1>1. Waiting \in Ints
  BY DEF Typed, Waiting, Flat, Ints
<1>2. \A s \in Symbols : Waiting[s] \in Int
  BY <1>1 DEF Ints
<1>3. \A s \in Symbols : exLots[s] \in Int /\ orders[s].opening \in Int
                         /\ orders[s].closing \in Int
  BY DEF Typed, Ints
<1>4. Potential \in Ints
  BY <1>2, <1>3 DEF Potential, Ints
<1>. QED
  BY <1>1, <1>2, <1>3, <1>4 DEF Potential

\* The same, of one state ...
LEMMA PotentialInts == Typed => Potential \in Ints
BY PotentialTyped

\* ... and of the next.
LEMMA PotentialTypedNext == Typed' => Potential' \in Ints
<1>1. Typed' => (Potential \in Ints)'
  BY PotentialInts, PTL
<1>. QED
  BY <1>1

\* What is planned and held shrinks, and the files stay or are not of the new day.
LEMMA PotentialShrinks ==
    ASSUME PInv, NEW more, more \in Ints,
           \A s \in Symbols : Toward(more[s], Potential[s])
    PROVE  /\ Single(more)
           /\ HasIntent => Within(more, intent)
           /\ HasIntent /\ decision.frozen =>
                 \A p \in Products : Gross(more, p) <= Gross(intent.initial, p)
<1>1. Potential \in Ints
  BY PotentialTyped DEF PInv
<1>2. Single(more)
  BY <1>1, TowardSingle DEF PInv
<1>3. \A s \in Symbols : more[s] \in Int /\ Potential[s] \in Int
  BY <1>1 DEF Ints
<1>4. ASSUME HasIntent PROVE Within(more, intent)
  <2>1. /\ \A s \in Symbols : intent.initial[s] \in Int /\ intent.authorized[s] \in Int
        /\ Within(Potential, intent)
    BY <1>4 DEF PInv, PlansSound, Sound, PotentialAllowed, Ints
  <2>. QED
    BY <1>3, <2>1 DEF Within, Toward
<1>5. ASSUME HasIntent, decision.frozen, NEW p \in Products
      PROVE  Gross(more, p) <= Gross(intent.initial, p)
  <2>1. Gross(Potential, p) <= Gross(intent.initial, p) /\ intent.initial \in Ints
    BY <1>5 DEF PInv, PotentialAllowed, PlansSound, Sound
  <2>2. Gross(more, p) <= Gross(Potential, p)
    BY <1>1, <1>2, ProductsAre, GrossToward
  <2>3. Gross(more, p) \in Nat /\ Gross(Potential, p) \in Nat /\ Gross(intent.initial, p) \in Nat
    BY <1>1, <2>1, GrossType
  <2>. QED
    BY <2>1, <2>2, <2>3
<1>. QED
  BY <1>2, <1>4, <1>5

\* The part of the invariant that follows when the potential shrinks.
LEMMA ShrinkingStep ==
    ASSUME PInv, Typed', \A s \in Symbols : Toward(Potential'[s], Potential[s]),
           ~HasIntent' \/ (HasIntent /\ intent' = intent /\ decision' = decision)
    PROVE  Single(Potential)' /\ PotentialAllowed'
<1>1. Potential' \in Ints
  BY PotentialTypedNext
<1>2. PICK more : more = Potential'
  OBVIOUS
<1>3. /\ Single(more)
      /\ HasIntent => Within(more, intent)
      /\ HasIntent /\ decision.frozen =>
            \A p \in Products : Gross(more, p) <= Gross(intent.initial, p)
  BY <1>1, <1>2, PotentialShrinks
<1>4. Single(Potential)'
  BY <1>2, <1>3 DEF Single
<1>5. PotentialAllowed'
  <2>1. CASE ~HasIntent'
    BY <2>1 DEF PotentialAllowed
  <2>2. CASE HasIntent /\ intent' = intent /\ decision' = decision
    BY <1>2, <1>3, <2>2 DEF PotentialAllowed, Within
  <2>. QED
    BY <2>1, <2>2
<1>. QED
  BY <1>4, <1>5

\* The part of the invariant about plans, for a step that leaves day and files alone.
LEMMA PlansKept ==
    ASSUME PInv, UNCHANGED <<day, decision, intent>>,
           at' # "sending" => batch'.moves = Flat,
           at' = "planned" => at = "planned" /\ UNCHANGED <<planned, book, exLots, orders>>
    PROVE  PlansSound'
<1>1. FrozenProducts' = FrozenProducts /\ (Decided' <=> Decided) /\ (HasIntent' <=> HasIntent)
  BY DEF FrozenProducts, Decided, HasIntent
<1>2. HasIntent' => Sound(intent)'
  BY <1>1 DEF PInv, PlansSound, Sound
<1>3. at' = "planned" => Sound(planned)' /\ planned'.initial = book' /\ Quiet'
  BY <1>1 DEF PInv, PlansSound, Sound, Quiet, NoneActive
<1>4. intent' # NoIntent => intent'.day \in Nat /\ intent'.day <= day'
  BY DEF PInv, PlansSound
<1>. QED
  BY <1>2, <1>3, <1>4 DEF PlansSound

-----------------------------------------------------------------------------
(* Steps that leave a part of what was planned and held.                     *)

\* Settling an order leaves its lots as they are.
LEMMA SettledLots ==
    ASSUME NEW order, NEW handled
    PROVE  /\ Settled(order, handled).opening = order.opening
           /\ Settled(order, handled).closing = order.closing
BY DEF Settled, NoOrder

\* A fill moves one lot of an order into the position; a close never takes more than
\* there is.
LEMMA FillPlans ==
    ASSUME PInv, IInv', NEW s \in Symbols, NEW side \in Sides, Fill(s, side)
    PROVE  PInv'
<1> DEFINE step == Sign(orders[s][side])
           less == Less(orders[s], side, step)
           after == Settled(less, book[s] = exLots[s] + step)
<1>1. /\ exLots' = [exLots EXCEPT ![s] = @ + step]
      /\ orders' = [orders EXCEPT ![s] = after]
      /\ step # 0 /\ (side = "closing" => Sign(exLots[s]) = -step)
      /\ UNCHANGED <<day, activity, decision, intent, book, bookDay, mode, at, quoted, planned,
                     batch>>
  BY DEF Fill, files
<1>2. \A t \in Symbols :
         /\ exLots[t] \in Int /\ orders[t].opening \in Int /\ orders[t].closing \in Int
         /\ Waiting[t] \in Int
         /\ Potential[t] = exLots[t] + orders[t].opening + Waiting[t]
  BY PotentialTyped DEF PInv
<1>3. /\ after.opening = IF side = "opening" THEN orders[s].opening - step
                         ELSE orders[s].opening
      /\ after.closing = IF side = "closing" THEN orders[s].closing - step
                         ELSE orders[s].closing
  <2>1. OrderShape(orders[s])
    BY DEF PInv, IInv, SentUnderTodaysIntent
  <2>2. /\ less.opening = IF side = "opening" THEN orders[s].opening - step
                          ELSE orders[s].opening
        /\ less.closing = IF side = "closing" THEN orders[s].closing - step
                          ELSE orders[s].closing
    <3> HIDE DEF step
    <3>. QED
      BY <2>1 DEF Less, OrderShape, Sides
  <2> HIDE DEF less
  <2>. QED
    BY <2>2, SettledLots
<1>4. step \in {1, -1} /\ step \in Int
  BY <1>1 DEF Sign
<1> HIDE DEF after
<1>5. /\ exLots'[s] = exLots[s] + step /\ orders'[s] = after
      /\ \A t \in Symbols \ {s} : exLots'[t] = exLots[t] /\ orders'[t] = orders[t]
      /\ exLots' \in Ints
  <2> HIDE DEF step
  <2>. QED
    BY <1>1, <1>2, <1>4 DEF PInv, IInv, Typed, Ints
<1>6. Typed'
  <2>1. \A t \in Symbols : orders'[t].opening \in Int /\ orders'[t].closing \in Int
    <3> HIDE DEF step
    <3>. QED
      BY <1>2, <1>3, <1>4, <1>5
  <2>. QED
    BY <1>1, <1>5, <2>1 DEF PInv, Typed
<1>7. Waiting' = Waiting
  BY <1>1 DEF Waiting
<1>8. ASSUME NEW t \in Symbols
      PROVE  /\ Toward(Potential'[t], Potential[t])
             /\ \/ exLots'[t] >= 0 /\ orders'[t].opening >= 0 /\ Waiting'[t] >= 0
                \/ exLots'[t] <= 0 /\ orders'[t].opening <= 0 /\ Waiting'[t] <= 0
  <2>1. Potential'[t] = exLots'[t] + orders'[t].opening + Waiting[t]
    BY <1>7 DEF Potential
  <2>2. \/ exLots[t] >= 0 /\ orders[t].opening >= 0 /\ Waiting[t] >= 0
        \/ exLots[t] <= 0 /\ orders[t].opening <= 0 /\ Waiting[t] <= 0
    BY DEF PInv, OneSided
  <2>3. CASE t # s
    BY <1>2, <1>5, <1>7, <2>1, <2>2, <2>3 DEF Toward
  <2>4. CASE t = s /\ side = "opening"
    BY <1>1, <1>2, <1>3, <1>5, <1>7, <2>1, <2>2, <2>4 DEF Toward, Sign
  <2>5. CASE t = s /\ side = "closing"
    BY <1>1, <1>2, <1>3, <1>5, <1>7, <2>1, <2>2, <2>5 DEF Toward, Sign
  <2>. QED
    BY <2>3, <2>4, <2>5 DEF Sides
<1>9. PlansSound'
  <2>1. at # "planned"
    <3>1. orders[s].opening # 0 \/ orders[s].closing # 0
      BY <1>1 DEF Sign, Sides
    <3>. QED
      BY <3>1 DEF PInv, PlansSound, Quiet, NoneActive
  <2>2. at # "sending" => batch.moves = Flat
    BY DEF PInv, PlansSound
  <2>. QED
    BY <1>1, <2>1, <2>2, PlansKept
<1>10. Single(Potential)' /\ PotentialAllowed'
  BY <1>1, <1>6, <1>8, ShrinkingStep DEF HasIntent
<1>11. OneSided'
  BY <1>8 DEF OneSided
<1>. QED
  BY <1>6, <1>9, <1>10, <1>11 DEF PInv

\* What is cancelled is not opened.
LEMMA EndOrderPlans ==
    ASSUME PInv, IInv', NEW s \in Symbols, NEW side \in Sides, EndOrder(s, side)
    PROVE  PInv'
<1> DEFINE less == Less(orders[s], side, orders[s][side])
           after == Settled(less, book[s] = exLots[s])
<1>1. /\ orders' = [orders EXCEPT ![s] = after]
      /\ orders[s][side] # 0
      /\ UNCHANGED <<day, activity, decision, intent, exLots, book, bookDay, mode, at, quoted,
                     planned, batch>>
  BY DEF EndOrder, files
<1>2. \A t \in Symbols :
         /\ exLots[t] \in Int /\ orders[t].opening \in Int /\ orders[t].closing \in Int
         /\ Waiting[t] \in Int
         /\ Potential[t] = exLots[t] + orders[t].opening + Waiting[t]
  BY PotentialTyped DEF PInv
<1>3. /\ after.opening = IF side = "opening" THEN orders[s].opening - orders[s].opening
                         ELSE orders[s].opening
      /\ after.closing = IF side = "closing" THEN orders[s].closing - orders[s].closing
                         ELSE orders[s].closing
  <2>1. OrderShape(orders[s])
    BY DEF PInv, IInv, SentUnderTodaysIntent
  <2>2. /\ less.opening = IF side = "opening" THEN orders[s].opening - orders[s].opening
                          ELSE orders[s].opening
        /\ less.closing = IF side = "closing" THEN orders[s].closing - orders[s].closing
                          ELSE orders[s].closing
    BY <2>1 DEF Less, OrderShape, Sides
  <2> HIDE DEF less
  <2>. QED
    BY <2>2, SettledLots
<1> HIDE DEF after
<1>5. /\ orders'[s] = after
      /\ \A t \in Symbols \ {s} : orders'[t] = orders[t]
  BY <1>1 DEF PInv, IInv
<1>6. Typed'
  <2>1. \A t \in Symbols : orders'[t].opening \in Int /\ orders'[t].closing \in Int
    BY <1>2, <1>3, <1>5
  <2>. QED
    BY <1>1, <2>1 DEF PInv, Typed
<1>7. Waiting' = Waiting
  BY <1>1 DEF Waiting
<1>8. ASSUME NEW t \in Symbols
      PROVE  /\ Toward(Potential'[t], Potential[t])
             /\ \/ exLots'[t] >= 0 /\ orders'[t].opening >= 0 /\ Waiting'[t] >= 0
                \/ exLots'[t] <= 0 /\ orders'[t].opening <= 0 /\ Waiting'[t] <= 0
  <2>1. Potential'[t] = exLots[t] + orders'[t].opening + Waiting[t]
    BY <1>1, <1>7 DEF Potential
  <2>2. \/ exLots[t] >= 0 /\ orders[t].opening >= 0 /\ Waiting[t] >= 0
        \/ exLots[t] <= 0 /\ orders[t].opening <= 0 /\ Waiting[t] <= 0
    BY DEF PInv, OneSided
  <2>3. orders'[t].opening \in {0, orders[t].opening}
    BY <1>2, <1>3, <1>5
  <2>. QED
    BY <1>1, <1>2, <1>7, <2>1, <2>2, <2>3 DEF Toward
<1>9. PlansSound'
  <2>1. at # "planned"
    <3>1. orders[s].opening # 0 \/ orders[s].closing # 0
      BY <1>1 DEF Sides
    <3>. QED
      BY <3>1 DEF PInv, PlansSound, Quiet, NoneActive
  <2>2. at # "sending" => batch.moves = Flat
    BY DEF PInv, PlansSound
  <2>. QED
    BY <1>1, <2>1, <2>2, PlansKept
<1>10. Single(Potential)' /\ PotentialAllowed'
  BY <1>1, <1>6, <1>8, ShrinkingStep DEF HasIntent
<1>11. OneSided'
  BY <1>8 DEF OneSided
<1>. QED
  BY <1>6, <1>9, <1>10, <1>11 DEF PInv

\* Of what is still to be opened, each part stays or goes; the files stay, or there is
\* no intent of the new day.
LEMMA LessToCome ==
    ASSUME PInv, IInv', Typed', PlansSound', exLots' = exLots,
           \A s \in Symbols : orders'[s].opening \in {0, orders[s].opening},
           \A s \in Symbols : Waiting'[s] \in {0, Waiting[s]},
           ~HasIntent' \/ (HasIntent /\ intent' = intent /\ decision' = decision)
    PROVE  PInv'
<1>1. ASSUME NEW s \in Symbols
      PROVE  /\ Toward(Potential'[s], Potential[s])
             /\ \/ exLots'[s] >= 0 /\ orders'[s].opening >= 0 /\ Waiting'[s] >= 0
                \/ exLots'[s] <= 0 /\ orders'[s].opening <= 0 /\ Waiting'[s] <= 0
  <2>1. /\ exLots[s] \in Int /\ orders[s].opening \in Int /\ Waiting[s] \in Int
        /\ Potential[s] = exLots[s] + orders[s].opening + Waiting[s]
    BY PotentialTyped DEF PInv
  <2>2. Potential'[s] = exLots[s] + orders'[s].opening + Waiting'[s]
    BY DEF Potential
  <2>3. \/ exLots[s] >= 0 /\ orders[s].opening >= 0 /\ Waiting[s] >= 0
        \/ exLots[s] <= 0 /\ orders[s].opening <= 0 /\ Waiting[s] <= 0
    BY DEF PInv, OneSided
  <2>4. orders'[s].opening \in {0, orders[s].opening} /\ Waiting'[s] \in {0, Waiting[s]}
    OBVIOUS
  <2>. QED
    BY <2>1, <2>2, <2>3, <2>4 DEF Toward
<1>2. OneSided'
  BY <1>1 DEF OneSided
<1>3. Single(Potential)' /\ PotentialAllowed'
  BY <1>1, ShrinkingStep
<1>. QED
  BY <1>2, <1>3 DEF PInv

\* Nothing waits where nothing is sent.
LEMMA NothingWaits ==
    ASSUME PInv, at # "sending"
    PROVE  Waiting = Flat
BY DEF PInv, PlansSound, Waiting

\* Nothing waits after a step that plans nothing to be opened.
LEMMA NothingWaitsNext ==
    batch'.moves = Flat \/ batch'.kind # "candidate" => Waiting' = Flat
BY DEF Waiting, Flat

\* Steps that touch neither the position, nor an order, nor a plan.
Steady ==
    /\ UNCHANGED <<day, activity, exLots, orders, decision, intent, book, batch>>
    /\ at' = "planned" => at = "planned" /\ planned' = planned
    /\ at' # "sending" => batch.moves = Flat

\* Such steps change nothing that the invariant speaks of.
LEMMA SteadyPlans ==
    ASSUME PInv, IInv', Steady
    PROVE  PInv'
<1>1. Typed'
  BY DEF Steady, PInv, Typed
<1>2. PlansSound'
  BY PlansKept DEF Steady
<1>3. Waiting' = Waiting
  BY DEF Steady, Waiting, Flat
<1>4. \A s \in Symbols : /\ orders'[s].opening \in {0, orders[s].opening}
                         /\ Waiting'[s] \in {0, Waiting[s]}
  BY <1>3 DEF Steady
<1>5. ~HasIntent' \/ (HasIntent /\ intent' = intent /\ decision' = decision)
  BY DEF Steady, HasIntent
<1>. QED
  BY <1>1, <1>2, <1>4, <1>5, LessToCome DEF Steady

\* They are these.
LEMMA LifePlans ==
    ASSUME PInv, IInv',
           RollForward \/ Start \/ EnterReduceOnly \/ RebalanceFails \/ UNCHANGED vars
             \/ \E s \in Symbols : Tick(s)
    PROVE  PInv'
<1>1. at # "sending" => batch.moves = Flat
  BY DEF PInv, PlansSound
<1>2. Steady
  <2>1. CASE RollForward
    BY <1>1, <2>1 DEF RollForward, Steady, exchange, files, Stopped
  <2>2. CASE Start
    BY <1>1, <2>2 DEF Start, Steady, exchange, files, Stopped
  <2>3. CASE EnterReduceOnly
    BY <1>1, <2>3 DEF EnterReduceOnly, Steady, exchange, files
  <2>4. CASE RebalanceFails
    BY <1>1, <2>4 DEF RebalanceFails, Steady, exchange, files, Rebalances
  <2>5. CASE UNCHANGED vars
    BY <1>1, <2>5 DEF vars, Steady
  <2>6. CASE \E s \in Symbols : Tick(s)
    BY <1>1, <2>6 DEF Tick, Steady, exchange, files
  <2>. QED
    BY <2>1, <2>2, <2>3, <2>4, <2>5, <2>6
<1>. QED
  BY <1>2, SteadyPlans

\* Nothing is held when flat, and nothing is sent by an empty batch.
LEMMA FlatInts == Flat \in Ints /\ DOMAIN NoBatch = {"moves", "kind"} /\ NoBatch.moves = Flat
BY DEF Flat, Ints, NoBatch

\* The rest of a pass is not sent.
LEMMA GiveUpPlans ==
    ASSUME PInv, IInv', GiveUp \/ Stop
    PROVE  PInv'
<1>1. /\ UNCHANGED <<day, activity, exLots, orders, decision, intent, book>>
      /\ batch' = NoBatch /\ at' \in {"running", "down"}
  BY DEF GiveUp, Stop, exchange, files
<1>2. Typed'
  BY <1>1, FlatInts DEF PInv, Typed
<1>3. PlansSound'
  BY <1>1, FlatInts, PlansKept
<1>4. Waiting' = Flat
  BY <1>1, FlatInts, NothingWaitsNext
<1>5. \A s \in Symbols : /\ orders'[s].opening \in {0, orders[s].opening}
                         /\ Waiting'[s] \in {0, Waiting[s]}
  BY <1>1, <1>4 DEF Flat
<1>. QED
  BY <1>1, <1>2, <1>3, <1>5, LessToCome DEF HasIntent

\* A new day has no orders, and no intent yet.
LEMMA NewDayPlans ==
    ASSUME PInv, IInv', NewDay
    PROVE  PInv'
<1>1. /\ UNCHANGED <<exLots, decision, intent, book>>
      /\ day' = day + 1 /\ orders' = NoOrders
      /\ batch' = NoBatch /\ at' = "down" /\ activity' \in Activities
  BY DEF NewDay, files
<1>2. \A s \in Symbols : orders'[s].opening = 0 /\ orders'[s].closing = 0
  BY <1>1 DEF NoOrders, NoOrder
<1>3. activity'.interest \in [Symbols -> 1..Cardinality(Symbols)]
  BY <1>1 DEF Activities
<1>4. day \in Nat
  BY DEF PInv, Typed
<1>5. Typed'
  <2>1. day' \in Nat
    BY <1>1, <1>4
  <2>2. \A s \in Symbols : orders'[s].opening \in Int /\ orders'[s].closing \in Int
    BY <1>2
  <2>. QED
    BY <1>1, <1>3, <2>1, <2>2, FlatInts DEF PInv, Typed
<1>6. ~HasIntent' /\ (intent' # NoIntent => intent'.day \in Nat /\ intent'.day <= day')
  <2>1. intent # NoIntent => intent.day \in Nat /\ intent.day <= day
    BY DEF PInv, PlansSound
  <2>. QED
    BY <1>1, <1>4, <2>1 DEF HasIntent
<1>7. PlansSound'
  BY <1>1, <1>6, FlatInts DEF PlansSound
<1>8. Waiting' = Flat
  BY <1>1, FlatInts, NothingWaitsNext
<1>9. \A s \in Symbols : /\ orders'[s].opening \in {0, orders[s].opening}
                         /\ Waiting'[s] \in {0, Waiting[s]}
  BY <1>2, <1>8 DEF Flat
<1>. QED
  BY <1>1, <1>5, <1>6, <1>7, <1>9, LessToCome

\* Fills are handled: the saved position follows the exchange's.
LEMMA HandleTradesPlans ==
    ASSUME PInv, IInv', NEW s \in Symbols, HandleTrades(s)
    PROVE  PInv'
<1>1. /\ UNCHANGED <<day, activity, exLots, decision, intent, batch>>
      /\ book' = [book EXCEPT ![s] = exLots[s]]
      /\ orders' = [orders EXCEPT ![s] = Settled(@, TRUE)]
      /\ at = "running" /\ at' = "running"
  BY DEF HandleTrades
<1>2. \A t \in Symbols : /\ orders'[t].opening = orders[t].opening
                         /\ orders'[t].closing = orders[t].closing
  <2>1. \A t \in Symbols \ {s} : orders'[t] = orders[t]
    BY <1>1 DEF PInv, IInv
  <2>2. orders'[s] = Settled(orders[s], TRUE)
    BY <1>1 DEF PInv, IInv
  <2>3. /\ Settled(orders[s], TRUE).opening = orders[s].opening
        /\ Settled(orders[s], TRUE).closing = orders[s].closing
    BY SettledLots
  <2>. QED
    BY <2>1, <2>2, <2>3
<1>3. Typed'
  <2>1. book' \in Ints
    BY <1>1 DEF PInv, Typed, Ints
  <2>. QED
    BY <1>1, <1>2, <2>1 DEF PInv, Typed
<1>4. PlansSound'
  <2>1. batch.moves = Flat
    BY <1>1 DEF PInv, PlansSound
  <2>. QED
    BY <1>1, <2>1, PlansKept
<1>5. Waiting' = Waiting
  BY <1>1 DEF Waiting, Flat
<1>6. \A t \in Symbols : /\ orders'[t].opening \in {0, orders[t].opening}
                         /\ Waiting'[t] \in {0, Waiting[t]}
  BY <1>2, <1>5
<1>. QED
  BY <1>1, <1>3, <1>4, <1>6, LessToCome DEF HasIntent

\* The startup takes over the exchange's position; no order is left.
LEMMA ReconcilePlans ==
    ASSUME PInv, IInv', Reconcile
    PROVE  PInv'
<1>1. /\ UNCHANGED <<day, activity, exLots, decision, intent, batch>>
      /\ orders' = NoOrders
      /\ book' \in {exLots, book}
      /\ at = "starting" /\ at' \in {"running", "refused"}
  BY DEF Reconcile
<1>2. \A t \in Symbols : orders'[t].opening = 0 /\ orders'[t].closing = 0
  BY <1>1 DEF NoOrders, NoOrder
<1>3. Typed'
  BY <1>1, <1>2 DEF PInv, Typed
<1>4. PlansSound'
  <2>1. batch.moves = Flat
    BY <1>1 DEF PInv, PlansSound
  <2>. QED
    BY <1>1, <2>1, PlansKept
<1>5. Waiting' = Waiting
  BY <1>1 DEF Waiting, Flat
<1>6. \A t \in Symbols : /\ orders'[t].opening \in {0, orders[t].opening}
                         /\ Waiting'[t] \in {0, Waiting[t]}
  BY <1>2, <1>5
<1>. QED
  BY <1>1, <1>3, <1>4, <1>6, LessToCome DEF HasIntent

\* A day's decision comes before its intent.
LEMMA PrepareDecisionPlans ==
    ASSUME PInv, IInv', PrepareDecision
    PROVE  PInv'
<1>1. /\ UNCHANGED <<day, activity, exLots, orders, intent, book, batch, at>>
      /\ at = "running" /\ ~Decided
  BY DEF PrepareDecision, Rebalances, exchange
<1>2. ~HasIntent'
  BY <1>1 DEF PInv, PlansSound, Sound, HasIntent
<1>3. Typed'
  BY <1>1 DEF PInv, Typed
<1>4. PlansSound'
  BY <1>1, <1>2 DEF PInv, PlansSound
<1>5. Waiting' = Waiting
  BY <1>1 DEF Waiting, Flat
<1>6. \A t \in Symbols : /\ orders'[t].opening \in {0, orders[t].opening}
                         /\ Waiting'[t] \in {0, Waiting[t]}
  BY <1>1, <1>5
<1>. QED
  BY <1>1, <1>2, <1>3, <1>4, <1>6, LessToCome

\* Reductions open nothing.
LEMMA ReducePlans ==
    ASSUME PInv, IInv', GuardReduces \/ Flatten
    PROVE  PInv'
<1>1. /\ UNCHANGED <<day, activity, exLots, orders, decision, intent, book>>
      /\ at = "running" /\ at' = "sending"
      /\ \E want \in Ints : batch' = [moves |-> Reductions(book, want), kind |-> "risk_reduction"]
  <2>1. CASE GuardReduces
    BY <2>1, LotsAreInts DEF GuardReduces, Rebalances, exchange, files
  <2>2. CASE Flatten
    BY <2>2, FlatInts DEF Flatten, exchange, files
  <2>. QED
    BY <2>1, <2>2
<1>2. DOMAIN batch' = {"moves", "kind"} /\ batch'.moves \in Ints /\ batch'.kind = "risk_reduction"
  <2>1. PICK want \in Ints : batch' = [moves |-> Reductions(book, want), kind |-> "risk_reduction"]
    BY <1>1
  <2>2. \A s \in Symbols : book[s] \in Int /\ want[s] \in Int
    BY DEF PInv, Typed, Ints
  <2>3. Reductions(book, want) \in Ints
    BY <2>2 DEF Reductions, Ints
  <2>. QED
    BY <2>1, <2>3
<1>3. Typed'
  BY <1>1, <1>2 DEF PInv, Typed
<1>4. PlansSound'
  BY <1>1, PlansKept
<1>5. Waiting' = Flat
  BY <1>2, NothingWaitsNext
<1>6. \A t \in Symbols : /\ orders'[t].opening \in {0, orders[t].opening}
                         /\ Waiting'[t] \in {0, Waiting[t]}
  BY <1>1, <1>5 DEF Flat
<1>. QED
  BY <1>1, <1>3, <1>4, <1>6, LessToCome DEF HasIntent

\* An order takes over what waited to be sent.
LEMMA SendPlans ==
    ASSUME PInv, IInv', NEW s \in Symbols, Send(s)
    PROVE  PInv'
<1> DEFINE rest == [batch.moves EXCEPT ![s] = 0]
           o == IF batch.kind = "candidate" THEN Opening(orders[s], batch.moves[s])
                ELSE Closing(orders[s], batch.moves[s])
<1>1. /\ UNCHANGED <<day, activity, exLots, decision, intent, book>>
      /\ orders' = [orders EXCEPT ![s] = o]
      /\ batch' = IF rest = Flat THEN NoBatch ELSE [batch EXCEPT !.moves = rest]
      /\ at = "sending"
      /\ at' = IF rest = Flat THEN "running" ELSE "sending"
  BY DEF Send, files
<1>2. \A t \in Symbols :
         /\ exLots[t] \in Int /\ orders[t].opening \in Int /\ orders[t].closing \in Int
         /\ Waiting[t] \in Int /\ batch.moves[t] \in Int
         /\ Potential[t] = exLots[t] + orders[t].opening + Waiting[t]
  BY PotentialTyped DEF PInv, Typed, Ints
<1>3. /\ o.opening = IF batch.kind = "candidate" THEN orders[s].opening + batch.moves[s]
                     ELSE orders[s].opening
      /\ o.closing = IF batch.kind = "candidate" THEN orders[s].closing
                     ELSE orders[s].closing + batch.moves[s]
  <2>1. OrderShape(orders[s])
    BY DEF PInv, IInv, SentUnderTodaysIntent
  <2>. QED
    BY <2>1 DEF OrderShape, Opening, Closing
<1>4. rest \in Ints /\ rest[s] = 0 /\ \A t \in Symbols \ {s} : rest[t] = batch.moves[t]
  BY DEF PInv, Typed, Ints
<1> HIDE DEF rest, o
<1>5. orders'[s] = o /\ \A t \in Symbols \ {s} : orders'[t] = orders[t]
  BY <1>1 DEF PInv, IInv
<1>6. DOMAIN batch' = {"moves", "kind"} /\ batch'.moves = rest
      /\ (rest = Flat \/ batch'.kind = batch.kind)
  <2>1. CASE rest = Flat
    BY <1>1, <2>1, FlatInts
  <2>2. CASE rest # Flat
    BY <1>1, <2>2 DEF PInv, Typed
  <2>. QED
    BY <2>1, <2>2
<1>7. Typed'
  <2>1. \A t \in Symbols : orders'[t].opening \in Int /\ orders'[t].closing \in Int
    BY <1>2, <1>3, <1>5
  <2>. QED
    BY <1>1, <1>4, <1>6, <2>1 DEF PInv, Typed
<1>8. PlansSound'
  BY <1>1, <1>6, PlansKept
<1>9. Waiting' = IF batch.kind = "candidate" THEN rest ELSE Flat
  BY <1>6 DEF Waiting, Flat
<1>10. Waiting = IF batch.kind = "candidate" THEN batch.moves ELSE Flat
  BY DEF Waiting
<1>11. ASSUME NEW t \in Symbols
       PROVE  /\ Toward(Potential'[t], Potential[t])
              /\ \/ exLots'[t] >= 0 /\ orders'[t].opening >= 0 /\ Waiting'[t] >= 0
                 \/ exLots'[t] <= 0 /\ orders'[t].opening <= 0 /\ Waiting'[t] <= 0
  <2>1. Potential'[t] = exLots[t] + orders'[t].opening + Waiting'[t]
    BY <1>1 DEF Potential
  <2>2. \/ exLots[t] >= 0 /\ orders[t].opening >= 0 /\ Waiting[t] >= 0
        \/ exLots[t] <= 0 /\ orders[t].opening <= 0 /\ Waiting[t] <= 0
    BY DEF PInv, OneSided
  <2>3. CASE batch.kind = "candidate"
    <3>1. Waiting[t] = batch.moves[t] /\ Waiting'[t] = IF t = s THEN 0 ELSE batch.moves[t]
      BY <1>4, <1>9, <1>10, <2>3
    <3>2. orders'[t].opening = IF t = s THEN orders[t].opening + batch.moves[t]
                               ELSE orders[t].opening
      BY <1>3, <1>5, <2>3
    <3>. QED
      BY <1>1, <1>2, <2>1, <2>2, <3>1, <3>2 DEF Toward
  <2>4. CASE batch.kind # "candidate"
    <3>1. Waiting[t] = 0 /\ Waiting'[t] = 0
      BY <1>9, <1>10, <2>4 DEF Flat
    <3>2. orders'[t].opening = orders[t].opening
      BY <1>3, <1>5, <2>4
    <3>. QED
      BY <1>1, <1>2, <2>1, <2>2, <3>1, <3>2 DEF Toward
  <2>. QED
    BY <2>3, <2>4
<1>12. OneSided'
  BY <1>11 DEF OneSided
<1>13. Single(Potential)' /\ PotentialAllowed'
  BY <1>1, <1>7, <1>11, ShrinkingStep DEF HasIntent
<1>. QED
  BY <1>7, <1>8, <1>12, <1>13 DEF PInv

-----------------------------------------------------------------------------
(* The plans of a day.                                                       *)

\* When no order is at work and every fill is handled, what is saved is all there is.
LEMMA QuietPotential ==
    ASSUME PInv, Quiet, at # "sending"
    PROVE  Potential = book /\ book = exLots /\ \A s \in Symbols : orders[s].opening = 0
<1>1. Waiting = Flat
  BY NothingWaits
<1>2. exLots \in Ints /\ book = exLots /\ \A s \in Symbols : orders[s].opening = 0
  BY DEF PInv, Typed, Quiet, NoneActive
<1>3. \A s \in Symbols : exLots[s] \in Int
  BY <1>2 DEF Ints
<1>4. Potential = [s \in Symbols |-> exLots[s]]
  BY <1>1, <1>2, <1>3 DEF Potential, Flat
<1>. QED
  BY <1>2, <1>4 DEF Ints

\* An intent replaces one position of a product by another of the same product.
LEMMA PlanIntentPlans ==
    ASSUME PInv, IInv', PlanIntent
    PROVE  PInv'
<1>1. /\ UNCHANGED <<day, activity, exLots, orders, decision, intent, book, batch>>
      /\ at = "running" /\ at' = "planned" /\ Decided /\ ~HasIntent /\ Quiet
  BY DEF PlanIntent, Rebalances, exchange, files
<1>2. PICK fitted \in FirstTargets :
         planned' = [day |-> day, initial |-> book, fitted |-> fitted,
                     authorized |-> Freeze(book, fitted, FrozenProducts, NoIntent)]
  BY DEF PlanIntent
<1>3. book \in Ints /\ Single(book)
  BY <1>1, QuietPotential DEF PInv, Typed
<1>4. fitted \in Ints /\ Single(fitted)
  BY <1>3, FirstTargetsSingle DEF PInv
<1>5. Freeze(book, fitted, FrozenProducts, NoIntent) \in Ints
  BY <1>3, <1>4, FreezeToward DEF PlanTyped
<1>6. Typed'
  BY <1>1 DEF PInv, Typed
<1>7. FrozenProducts' = FrozenProducts /\ (Decided' <=> Decided) /\ (HasIntent' <=> HasIntent)
  BY <1>1 DEF FrozenProducts, Decided, HasIntent
<1>8. PlansSound'
  <2>1. Sound(planned)' /\ planned'.initial = book'
    BY <1>1, <1>2, <1>3, <1>4, <1>5, <1>7 DEF Sound
  <2>2. Quiet'
    BY <1>1 DEF Quiet, NoneActive
  <2>3. batch'.moves = Flat
    BY <1>1 DEF PInv, PlansSound
  <2>4. intent' # NoIntent => intent'.day \in Nat /\ intent'.day <= day'
    BY <1>1 DEF PInv, PlansSound
  <2>. QED
    BY <1>1, <1>7, <2>1, <2>2, <2>3, <2>4 DEF PlansSound
<1>9. Waiting' = Waiting
  BY <1>1 DEF Waiting, Flat
<1>10. \A t \in Symbols : /\ orders'[t].opening \in {0, orders[t].opening}
                          /\ Waiting'[t] \in {0, Waiting[t]}
  BY <1>1, <1>9
<1>. QED
  BY <1>1, <1>6, <1>7, <1>8, <1>10, LessToCome

\* The intent starts from the position that is held.
LEMMA SaveIntentPlans ==
    ASSUME PInv, IInv', SaveIntent
    PROVE  PInv'
<1>1. /\ UNCHANGED <<day, activity, exLots, orders, decision, book, batch>>
      /\ at = "planned" /\ at' = "running" /\ intent' = planned
  BY DEF SaveIntent, exchange
<1>2. Sound(planned) /\ planned.initial = book /\ Quiet
  BY <1>1 DEF PInv, PlansSound
<1>3. Potential = book
  BY <1>1, <1>2, QuietPotential
<1>4. Typed'
  BY <1>1 DEF PInv, Typed
<1>5. Potential' = Potential /\ Waiting' = Waiting
  BY <1>1 DEF Potential, Waiting, Flat
<1>6. PlansSound'
  <2>1. Sound(intent)'
    BY <1>1, <1>2 DEF Sound, Decided, FrozenProducts
  <2>2. intent'.day \in Nat /\ intent'.day <= day'
    BY <1>1, <1>2 DEF Sound, PInv, Typed
  <2>3. batch'.moves = Flat
    BY <1>1 DEF PInv, PlansSound
  <2>. QED
    BY <1>1, <2>1, <2>2, <2>3 DEF PlansSound
<1>7. PotentialAllowed'
  <2>1. Potential' = planned.initial
    BY <1>2, <1>3, <1>5
  <2>2. \A s \in Symbols : planned.initial[s] \in Int
    BY <1>2 DEF Sound, Ints
  <2>3. Within(Potential', intent')
    BY <1>1, <2>1, <2>2 DEF Within
  <2>4. \A p \in Products : Gross(Potential', p) <= Gross(intent'.initial, p)
    BY <1>1, <1>2, <2>1, GrossType DEF Sound
  <2>. QED
    BY <2>3, <2>4 DEF PotentialAllowed, Within
<1>8. Single(Potential)'
  BY <1>5 DEF PInv, Single
<1>9. OneSided'
  BY <1>1, <1>5 DEF PInv, OneSided
<1>. QED
  BY <1>4, <1>6, <1>7, <1>8, <1>9 DEF PInv

\* The target of a pass is a part of what the intent allows, and on a frozen day it is
\* worth no more than the intent's start.
LEMMA FinalTargetSound ==
    ASSUME PInv, Decided, HasIntent, Quiet, at # "sending",
           NEW want \in LaterTargets, NEW shut,
           NEW target, target = FinalTarget(want, shut)
    PROVE  /\ target \in Ints /\ Single(target)
           /\ \A s \in Symbols : Toward(target[s], intent.authorized[s])
           /\ decision.frozen =>
                 \A p \in Products : Gross(target, p) <= Gross(intent.initial, p)
<1> DEFINE frozen == Freeze(book, want, FrozenProducts, intent)
<1>1. /\ Sound(intent) /\ intent # NoIntent /\ PlanTyped(intent)
      /\ intent.initial \in Ints
  BY DEF PInv, PlansSound, HasIntent, Sound, PlanTyped
<1>2. book \in Ints /\ Single(book) /\ Potential = book
  BY QuietPotential DEF PInv, Typed
<1>3. want \in Ints /\ Single(want)
  BY <1>1, <1>2, LaterTargetsSingle DEF PInv, Sound
<1>4. frozen \in Ints /\ \A s \in Symbols : Toward(frozen[s], want[s])
  BY <1>1, <1>2, <1>3, FreezeToward
<1>5. Single(frozen)
  BY <1>3, <1>4, TowardSingle
<1>6. PICK closed : target = Freeze(book, frozen, closed, intent)
  BY DEF FinalTarget
<1>7. ASSUME decision.frozen, NEW p \in Products
      PROVE  Gross(frozen, p) <= Gross(intent.initial, p)
  <2>1. FrozenProducts = Products
    BY <1>7 DEF FrozenProducts
  <2>2. FrozenPlan(intent)
    BY <1>1, <2>1 DEF FrozenPlan, Sound
  <2>3. Within(book, intent) /\ Gross(book, p) <= Gross(intent.initial, p)
    BY <1>2, <1>7 DEF PInv, PotentialAllowed
  <2>. QED
    BY <1>2, <1>3, <2>1, <2>2, <2>3, FrozenPass
<1> HIDE DEF frozen
<1>8. /\ target \in Ints
      /\ \A s \in Symbols : Toward(target[s], frozen[s]) /\ Toward(target[s], intent.authorized[s])
  BY <1>1, <1>2, <1>4, <1>6, FreezeToward
<1>9. Single(target)
  BY <1>4, <1>5, <1>8, TowardSingle
<1>10. ASSUME decision.frozen, NEW p \in Products
       PROVE  Gross(target, p) <= Gross(intent.initial, p)
  <2>1. Gross(target, p) <= Gross(frozen, p)
    BY <1>4, <1>8, <1>9, ProductsAre, GrossToward
  <2>2. Gross(frozen, p) <= Gross(intent.initial, p)
    BY <1>7, <1>10
  <2>3. Gross(target, p) \in Nat /\ Gross(frozen, p) \in Nat /\ Gross(intent.initial, p) \in Nat
    BY <1>1, <1>4, <1>8, GrossType
  <2>. QED
    BY <2>1, <2>2, <2>3
<1>. QED
  BY <1>8, <1>9, <1>10

\* What is closer to nothing than the intent allows is within it.
LEMMA TowardWithin ==
    ASSUME NEW lots \in Ints, NEW i, i.authorized \in Ints,
           \A s \in Symbols : Toward(lots[s], i.authorized[s])
    PROVE  Within(lots, i)
BY DEF Within, Toward, Ints

\* A pass opens what its target adds to the position, or closes and opens nothing.
LEMMA RebalancePlans ==
    ASSUME PInv, IInv', Rebalance
    PROVE  PInv'
<1>1. /\ UNCHANGED <<day, activity, exLots, orders, decision, intent, book>>
      /\ at = "running" /\ Decided /\ HasIntent /\ Quiet
      /\ at' \in {"running", "sending"} /\ (at' # "sending" => batch'.moves = Flat)
  BY DEF Rebalance, Rebalances, exchange, files
<1>2. PICK want \in LaterTargets, shut \in SUBSET Products :
         batch' = Moves(book, FinalTarget(want, shut))
  BY DEF Rebalance
<1>3. PICK target : target = FinalTarget(want, shut)
  OBVIOUS
<1>4. /\ target \in Ints /\ Single(target)
      /\ \A s \in Symbols : Toward(target[s], intent.authorized[s])
      /\ decision.frozen =>
            \A p \in Products : Gross(target, p) <= Gross(intent.initial, p)
  BY <1>1, <1>3, FinalTargetSound
<1>5. book \in Ints /\ Potential = book /\ book = exLots /\ \A s \in Symbols : orders[s].opening = 0
  BY <1>1, QuietPotential DEF PInv, Typed
<1>6. /\ DOMAIN batch' = {"moves", "kind"} /\ batch'.moves \in Ints
      /\ batch'.kind = "candidate" =>
            \A s \in Symbols : batch'.moves[s] = target[s] - book[s] /\ Toward(book[s], target[s])
  BY <1>2, <1>3, <1>4, <1>5, MovesAre
<1>7. Typed'
  BY <1>1, <1>6 DEF PInv, Typed
<1>8. PlansSound'
  BY <1>1, PlansKept
<1>9. \A s \in Symbols : book[s] \in Int /\ target[s] \in Int
  BY <1>4, <1>5 DEF Ints
<1>10. CASE batch'.kind # "candidate"
  <2>1. Waiting' = Flat
    BY <1>10, NothingWaitsNext
  <2>2. \A t \in Symbols : /\ orders'[t].opening \in {0, orders[t].opening}
                           /\ Waiting'[t] \in {0, Waiting[t]}
    BY <1>1, <2>1 DEF Flat
  <2>. QED
    BY <1>1, <1>7, <1>8, <2>2, LessToCome DEF HasIntent
<1>11. CASE batch'.kind = "candidate"
  <2>1. Waiting' = batch'.moves
    BY <1>11 DEF Waiting
  <2>2. ASSUME NEW s \in Symbols
        PROVE  /\ exLots'[s] + orders'[s].opening + Waiting'[s] = target[s]
               /\ \/ exLots'[s] >= 0 /\ orders'[s].opening >= 0 /\ Waiting'[s] >= 0
                  \/ exLots'[s] <= 0 /\ orders'[s].opening <= 0 /\ Waiting'[s] <= 0
    <3>1. Waiting'[s] = target[s] - book[s] /\ Toward(book[s], target[s])
      BY <1>6, <1>11, <2>1
    <3>2. exLots'[s] = book[s] /\ orders'[s].opening = 0
      BY <1>1, <1>5
    <3>. QED
      BY <1>9, <3>1, <3>2 DEF Toward
  <2>3. Potential' = target
    <3>1. Potential' = [s \in Symbols |-> target[s]]
      BY <2>2 DEF Potential
    <3>. QED
      BY <1>4, <3>1 DEF Ints
  <2>4. OneSided'
    BY <2>2 DEF OneSided
  <2>5. Single(Potential)'
    BY <1>4, <2>3 DEF Single
  <2>6. PotentialAllowed'
    <3>1. Within(target, intent)
      BY <1>1, <1>4, TowardWithin DEF PInv, PlansSound, Sound
    <3>. QED
      BY <1>1, <1>4, <2>3, <3>1 DEF PotentialAllowed, Within
  <2>. QED
    BY <1>7, <1>8, <2>4, <2>5, <2>6 DEF PInv
<1>. QED
  BY <1>10, <1>11

-----------------------------------------------------------------------------
(* A product held in one contract is one of the starting positions.          *)

\* The first position has one contract per product.
LEMMA InitialSingle ==
    ASSUME NEW lots \in InitialLots
    PROVE  lots \in Ints /\ Single(lots)
<1>1. lots \in Ints
  BY LotsAreInts DEF InitialLots
<1>2. ASSUME NEW p \in Products, NEW s \in p, NEW t \in p, lots[s] # 0, lots[t] # 0, s # t
      PROVE  FALSE
  <2>1. IsFiniteSet(p \cap Held(lots)) /\ {s, t} \subseteq p \cap Held(lots)
    BY <1>2, ProductsAre, FS_Subset DEF Held
  <2>2. Cardinality({s, t}) = 2
    <3>1. IsFiniteSet({s}) /\ Cardinality({s}) = 1 /\ t \notin {s}
      BY <1>2, FS_Singleton
    <3>2. Cardinality({s} \cup {t}) = 2
      <4>1. PICK one : one = {s}
        OBVIOUS
      <4>2. Cardinality(one \cup {t}) = Cardinality(one) + 1
        BY <3>1, <4>1, FS_AddElement
      <4>. QED
        BY <3>1, <4>1, <4>2
    <3>3. {s} \cup {t} = {s, t}
      OBVIOUS
    <3>. QED
      BY <3>2, <3>3
  <2>3. Cardinality({s, t}) <= Cardinality(p \cap Held(lots))
    BY <2>1, FS_Subset
  <2>4. Cardinality(p \cap Held(lots)) <= 1 /\ Cardinality(p \cap Held(lots)) \in Nat
    BY <2>1, FS_CardinalityType DEF InitialLots
  <2>. QED
    BY <2>2, <2>3, <2>4
<1>. QED
  BY <1>1, <1>2 DEF Single

\* Before the first day nothing is planned.
LEMMA InitPlans == Init => PInv
<1> SUFFICES ASSUME Init PROVE PInv
  OBVIOUS
<1>1. /\ day = 1 /\ activity \in Activities
      /\ exLots \in InitialLots /\ book = exLots
      /\ orders = NoOrders /\ intent = NoIntent /\ at = "down" /\ batch = NoBatch
  BY DEF Init
<1>2. exLots \in Ints /\ Single(exLots)
  BY <1>1, InitialSingle
<1>3. \A s \in Symbols : orders[s].opening = 0 /\ orders[s].closing = 0
  BY <1>1 DEF NoOrders, NoOrder
<1>4. Typed
  BY <1>1, <1>2, <1>3, FlatInts DEF Typed, Activities
<1>5. ~HasIntent
  BY <1>1 DEF HasIntent
<1>6. PlansSound
  BY <1>1, <1>5, FlatInts DEF PlansSound
<1>7. Waiting = Flat
  BY <1>1, FlatInts DEF Waiting
<1>8. \A s \in Symbols : exLots[s] \in Int /\ Waiting[s] = 0
  BY <1>2, <1>7 DEF Ints, Flat
<1>9. OneSided
  BY <1>3, <1>8 DEF OneSided
<1>10. Single(Potential)
  <2>1. \A s \in Symbols : Potential[s] = exLots[s]
    BY <1>3, <1>8 DEF Potential
  <2>. QED
    BY <1>2, <2>1, ProductsAre DEF Single
<1>. QED
  BY <1>4, <1>5, <1>6, <1>9, <1>10, InitInvariant DEF PInv, PotentialAllowed

\* Every step.
LEMMA NextPlans == PInv /\ [Next]_vars => PInv'
<1> SUFFICES ASSUME PInv, [Next]_vars PROVE PInv'
  OBVIOUS
<1>1. IInv'
  BY NextInvariant DEF PInv
<1>2. CASE \E s \in Symbols, side \in Sides : Fill(s, side) \/ EndOrder(s, side)
  BY <1>1, <1>2, FillPlans, EndOrderPlans
<1>3. CASE \E s \in Symbols : HandleTrades(s) \/ Send(s)
  BY <1>1, <1>3, HandleTradesPlans, SendPlans
<1>4. CASE NewDay \/ Reconcile \/ PrepareDecision \/ SaveIntent
  BY <1>1, <1>4, NewDayPlans, ReconcilePlans, PrepareDecisionPlans, SaveIntentPlans
<1>5. CASE PlanIntent \/ Rebalance \/ GuardReduces \/ Flatten \/ GiveUp \/ Stop
  BY <1>1, <1>5, PlanIntentPlans, RebalancePlans, ReducePlans, GiveUpPlans
<1>6. CASE RollForward \/ Start \/ EnterReduceOnly \/ RebalanceFails \/ UNCHANGED vars
             \/ \E s \in Symbols : Tick(s)
  BY <1>1, <1>6, LifePlans
<1>. QED
  BY <1>2, <1>3, <1>4, <1>5, <1>6 DEF Next

\* What is held and what it may become lie between nothing and the potential.
LEMMA ExposureToward ==
    ASSUME PInv
    PROVE  /\ Exposure \in Ints
           /\ \A s \in Symbols : Toward(Exposure[s], Potential[s])
           /\ \A s \in Symbols : exLots[s] # 0 \/ Exposure[s] # 0 => Potential[s] # 0
<1>1. ASSUME NEW s \in Symbols
      PROVE  /\ Exposure[s] \in Int
             /\ Toward(Exposure[s], Potential[s])
             /\ exLots[s] # 0 \/ Exposure[s] # 0 => Potential[s] # 0
  <2>1. /\ exLots[s] \in Int /\ orders[s].opening \in Int /\ Waiting[s] \in Int
        /\ Potential[s] = exLots[s] + orders[s].opening + Waiting[s]
    BY PotentialTyped DEF PInv
  <2>2. \/ exLots[s] >= 0 /\ orders[s].opening >= 0 /\ Waiting[s] >= 0
        \/ exLots[s] <= 0 /\ orders[s].opening <= 0 /\ Waiting[s] <= 0
    BY DEF PInv, OneSided
  <2>3. Exposure[s] = exLots[s] + orders[s].opening
    BY DEF Exposure
  <2>4. Exposure[s] \in Int
    BY <2>1, <2>3
  <2>5. Toward(Exposure[s], Potential[s])
    BY <2>1, <2>2, <2>3 DEF Toward
  <2>6. exLots[s] # 0 \/ Exposure[s] # 0 => Potential[s] # 0
    BY <2>1, <2>2, <2>3
  <2>. QED
    BY <2>4, <2>5, <2>6
<1>2. Exposure \in Ints
  BY <1>1 DEF Exposure, Ints
<1>. QED
  BY <1>1, <1>2

\* What is held is a part of what may be held, which is within the intent.
LEMMA PlansStayWithin == PInv => StaysWithinIntent
<1> SUFFICES ASSUME PInv PROVE StaysWithinIntent
  OBVIOUS
<1>1. ASSUME HasIntent PROVE Within(Exposure, intent)
  <2>1. Exposure \in Ints /\ \A s \in Symbols : Toward(Exposure[s], Potential[s])
    BY ExposureToward
  <2>. QED
    BY <1>1, <2>1, PotentialShrinks
<1>2. ASSUME NEW p \in Products
      PROVE  Cardinality(p \cap (Held(exLots) \cup Held(Exposure))) <= 1
  <2> DEFINE H == p \cap (Held(exLots) \cup Held(Exposure))
  <2>1. \A s \in H : s \in p /\ Potential[s] # 0
    BY ExposureToward, ProductsAre DEF Held
  <2>2. \A s, t \in H : s = t
    BY <2>1 DEF PInv, Single
  <2> HIDE DEF H
  <2>3. H = {} \/ \E s \in H : H = {s}
    BY <2>2
  <2>4. Cardinality(H) <= 1
    BY <2>3, FS_EmptySet, FS_Singleton
  <2>. QED
    BY <2>4 DEF H
<1>. QED
  BY <1>1, <1>2 DEF StaysWithinIntent, Within

\* And is worth no more.
LEMMA PlansAddNoRisk == PInv => FrozenAddsNoRisk
<1> SUFFICES ASSUME PInv, HasIntent, decision.frozen, NEW p \in Products
             PROVE  Gross(Exposure, p) <= Gross(intent.initial, p)
  BY DEF FrozenAddsNoRisk
<1>1. Exposure \in Ints /\ \A s \in Symbols : Toward(Exposure[s], Potential[s])
  BY ExposureToward
<1>. QED
  BY <1>1, PotentialShrinks

\* No order, pass, stop or restart of a day takes a contract out of the range that the
\* day's intent allows, and no product is ever held, or being opened, in two contracts.
THEOREM StaysWithinIntentHolds == Spec => []StaysWithinIntent
<1>. QED
  BY InitPlans, NextPlans, PlansStayWithin, PTL DEF Spec

\* On a frozen day no product is ever worth more than when the intent was made, with
\* everything that is being opened counted as filled.
THEOREM FrozenAddsNoRiskHolds == Spec => []FrozenAddsNoRisk
<1>. QED
  BY InitPlans, NextPlans, PlansAddNoRisk, PTL DEF Spec

=============================================================================
