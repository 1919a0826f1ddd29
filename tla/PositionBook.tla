---------------------------- MODULE PositionBook ----------------------------
(***************************************************************************)
(* The position arithmetic of afuture/position.py and afuture/reconcile.py: *)
(* what one fill, one trading-day roll and one close plan do to the four   *)
(* volume buckets of a contract.  Prices are left out: no decision in these *)
(* files depends on them.  The operators are pure, so every module that     *)
(* holds a book of its own (the broker's mirror, the engine's persisted     *)
(* state, the exchange itself) shares them.                                 *)
(***************************************************************************)
EXTENDS Integers, Sequences

Sides   == {"BUY", "SELL"}
Offsets == {"OPEN", "CLOSE", "CLOSE_TODAY", "CLOSE_YESTERDAY"}

Buckets == {"long_today", "long_yesterday", "short_today", "short_yesterday"}

\* A ContractPosition: today's and earlier volume on each side.
Position == [Buckets -> Nat]

Flat == [b \in Buckets |-> 0]

LongTotal(p)  == p["long_today"] + p["long_yesterday"]
ShortTotal(p) == p["short_today"] + p["short_yesterday"]
NetVolume(p)  == LongTotal(p) - ShortTotal(p)

\* The buckets a closing fill of a side consumes: a SELL closes longs.
TodayBucket(side)     == IF side = "SELL" THEN "long_today" ELSE "short_today"
YesterdayBucket(side) == IF side = "SELL" THEN "long_yesterday" ELSE "short_yesterday"

\* The bucket an opening fill of a side grows: a BUY opens a long of today.
OpenBucket(side) == IF side = "BUY" THEN "long_today" ELSE "short_today"

SmallerOf(a, b) == IF a <= b THEN a ELSE b

-----------------------------------------------------------------------------

\* _validate_close_volume: what a closing fill may consume; an explicit
\* close-today or close-yesterday never borrows from the other bucket.
AvailableToClose(p, side, offset) ==
    CASE offset = "CLOSE_TODAY"     -> p[TodayBucket(side)]
      [] offset = "CLOSE_YESTERDAY" -> p[YesterdayBucket(side)]
      [] OTHER -> p[TodayBucket(side)] + p[YesterdayBucket(side)]

\* apply_trade raises on exactly the fills that fail this.
CanApply(p, t) ==
    t.offset = "OPEN" \/ t.volume <= AvailableToClose(p, t.side, t.offset)

\* Seeded bug: a plain CLOSE takes today's lots first.
ConsumedTodayFirst(p, side, offset, v) ==
    LET fromToday == CASE offset = "CLOSE_TODAY"     -> v
                       [] offset = "CLOSE_YESTERDAY" -> 0
                       [] OTHER -> SmallerOf(v, p[TodayBucket(side)])
    IN  [p EXCEPT ![TodayBucket(side)]     = @ - fromToday,
                  ![YesterdayBucket(side)] = @ - (v - fromToday)]

\* _consume_long / _consume_short: a plain CLOSE takes yesterday's lots first.
Consumed(p, side, offset, v) ==
    LET fromYesterday == CASE offset = "CLOSE_TODAY"     -> 0
                           [] offset = "CLOSE_YESTERDAY" -> v
                           [] OTHER -> SmallerOf(v, p[YesterdayBucket(side)])
    IN  [p EXCEPT ![YesterdayBucket(side)] = @ - fromYesterday,
                  ![TodayBucket(side)]     = @ - (v - fromYesterday)]

Opened(p, side, v) == [p EXCEPT ![OpenBucket(side)] = @ + v]

\* apply_trade on the position of the fill's contract.
ApplyTrade(p, t) ==
    IF t.offset = "OPEN" THEN Opened(p, t.side, t.volume)
                         ELSE Consumed(p, t.side, t.offset, t.volume)

\* roll_trading_day: what was opened today is yesterday's from now on.
RollPosition(p) ==
    [b \in Buckets |->
        CASE b = "long_yesterday"  -> LongTotal(p)
          [] b = "short_yesterday" -> ShortTotal(p)
          [] OTHER -> 0]

-----------------------------------------------------------------------------

\* plan_close: the child orders that close v lots of a side.  SHFE and INE
\* ("special") need each bucket named; elsewhere one CLOSE does it.
CanPlanClose(p, side, v) ==
    v > 0 /\ v <= AvailableToClose(p, side, "CLOSE")

PlanClose(p, special, side, v, todayFirst) ==
    LET today     == [offset |-> "CLOSE_TODAY",     available |-> p[TodayBucket(side)]]
        yesterday == [offset |-> "CLOSE_YESTERDAY", available |-> p[YesterdayBucket(side)]]
        first     == IF todayFirst THEN today ELSE yesterday
        second    == IF todayFirst THEN yesterday ELSE today
        v1        == SmallerOf(v, first.available)
        v2        == SmallerOf(v - v1, second.available)
        child(offset, w) ==
            IF w = 0 THEN <<>> ELSE << [side |-> side, offset |-> offset, volume |-> w] >>
    IN  IF ~special
        THEN child("CLOSE", v)
        ELSE child(first.offset, v1) \o child(second.offset, v2)

-----------------------------------------------------------------------------

\* A PositionBook over a fixed set of contracts: absent contracts are Flat.
Book(contracts) == [contracts -> Position]

EmptyBook(contracts) == [c \in contracts |-> Flat]

BookCanApply(book, t) == CanApply(book[t.contract], t)

BookApply(book, t) == [book EXCEPT ![t.contract] = ApplyTrade(@, t)]

RollBook(book) == [c \in DOMAIN book |-> RollPosition(book[c])]

\* compare_positions: every bucket of every contract, prices excepted.
Matches(local, remote) == local = remote

HasPosition(book) == \E c \in DOMAIN book : book[c] # Flat
=============================================================================
