------------------------------ MODULE LotLedger ------------------------------
(***************************************************************************)
(* A reference for PositionBook.  The exchange keeps every open lot with    *)
(* the day it was opened; the program keeps four counters.  "lots" is, per  *)
(* direction, the opening days of the open lots, oldest first.  SimBroker   *)
(* changes it with every fill beside the program's counters.                *)
(***************************************************************************)
EXTENDS PositionBook, SequencesExt

Directions == {"long", "short"}

\* A BUY opens a long lot, a SELL opens a short one; a close is the reverse.
OpenedBy(side) == IF side = "BUY" THEN "long" ELSE "short"
ClosedBy(side) == IF side = "SELL" THEN "long" ELSE "short"

OpenedToday(lots, d, day) == SelectSeq(lots[d], LAMBDA opened : opened = day)
OpenedBefore(lots, d, day) == SelectSeq(lots[d], LAMBDA opened : opened < day)

LotsAvailable(lots, d, offset, day) ==
    CASE offset = "CLOSE_TODAY"     -> Len(OpenedToday(lots, d, day))
      [] offset = "CLOSE_YESTERDAY" -> Len(OpenedBefore(lots, d, day))
      [] OTHER -> Len(lots[d])

\* What the exchange has left after a close: the oldest lots that qualify go.
LotsAfterClose(lots, d, offset, v, day) ==
    LET today == OpenedToday(lots, d, day)
        before == OpenedBefore(lots, d, day)
    IN  CASE offset = "CLOSE_TODAY"     -> before \o SubSeq(today, v + 1, Len(today))
          [] offset = "CLOSE_YESTERDAY" -> SubSeq(before, v + 1, Len(before)) \o today
          [] OTHER -> SubSeq(lots[d], v + 1, Len(lots[d]))

LotsAfter(lots, t, day) ==
    IF t.offset = "OPEN"
    THEN [lots EXCEPT ![OpenedBy(t.side)] = @ \o [i \in 1..t.volume |-> day]]
    ELSE [lots EXCEPT ![ClosedBy(t.side)] =
             LotsAfterClose(lots, ClosedBy(t.side), t.offset, t.volume, day)]

-----------------------------------------------------------------------------
\* The counters count the lots, by direction and by whether they were opened today.
Counts(position, lots, day) ==
    /\ position["long_today"]      = Len(OpenedToday(lots, "long", day))
    /\ position["long_yesterday"]  = Len(OpenedBefore(lots, "long", day))
    /\ position["short_today"]     = Len(OpenedToday(lots, "short", day))
    /\ position["short_yesterday"] = Len(OpenedBefore(lots, "short", day))

\* The program's check and the exchange's lots agree on a close.
AgreeOn(position, lots, t, day) ==
    CanApply(position, t) <=> t.volume <= LotsAvailable(lots, ClosedBy(t.side), t.offset, day)

\* Every child of a planned close can be executed after the one before it, together they
\* close the volume and leave the other direction alone, and on SHFE and INE (special)
\* none lacks its bucket.
Executes(position, special, side, v, todayFirst) ==
    LET plan == PlanClose(position, special, side, v, todayFirst)
        Child(s, c) == [ok |-> s.ok /\ CanApply(s.p, c), p |-> ApplyTrade(s.p, c)]
        end == FoldLeft(Child, [ok |-> TRUE, p |-> position], plan)
        change == NetVolume(end.p) - NetVolume(position)
    IN  /\ end.ok
        /\ change = (IF side = "SELL" THEN -v ELSE v)
        /\ (IF side = "SELL" THEN ShortTotal(end.p) = ShortTotal(position)
                             ELSE LongTotal(end.p) = LongTotal(position))
        /\ special => \A i \in DOMAIN plan : plan[i].offset # "CLOSE"
=============================================================================
