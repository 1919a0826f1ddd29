----------------------------- MODULE OiEvidence -----------------------------
(* The open-interest evidence that a bootstrapped directory collects, day     *)
(* after day, from raw market data. A decision for a day rests on it: on the  *)
(* completed evidence of the day before, and on the proof that the change     *)
(* between the two days was watched in one connection.                        *)
(* Four activities meet in Stress90OiEvidenceAggregator, under its lock: the  *)
(* market-data thread reports connections as they happen, the event thread    *)
(* hands over ticks that have waited in a queue, the maintenance of           *)
(* subscriptions moves it to a new day and a new list of contracts, and the   *)
(* main loop saves snapshots of it. They run in the live process or in the    *)
(* collector; a lease lets only one of these run. A process may die anywhere. *)
EXTENDS Bootstrap

CONSTANTS MaxDay,        \* bound: trading days 1..MaxDay; day 1 is the bootstrap's bridge
          Adjacent,      \* the days whose successor is the next civil date
          Listing,       \* the contracts the exchange lists on each day
          OiContracts,   \* those of the products whose open interest is collected
          Thin,          \* bound: contracts that trade in a session only after all others
          MaxFaults,     \* bound: disconnections and failing saves
          MaxStarts,     \* bound: processes started
          None           \* no value

Days == 1..MaxDay
Contracts == UNION {Listing[d] : d \in Days}

ASSUME EvidenceConstants ==
  /\ MaxDay \in Nat /\ MaxDay >= 2
  /\ Adjacent \subseteq Days
  /\ DOMAIN Listing = Days

AllPhases == {"open", "close"}
(* A day's evidence: the contracts it expects, which of them were seen in which session, and *)
(* whether anything was noted against it. The open day is evidence with its date.            *)
Digests  == [uni : SUBSET Contracts, got : SUBSET (Contracts \X AllPhases), issue : BOOLEAN]
OpenDays == [day : Days, uni : SUBSET Contracts,
             got : SUBSET (Contracts \X AllPhases), issue : BOOLEAN]
(* A day change that still waits for the first tick of the new day. *)
Pendings == [from : Days, digest : Digests, linked : {"current", "stale"}]
(* What a snapshot holds, and a save writes. *)
Snapshots == [completed : [Days -> Digests \cup {None}], moves : [Days -> Digests \cup {None}],
              open : OpenDays \cup {None}]
Process == [kind : {"live", "collector"}, closing : BOOLEAN]
Ticks   == [contract : Contracts, day : Days, phase : AllPhases, checked : BOOLEAN]

ASSUME NoneIsNothing ==
  None \notin {"current", "stale", "previous", "same", "parent"} \cup Digests \cup OpenDays
              \cup Pendings \cup Snapshots \cup Process \cup Ticks

Bridge == [uni |-> {}, got |-> {}, issue |-> FALSE]   \* the fixed evidence of day 1, complete

VARIABLES stage,          \* the directory is still new, or the market is on
          day, phase,     \* the exchange's trading day, and its first or last session
          ohlcThrough,    \* last day the OHLC cache covers
          up,             \* the market-data connection of the running process
          flight,         \* the raw tick on its way from the gateway to the observer
          proc,           \* the process: none, live, collector, or either on its way out
          agg,            \* the aggregator
          worker,         \* the maintenance of subscriptions
          subscribed,     \* contracts the process has subscribed to
          saver,          \* the save under way
          disk,           \* what the store holds
          chain, watched, \* days seen in the present connection; day changes so proved
          faults, starts  \* bounds

marketVars == <<day, phase, ohlcThrough>>
volatileVars == <<up, flight, proc, agg, worker, subscribed, saver>>
evidenceVars == <<stage, marketVars, volatileVars, disk, chain, watched,
                  faults, starts>>
vars == <<bootVars, evidenceVars>>

Running == proc # None
Closing == Running /\ proc.closing
IsLive  == Running /\ proc.kind = "live"

Expected(d) == Listing[d] \cap OiContracts

-----------------------------------------------------------------------------
(* The aggregator: completed evidence, observed day changes, the open day     *)

(* _finalize_day: complete when every expected contract was seen from its first session to *)
(* its last and nothing was noted against the day.                                         *)
Complete(ev) == ~ev.issue /\ ev.uni \X AllPhases \subseteq ev.got

LastCompleted(a) == CHOOSE d \in Days : /\ a.completed[d] # None
                                        /\ \A e \in Days : a.completed[e] # None => e <= d

BridgeCovers(a, d) == a.open = None /\ LastCompleted(a) = 1 /\ d = 1

\* Mutant: a day that is no longer the open one is opened again.
MovesAnywhere(a, d) == FALSE

MovesBack(a, d) == IF a.open # None THEN d < a.open.day ELSE d <= LastCompleted(a)

NewDay(d, uni) == [day |-> d, uni |-> uni, got |-> {}, issue |-> FALSE]
Digest(open) == [uni |-> open.uni, got |-> open.got, issue |-> open.issue]

(* The source day was seen to its end in the connection that is still up. *)
Uninterrupted(a, d) == /\ a.seen /\ a.up /\ a.linked = "current"
                       /\ a.open.day \in Adjacent /\ d = a.open.day + 1

\* Mutant: a change of day that the maintenance makes is not kept for the first tick.
RolloverByTickOnly(a, d, uni, byTick) ==
  LET source == a.open.day
      digest == Digest(a.open)
      begun  == [a EXCEPT !.open = NewDay(d, uni), !.seen = FALSE,
                          !.linked = None, !.changed = TRUE, !.pending = None]
  IN  IF a.open = None THEN begun
      ELSE IF Uninterrupted(a, d) /\ byTick
        THEN [begun EXCEPT !.completed[source] = digest, !.moves[source] = digest]
      ELSE [begun EXCEPT !.completed[source] = digest]

(* _rollover_unlocked to a later day. *)
Rollover(a, d, uni, byTick) ==
  LET source == a.open.day
      digest == Digest(a.open)
      begun  == [a EXCEPT !.open = NewDay(d, uni), !.seen = FALSE,
                          !.linked = None, !.changed = TRUE]
  IN  IF a.open = None THEN begun
      ELSE IF ~Uninterrupted(a, d)
        THEN [begun EXCEPT !.completed[source] = digest, !.pending = None]
      ELSE IF byTick
        THEN [begun EXCEPT !.completed[source] = digest, !.moves[source] = digest]
      ELSE [begun EXCEPT !.completed[source] = digest,
                         !.pending = [from |-> source, digest |-> digest,
                                       linked |-> "current"]]

MarkIssue(a) == IF a.open = None THEN a
                ELSE [a EXCEPT !.open.issue = TRUE, !.changed = TRUE]

\* Mutant: on a day that is open already the contracts are not compared.
CanExpectUncompared(a, d, uni) == BridgeCovers(a, d) \/ ~MovesBack(a, d)

(* set_expected_contracts: the contracts of a day at the start of a process. *)
CanExpect(a, d, uni) ==
  \/ BridgeCovers(a, d)
  \/ ~MovesBack(a, d) /\ (a.open # None /\ a.open.day = d => a.open.uni = uni)

SetExpected(a, d, listed) ==
  LET uni == listed \cap OiContracts
      b   == IF BridgeCovers(a, d) \/ (a.open # None /\ a.open.day = d) THEN a
             ELSE Rollover(a, d, uni, FALSE)
  IN  [b EXCEPT !.catalog = listed]

(* refresh_contract_catalog: a change of the day's contracts after its first tick counts *)
(* against the day.                                                                      *)
RefreshCatalog(a, d, listed) ==
  LET uni == listed \cap OiContracts
      b   == IF BridgeCovers(a, d) THEN a
             ELSE IF a.open = None \/ a.open.day # d THEN Rollover(a, d, uni, FALSE)
             ELSE IF a.open.uni = uni THEN a
             ELSE [a EXCEPT !.open.uni = uni, !.changed = TRUE,
                            !.open.issue = @ \/ a.open.got # {}]
  IN  [b EXCEPT !.catalog = listed]

(* note_raw_market_connection *)
NoteDown(a) == LET b == IF a.up /\ a.seen THEN MarkIssue(a) ELSE a
               IN  [b EXCEPT !.up = FALSE, !.pending = None]
NoteLogin(a) == [a EXCEPT !.up = TRUE,
                          !.linked = IF @ = "current" THEN "stale" ELSE @,
                          !.pending = IF @ = None THEN None ELSE [@ EXCEPT !.linked = "stale"]]

(* observe_raw_tick, once the day is open and the contract expected: confirm the change of *)
(* day, note the connection, add to the evidence.                                          *)
Confirm(a, d) ==
  IF a.pending = None THEN a
  ELSE IF d = a.pending.from + 1 /\ a.up /\ a.pending.linked = "current"
    THEN [a EXCEPT !.moves[a.pending.from] = a.pending.digest, !.pending = None, !.changed = TRUE]
    ELSE [a EXCEPT !.pending = None]
Link(a) == IF ~a.up THEN a
           ELSE IF a.linked = None THEN [a EXCEPT !.linked = "current"]
           ELSE IF a.linked = "stale" THEN MarkIssue(a) ELSE a
Observe(a, t) ==
  [Link(Confirm(a, t.day)) EXCEPT !.seen = TRUE, !.changed = TRUE,
                                  !.open.got = @ \cup {<<t.contract, t.phase>>}]

Durable(a) == [completed |-> a.completed, moves |-> a.moves, open |-> a.open]
Restored(rec) == [completed |-> rec.completed, moves |-> rec.moves, open |-> rec.open,
                  seen |-> FALSE, up |-> FALSE, linked |-> None, pending |-> None,
                  catalog |-> {}, changed |-> FALSE]

-----------------------------------------------------------------------------
(* The store: the previous generation, then the current one *)

(* _load_unlocked: the previous file is the current one, or its parent, or neither is due. *)
Readable == \/ disk.prev \in {"same", "parent"}
            \/ disk.prev = None /\ disk.first

NoSave == [at |-> None, snap |-> None]
Nobody == [completed |-> [d \in Days |-> None], moves |-> [d \in Days |-> None], open |-> None,
           seen |-> FALSE, up |-> FALSE, linked |-> None, pending |-> None,
           catalog |-> {}, changed |-> FALSE]
Rest == [at |-> "rest", day |-> 0, new |-> {}, done |-> 0, noted |-> {}, error |-> FALSE]

EvidenceInit ==
  /\ stage = "boot" /\ day = 1 /\ phase = "close" /\ ohlcThrough = 1
  /\ up = FALSE /\ flight = None /\ proc = None
  /\ agg = Nobody /\ worker = Rest /\ subscribed = {} /\ saver = NoSave
  /\ disk = [rec |-> None, prev |-> None, first |-> TRUE]
  /\ chain = {} /\ watched = {}
  /\ faults = 0 /\ starts = 0

(* The bootstrap has committed: its bridge day is the whole evidence. *)
OpenMarket ==
  /\ stage = "boot" /\ boot.at = "done"
  /\ commit = Idle /\ guards = {} /\ TokenMatches("ohlc")   \* later refreshes are RefreshOhlc's
  /\ stage' = "market"
  /\ booted' = 0 /\ refreshed' = 0
  /\ disk' = [disk EXCEPT !.rec = [Durable(Nobody) EXCEPT !.completed[1] = Bridge]]
  /\ UNCHANGED <<files, guards, commit, oi, boot, marketVars, volatileVars, chain, watched, faults, starts>>

-----------------------------------------------------------------------------
(* The exchange *)

(* A tick that repeats what is already in the evidence and in the connection is left out. *)
Stale(c) == agg.open # None /\ day \in chain /\ <<c, phase>> \in agg.open.got

Emit(c) ==
  /\ Running /\ ~Closing /\ up
  /\ c \in subscribed /\ c \in Listing[day]
  /\ flight = None       \* bound: one tick on its way
  /\ ~Stale(c)
  /\ c \in Thin => \A f \in Listing[day] \ Thin :
                     agg.open # None /\ agg.open.day = day /\ <<f, phase>> \in agg.open.got
  /\ flight' = [contract |-> c, day |-> day, phase |-> phase, checked |-> FALSE]
  /\ UNCHANGED <<stage, marketVars, up, proc, agg, worker, subscribed, saver, disk,
                 chain, watched, faults, starts>>

(* A session lasts hours and a round of maintenance, tried again after a failure, seconds: *)
(* one has succeeded in each session, unless the process was down or leaving.              *)
RoundDone == ~Running \/ Closing \/ worker.done = day

Advance ==
  /\ RoundDone
  /\ day < MaxDay        \* the last day has only its first session
  /\ \/ phase = "open" /\ phase' = "close" /\ UNCHANGED day
     \/ phase = "close" /\ phase' = "open" /\ day' = day + 1
  /\ UNCHANGED <<stage, ohlcThrough, volatileVars, disk, chain, watched,
                 faults, starts>>

(* refresh_directional_ohlc_cache, on a day: every completed day before it. *)
RefreshOhlc ==
  /\ ohlcThrough < day - 1
  /\ ohlcThrough' = day - 1
  /\ UNCHANGED <<stage, day, phase, volatileVars, disk, chain, watched, faults, starts>>

-----------------------------------------------------------------------------
(* The market-data thread *)

Disconnect ==
  /\ Running /\ up /\ faults < MaxFaults
  /\ up' = FALSE /\ faults' = faults + 1
  /\ agg' = NoteDown(agg)
  /\ chain' = {}
  /\ UNCHANGED <<stage, marketVars, flight, proc, worker, subscribed, saver, disk,
                 watched, starts>>

LogIn ==
  /\ Running /\ ~up
  /\ up' = TRUE
  /\ agg' = NoteLogin(agg)
  /\ UNCHANGED <<stage, marketVars, flight, proc, worker, subscribed, saver, disk,
                 chain, watched, faults, starts>>

-----------------------------------------------------------------------------
(* The event thread *)

(* A broker error ends the collector; the live process halts and goes on observing. *)
AfterError == IF proc.kind = "collector" THEN [proc EXCEPT !.closing = TRUE] ELSE proc

(* _on_tick converts only a tick of the trading day it reads; the observer comes next. *)
Convert ==
  /\ flight # None /\ ~flight.checked
  /\ IF flight.day = day
       THEN flight' = [flight EXCEPT !.checked = TRUE] /\ UNCHANGED proc
       ELSE flight' = None /\ proc' = AfterError
  /\ UNCHANGED <<stage, marketVars, up, agg, worker, subscribed, saver, disk,
                 chain, watched, faults, starts>>

(* The ghost of a watched change: ticks of two successive days reached the observer in one *)
(* connection, the second no earlier than the first. The tick of a contract that the new    *)
(* day does not expect shows that day as well, and is no evidence of it.                    *)
Shown(d) == IF up THEN chain \cup {d} ELSE chain
Watched(d) == watched \cup {e \in Adjacent : {e, e + 1} \subseteq Shown(d)}
Witness(d) == chain' = Shown(d) /\ watched' = Watched(d)

(* The day of the tick is opened by it when no maintenance has done so. *)
OpenedFor(a, t) ==
  IF a.open # None /\ a.open.day = t.day THEN a
  ELSE Rollover(a, t.day, a.catalog \cap OiContracts, TRUE)

ObserveTick ==
  /\ flight # None /\ flight.checked
  /\ flight' = None
  /\ IF Closing \/ flight.contract \notin OiContracts      \* no observer, or not its product
       THEN UNCHANGED <<agg, proc, chain, watched>>
     ELSE IF agg.open = None /\ MovesBack(agg, flight.day)   \* the bridge day: nothing is open
       THEN Witness(flight.day) /\ UNCHANGED <<agg, proc>>
     ELSE IF agg.open # None /\ flight.day < agg.open.day    \* would revise a completed day
       THEN proc' = AfterError /\ UNCHANGED <<agg, chain, watched>>
     ELSE LET a == OpenedFor(agg, flight)
          IN  IF flight.contract \notin a.open.uni
                THEN /\ agg' = MarkIssue(a)
                     /\ watched' = Watched(flight.day)
                     /\ UNCHANGED <<proc, chain>>
                ELSE /\ agg' = Observe(a, flight)
                     /\ Witness(flight.day)
                     /\ UNCHANGED proc
  /\ UNCHANGED <<stage, marketVars, up, worker, subscribed, saver, disk, faults, starts>>

-----------------------------------------------------------------------------
(* The maintenance of subscriptions: a thread of the live process, a part of the collector's *)
(* main loop                                                                                 *)

(* The collector has one thread for this and for saving, and turns to it on a new day. The *)
(* live process makes a round every five seconds; those that can find nothing new and end  *)
(* within the first session of the day they read are left out.                             *)
MayMaintain == /\ Running
               /\ IsLive \/ (~Closing /\ saver.at = None)
MayStartRound == /\ MayMaintain /\ (IsLive => ~Closing)
                 /\ worker.done # day \/ (IsLive /\ phase = "close")

ReadDay ==
  /\ worker.at = "rest" /\ MayStartRound
  /\ worker' = [worker EXCEPT !.at = "read", !.day = day]
  /\ UNCHANGED <<stage, marketVars, up, flight, proc, agg, subscribed, saver, disk,
                 chain, watched, faults, starts>>

(* The collector raises; the live process keeps the error for its next checkpoint. *)
RoundFails ==
  /\ worker' = [worker EXCEPT !.at = "rest", !.error = IsLive]
  /\ proc' = AfterError

(* The catalog is queried after the day was read: the collector insists on the same day. *)
Refresh ==
  /\ worker.at = "read" /\ MayMaintain
  /\ IF (~IsLive /\ worker.day # day) \/ (MovesBack(agg, worker.day) /\ ~BridgeCovers(agg, worker.day))
       THEN RoundFails /\ UNCHANGED agg
       ELSE /\ agg' = RefreshCatalog(agg, worker.day, Listing[day])
            /\ worker' = [worker EXCEPT !.at = "refreshed", !.new = Listing[day] \ worker.noted]
            /\ UNCHANGED proc
  /\ UNCHANGED <<stage, marketVars, up, flight, subscribed, saver, disk,
                 chain, watched, faults, starts>>

Subscribe ==
  /\ worker.at = "refreshed" /\ MayMaintain
  /\ subscribed' = subscribed \cup worker.new
  /\ worker' = [worker EXCEPT !.at = "subscribed"]
  /\ UNCHANGED <<stage, marketVars, up, flight, proc, agg, saver, disk,
                 chain, watched, faults, starts>>

(* note_contract_subscriptions: the collector reports the contracts of its products, the   *)
(* live process all of them; a subscription after the first evidence counts against the day *)
Reported == IF IsLive THEN worker.new ELSE worker.new \cap OiContracts
CanNote(a) == a.open # None /\ a.open.day = worker.day /\ Reported \subseteq a.open.uni

NoteSubscriptions ==
  /\ worker.at = "subscribed" /\ MayMaintain
  /\ IF Reported # {} /\ ~CanNote(agg)
       THEN RoundFails /\ UNCHANGED agg
       ELSE /\ agg' = IF Reported # {} /\ agg.open.got # {} THEN MarkIssue(agg) ELSE agg
            /\ worker' = [Rest EXCEPT !.done = worker.day,
                                      !.noted = worker.noted \cup worker.new]
            /\ UNCHANGED proc
  /\ UNCHANGED <<stage, marketVars, up, flight, subscribed, saver, disk,
                 chain, watched, faults, starts>>

-----------------------------------------------------------------------------
(* The main loop: checkpoint *)

SaverFree == /\ Running /\ saver.at = None
             /\ IsLive => ~worker.error
             /\ ~IsLive => worker.at = "rest"

Snapshot ==
  /\ SaverFree /\ agg.changed
  /\ flight = None       \* a tick on its way is in no snapshot, before or after
  /\ saver' = [at |-> "previous", snap |-> Durable(agg)]
  /\ agg' = [agg EXCEPT !.changed = FALSE]
  /\ UNCHANGED <<stage, marketVars, up, flight, proc, worker, subscribed, disk,
                 chain, watched, faults, starts>>

\* Mutant: the current file is replaced before it has become the previous one.
ReplaceCurrentFirst ==
  /\ saver.at = "previous"
  /\ disk' = [rec |-> saver.snap, prev |-> IF disk.first THEN None ELSE "older", first |-> FALSE]
  /\ saver' = [saver EXCEPT !.at = "current"]
  /\ UNCHANGED <<stage, marketVars, up, flight, proc, agg, worker, subscribed,
                 chain, watched, faults, starts>>

ReplacePrevious ==
  /\ saver.at = "previous"
  /\ disk' = [disk EXCEPT !.prev = "same"]
  /\ saver' = [saver EXCEPT !.at = "current"]
  /\ UNCHANGED <<stage, marketVars, up, flight, proc, agg, worker, subscribed,
                 chain, watched, faults, starts>>

ReplaceCurrent ==
  /\ saver.at = "current"
  /\ disk' = [rec |-> saver.snap, prev |-> "parent", first |-> FALSE]
  /\ saver' = NoSave
  /\ UNCHANGED <<stage, marketVars, up, flight, proc, agg, worker, subscribed,
                 chain, watched, faults, starts>>

(* A failing save leaves the files as far as it came; what it would have saved is still new. *)
SaveFails ==
  /\ saver.at # None /\ faults < MaxFaults
  /\ faults' = faults + 1
  /\ saver' = NoSave
  /\ agg' = [agg EXCEPT !.changed = TRUE]
  /\ proc' = AfterError
  /\ UNCHANGED <<stage, marketVars, up, flight, worker, subscribed, disk,
                 chain, watched, starts>>

-----------------------------------------------------------------------------
(* Processes *)

(* The collector follows on the evidence's last day or on the one after it, by the OHLC *)
(* cache's calendar; the live process starts on any day.                                *)
Anchor == IF disk.rec.open # None THEN disk.rec.open.day ELSE LastCompleted(disk.rec)
Follows == day > Anchor => ohlcThrough = Anchor

Start(kind) ==
  /\ proc = None /\ starts < MaxStarts
  /\ Readable
  /\ kind = "collector" => day >= Anchor /\ Follows
  /\ CanExpect(Restored(disk.rec), day, Expected(day))
  /\ proc' = [kind |-> kind, closing |-> FALSE]
  /\ up' = TRUE
  /\ agg' = NoteLogin(SetExpected(Restored(disk.rec), day, Listing[day]))
  /\ subscribed' = Listing[day]
  /\ worker' = [Rest EXCEPT !.done = day, !.noted = Listing[day]]
  /\ starts' = starts + 1
  /\ UNCHANGED <<stage, marketVars, flight, saver, disk, chain, watched, faults>>

Leave ==
  /\ Running /\ ~Closing
  /\ proc' = [proc EXCEPT !.closing = TRUE]
  /\ UNCHANGED <<stage, marketVars, up, flight, agg, worker, subscribed, saver, disk,
                 chain, watched, faults, starts>>

Forgotten ==
  /\ proc' = None /\ up' = FALSE /\ flight' = None
  /\ agg' = Nobody /\ worker' = Rest /\ subscribed' = {} /\ saver' = NoSave
  /\ chain' = {}
  /\ UNCHANGED <<stage, marketVars, disk, watched, faults, starts>>

(* A clean exit ends with a last checkpoint, unless that is refused; a death does not. *)
Exit == Closing /\ saver.at = None /\ (agg.changed => worker.error) /\ Forgotten
Die  == Running /\ Forgotten

(* What happens between a snapshot and its two writes is not in the snapshot and makes the *)
(* aggregator changed again, as if it came after the save: only a failing write or a death *)
(* can tell the difference, and only these come in between here.                           *)
MarketNext ==
  \/ /\ saver.at = None
     /\ \/ \E c \in Contracts : Emit(c)
        \/ Advance \/ RefreshOhlc
        \/ Disconnect \/ LogIn
        \/ Convert \/ ObserveTick
        \/ ReadDay \/ Refresh \/ Subscribe \/ NoteSubscriptions
        \/ Snapshot
        \/ \E kind \in {"live", "collector"} : Start(kind)
        \/ Leave \/ Exit
  \/ ReplacePrevious \/ ReplaceCurrent \/ SaveFails
  \/ Die

Init == BootInit /\ EvidenceInit

Next ==
  \/ stage = "boot" /\ BootNext /\ UNCHANGED evidenceVars
  \/ OpenMarket
  \/ stage = "market" /\ MarketNext /\ UNCHANGED bootVars

Spec == Init /\ [][Next]_vars

-----------------------------------------------------------------------------
(* Properties *)

(* load_stress90_account_day_continuity: what a later process accepts as proof that a day *)
(* was followed, without a gap, by the next.                                              *)
Continuity(d) ==
  /\ disk.rec # None /\ Readable
  /\ d + 1 \in Days /\ d \in Adjacent
  /\ ohlcThrough >= d
  /\ disk.rec.completed[d] # None /\ Complete(disk.rec.completed[d])
  /\ disk.rec.moves[d] = disk.rec.completed[d]

(* Whatever the order of ticks, day changes, new contracts, disconnections, saves and      *)
(* deaths: where the files prove the continuity of a day and its successor, the change was *)
(* watched in one connection, and the evidence covers what the exchange really listed.     *)
ContinuityIsTrue ==
  \A d \in Days : Continuity(d) =>
    /\ d \in watched
    /\ disk.rec.completed[d].uni = Expected(d)

(* The other direction: a running process that saw ticks of a complete live day and of the *)
(* next in one connection holds the proof of the change, whoever moved it to the new day    *)
(* first, the tick or the maintenance.                                                      *)
ObservedRolloverIsRecorded ==
  \A d \in Adjacent \ {1} :
    /\ {d, d + 1} \subseteq chain
    /\ agg.completed[d] # None /\ Complete(agg.completed[d])
    => agg.moves[d] # None

(* A completed day may have been consumed by a decision: once saved, its evidence and the   *)
(* proof of its end never change again, in no later process either.                         *)
SavedEvidenceIsFinal ==
  [][disk.rec # None =>
       \A d \in Days : /\ disk.rec.completed[d] # None
                            => disk'.rec.completed[d] = disk.rec.completed[d]
                       /\ disk.rec.moves[d] # None
                            => disk'.rec.moves[d] = disk.rec.moves[d]]_vars

(* The evidence stays readable: a save replaces two files, and a failure or a death between *)
(* the two, on the first save or a later one, leaves a pair that the next load accepts.     *)
EvidenceStaysReadable == stage = "market" => Readable

==============================================================================
