--------------------------- MODULE OiEvidenceProofs ---------------------------
(* Proofs about OiEvidence and the Bootstrap it starts from.                   *)
(* Two processes of the new directory, four activities of the market and a    *)
(* store with two files meet in one invariant, Inv, in three parts.            *)
(*   - BootInv: which witnesses stand at each place of a commit of the cache,  *)
(*     which tokens the bootstrap holds, and that the evidence of the bridge   *)
(*     day is written over prepared files only.                                *)
(*   - Recorded: what memory and the files hold is in order and true; what is  *)
(*     new in memory extends what was saved.                                   *)
(*   - EvidenceInv: what memory knows of the connection agrees with the days   *)
(*     really seen in it (Connected), every round of maintenance that was done *)
(*     has opened its day with the contracts the exchange lists, or the day    *)
(*     can no longer be complete (Rounds), and a tick that waits in the queue  *)
(*     is no later than what the exchange and the maintenance have reached     *)
(*     (InFlight).                                                             *)
(* The last two are needed for the truth of a proof of continuity: a day is    *)
(* complete when all it expects was seen, and only Rounds says that it expects *)
(* enough by the time its last session is observed.                            *)
EXTENDS OiEvidence, TLAPS
(***************************************************************************)
(* The bootstrap.                                                          *)
(***************************************************************************)

Files    == {"ohlc", "activity", "seed", "policy"}
Versions == [by : {"nobody", "boot", "refresh"}, content : {"none", "half", "first", "later"}]
Places   == {"none", "ohlc", "activity", "seed", "policy", "checking", "lineage", "bridge",
             "done", "failed", "rollback"}
Writing  == {"pending", "mutated", "written", "linked", "unpended", "terminal", "unlinked"}
Fresh    == {Absent, AsCreated, [by |-> "boot", content |-> "half"]}

BootTyped ==
    /\ files \in [Files -> Versions]
    /\ guards \subseteq {"pending", "cleanup", "terminal"}
    /\ commit = Idle \/ commit \in [who : {"boot", "refresh"}, at : Writing]
    /\ oi \in {"absent", "marked", "bridge"}
    /\ boot \in [at : Places, tokens : SUBSET Files]

\* Nobody but a bootstrap touches the three files beside the cache.
OwnFiles == \A f \in Files \ {"ohlc"} : files[f] \in Fresh

\* The witnesses that stand at each place of a commit, and what the cache is there.
Guarded ==
    /\ commit.at \in {"pending", "mutated", "written"} => guards = {"pending"}
    /\ commit.at = "linked"   => guards = {"pending", "cleanup"}
    /\ commit.at = "unpended" => guards = {"cleanup"}
    /\ commit.at = "terminal" => guards = {"cleanup", "terminal"}
    /\ commit.at = "unlinked" => guards = {"terminal"}
    /\ files["ohlc"].content = "half" => commit.at = "mutated" \/ (commit = Idle /\ guards # {})
    /\ commit.who = "boot" => boot.at = "ohlc"

\* The tokens a bootstrap has when it comes to a file.
Tokens ==
    /\ boot.at = "activity" => boot.tokens = {"ohlc"}
    /\ boot.at = "seed"     => boot.tokens = {"ohlc", "activity"}
    /\ boot.at = "policy"   => boot.tokens = {"ohlc", "activity", "seed"}
    /\ boot.at = "checking" => boot.tokens = Files

Prepared ==
    /\ \A f \in Files \ {"ohlc"} : files[f] = AsCreated
    /\ files["ohlc"].by = "boot"

Committed ==
    /\ oi = "bridge" => boot.at \in {"none", "done", "failed"}
    /\ oi = "bridge" \/ boot.at \in {"lineage", "bridge"} => Prepared

BootInv == BootTyped /\ OwnFiles /\ Guarded /\ Tokens /\ Committed

(***************************************************************************)
(* The types of the evidence.                                              *)
(***************************************************************************)

Completed == [Days -> Digests \cup {None}]
Aggregators ==
    [completed : Completed, moves : Completed, open : OpenDays \cup {None},
     seen : BOOLEAN, up : BOOLEAN, linked : {None, "current", "stale"},
     pending : Pendings \cup {None}, catalog : SUBSET Contracts, changed : BOOLEAN]
Workers == [at : {"rest", "read", "refreshed", "subscribed"}, day : 0..MaxDay,
            new : SUBSET Contracts, done : 0..MaxDay, noted : SUBSET Contracts,
            error : BOOLEAN]

Typed ==
    /\ stage \in {"boot", "market"} /\ day \in Days /\ phase \in AllPhases
    /\ up \in BOOLEAN /\ flight \in Ticks \cup {None} /\ proc \in Process \cup {None}
    /\ agg \in Aggregators /\ worker \in Workers /\ subscribed \subseteq Contracts
    /\ saver = NoSave \/ saver \in [at : {"previous", "current"}, snap : Snapshots]
    /\ disk \in [rec : Snapshots \cup {None}, prev : {None, "same", "parent"}, first : BOOLEAN]
    /\ chain \subseteq Days /\ watched \subseteq Days

\* What there is before the market, and without a process.
Placed ==
    /\ stage = "boot" => proc = None /\ disk.rec = None
    /\ stage = "market" => disk.rec # None
    /\ proc = None => agg = Nobody /\ flight = None /\ saver = NoSave /\ ~up
    /\ Running => agg.up = up
    /\ ~up => chain = {}
    /\ worker.at # "rest" => Running /\ worker.day \in Days
    /\ saver.at # None => saver.snap = Durable(agg)

(***************************************************************************)
(* A record of evidence, in memory or in a file.                           *)
(***************************************************************************)

\* Only days before the open one are completed, and a day change is proved for one of them.
Ordered(r) ==
    /\ r.open = None => \A d \in Days : r.completed[d] # None <=> d = 1
    /\ r.open # None => \A d \in Days : r.completed[d] # None => d < r.open.day
    /\ \A d \in Days : r.moves[d] # None => r.moves[d] = r.completed[d]

SeenIn(ev, p) == \E c \in Contracts : <<c, p>> \in ev.got
WholeDay(ev) == SeenIn(ev, "open") /\ SeenIn(ev, "close")

\* The open day, unless something was noted against it, has only seen contracts it expects;
\* and once it has seen both sessions it expects what the exchange lists.
OpenTrueAt(r, d, p) ==
    r.open # None =>
      /\ \A e \in r.open.got : r.open.issue \/ e[1] \in r.open.uni
      /\ WholeDay(r.open) => r.open.issue \/ r.open.uni = Expected(r.open.day)
      /\ SeenIn(r.open, "close") => d > r.open.day \/ (d = r.open.day /\ p = "close")
OpenTrue(r) == OpenTrueAt(r, day, phase)

True(d, ev) == Complete(ev) => ev.uni = Expected(d)
Proven(r) == \A d \in Days : r.moves[d] # None => d \in watched /\ True(d, r.moves[d])

Extends(r, s) ==
    \A d \in Days : /\ r.completed[d] # None => s.completed[d] = r.completed[d]
                    /\ r.moves[d] # None => s.moves[d] = r.moves[d]

Recorded ==
    /\ disk.rec # None => Ordered(disk.rec) /\ OpenTrue(disk.rec) /\ Proven(disk.rec)
    /\ Running => /\ Ordered(agg) /\ OpenTrue(agg) /\ Proven(agg)
                  /\ Extends(disk.rec, agg)

(***************************************************************************)
(* The connection.                                                         *)
(***************************************************************************)

\* A day change that waits is of a completed day that was seen to its end. Here and below,
\* c are the days seen in the connection.
WaitingIn(a, c) ==
    a.pending # None =>
      LET d == a.pending.from
      IN  /\ a.open # None /\ d < a.open.day /\ d \in Adjacent
          /\ a.completed[d] = a.pending.digest /\ a.moves[d] = None
          /\ True(d, a.pending.digest)
          /\ a.pending.linked = "current" => d \in c

Seeing(a) == a.seen => a.open # None /\ a.open.got # {}

\* The days of the chain, and what the aggregator knows of the connection.
LinkedIn(a, c) ==
    /\ c # {} => a.up
    /\ \A d \in c \ {1} : a.open # None /\ d <= a.open.day
    /\ a.open # None /\ a.open.day \in c =>
         a.seen /\ (a.linked = "current" \/ a.open.issue)
    /\ a.open # None /\ a.linked = "current" /\ a.up => a.open.day \in c

\* A change of day within the connection is proved, or waits for its first tick.
Tied(a, c, d) ==
    \/ a.moves[d] # None
    \/ /\ d + 1 \notin c
       /\ a.open.day = d + 1 => /\ a.pending # None /\ a.pending.from = d
                                /\ a.pending.linked = "current"
ChangedIn(a, c) ==
    \A d \in (c \cap Adjacent) \ {1} :
      a.open.day > d /\ Complete(a.completed[d]) => Tied(a, c, d)

Connected(a, c) == WaitingIn(a, c) /\ Seeing(a) /\ LinkedIn(a, c) /\ ChangedIn(a, c)

(***************************************************************************)
(* The maintenance of a process that is not leaving.                       *)
(***************************************************************************)

Working == Running /\ ~Closing

\* Day d has been opened with its contracts; or it is over, and will not see both sessions.
RoundOK(d) ==
    \/ agg.open = None /\ d = 1
    \/ /\ agg.open # None
       /\ \/ agg.open.day > d
          \/ /\ agg.open.day = d
             /\ \/ agg.open.uni = Expected(d) \/ agg.open.issue
                \/ /\ day > d
                   /\ \/ agg.open.got = {}
                      \/ /\ ~WholeDay(agg.open)
                         /\ flight # None => flight.day # d

Rounds ==
    Working =>
      /\ worker.done \in 1..day /\ RoundOK(worker.done)
      /\ phase = "close" => worker.done = day
      /\ worker.at # "rest" =>
           \/ worker.day = day
           \/ worker.done = worker.day /\ day = worker.day + 1 /\ phase = "open"
      /\ worker.at \in {"refreshed", "subscribed"} => RoundOK(worker.day)

InFlight ==
    flight # None =>
      /\ flight.day <= day
      /\ flight.day = day /\ flight.phase = "close" => phase = "close"
      /\ flight.phase = "open" /\ agg.open # None /\ agg.open.day = flight.day
           => ~SeenIn(agg.open, "close")
      /\ Working /\ flight.phase = "close" => flight.day <= worker.done

EvidenceInv == Connected(agg, chain) /\ Rounds /\ InFlight
OiInv == Typed /\ Placed /\ Readable /\ Recorded /\ EvidenceInv
Inv == BootInv /\ OiInv

-----------------------------------------------------------------------------
(***************************************************************************)
(* The bootstrap's steps.                                                  *)
(***************************************************************************)

\* A new directory.
LEMMA BootBegins == BootInit => BootInv
<1> SUFFICES ASSUME BootInit PROVE BootInv
  OBVIOUS
<1>1. BootTyped
  BY DEF BootInit, BootTyped, Files, Versions, Absent, Idle, Places
<1>2. OwnFiles
  BY DEF BootInit, OwnFiles, Files, Fresh, Absent
<1>3. Guarded /\ Tokens /\ Committed
  BY DEF BootInit, Guarded, Tokens, Committed, Idle, Absent, Files
<1>. QED
  BY <1>1, <1>2, <1>3 DEF BootInv

\* What comes after each place of a commit, and the witnesses then.
LEMMA StepsOfCommit ==
    /\ CommitSteps["pending"] = "mutated" /\ CommitSteps["mutated"] = "written"
    /\ CommitSteps["written"] = "linked" /\ CommitSteps["linked"] = "unpended"
    /\ CommitSteps["unpended"] = "terminal" /\ CommitSteps["terminal"] = "unlinked"
    /\ CommitSteps["unlinked"] = "done"
    /\ GuardsAfter("mutated") = guards /\ GuardsAfter("written") = guards
    /\ GuardsAfter("linked") = guards \cup {"cleanup"}
    /\ GuardsAfter("unpended") = guards \ {"pending"}
    /\ GuardsAfter("terminal") = guards \cup {"terminal"}
    /\ GuardsAfter("unlinked") = guards \ {"cleanup"}
    /\ GuardsAfter("done") = guards \ {"terminal"}
  BY DEF CommitSteps, GuardsAfter

\* A commit of the cache goes one step on.
LEMMA CommitStepSound ==
    ASSUME BootInv, CommitStep
    PROVE  BootInv'
<1> DEFINE next == CommitSteps[commit.at]
           file == FileAfter(next)
<1>1. /\ commit # Idle /\ commit \in [who : {"boot", "refresh"}, at : Writing]
      /\ guards' = GuardsAfter(next) /\ files' = [files EXCEPT !["ohlc"] = file]
      /\ commit' = IF next = "done" THEN Idle ELSE [commit EXCEPT !.at = next]
      /\ boot' = IF next = "done" /\ commit.who = "boot"
                   THEN [at |-> "activity", tokens |-> {"ohlc"}] ELSE boot
      /\ oi' = oi
  BY DEF CommitStep, BootInv, BootTyped
<1>2. /\ commit.at \in {"pending", "mutated"} => guards' = guards
      /\ commit.at = "written" => guards' = guards \cup {"cleanup"}
      /\ commit.at = "linked" => guards' = guards \ {"pending"}
      /\ commit.at = "unpended" => guards' = guards \cup {"terminal"}
      /\ commit.at = "terminal" => guards' = guards \ {"cleanup"}
      /\ commit.at = "unlinked" => guards' = guards \ {"terminal"}
  BY <1>1, StepsOfCommit DEF Writing
<1>3. /\ commit.at = "pending" => next = "mutated"
      /\ commit.at = "mutated" => next = "written"
      /\ commit.at = "written" => next = "linked"
      /\ commit.at = "linked" => next = "unpended"
      /\ commit.at = "unpended" => next = "terminal"
      /\ commit.at = "terminal" => next = "unlinked"
      /\ commit.at = "unlinked" => next = "done"
  BY StepsOfCommit
<1>4. /\ file \in Versions /\ files["ohlc"] \in Versions
      /\ commit.at = "pending" => file.content = "half"
      /\ commit.at = "mutated" => file.content # "half"
      /\ commit.at \notin {"pending", "mutated"} => file = files["ohlc"]
      /\ files["ohlc"].by = "boot" => file.by = "boot"
  BY <1>1, <1>3 DEF FileAfter, BootInv, BootTyped, Versions, Files, Absent, Writing
<1>5. /\ files' \in [Files -> Versions] /\ files'["ohlc"] = file
      /\ \A f \in Files \ {"ohlc"} : files'[f] = files[f]
  BY <1>1, <1>4 DEF BootInv, BootTyped, Files
<1>6. /\ next # "done" => commit' = [who |-> commit.who, at |-> next] /\ next \in Writing
                          /\ boot' = boot
      /\ next = "done" => commit' = [who |-> "nobody", at |-> "none"] /\ commit.at = "unlinked"
  BY <1>1, <1>3 DEF Writing, Idle
<1> HIDE DEF next, file
<1>7. Guarded
  BY DEF BootInv
<1>8. BootTyped'
  <2>1. guards' \subseteq {"pending", "cleanup", "terminal"}
    BY <1>1, <1>2 DEF BootInv, BootTyped, Writing
  <2>2. commit' = Idle \/ commit' \in [who : {"boot", "refresh"}, at : Writing]
    BY <1>1, <1>6 DEF Idle
  <2>3. boot' \in [at : Places, tokens : SUBSET Files]
    BY <1>1, <1>6 DEF BootInv, BootTyped, Places, Files
  <2>. QED
    BY <1>1, <1>5, <2>1, <2>2, <2>3 DEF BootInv, BootTyped
<1>9. Guarded'
  <2>1. CASE next = "done"
    <3>1. /\ commit'.at = "none" /\ commit'.who = "nobody" /\ commit.at = "unlinked"
          /\ file.content # "half"
      BY <2>1, <1>1, <1>4, <1>6, <1>7 DEF Guarded, Idle, Writing
    <3>. QED
      BY <3>1, <1>5 DEF Guarded
  <2>2. CASE next # "done"
    <3>1. commit'.who = commit.who /\ commit'.at = next /\ boot' = boot
      BY <2>2, <1>6
    <3>2. /\ commit'.at \in {"pending", "mutated", "written"} => guards' = {"pending"}
          /\ commit'.at = "linked"   => guards' = {"pending", "cleanup"}
          /\ commit'.at = "unpended" => guards' = {"cleanup"}
          /\ commit'.at = "terminal" => guards' = {"cleanup", "terminal"}
          /\ commit'.at = "unlinked" => guards' = {"terminal"}
      BY <3>1, <1>1, <1>2, <1>3, <1>7 DEF Guarded, Writing
    <3>3. file.content = "half" => next = "mutated"
      BY <1>1, <1>3, <1>4, <1>7 DEF Guarded, Writing, Idle
    <3>. QED
      BY <3>1, <3>2, <3>3, <1>5, <1>7 DEF Guarded
  <2>. QED
    BY <2>1, <2>2
<1>10. OwnFiles'
  BY <1>5 DEF BootInv, OwnFiles, Fresh, Absent, AsCreated
<1>11. boot' # boot => boot.at = "ohlc" /\ boot' = [at |-> "activity", tokens |-> {"ohlc"}]
  BY <1>1, <1>7 DEF Guarded
<1>12. Tokens'
  BY <1>11 DEF BootInv, Tokens
<1>13. Committed'
  <2>1. Prepared => Prepared'
    BY <1>4, <1>5 DEF Prepared, AsCreated, Files
  <2>. QED
    BY <2>1, <1>1, <1>11 DEF BootInv, Committed
<1>. QED
  BY <1>8, <1>9, <1>10, <1>12, <1>13 DEF BootInv

\* A failing commit leaves a witness, a new one if none was left.
LEMMA CommitFailsSound ==
    ASSUME BootInv, CommitFails
    PROVE  BootInv'
<1>1. /\ commit # Idle /\ commit' = Idle /\ files' = files /\ oi' = oi
      /\ guards' = IF guards = {} THEN {"cleanup"} ELSE guards
      /\ boot' = IF commit.who = "boot" THEN [boot EXCEPT !.at = "rollback"] ELSE boot
  BY DEF CommitFails
<1>2. /\ commit'.at = "none" /\ commit'.who = "nobody" /\ guards' # {}
  BY <1>1 DEF Idle
<1>3. /\ boot' \in [at : Places, tokens : SUBSET Files]
      /\ boot' = boot \/ (boot.at = "ohlc" /\ boot'.at = "rollback")
  BY <1>1 DEF BootInv, BootTyped, Places, Guarded
<1>4. BootTyped'
  BY <1>1, <1>3 DEF BootInv, BootTyped
<1>5. Guarded'
  BY <1>1, <1>2 DEF BootInv, Guarded, Idle
<1>6. OwnFiles' /\ Tokens'
  BY <1>1, <1>3 DEF BootInv, OwnFiles, Tokens
<1>7. Committed'
  BY <1>1, <1>3 DEF BootInv, Committed, Prepared
<1>. QED
  BY <1>4, <1>5, <1>6, <1>7 DEF BootInv

\* A commit begins, by the refresh or by the bootstrap.
LEMMA BeginCommitSound ==
    ASSUME BootInv, NEW who \in {"boot", "refresh"}, BeginCommit(who), boot' = boot,
           files' = files, oi' = oi, who = "boot" => boot.at = "ohlc",
           files["ohlc"].content # "half"
    PROVE  BootInv'
<1>1. /\ guards' = {"pending"} /\ commit' = [who |-> who, at |-> "pending"]
      /\ commit'.at = "pending" /\ commit'.who = who
  BY DEF BeginCommit
<1>2. BootTyped'
  BY <1>1 DEF BootInv, BootTyped, Writing
<1>3. Guarded'
  BY <1>1 DEF BootInv, Guarded
<1>4. OwnFiles' /\ Tokens' /\ Committed'
  BY DEF BootInv, OwnFiles, Tokens, Committed, Prepared
<1>. QED
  BY <1>2, <1>3, <1>4 DEF BootInv

\* Only the process and its commit change.
LEMMA PlaceSound ==
    ASSUME BootInv, files' = files, guards' = guards, oi' = oi,
           commit' = commit \/ commit' = Idle,
           boot' \in [at : Places, tokens : SUBSET Files],
           commit' # Idle => commit'.who # "boot" \/ boot' = boot,
           commit' = Idle /\ commit # Idle => guards # {},
           boot'.at \in {"activity", "seed", "policy", "checking"} => boot' = boot,
           oi = "bridge" => boot'.at \in {"none", "done", "failed"},
           boot'.at \in {"lineage", "bridge"} => Prepared
    PROVE  BootInv'
<1>1. BootTyped'
  BY DEF BootInv, BootTyped
<1>2. Guarded'
  <2>1. CASE commit' = commit /\ commit # Idle
    BY <2>1 DEF BootInv, Guarded
  <2>2. CASE commit' = Idle
    <3>1. commit'.at = "none" /\ commit'.who = "nobody"
      BY <2>2 DEF Idle
    <3>2. files["ohlc"].content = "half" => guards # {}
      BY <2>2 DEF BootInv, Guarded, Idle
    <3>. QED
      BY <2>2, <3>1, <3>2 DEF Guarded
  <2>. QED
    BY <2>1, <2>2
<1>3. OwnFiles' /\ Tokens'
  BY DEF BootInv, OwnFiles, Tokens
<1>4. Committed'
  BY DEF BootInv, Committed, Prepared
<1>. QED
  BY <1>1, <1>2, <1>3, <1>4 DEF BootInv

\* One of the three files beside the cache is made by the bootstrap.
LEMMA CreateSound ==
    ASSUME BootInv, boot.at \in DOMAIN After, guards' = guards, commit' = commit, oi' = oi,
           NEW v \in Fresh, files' = [files EXCEPT ![boot.at] = v],
           boot' \in [at : Places, tokens : SUBSET Files],
           boot' = boot \/ boot'.at = "rollback" \/
             (boot' = [at |-> After[boot.at], tokens |-> boot.tokens \cup {boot.at}])
    PROVE  BootInv'
<1>1. boot.at \in {"activity", "seed", "policy"}
  BY DEF After
<1>2. /\ files' \in [Files -> Versions] /\ files'["ohlc"] = files["ohlc"]
      /\ \A f \in Files \ {"ohlc"} : files'[f] \in Fresh
  BY <1>1 DEF BootInv, BootTyped, OwnFiles, Files, Fresh, Versions, Absent, AsCreated
<1>3. /\ After["activity"] = "seed" /\ After["seed"] = "policy" /\ After["policy"] = "checking"
  BY DEF After
<1>4. BootTyped'
  BY <1>2 DEF BootInv, BootTyped
<1>5. Guarded'
  BY <1>1, <1>2 DEF BootInv, Guarded
<1>6. OwnFiles'
  BY <1>2 DEF OwnFiles
<1>7. Tokens'
  <2>1. CASE boot' = boot
    BY <2>1 DEF BootInv, Tokens
  <2>2. CASE boot'.at = "rollback"
    BY <2>2 DEF Tokens
  <2>3. CASE boot' = [at |-> After[boot.at], tokens |-> boot.tokens \cup {boot.at}]
    BY <2>3, <1>1, <1>3 DEF BootInv, Tokens, Files
  <2>. QED
    BY <2>1, <2>2, <2>3
<1>8. Committed'
  BY <1>1, <1>3 DEF BootInv, Committed
<1>. QED
  BY <1>4, <1>5, <1>6, <1>7, <1>8 DEF BootInv

\* The rollback takes one token, and its file if nobody has touched it.
LEMMA RollBackSound ==
    ASSUME BootInv, RollBack
    PROVE  BootInv'
<1>1. /\ boot.at = "rollback" /\ guards' = guards /\ commit' = commit /\ oi' = oi
      /\ \/ files' = files
         \/ \E f : TokenMatches(f) /\ files' = [files EXCEPT ![f] = Absent]
                   /\ (f = "ohlc" => ~OhlcLocked)
      /\ boot' \in [at : Places, tokens : SUBSET Files] /\ boot'.at \in {"none", "rollback"}
  BY DEF RollBack, Removable, BootInv, BootTyped, Places
<1>2. oi # "bridge" /\ commit.who # "boot"
  BY <1>1 DEF BootInv, Committed, Guarded
<1>3. CASE files' = files
  BY <1>1, <1>2, <1>3, PlaceSound
<1>4. ASSUME NEW f, files' = [files EXCEPT ![f] = Absent], f = "ohlc" => ~OhlcLocked
      PROVE  BootInv'
  <2>1. /\ files' \in [Files -> Versions] /\ \A g \in Files : files'[g] \in {files[g], Absent}
        /\ files'["ohlc"] = files["ohlc"] \/ (files'["ohlc"] = Absent /\ commit = Idle)
    BY <1>4 DEF BootInv, BootTyped, Files, Versions, Absent, OhlcLocked
  <2>2. BootTyped'
    BY <1>1, <2>1 DEF BootInv, BootTyped
  <2>3. Guarded'
    BY <1>1, <1>2, <2>1 DEF BootInv, Guarded, Absent
  <2>4. OwnFiles' /\ Tokens' /\ Committed'
    BY <1>1, <1>2, <2>1 DEF BootInv, OwnFiles, Tokens, Committed, Fresh, Files
  <2>. QED
    BY <2>2, <2>3, <2>4 DEF BootInv
<1>. QED
  BY <1>1, <1>3, <1>4

\* The bootstrap's invariant survives every step of the new directory.
LEMMA BootStepSound ==
    ASSUME BootInv, BootNext
    PROVE  BootInv'
<1>1. /\ boot \in [at : Places, tokens : SUBSET Files] /\ Guarded /\ OwnFiles /\ Committed
      /\ files \in [Files -> Versions]
  BY DEF BootInv, BootTyped
<1>2. CASE RefreshBegins
  BY <1>2, BeginCommitSound DEF RefreshBegins, OhlcReadable
<1>3. CASE RefreshDies
  <2>1. commit.who = "refresh" /\ commit # Idle /\ guards # {}
    <3>1. commit.who = "refresh" /\ commit # Idle
      BY <1>3 DEF RefreshDies, Idle
    <3>2. commit.at \in Writing
      BY <3>1 DEF BootInv, BootTyped
    <3>. QED
      BY <1>1, <3>1, <3>2 DEF Guarded, Writing
  <2>2. commit' = Idle /\ boot' = boot
    BY <1>3 DEF RefreshDies
  <2>. QED
    BY <1>1, <1>3, <2>1, <2>2, PlaceSound DEF RefreshDies, Committed
<1>4. CASE BootstrapBegins
  <2>1. /\ boot' = [at |-> "ohlc", tokens |-> {}] /\ oi = "absent" /\ commit = Idle
    BY <1>4 DEF BootstrapBegins
  <2>. QED
    BY <1>1, <1>4, <2>1, PlaceSound DEF BootstrapBegins, Places, Idle
<1>5. CASE CreateOhlc
  <2>1. boot.at = "ohlc" /\ commit.who # "boot" /\ oi # "bridge"
    BY <1>5, <1>1 DEF CreateOhlc, Committed
  <2>2. CASE ~Present("ohlc") /\ BeginCommit("boot") /\ boot' = boot
    BY <1>5, <2>1, <2>2, BeginCommitSound DEF CreateOhlc, Present, Absent
  <2>3. CASE boot' = [boot EXCEPT !.at = "rollback"] /\ guards' = guards /\ commit' = commit
    <3>1. boot' \in [at : Places, tokens : SUBSET Files] /\ boot'.at = "rollback"
      BY <1>1, <2>3 DEF Places
    <3>2. commit.who # "boot" /\ ~OhlcLocked => commit = Idle
      BY DEF OhlcLocked
    <3>. QED
      BY <1>5, <2>1, <2>3, <3>1, PlaceSound DEF CreateOhlc
  <2>. QED
    BY <1>5, <2>2, <2>3 DEF CreateOhlc
<1>6. CASE OpenNew
  <2>1. [by |-> "boot", content |-> "half"] \in Fresh
    BY DEF Fresh
  <2>. QED
    BY <1>1, <1>6, <2>1, CreateSound DEF OpenNew
<1>7. CASE WriteNew
  <2>1. boot.at \in {"activity", "seed", "policy"} /\ AsCreated \in Fresh
    BY <1>7 DEF WriteNew, After, Fresh
  <2>2. /\ boot' = [at |-> After[boot.at], tokens |-> boot.tokens \cup {boot.at}]
        /\ After[boot.at] \in Places
    BY <1>7, <2>1 DEF WriteNew, After, Places
  <2>3. boot' \in [at : Places, tokens : SUBSET Files]
    BY <1>1, <2>1, <2>2 DEF Files
  <2>. QED
    BY <1>7, <2>1, <2>2, <2>3, CreateSound DEF WriteNew
<1>8. CASE WriteNewFails
  <2>1. /\ boot.at \in DOMAIN After /\ Absent \in Fresh
        /\ boot' \in [at : Places, tokens : SUBSET Files] /\ boot'.at = "rollback"
    BY <1>1, <1>8 DEF WriteNewFails, Places, Fresh
  <2>2. boot.at \in {"activity", "seed", "policy"} /\ oi # "bridge" /\ commit.who # "boot"
    BY <1>1, <2>1 DEF After, Committed, Guarded
  <2>3. CASE files' = files
    BY <1>8, <2>1, <2>2, <2>3, PlaceSound DEF WriteNewFails
  <2>4. CASE files' = [files EXCEPT ![boot.at] = Absent]
    BY <1>8, <2>1, <2>4, CreateSound DEF WriteNewFails
  <2>. QED
    BY <1>8, <2>3, <2>4 DEF WriteNewFails
<1>9. CASE CheckPrerequisites
  <2>1. /\ boot.at = "checking" /\ boot.tokens = Files /\ oi # "bridge" /\ commit.who # "boot"
        /\ boot' \in [at : Places, tokens : SUBSET Files]
        /\ boot'.at \in {"lineage", "rollback"}
        /\ boot'.at = "lineage" => \A f \in boot.tokens : TokenMatches(f)
    BY <1>1, <1>9 DEF CheckPrerequisites, BootInv, Tokens, Committed, Guarded, Places
  <2>2. boot'.at = "lineage" => Prepared
    BY <2>1 DEF Prepared, TokenMatches, AsCreated, Files
  <2>. QED
    BY <1>9, <2>1, <2>2, PlaceSound DEF CheckPrerequisites
<1>10. CASE MarkLineage \/ WriteBridge \/ OiSaveFails
  <2>1. /\ boot.at \in {"lineage", "bridge"} /\ Prepared /\ commit.who # "boot"
        /\ boot' \in [at : Places, tokens : SUBSET Files]
        /\ oi' \in {"absent", "marked", "bridge"}
        /\ boot'.at \in {"bridge", "done", "failed"}
        /\ oi' = "bridge" => boot'.at \in {"done", "failed"}
        /\ UNCHANGED <<files, guards, commit>>
    BY <1>1, <1>10 DEF MarkLineage, WriteBridge, OiSaveFails, Committed, Guarded, Places,
       BootInv, BootTyped
  <2>2. BootTyped' /\ Guarded' /\ OwnFiles' /\ Tokens'
    BY <2>1 DEF BootInv, BootTyped, Guarded, OwnFiles, Tokens
  <2>3. Committed'
    BY <2>1 DEF Committed, Prepared
  <2>. QED
    BY <2>2, <2>3 DEF BootInv
<1>11. CASE BootstrapDies
  <2>1. /\ boot' = [at |-> "none", tokens |-> {}] /\ UNCHANGED <<files, guards, oi>>
        /\ commit' = IF commit.who = "boot" THEN Idle ELSE commit
    BY <1>11 DEF BootstrapDies
  <2>2. commit # Idle => guards # {}
    BY <1>1 DEF Guarded, BootInv, BootTyped, Writing
  <2>3. commit' # Idle => commit'.who # "boot"
    BY <2>1
  <2>. QED
    BY <2>1, <2>2, <2>3, PlaceSound DEF Places
<1>. QED
  BY <1>2, <1>3, <1>4, <1>5, <1>6, <1>7, <1>8, <1>9, <1>10, <1>11, CommitStepSound,
     CommitFailsSound, RollBackSound DEF BootNext

\* A step of the new directory removes only what the bootstrap made and nobody rewrote.
LEMMA BootRemovesItsOwn ==
    ASSUME BootInv, BootNext, NEW f \in DOMAIN files, Present(f), files'[f] = Absent
    PROVE  files[f].by = "boot" /\ files[f].content # "later"
<1>1. f \in Files /\ files \in [Files -> Versions] /\ files[f] # Absent
  BY DEF BootInv, BootTyped, Present
<1>2. CASE CommitStep
  <2>1. files' = [files EXCEPT !["ohlc"] = FileAfter(CommitSteps[commit.at])]
    BY <1>2 DEF CommitStep
  <2>2. files["ohlc"] # Absent => FileAfter(CommitSteps[commit.at]) # Absent
    BY DEF FileAfter, Absent
  <2>. QED
    BY <1>1, <2>1, <2>2
<1>3. CASE OpenNew \/ WriteNew
  <2>1. \E v : v # Absent /\ files' = [files EXCEPT ![boot.at] = v]
    BY <1>3 DEF OpenNew, WriteNew, Absent, AsCreated
  <2>. QED
    BY <1>1, <2>1
<1>4. CASE WriteNewFails
  <2>1. boot.at \in {"activity", "seed", "policy"} /\ files[boot.at].content = "half"
        /\ files' \in {files, [files EXCEPT ![boot.at] = Absent]}
    BY <1>4 DEF WriteNewFails, After
  <2>2. f = boot.at /\ files[f] \in Fresh
    BY <1>1, <2>1 DEF BootInv, OwnFiles, Files
  <2>. QED
    BY <1>1, <2>1, <2>2 DEF Fresh, AsCreated
<1>5. CASE RollBack
  <2>1. files' = files \/ \E g : TokenMatches(g) /\ files' = [files EXCEPT ![g] = Absent]
    BY <1>5 DEF RollBack, Removable
  <2>. QED
    BY <1>1, <2>1 DEF TokenMatches, AsCreated
<1>6. CASE files' = files
  BY <1>1, <1>6
<1>. QED
  BY <1>2, <1>3, <1>4, <1>5, <1>6 DEF BootNext, CommitFails, RefreshBegins, RefreshDies,
     BootstrapBegins, CreateOhlc, CheckPrerequisites, MarkLineage, WriteBridge, OiSaveFails,
     BootstrapDies

-----------------------------------------------------------------------------
(***************************************************************************)
(* What the operations of the aggregator do, field by field: each predicate *)
(* relates the aggregator before, a, to the one after, b.                   *)
(***************************************************************************)

\* None is no evidence.
LEMMA NoneApart ==
    /\ None \notin Digests /\ None \notin OpenDays /\ None \notin Pendings
    /\ None \notin Snapshots /\ None \notin Process /\ None \notin Ticks
    /\ None \notin {"current", "stale", "previous", "same", "parent"}
  BY NoneIsNothing

\* The day that is over becomes evidence.
LEMMA DigestTyped ==
    ASSUME NEW open \in OpenDays
    PROVE  Digest(open) \in Digests
  BY DEF OpenDays, Digest, Digests

\* A day change opens the new day with nothing seen.
LEMMA NewDayTyped ==
    ASSUME NEW d \in Days, NEW uni \in SUBSET Contracts
    PROVE  NewDay(d, uni) \in OpenDays
  BY DEF NewDay, OpenDays

Opened(a, d, uni, b) ==
    /\ b \in Aggregators /\ b.open = NewDay(d, uni) /\ b.seen = FALSE /\ b.linked = None
    /\ b.up = a.up /\ b.catalog = a.catalog

\* A change of day from nothing but the bridge.
First(a, b) == b.completed = a.completed /\ b.moves = a.moves /\ b.pending = a.pending
\* The first live day opens over the bridge, by a tick or by a round.
LEMMA FirstDay ==
    ASSUME NEW a \in Aggregators, NEW d \in Days, NEW uni \in SUBSET Contracts, a.open = None,
           NEW b, b = Rollover(a, d, uni, TRUE) \/ b = Rollover(a, d, uni, FALSE)
    PROVE  Opened(a, d, uni, b) /\ First(a, b)
<1>1. b = [a EXCEPT !.open = NewDay(d, uni), !.seen = FALSE,
                    !.linked = None, !.changed = TRUE, !.pending = a.pending]
  BY DEF Rollover, Aggregators
<1>. QED
  BY <1>1, NewDayTyped DEF Opened, First, Aggregators

\* A change of day from the open one, by the first tick of the new one.
ByTick(a, d, b) ==
    /\ b.completed = [a.completed EXCEPT ![a.open.day] = Digest(a.open)]
    /\ b.moves = IF Uninterrupted(a, d)
                 THEN [a.moves EXCEPT ![a.open.day] = Digest(a.open)] ELSE a.moves
    /\ b.pending = IF Uninterrupted(a, d) THEN a.pending ELSE None
\* Rollover by a tick: a watched change is proved at once.
LEMMA NextDayByTick ==
    ASSUME NEW a \in Aggregators, NEW d \in Days, NEW uni \in SUBSET Contracts, a.open # None
    PROVE  LET b == Rollover(a, d, uni, TRUE) IN Opened(a, d, uni, b) /\ ByTick(a, d, b)
<1> DEFINE b == Rollover(a, d, uni, TRUE)
           source == a.open.day
           digest == Digest(a.open)
           begun == [a EXCEPT !.open = NewDay(d, uni), !.seen = FALSE,
                              !.linked = None, !.changed = TRUE]
<1> SUFFICES Opened(a, d, uni, b) /\ ByTick(a, d, b)
  OBVIOUS
<1>1. a.open \in OpenDays /\ source \in Days /\ digest \in Digests
  BY DigestTyped DEF Aggregators, OpenDays
<1>2. /\ begun \in Aggregators /\ begun.open = NewDay(d, uni) /\ begun.seen = FALSE
      /\ begun.linked = None /\ begun.up = a.up /\ begun.catalog = a.catalog
      /\ begun.completed = a.completed /\ begun.moves = a.moves /\ begun.pending = a.pending
  BY NewDayTyped DEF Aggregators
<1>3. b = IF ~Uninterrupted(a, d)
            THEN [begun EXCEPT !.completed[source] = digest, !.pending = None]
            ELSE [begun EXCEPT !.completed[source] = digest, !.moves[source] = digest]
  BY DEF Rollover
<1> HIDE DEF b, source, digest, begun
<1>4. [begun.completed EXCEPT ![source] = digest] \in Completed
      /\ [begun.moves EXCEPT ![source] = digest] \in Completed
  BY <1>1, <1>2 DEF Aggregators, Completed
<1>5. CASE ~Uninterrupted(a, d)
  <2>1. b = [begun EXCEPT !.completed[source] = digest, !.pending = None]
    BY <1>3, <1>5
  <2>2. b = [begun EXCEPT !.completed = [begun.completed EXCEPT ![source] = digest],
                          !.pending = None]
    BY <2>1, <1>2, Zenon DEF Aggregators
  <2>. QED
    BY <2>2, <1>2, <1>4, <1>5 DEF Opened, ByTick, Aggregators, source, digest
<1>6. CASE Uninterrupted(a, d)
  <2>1. b = [begun EXCEPT !.completed[source] = digest, !.moves[source] = digest]
    BY <1>3, <1>6
  <2>2. b = [begun EXCEPT !.completed = [begun.completed EXCEPT ![source] = digest],
                          !.moves = [begun.moves EXCEPT ![source] = digest]]
    BY <2>1, <1>2 DEF Aggregators
  <2>. QED
    BY <2>2, <1>2, <1>4, <1>6 DEF Opened, ByTick, Aggregators, source, digest
<1>. QED
  BY <1>5, <1>6

\* The same by a round of maintenance: a change that was watched waits for its first tick.
ByRound(a, d, b) ==
    /\ b.completed = [a.completed EXCEPT ![a.open.day] = Digest(a.open)]
    /\ b.moves = a.moves
    /\ b.pending = IF ~Uninterrupted(a, d) THEN None
                   ELSE [from |-> a.open.day, digest |-> Digest(a.open), linked |-> "current"]
\* Rollover by a round: a watched change is kept for its first tick.
LEMMA NextDayByRound ==
    ASSUME NEW a \in Aggregators, NEW d \in Days, NEW uni \in SUBSET Contracts, a.open # None
    PROVE  LET b == Rollover(a, d, uni, FALSE) IN Opened(a, d, uni, b) /\ ByRound(a, d, b)
<1> DEFINE b == Rollover(a, d, uni, FALSE)
           source == a.open.day
           digest == Digest(a.open)
           waits == [from |-> source, digest |-> digest, linked |-> "current"]
           pending == IF ~Uninterrupted(a, d) THEN None ELSE waits
           begun == [a EXCEPT !.open = NewDay(d, uni), !.seen = FALSE,
                              !.linked = None, !.changed = TRUE]
<1> SUFFICES Opened(a, d, uni, b) /\ ByRound(a, d, b)
  OBVIOUS
<1>1. a.open \in OpenDays /\ source \in Days /\ digest \in Digests
      /\ pending \in Pendings \cup {None}
  BY DigestTyped DEF Aggregators, OpenDays, Pendings
<1>2. /\ begun \in Aggregators /\ begun.open = NewDay(d, uni) /\ begun.seen = FALSE
      /\ begun.linked = None /\ begun.up = a.up /\ begun.catalog = a.catalog
      /\ begun.completed = a.completed /\ begun.moves = a.moves
  BY NewDayTyped DEF Aggregators
<1>3. b = [begun EXCEPT !.completed[source] = digest, !.pending = pending]
  BY DEF Rollover
<1>4. pending = IF ~Uninterrupted(a, d) THEN None
                ELSE [from |-> a.open.day, digest |-> Digest(a.open), linked |-> "current"]
  OBVIOUS
<1> HIDE DEF b, source, digest, begun, waits, pending
<1>5. [begun.completed EXCEPT ![source] = digest] \in Completed
  BY <1>1, <1>2 DEF Aggregators, Completed
<1>6. b = [begun EXCEPT !.completed = [begun.completed EXCEPT ![source] = digest],
                        !.pending = pending]
  BY <1>2, <1>3 DEF Aggregators
<1>7. /\ b \in Aggregators /\ b.pending = pending
      /\ b.completed = [begun.completed EXCEPT ![source] = digest]
      /\ b.open = begun.open /\ b.seen = begun.seen /\ b.linked = begun.linked
      /\ b.up = begun.up /\ b.catalog = begun.catalog /\ b.moves = begun.moves
  BY <1>1, <1>2, <1>5, <1>6 DEF Aggregators
<1>. QED
  BY <1>2, <1>4, <1>7 DEF Opened, ByRound, source, digest

\* What is noted against the open day stays within it.
Marked(a, b) ==
    /\ b \in Aggregators
    /\ b.completed = a.completed /\ b.moves = a.moves /\ b.seen = a.seen /\ b.up = a.up
    /\ b.linked = a.linked /\ b.pending = a.pending /\ b.catalog = a.catalog
    /\ a.open = None => b = a
    /\ a.open # None => b.open = [a.open EXCEPT !.issue = TRUE]
\* What MarkIssue does.
LEMMA MarkIssueFields ==
    ASSUME NEW a \in Aggregators
    PROVE  Marked(a, MarkIssue(a))
<1> DEFINE b == MarkIssue(a)
<1>1. CASE a.open = None
  BY <1>1 DEF MarkIssue, Marked
<1>2. CASE a.open # None
  <2>1. a.open \in OpenDays /\ [a.open EXCEPT !.issue = TRUE] \in OpenDays
    BY <1>2 DEF Aggregators, OpenDays
  <2>2. b = [a EXCEPT !.open = [a.open EXCEPT !.issue = TRUE], !.changed = TRUE]
    BY <1>2 DEF MarkIssue, Aggregators
  <2> HIDE DEF b
  <2>3. Marked(a, b)
    BY <2>1, <2>2, <1>2 DEF Marked, Aggregators
  <2>. QED
    BY <2>3 DEF b
<1>. QED
  BY <1>1, <1>2

\* A connection goes down.
WentDown(a, b) ==
    /\ b \in Aggregators
    /\ b.completed = a.completed /\ b.moves = a.moves /\ b.seen = a.seen /\ b.up = FALSE
    /\ b.linked = a.linked /\ b.pending = None /\ b.catalog = a.catalog
    /\ b.open = a.open \/ (a.open # None /\ b.open = [a.open EXCEPT !.issue = TRUE])
\* note_raw_market_connection, going down.
LEMMA NoteDownFields ==
    ASSUME NEW a \in Aggregators
    PROVE  WentDown(a, NoteDown(a))
<1> DEFINE c == IF a.up /\ a.seen THEN MarkIssue(a) ELSE a
<1>1. /\ c \in Aggregators
      /\ c.completed = a.completed /\ c.moves = a.moves /\ c.seen = a.seen
      /\ c.linked = a.linked /\ c.catalog = a.catalog
      /\ c.open = a.open \/ (a.open # None /\ c.open = [a.open EXCEPT !.issue = TRUE])
  BY MarkIssueFields DEF Marked
<1>2. NoteDown(a) = [c EXCEPT !.up = FALSE, !.pending = None]
  BY DEF NoteDown
<1> HIDE DEF c
<1>. QED
  BY <1>1, <1>2 DEF WentDown, Aggregators

\* A connection comes up: what was linked to the last one is so no longer.
CameUp(a, b) ==
    /\ b \in Aggregators
    /\ b.completed = a.completed /\ b.moves = a.moves /\ b.seen = a.seen /\ b.up = TRUE
    /\ b.open = a.open /\ b.catalog = a.catalog /\ b.linked \in {None, "stale"}
    /\ b.pending = IF a.pending = None THEN None ELSE [a.pending EXCEPT !.linked = "stale"]
\* note_raw_market_connection, logged in.
LEMMA NoteLoginFields ==
    ASSUME NEW a \in Aggregators
    PROVE  CameUp(a, NoteLogin(a))
<1> DEFINE pending == IF a.pending = None THEN None ELSE [a.pending EXCEPT !.linked = "stale"]
           linked == IF a.linked = "current" THEN "stale" ELSE a.linked
<1>1. NoteLogin(a) = [a EXCEPT !.up = TRUE, !.linked = linked, !.pending = pending]
  BY DEF NoteLogin, Aggregators
<1>2. pending \in Pendings \cup {None}
  BY DEF Aggregators, Pendings
<1>3. linked \in {None, "stale"}
  BY DEF Aggregators
<1>4. pending = IF a.pending = None THEN None ELSE [a.pending EXCEPT !.linked = "stale"]
  OBVIOUS
<1> HIDE DEF pending, linked
<1>. QED
  BY <1>1, <1>2, <1>3, <1>4 DEF CameUp, Aggregators

\* The tick of day d is the one that the waiting change of day is waiting for.
Awaited(a, d) ==
    a.pending # None /\ d = a.pending.from + 1 /\ a.up /\ a.pending.linked = "current"

\* The first tick of a day confirms the change to it, or shows that it was not watched.
Confirmed(a, d, b) ==
    /\ b \in Aggregators /\ b.completed = a.completed /\ b.open = a.open
    /\ b.up = a.up /\ b.linked = a.linked /\ b.catalog = a.catalog /\ b.pending = None
    /\ b.moves = IF Awaited(a, d)
                 THEN [a.moves EXCEPT ![a.pending.from] = a.pending.digest] ELSE a.moves
\* The first part of an observation.
LEMMA ConfirmFields ==
    ASSUME NEW a \in Aggregators, NEW d \in Days
    PROVE  Confirmed(a, d, Confirm(a, d))
<1> DEFINE b == Confirm(a, d)
<1> SUFFICES Confirmed(a, d, b)
  OBVIOUS
<1>1. CASE Awaited(a, d)
  <2>1. a.pending \in Pendings
    BY <1>1 DEF Aggregators, Awaited
  <2>2. [a.moves EXCEPT ![a.pending.from] = a.pending.digest] \in Completed
    BY <2>1 DEF Aggregators, Pendings, Completed
  <2>3. b = [a EXCEPT !.moves = [a.moves EXCEPT ![a.pending.from] = a.pending.digest],
                      !.pending = None, !.changed = TRUE]
    BY <1>1 DEF Confirm, Aggregators, Awaited
  <2> HIDE DEF b
  <2>. QED
    BY <2>2, <2>3, <1>1 DEF Confirmed, Aggregators
<1>2. CASE a.pending = None
  BY <1>2 DEF Confirm, Confirmed, Awaited
<1>3. CASE a.pending # None /\ ~Awaited(a, d)
  <2>1. b = [a EXCEPT !.pending = None]
    BY <1>3 DEF Confirm, Awaited
  <2> HIDE DEF b
  <2>. QED
    BY <2>1, <1>3 DEF Confirmed, Aggregators
<1>. QED
  BY <1>1, <1>2, <1>3

\* A tick notes the connection it came by.
ComesBy(a, b) ==
    /\ b \in Aggregators /\ b.completed = a.completed /\ b.moves = a.moves
    /\ b.up = a.up /\ b.catalog = a.catalog /\ b.pending = a.pending
    /\ b.open \in {a.open, [a.open EXCEPT !.issue = TRUE]}
    /\ a.up => b.linked = "current" \/ b.open.issue
    /\ b.linked = a.linked \/ (a.up /\ b.linked = "current")
\* The second part of an observation.
LEMMA LinkFields ==
    ASSUME NEW a \in Aggregators, a.open # None
    PROVE  ComesBy(a, Link(a))
<1> DEFINE b == Link(a)
<1> SUFFICES ComesBy(a, b)
  OBVIOUS
<1>0. a.open \in OpenDays /\ a.linked \in {None, "current", "stale"}
  BY DEF Aggregators
<1>1. CASE ~a.up
  BY <1>1 DEF Link, ComesBy
<1>2. CASE a.up /\ a.linked = None
  <2>1. b = [a EXCEPT !.linked = "current"]
    BY <1>2 DEF Link
  <2> HIDE DEF b
  <2>. QED
    BY <2>1, <1>2 DEF ComesBy, Aggregators
<1>3. CASE a.up /\ a.linked = "stale"
  <2>1. b = MarkIssue(a)
    BY <1>3, NoneApart DEF Link
  <2>2. Marked(a, b)
    BY <2>1, MarkIssueFields
  <2> HIDE DEF b
  <2>3. b.open = [a.open EXCEPT !.issue = TRUE] /\ b.open.issue
    BY <1>0, <2>2 DEF Marked, OpenDays
  <2>. QED
    BY <2>2, <2>3, <1>3 DEF ComesBy, Marked
<1>4. CASE a.up /\ a.linked = "current"
  BY <1>4, NoneApart DEF Link, ComesBy
<1>. QED
  BY <1>0, <1>1, <1>2, <1>3, <1>4

\* A tick of an expected contract.
Observed(a, t, b) ==
    /\ b \in Aggregators /\ b.completed = a.completed /\ b.seen = TRUE
    /\ b.up = a.up /\ b.catalog = a.catalog /\ b.pending = None
    /\ b.open \in OpenDays /\ b.open.day = a.open.day /\ b.open.uni = a.open.uni
    /\ b.open.got = a.open.got \cup {<<t.contract, t.phase>>}
    /\ a.open.issue => b.open.issue
    /\ a.up => b.linked = "current" \/ b.open.issue
    /\ b.linked = a.linked \/ (a.up /\ b.linked = "current")
    /\ b.moves = IF Awaited(a, t.day)
                 THEN [a.moves EXCEPT ![a.pending.from] = a.pending.digest] ELSE a.moves
\* The whole observation of a tick on its open day.
LEMMA ObserveFields ==
    ASSUME NEW a \in Aggregators, a.open # None, NEW t \in Ticks
    PROVE  Observed(a, t, Observe(a, t))
<1> DEFINE b == Observe(a, t)
           c == Confirm(a, t.day)
           e == Link(c)
           got == e.open.got \cup {<<t.contract, t.phase>>}
<1> SUFFICES Observed(a, t, b)
  OBVIOUS
<1>0. t.day \in Days /\ t.contract \in Contracts /\ t.phase \in AllPhases
  BY DEF Ticks
<1>1. Confirmed(a, t.day, c)
  BY <1>0, ConfirmFields
<1>2. b = [e EXCEPT !.seen = TRUE, !.changed = TRUE,
                    !.open.got = @ \cup {<<t.contract, t.phase>>}]
  BY DEF Observe
<1>3. ComesBy(c, e)
  <2> HIDE DEF c
  <2>. QED
    BY <1>1, LinkFields DEF Confirmed
<1> HIDE DEF b, e, c
<1>4. /\ a.open \in OpenDays /\ e.open \in OpenDays /\ e.open.day = a.open.day
      /\ e.open.uni = a.open.uni /\ e.open.got = a.open.got /\ (a.open.issue => e.open.issue)
  <2>1. a.open \in OpenDays
    BY DEF Aggregators
  <2>2. e.open \in {a.open, [a.open EXCEPT !.issue = TRUE]}
    BY <1>1, <1>3 DEF Confirmed, ComesBy
  <2>. QED
    BY <2>1, <2>2 DEF OpenDays
<1>5. b = [e EXCEPT !.seen = TRUE, !.changed = TRUE, !.open = [e.open EXCEPT !.got = got]]
  BY <1>2, <1>3 DEF ComesBy, Aggregators
<1>6. got \subseteq Contracts \X AllPhases
  BY <1>0, <1>4 DEF OpenDays
<1>7. [e.open EXCEPT !.got = got] \in OpenDays
  BY <1>4, <1>6 DEF OpenDays
<1>8. /\ b \in Aggregators /\ b.completed = e.completed /\ b.seen = TRUE /\ b.up = e.up
      /\ b.catalog = e.catalog /\ b.pending = e.pending /\ b.linked = e.linked
      /\ b.moves = e.moves /\ b.open = [e.open EXCEPT !.got = got]
  BY <1>3, <1>5, <1>7 DEF ComesBy, Aggregators
<1>9. b.open.issue = e.open.issue /\ b.open.day = e.open.day /\ b.open.uni = e.open.uni
      /\ b.open.got = got
  BY <1>4, <1>8 DEF OpenDays
<1>. QED
  BY <1>1, <1>3, <1>4, <1>7, <1>8, <1>9 DEF Observed, Confirmed, ComesBy

-----------------------------------------------------------------------------
(***************************************************************************)
(* A change of day.                                                        *)
(***************************************************************************)

\* The days are numbers, and day 1 is the first.
LEMMA DaysAreNumbers ==
    /\ MaxDay \in Nat /\ 1 \in Days /\ Days \subseteq Nat \ {0} /\ Adjacent \subseteq Days
    /\ DOMAIN Listing = Days /\ \A d \in Days : Listing[d] \subseteq Contracts
    /\ \A d \in Days : d >= 1 /\ d <= MaxDay
  BY EvidenceConstants DEF Days, Contracts

\* Before the first live day nothing is complete but the bridge.
LEMMA LastIsBridge ==
    ASSUME NEW r, Ordered(r), r.open = None
    PROVE  LastCompleted(r) = 1
<1>1. \A d \in Days : r.completed[d] # None <=> d = 1
  BY DEF Ordered
<1>2. \A d \in Days : (r.completed[d] # None /\ \A e \in Days : r.completed[e] # None => e <= d)
                        <=> d = 1
  BY <1>1, DaysAreNumbers
<1>3. \E d \in Days : r.completed[d] # None /\ \A e \in Days : r.completed[e] # None => e <= d
  BY <1>2, DaysAreNumbers
<1>. QED
  BY <1>2, <1>3 DEF LastCompleted

\* A day that is complete and has seen anything was seen in both of its sessions, by
\* contracts it expects; so it expects what the exchange lists.
LEMMA WholeDayTrue ==
    ASSUME NEW r, r.open \in OpenDays, OpenTrue(r), r.open.got # {}
    PROVE  True(r.open.day, Digest(r.open))
<1> SUFFICES ASSUME Complete(Digest(r.open)) PROVE r.open.uni = Expected(r.open.day)
  BY DEF True, Digest
<1>1. ~r.open.issue /\ r.open.uni \X AllPhases \subseteq r.open.got /\ r.open # None
  BY NoneApart DEF Complete, Digest
<1>2. PICK e \in r.open.got : TRUE
  OBVIOUS
<1>3. e[1] \in r.open.uni /\ r.open.uni \subseteq Contracts
  BY <1>1, <1>2 DEF OpenTrue, OpenTrueAt, OpenDays
<1>4. <<e[1], "open">> \in r.open.got /\ <<e[1], "close">> \in r.open.got
  BY <1>1, <1>3 DEF AllPhases
<1>5. WholeDay(r.open)
  BY <1>3, <1>4 DEF WholeDay, SeenIn
<1>. QED
  BY <1>1, <1>5 DEF OpenTrue, OpenTrueAt

\* Day d is later than all that the aggregator has.
Later(a, d) == IF a.open = None THEN d > 1 ELSE d > a.open.day

\* A day the aggregator does not refuse is the bridge, the open day, or a later one.
LEMMA AcceptedDay ==
    ASSUME NEW a, Ordered(a), NEW d \in Days, a.open # None => a.open.day \in Days
    PROVE  /\ BridgeCovers(a, d) <=> a.open = None /\ d = 1
           /\ ~MovesBack(a, d) <=> Later(a, d) \/ (a.open # None /\ d = a.open.day)
  BY LastIsBridge, DaysAreNumbers DEF BridgeCovers, MovesBack, Later

\* The new day is in order, and nothing that was there is lost; a proof that is new is of
\* the day that was open and watched to its end.
Rolled(a, d, uni, b) ==
    /\ Opened(a, d, uni, b)
    /\ Ordered(b) /\ OpenTrue(b) /\ Extends(a, b)
    /\ \A e \in Days :
         \/ b.moves[e] = a.moves[e]
         \/ a.open # None /\ e = a.open.day /\ Uninterrupted(a, d) /\ b.moves[e] = Digest(a.open)

\* A change to a later day is in order, whoever makes it.
LEMMA RolloverSound ==
    ASSUME NEW a \in Aggregators, Ordered(a), NEW d \in Days, Later(a, d),
           NEW uni \in SUBSET Contracts
    PROVE  /\ Rolled(a, d, uni, Rollover(a, d, uni, TRUE))
           /\ Rolled(a, d, uni, Rollover(a, d, uni, FALSE))
<1> SUFFICES ASSUME NEW b, b = Rollover(a, d, uni, TRUE) \/ b = Rollover(a, d, uni, FALSE)
             PROVE  Rolled(a, d, uni, b)
  OBVIOUS
<1>1. Opened(a, d, uni, b)
  BY FirstDay, NextDayByTick, NextDayByRound
<1>2. b.open \in OpenDays /\ b.open # None /\ b.open.day = d /\ b.open.got = {}
  BY <1>1, NewDayTyped, NoneApart DEF Opened, NewDay
<1>3. OpenTrue(b)
  BY <1>2 DEF OpenTrue, OpenTrueAt, WholeDay, SeenIn
<1>4. CASE a.open = None
  <2>1. b.completed = a.completed /\ b.moves = a.moves
    <3>1. First(a, b)
      BY <1>4, FirstDay
    <3>. QED
      BY <3>1 DEF First
  <2>2. \A e \in Days : a.completed[e] # None => e < d
    BY <1>4, DaysAreNumbers DEF Ordered, Later
  <2>3. Ordered(b)
    BY <1>2, <2>1, <2>2 DEF Ordered
  <2>. QED
    BY <1>1, <1>3, <2>1, <2>3 DEF Extends, Rolled
<1>5. CASE a.open # None
  <2> DEFINE source == a.open.day
             digest == Digest(a.open)
  <2>1. a.open \in OpenDays /\ source \in Days /\ digest \in Digests /\ digest # None
    BY <1>5, DigestTyped, NoneApart DEF Aggregators, OpenDays
  <2>2. /\ b.completed = [a.completed EXCEPT ![source] = digest]
        /\ \/ b.moves = a.moves
           \/ Uninterrupted(a, d) /\ b.moves = [a.moves EXCEPT ![source] = digest]
    <3>1. CASE b = Rollover(a, d, uni, TRUE)
      BY <1>5, <3>1, NextDayByTick DEF ByTick
    <3>2. CASE b = Rollover(a, d, uni, FALSE)
      BY <1>5, <3>2, NextDayByRound DEF ByRound
    <3>. QED
      BY <3>1, <3>2
  <2>3. a.completed \in Completed /\ a.moves \in Completed
    BY DEF Aggregators
  <2> HIDE DEF source, digest
  <2>4. /\ \A e \in Days : e # source => b.completed[e] = a.completed[e] /\ b.moves[e] = a.moves[e]
        /\ b.completed[source] = digest
        /\ b.moves[source] = a.moves[source] \/ (Uninterrupted(a, d) /\ b.moves[source] = digest)
    BY <2>1, <2>2, <2>3 DEF Completed
  <2>5. /\ \A e \in Days : a.completed[e] # None => e < source
        /\ \A e \in Days : a.moves[e] # None => a.moves[e] = a.completed[e]
        /\ source < d /\ source \in Nat /\ d \in Nat
    BY <1>5, <2>1, DaysAreNumbers DEF Ordered, Later, source
  <2>6. a.completed[source] = None /\ a.moves[source] = None
    BY <2>1, <2>5
  <2>7. \A e \in Days : b.completed[e] # None => e < d
    BY <2>4, <2>5, DaysAreNumbers
  <2>8. \A e \in Days : b.moves[e] # None => b.moves[e] = b.completed[e]
    BY <2>4, <2>5, <2>6
  <2>9. Ordered(b) /\ Extends(a, b)
    BY <1>2, <2>4, <2>6, <2>7, <2>8 DEF Ordered, Extends
  <2>10. \A e \in Days : b.moves[e] = a.moves[e] \/
             (e = source /\ Uninterrupted(a, d) /\ b.moves[e] = digest)
    BY <2>4
  <2>. QED
    BY <1>1, <1>3, <1>5, <2>9, <2>10 DEF Rolled, source, digest
<1>. QED
  BY <1>4, <1>5

-----------------------------------------------------------------------------
(***************************************************************************)
(* What a step leaves alone.                                               *)
(***************************************************************************)

SameAgg ==
    /\ agg'.completed = agg.completed /\ agg'.moves = agg.moves /\ agg'.open = agg.open
    /\ agg'.seen = agg.seen /\ agg'.up = agg.up /\ agg'.linked = agg.linked
    /\ agg'.pending = agg.pending
SameLink == UNCHANGED <<up, chain, watched>>
TimePasses ==
    \/ UNCHANGED <<day, phase>>
    \/ phase = "open" /\ phase' = "close" /\ day' = day
    \/ phase = "close" /\ phase' = "open" /\ day' = day + 1
SameTick ==
    flight' # None => flight # None /\ flight'.day = flight.day /\ flight'.phase = flight.phase
SameDisk == disk'.rec = disk.rec

\* What the connection proved, it proves still.
LEMMA SameConnection ==
    ASSUME NEW a, NEW b, NEW c, Connected(a, c),
           b.completed = a.completed, b.moves = a.moves, b.open = a.open, b.seen = a.seen,
           b.up = a.up, b.linked = a.linked, b.pending = a.pending
    PROVE  Connected(b, c)
<1>1. WaitingIn(b, c)
  BY DEF Connected, WaitingIn
<1>2. Seeing(b) /\ LinkedIn(b, c)
  BY DEF Connected, Seeing, LinkedIn
<1>3. ChangedIn(b, c)
  BY DEF Connected, ChangedIn, Tied
<1>. QED
  BY <1>1, <1>2, <1>3 DEF Connected

\* The same for a step.
LEMMA KeptConnection ==
    ASSUME Connected(agg, chain), SameAgg, SameLink
    PROVE  Connected(agg', chain')
  BY SameConnection DEF SameAgg, SameLink

\* Time that passes on from day d and session p.
Elapsed(d, p, e, q) ==
    \/ e = d /\ q = p
    \/ e = d /\ p = "open" /\ q = "close"
    \/ e = d + 1

\* A record that keeps its fields keeps its meaning while time passes.
LEMMA KeptRecord ==
    ASSUME NEW d \in Nat, NEW p, NEW e, NEW q, Elapsed(d, p, e, q), NEW r, NEW s,
           Ordered(r), OpenTrueAt(r, d, p), Proven(r), r.open # None => r.open \in OpenDays,
           s.completed = r.completed, s.moves = r.moves, s.open = r.open
    PROVE  Ordered(s) /\ OpenTrueAt(s, e, q) /\ Proven(s)
<1>1. Ordered(s)
  BY DEF Ordered
<1>2. Proven(s)
  BY DEF Proven, True, Complete
<1>3. CASE r.open = None
  BY <1>1, <1>2, <1>3 DEF OpenTrueAt
<1>4. CASE r.open # None
  <2>1. r.open.day \in Nat
    BY <1>4, DaysAreNumbers DEF OpenDays
  <2>2. OpenTrueAt(s, e, q)
    BY <1>4, <2>1 DEF OpenTrueAt, Elapsed
  <2>. QED
    BY <1>1, <1>2, <2>2
<1>. QED
  BY <1>3, <1>4

\* The records stay what they are where nothing new is put into them.
LEMMA KeptRecords ==
    ASSUME Typed, Recorded, TimePasses, UNCHANGED watched, SameAgg, SameDisk, Running' => Running
    PROVE  Recorded'
<1>1. /\ day \in Nat /\ agg \in Aggregators /\ disk.rec \in Snapshots \cup {None}
  BY DaysAreNumbers DEF Typed
<1>4. Elapsed(day, phase, day', phase') /\ watched' = watched
  BY DEF Elapsed, TimePasses
<1>2. ASSUME disk'.rec # None PROVE Ordered(disk.rec)' /\ OpenTrue(disk.rec)' /\ Proven(disk.rec)'
  <2>1. /\ disk'.rec = disk.rec /\ disk.rec # None
    BY <1>2 DEF SameDisk
  <2>2. Ordered(disk.rec) /\ OpenTrueAt(disk.rec, day, phase) /\ Proven(disk.rec)
        /\ (disk.rec.open # None => disk.rec.open \in OpenDays)
    BY <1>1, <2>1 DEF Recorded, Snapshots, OpenTrue
  <2>. QED
    <3>1. Ordered(disk'.rec) /\ OpenTrueAt(disk'.rec, day', phase') /\ Proven(disk.rec)
      BY <1>1, <1>4, <2>1, <2>2, KeptRecord
    <3>. QED
      BY <1>4, <2>1, <3>1 DEF OpenTrue, Ordered, Proven
<1>3. ASSUME Running'
      PROVE  Ordered(agg)' /\ OpenTrue(agg)' /\ Proven(agg)' /\ Extends(disk'.rec, agg')
  <2>1. Ordered(agg) /\ OpenTrueAt(agg, day, phase) /\ Proven(agg) /\ Extends(disk.rec, agg)
        /\ (agg.open # None => agg.open \in OpenDays)
    BY <1>1, <1>3 DEF Recorded, Aggregators, OpenTrue
  <2>2. Extends(disk'.rec, agg')
    BY <2>1 DEF SameAgg, SameDisk, Extends
  <2>. QED
    <3>1. Ordered(agg') /\ OpenTrueAt(agg', day', phase') /\ Proven(agg')
      BY <1>1, <1>4, <2>1, <2>2, KeptRecord DEF SameAgg
    <3>. QED
      BY <1>4, <2>2, <3>1 DEF OpenTrue, Ordered, Proven
<1>. QED
  BY <1>2, <1>3 DEF Recorded

\* The maintenance has done what it had done, while the same tick is on its way or none.
LEMMA KeptWork ==
    ASSUME Rounds, InFlight, SameAgg, SameTick, UNCHANGED <<day, phase, worker>>,
           Working' => Working
    PROVE  Rounds' /\ InFlight'
<1>1. agg'.open = agg.open /\ day' = day /\ phase' = phase /\ worker' = worker
  BY DEF SameAgg
<1>2. \A d : RoundOK(d) => RoundOK(d)'
  BY <1>1 DEF RoundOK, SameTick, WholeDay, SeenIn
<1>3. Rounds'
  <2> SUFFICES ASSUME Working' PROVE Rounds'
    BY DEF Rounds
  <2>. QED
    BY <1>1, <1>2 DEF Rounds
<1>4. InFlight'
  BY <1>1 DEF InFlight, SameTick, SeenIn
<1>. QED
  BY <1>3, <1>4

\* A broker error leaves the process as it is, or makes it close.
LEMMA AfterErrorFields ==
    ASSUME Typed, Running
    PROVE  /\ AfterError \in Process /\ AfterError.kind = proc.kind
           /\ proc.closing => AfterError.closing
  BY DEF Typed, Running, Process, AfterError

-----------------------------------------------------------------------------
(***************************************************************************)
(* The steps that leave the evidence in memory alone.                      *)
(***************************************************************************)

\* A tick starts on its way.
LEMMA EmitSound ==
    ASSUME OiInv, stage = "market", NEW c \in Contracts, Emit(c)
    PROVE  OiInv'
<1>1. /\ Running /\ ~Closing /\ up /\ flight = None
      /\ flight' = [contract |-> c, day |-> day, phase |-> phase, checked |-> FALSE]
      /\ UNCHANGED <<stage, day, phase, ohlcThrough, up, proc, agg, worker, subscribed, saver,
                     disk, chain, watched, faults, starts>>
  BY DEF Emit, marketVars
<1>2. Typed /\ Placed /\ Readable /\ Recorded /\ Connected(agg, chain) /\ Rounds
      /\ day \in Nat
  BY DaysAreNumbers DEF OiInv, EvidenceInv, Typed
<1>3. flight' \in Ticks /\ flight'.day = day /\ flight'.phase = phase /\ phase \in AllPhases
  BY <1>1, <1>2 DEF Ticks, Typed
<1>4. SameAgg /\ SameLink /\ TimePasses /\ SameDisk
  BY <1>1 DEF SameAgg, SameLink, TimePasses, SameDisk
<1>5. Typed'
  BY <1>1, <1>2, <1>3 DEF Typed, NoSave
<1>6. Placed' /\ Readable'
  BY <1>1, <1>2 DEF Placed, Running, Durable, Readable
<1>7. Recorded'
  BY <1>1, <1>2, <1>4, KeptRecords DEF Running
<1>8. Working /\ Working' /\ worker.done \in Nat
  BY <1>1, <1>2 DEF Working, Running, Closing, Rounds
<1>9. \A d : RoundOK(d) => RoundOK(d)'
  BY <1>1, <1>3 DEF RoundOK, WholeDay, SeenIn
<1>10. Rounds'
  BY <1>1, <1>2, <1>8, <1>9 DEF Rounds
<1>11. OpenTrueAt(agg, day, phase)
  BY <1>1, <1>2 DEF Recorded, OpenTrue
<1>12. InFlight'
  <2>1. phase = "open" /\ agg.open # None /\ agg.open.day = day => ~SeenIn(agg.open, "close")
    BY <1>2, <1>11 DEF OpenTrueAt
  <2>2. phase = "close" => day <= worker.done
    BY <1>2, <1>8 DEF Rounds
  <2>. QED
    BY <1>1, <1>2, <1>3, <2>1, <2>2 DEF InFlight, SeenIn
<1>. QED
  BY <1>2, <1>4, <1>5, <1>6, <1>7, <1>10, <1>12, KeptConnection DEF OiInv, EvidenceInv

\* A step that touches neither time nor the evidence in memory nor the maintenance.
LEMMA QuietSound ==
    ASSUME OiInv, SameAgg, SameLink, SameDisk, SameTick, UNCHANGED <<day, phase, worker>>,
           Running' => Running, Working' => Working, Typed', Placed', Readable'
    PROVE  OiInv'
<1>1. TimePasses /\ UNCHANGED watched
  BY DEF TimePasses, SameLink
<1>. QED
  BY <1>1, KeptRecords, KeptConnection, KeptWork DEF OiInv, EvidenceInv

\* The cache of the history is refreshed.
LEMMA RefreshOhlcSound ==
    ASSUME OiInv, RefreshOhlc
    PROVE  OiInv'
<1>1. UNCHANGED <<stage, day, phase, up, flight, proc, agg, worker, subscribed, saver,
                  disk, chain, watched>>
  BY DEF RefreshOhlc, volatileVars
<1>2. Typed' /\ Placed' /\ Readable'
  BY <1>1 DEF OiInv, Typed, Placed, NoSave, Running, Durable, Readable
<1>. QED
  BY <1>1, <1>2, QuietSound DEF SameAgg, SameLink, SameDisk, SameTick, Working, Running, Closing

\* The event thread converts a tick, or drops it.
LEMMA ConvertSound ==
    ASSUME OiInv, stage = "market", Convert
    PROVE  OiInv'
<1>1. /\ UNCHANGED <<stage, day, phase, up, agg, worker, subscribed, saver, disk, chain, watched>>
      /\ flight # None
      /\ \/ flight' = [flight EXCEPT !.checked = TRUE] /\ proc' = proc
         \/ flight' = None /\ proc' = AfterError
  BY DEF Convert, marketVars
<1>2. Typed /\ Placed /\ Readable /\ Running /\ flight \in Ticks
  BY <1>1 DEF OiInv, Placed, Running, Typed
<1>3. AfterError \in Process /\ (proc.closing => AfterError.closing)
  BY <1>2, AfterErrorFields
<1>4. /\ proc' \in Process /\ proc' # None /\ (proc.closing => proc'.closing)
      /\ flight' \in Ticks \cup {None} /\ SameTick
  BY <1>1, <1>2, <1>3, NoneApart DEF Running, Ticks, SameTick, Typed
<1>5. Typed' /\ Placed' /\ Readable'
  BY <1>1, <1>2, <1>4 DEF Typed, Placed, NoSave, Running, Durable, Readable
<1>. QED
  BY <1>1, <1>2, <1>4, <1>5, QuietSound DEF SameAgg, SameLink, SameDisk, Working, Running, Closing

\* The process begins to leave.
LEMMA LeaveSound ==
    ASSUME OiInv, stage = "market", Leave
    PROVE  OiInv'
<1>1. /\ UNCHANGED <<stage, day, phase, up, flight, agg, worker, subscribed, saver, disk,
                     chain, watched>>
      /\ Running /\ ~Closing /\ proc' = [proc EXCEPT !.closing = TRUE]
  BY DEF Leave, marketVars
<1>2. Typed /\ Placed /\ Readable /\ proc \in Process
  BY <1>1 DEF OiInv, Running, Typed
<1>3. proc' \in Process /\ proc' # None /\ SameTick
  BY <1>1, <1>2, NoneApart DEF Process, SameTick
<1>4. Typed' /\ Placed' /\ Readable'
  BY <1>1, <1>2, <1>3 DEF Typed, Placed, NoSave, Running, Durable, Readable
<1>. QED
  BY <1>1, <1>2, <1>3, <1>4, QuietSound
     DEF SameAgg, SameLink, SameDisk, Working, Running, Closing

\* A snapshot is what the memory holds.
LEMMA SnapshotSound ==
    ASSUME OiInv, stage = "market", Snapshot
    PROVE  OiInv'
<1>1. /\ UNCHANGED <<stage, day, phase, up, flight, proc, worker, subscribed, disk, chain, watched>>
      /\ Running /\ saver' = [at |-> "previous", snap |-> Durable(agg)]
      /\ agg' = [agg EXCEPT !.changed = FALSE]
  BY DEF Snapshot, marketVars, SaverFree
<1>2. Typed /\ Placed /\ Readable /\ agg \in Aggregators
  BY DEF OiInv, Typed
<1>3. agg' \in Aggregators /\ SameAgg /\ Durable(agg) \in Snapshots /\ Durable(agg') = Durable(agg)
  BY <1>1, <1>2 DEF Aggregators, SameAgg, Durable, Snapshots, Completed
<1>4. saver' \in [at : {"previous", "current"}, snap : Snapshots] /\ saver'.snap = Durable(agg')
  BY <1>1, <1>3
<1>5. Typed'
  BY <1>1, <1>2, <1>3, <1>4 DEF Typed
<1>6. Placed' /\ Readable'
  BY <1>1, <1>2, <1>3, <1>4 DEF Placed, Running, Readable, SameAgg
<1>. QED
  BY <1>1, <1>3, <1>5, <1>6, QuietSound
     DEF SameLink, SameDisk, SameTick, Working, Running, Closing

\* The previous generation is replaced by the current one.
LEMMA ReplacePreviousSound ==
    ASSUME OiInv, stage = "market", ReplacePrevious
    PROVE  OiInv'
<1>1. /\ UNCHANGED <<stage, day, phase, up, flight, proc, agg, worker, subscribed, chain, watched>>
      /\ saver.at = "previous" /\ saver' = [saver EXCEPT !.at = "current"]
      /\ disk' = [disk EXCEPT !.prev = "same"]
  BY DEF ReplacePrevious, marketVars
<1>2. Typed /\ Placed /\ saver \in [at : {"previous", "current"}, snap : Snapshots]
      /\ disk \in [rec : Snapshots \cup {None}, prev : {None, "same", "parent"}, first : BOOLEAN]
  BY <1>1, NoneApart DEF OiInv, Typed, NoSave
<1>3. /\ saver' \in [at : {"previous", "current"}, snap : Snapshots] /\ saver'.snap = saver.snap
      /\ saver.at # None /\ saver'.at # None
      /\ disk' \in [rec : Snapshots \cup {None}, prev : {None, "same", "parent"}, first : BOOLEAN]
      /\ disk'.rec = disk.rec /\ disk'.prev = "same"
  BY <1>1, <1>2, NoneApart
<1>4. Typed' /\ Placed' /\ Readable'
  BY <1>1, <1>2, <1>3 DEF Typed, Placed, Running, Readable, NoSave
<1>. QED
  BY <1>1, <1>3, <1>4, QuietSound
     DEF SameAgg, SameLink, SameDisk, SameTick, Working, Running, Closing

\* A save fails, before its first write or between its two.
LEMMA SaveFailsSound ==
    ASSUME OiInv, stage = "market", SaveFails
    PROVE  OiInv'
<1>1. /\ UNCHANGED <<stage, day, phase, up, flight, worker, subscribed, disk, chain, watched>>
      /\ saver.at # None /\ saver' = NoSave /\ proc' = AfterError
      /\ agg' = [agg EXCEPT !.changed = TRUE]
  BY DEF SaveFails, marketVars
<1>2. Typed /\ Placed /\ Readable /\ agg \in Aggregators
  BY DEF OiInv, Typed
<1>3. Running
  BY <1>1, <1>2 DEF Placed, Running, NoSave
<1>4. AfterError \in Process /\ (proc.closing => AfterError.closing)
  BY <1>2, <1>3, AfterErrorFields
<1>5. agg' \in Aggregators /\ SameAgg
  BY <1>1, <1>2 DEF Aggregators, SameAgg
<1>6. proc' \in Process /\ proc' # None /\ (Working' => Working)
  BY <1>1, <1>3, <1>4, NoneApart DEF Working, Running, Closing
<1>7. Typed' /\ Placed' /\ Readable'
  BY <1>1, <1>2, <1>3, <1>5, <1>6 DEF Typed, Placed, Running, Readable, SameAgg, NoSave
<1>. QED
  BY <1>1, <1>3, <1>5, <1>6, <1>7, QuietSound DEF SameLink, SameDisk, SameTick

\* The save becomes the current generation.
LEMMA ReplaceCurrentSound ==
    ASSUME OiInv, stage = "market", ReplaceCurrent
    PROVE  OiInv' /\ disk'.rec = Durable(agg)
<1>1. /\ UNCHANGED <<stage, day, phase, up, flight, proc, agg, worker, subscribed, chain, watched>>
      /\ saver.at = "current" /\ saver' = NoSave
      /\ disk' = [rec |-> saver.snap, prev |-> "parent", first |-> FALSE]
  BY DEF ReplaceCurrent, marketVars
<1>2. /\ Typed /\ Placed /\ Recorded /\ saver.at # None
      /\ saver \in [at : {"previous", "current"}, snap : Snapshots]
  BY <1>1, NoneApart DEF OiInv, Typed, NoSave
<1>3. /\ Running /\ saver.snap = Durable(agg) /\ saver.snap \in Snapshots
  BY <1>1, <1>2 DEF Placed, Running, NoSave
<1>4. disk'.rec = Durable(agg) /\ disk'.rec # None /\ disk'.prev = "parent"
  BY <1>1, <1>3, NoneApart
<1>5. Typed' /\ Placed' /\ Readable'
  BY <1>1, <1>2, <1>3, <1>4 DEF Typed, Placed, Running, Readable, NoSave
<1>6. Ordered(agg) /\ OpenTrue(agg) /\ Proven(agg)
  BY <1>2, <1>3 DEF Recorded
<1>7. /\ disk'.rec.completed = agg.completed /\ disk'.rec.moves = agg.moves
      /\ disk'.rec.open = agg.open
  BY <1>4 DEF Durable
<1>8. Recorded'
  <2>1. Ordered(disk.rec)' /\ OpenTrue(disk.rec)' /\ Proven(disk.rec)'
    BY <1>1, <1>6, <1>7 DEF Ordered, OpenTrue, OpenTrueAt, Proven
  <2>2. Ordered(agg)' /\ OpenTrue(agg)' /\ Proven(agg)' /\ Extends(disk'.rec, agg')
    BY <1>1, <1>6, <1>7 DEF Ordered, OpenTrue, OpenTrueAt, Proven, Extends
  <2>. QED
    BY <2>1, <2>2 DEF Recorded
<1>9. SameAgg /\ SameLink /\ SameTick
  BY <1>1 DEF SameAgg, SameLink, SameTick
<1>. QED
  BY <1>1, <1>4, <1>5, <1>8, <1>9, KeptConnection, KeptWork
     DEF OiInv, EvidenceInv, Working, Running, Closing

\* The exchange goes on to its next session.
LEMMA AdvanceSound ==
    ASSUME OiInv, stage = "market", Advance
    PROVE  OiInv'
<1>1. /\ UNCHANGED <<stage, up, flight, proc, agg, worker, subscribed, saver, disk, chain, watched>>
      /\ RoundDone /\ day < MaxDay /\ TimePasses /\ ~UNCHANGED <<day, phase>>
  BY DEF Advance, volatileVars, TimePasses, RoundDone
<1>2. /\ Typed /\ Placed /\ Readable /\ Recorded /\ Connected(agg, chain)
      /\ Rounds /\ InFlight /\ day \in Nat /\ MaxDay \in Nat /\ day >= 1
  BY DaysAreNumbers DEF OiInv, EvidenceInv, Typed
<1>3. /\ day' \in Nat /\ day' >= day /\ day' <= day + 1
      /\ \/ phase = "open" /\ phase' = "close" /\ day' = day
         \/ phase = "close" /\ phase' = "open" /\ day' = day + 1
  BY <1>1, <1>2 DEF TimePasses
<1>4. day' \in Days /\ phase' \in AllPhases
  BY <1>1, <1>2, <1>3 DEF Days, AllPhases
<1>5. SameAgg /\ SameLink /\ SameDisk
  BY <1>1 DEF SameAgg, SameLink, SameDisk
<1>6. Typed' /\ Placed' /\ Readable'
  BY <1>1, <1>2, <1>4 DEF Typed, Placed, Running, Readable, NoSave, Durable
<1>7. Recorded'
  BY <1>1, <1>2, <1>5, KeptRecords DEF Running
<1>8. \A d \in Nat : RoundOK(d) => RoundOK(d)'
  <2> SUFFICES ASSUME NEW d \in Nat, RoundOK(d) PROVE RoundOK(d)'
    OBVIOUS
  <2>1. day > d => day' > d
    BY <1>2, <1>3
  <2>2. agg' = agg /\ flight' = flight /\ (WholeDay(agg.open)' <=> WholeDay(agg.open))
    BY <1>1 DEF WholeDay, SeenIn
  <2>. QED
    BY <2>1, <2>2 DEF RoundOK
<1>9. Rounds'
  <2> SUFFICES ASSUME Working' PROVE Rounds'
    BY DEF Rounds
  <2>1. Working /\ worker.done = day
    BY <1>1 DEF Working, RoundDone, Running, Closing
  <2>2. /\ worker.at # "rest" => worker.day = day
        /\ worker.at \in {"refreshed", "subscribed"} => RoundOK(worker.day)
        /\ RoundOK(day) /\ worker.day \in Nat
    <3>1. worker.day \in Nat
      BY <1>2 DEF Typed, Workers
    <3>. QED
      BY <1>2, <2>1, <3>1 DEF Rounds
  <2>. QED
    BY <1>1, <1>2, <1>3, <1>8, <2>1, <2>2 DEF Rounds
<1>10. InFlight'
  <2> SUFFICES ASSUME flight # None PROVE InFlight'
    BY <1>1 DEF InFlight
  <2>1. flight.day \in Nat
    BY <1>2, DaysAreNumbers DEF Typed, Ticks
  <2>2. /\ flight.day <= day
        /\ flight.day = day /\ flight.phase = "close" => phase = "close"
        /\ flight.phase = "open" /\ agg.open # None /\ agg.open.day = flight.day
             => ~SeenIn(agg.open, "close")
        /\ Working /\ flight.phase = "close" => flight.day <= worker.done
    BY <1>2 DEF InFlight
  <2>3. Working' <=> Working
    BY <1>1 DEF Working, Running, Closing
  <2>. QED
    BY <1>1, <1>2, <1>3, <2>1, <2>2, <2>3 DEF InFlight, SeenIn
<1>. QED
  BY <1>2, <1>5, <1>6, <1>7, <1>9, <1>10, KeptConnection DEF OiInv, EvidenceInv

\* A round goes one step on and leaves the aggregator alone.
LEMMA WorkerSound ==
    ASSUME OiInv, stage = "market", Running,
           UNCHANGED <<stage, day, phase, up, flight, proc, agg, saver, disk, chain, watched>>,
           subscribed' \subseteq Contracts, worker' \in Workers, worker'.done = worker.done,
           worker'.at # "rest" => worker'.day \in Days,
           worker'.at # "rest" => \/ worker'.day = day
                                  \/ worker.at # "rest" /\ worker'.day = worker.day,
           worker'.at \in {"refreshed", "subscribed"} =>
              worker.at \in {"refreshed", "subscribed"} /\ worker'.day = worker.day
    PROVE  OiInv'
<1>1. Typed /\ Placed /\ Readable /\ Recorded /\ Connected(agg, chain)
      /\ Rounds /\ InFlight
  BY DEF OiInv, EvidenceInv
<1>2. SameAgg /\ SameLink /\ SameDisk /\ TimePasses
  BY DEF SameAgg, SameLink, SameDisk, TimePasses
<1>3. Typed' /\ Placed' /\ Readable'
  BY <1>1 DEF Typed, Placed, Running, Readable, NoSave, Durable
<1>4. Recorded'
  BY <1>1, <1>2, KeptRecords DEF Running
<1>5. \A d : RoundOK(d) => RoundOK(d)'
  BY DEF RoundOK, WholeDay, SeenIn
<1>6. Working' <=> Working
  BY DEF Working, Running, Closing
<1>7. Rounds'
  BY <1>1, <1>5, <1>6 DEF Rounds
<1>8. InFlight'
  BY <1>1, <1>6 DEF InFlight, SeenIn
<1>. QED
  BY <1>1, <1>2, <1>3, <1>4, <1>7, <1>8, KeptConnection DEF OiInv, EvidenceInv

\* A round reads the day.
LEMMA ReadDaySound ==
    ASSUME OiInv, stage = "market", ReadDay
    PROVE  OiInv'
<1>1. /\ UNCHANGED <<stage, day, phase, up, flight, proc, agg, subscribed, saver, disk,
                     chain, watched>>
      /\ Running /\ worker' = [worker EXCEPT !.at = "read", !.day = day]
  BY DEF ReadDay, MayStartRound, MayMaintain, marketVars
<1>2. worker \in Workers /\ day \in Days /\ day \in 0..MaxDay /\ subscribed \subseteq Contracts
  BY DEF OiInv, Typed, Days
<1>3. worker' \in Workers /\ worker'.at = "read" /\ worker'.day = day /\ worker'.done = worker.done
  BY <1>1, <1>2 DEF Workers
<1>. QED
  BY <1>1, <1>2, <1>3, WorkerSound

\* A round subscribes to the contracts that are new.
LEMMA SubscribeSound ==
    ASSUME OiInv, stage = "market", Subscribe
    PROVE  OiInv'
<1>1. /\ UNCHANGED <<stage, day, phase, up, flight, proc, agg, saver, disk, chain, watched>>
      /\ Running /\ worker.at = "refreshed" /\ worker' = [worker EXCEPT !.at = "subscribed"]
      /\ subscribed' = subscribed \cup worker.new
  BY DEF Subscribe, MayMaintain, marketVars
<1>2. worker \in Workers /\ subscribed \subseteq Contracts /\ worker.day \in Days
  BY <1>1 DEF OiInv, Typed, Placed
<1>3. /\ worker' \in Workers /\ worker'.at = "subscribed" /\ worker'.day = worker.day
      /\ worker'.done = worker.done /\ subscribed' \subseteq Contracts
  BY <1>1, <1>2 DEF Workers
<1>. QED
  BY <1>1, <1>2, <1>3, WorkerSound

-----------------------------------------------------------------------------
(***************************************************************************)
(* Processes come and go.                                                  *)
(***************************************************************************)

\* A process that is not there has nothing in memory.
LEMMA NobodyTyped ==
    /\ Nobody \in Aggregators /\ Rest \in Workers
    /\ Nobody.pending = None /\ Nobody.seen = FALSE /\ Nobody.open = None /\ Nobody.up = FALSE
    /\ Rest.at = "rest"
<1>1. 0 \in 0..MaxDay
  BY DaysAreNumbers
<1>. QED
  BY <1>1 DEF Nobody, Rest, Aggregators, Completed, Workers

\* The market opens on the evidence the bootstrap left.
LEMMA OpenMarketSound ==
    ASSUME OiInv, OpenMarket
    PROVE  OiInv'
<1>1. /\ UNCHANGED <<day, phase, up, flight, proc, agg, worker, subscribed, saver, chain, watched>>
      /\ stage = "boot" /\ stage' = "market"
      /\ disk' = [disk EXCEPT !.rec = [Durable(Nobody) EXCEPT !.completed[1] = Bridge]]
  BY DEF OpenMarket, marketVars, volatileVars
<1>2. /\ Typed /\ Placed /\ Readable /\ proc = None
      /\ Connected(agg, chain) /\ Rounds /\ InFlight
  BY <1>1 DEF OiInv, EvidenceInv, Placed
<1> DEFINE rec == [Durable(Nobody) EXCEPT !.completed[1] = Bridge]
<1>3. Bridge \in Digests /\ Bridge # None
  <2>1. Bridge \in Digests
    BY DEF Bridge, Digests
  <2>. QED
    BY <2>1, NoneApart
<1>4. /\ rec \in Snapshots /\ rec.open = None
      /\ \A d \in Days : rec.completed[d] # None <=> d = 1
      /\ \A d \in Days : rec.moves[d] = None
  BY <1>3, DaysAreNumbers DEF Durable, Nobody, Snapshots
<1> HIDE DEF rec
<1>5. /\ disk'.rec = rec /\ disk'.prev = disk.prev /\ disk'.first = disk.first
      /\ disk' \in [rec : Snapshots \cup {None}, prev : {None, "same", "parent"}, first : BOOLEAN]
  BY <1>1, <1>2, <1>4 DEF Typed, rec
<1>6. Typed'
  BY <1>1, <1>2, <1>5 DEF Typed, NoSave
<1>7. Placed' /\ Readable'
  BY <1>1, <1>2, <1>4, <1>5, NoneApart DEF Placed, Readable, Running, NoSave
<1>8. Ordered(rec) /\ OpenTrue(rec)' /\ Proven(rec)'
  BY <1>4 DEF Ordered, OpenTrue, OpenTrueAt, Proven, rec
<1>9. Recorded'
  BY <1>1, <1>2, <1>5, <1>8 DEF Recorded, Running, Ordered, OpenTrue, Proven
<1>10. SameAgg /\ SameLink /\ SameTick
  BY <1>1 DEF SameAgg, SameLink, SameTick
<1>. QED
  BY <1>1, <1>2, <1>6, <1>7, <1>9, <1>10, KeptConnection, KeptWork
     DEF OiInv, EvidenceInv, Working, Running, Closing

\* A process is gone, and all it had in memory with it.
LEMMA ForgottenSound ==
    ASSUME OiInv, stage = "market", Forgotten
    PROVE  OiInv' /\ disk' = disk
<1>1. /\ proc' = None /\ up' = FALSE /\ flight' = None /\ agg' = Nobody /\ worker' = Rest
      /\ subscribed' = {} /\ saver' = NoSave /\ chain' = {}
      /\ UNCHANGED <<stage, day, phase, disk, watched>>
  BY DEF Forgotten, marketVars
<1>2. Typed /\ Placed /\ Readable /\ Recorded
  BY DEF OiInv
<1>3. Typed' /\ Readable'
  BY <1>1, <1>2, NobodyTyped DEF Typed, Readable
<1>4. Placed'
  BY <1>1, <1>2, NobodyTyped DEF Placed, Running, NoSave
<1>5. Recorded'
  BY <1>1, <1>2 DEF Recorded, Running, Ordered, OpenTrue, OpenTrueAt, Proven
<1>6. EvidenceInv'
  BY <1>1, NobodyTyped DEF EvidenceInv, Connected, WaitingIn, Seeing, LinkedIn, ChangedIn, Rounds,
     Working, Running, InFlight
<1>. QED
  BY <1>1, <1>3, <1>4, <1>5, <1>6 DEF OiInv

\* The contracts of a day at the start of a process: what was saved is kept.
SetUp(a, d, b) ==
    /\ b \in Aggregators /\ Ordered(b) /\ OpenTrue(b) /\ Extends(a, b)
    /\ \A e \in Days : b.moves[e] = a.moves[e]
    /\ b.linked = None /\ b.pending = None /\ b.seen = FALSE
    /\ b.open = None => d = 1
    /\ b.open # None => b.open.day = d /\ b.open.uni = Expected(d)
\* set_expected_contracts accepts a day: the evidence is in order, and proves nothing new.
LEMMA SetExpectedSound ==
    ASSUME NEW a \in Aggregators, Ordered(a), OpenTrue(a), NEW d \in Days, a.up = FALSE,
           a.seen = FALSE, a.linked = None, a.pending = None, CanExpect(a, d, Expected(d))
    PROVE  SetUp(a, d, SetExpected(a, d, Listing[d]))
<1> DEFINE uni == Listing[d] \cap OiContracts
           b == IF BridgeCovers(a, d) \/ (a.open # None /\ a.open.day = d) THEN a
                ELSE Rollover(a, d, uni, FALSE)
<1>1. SetExpected(a, d, Listing[d]) = [b EXCEPT !.catalog = Listing[d]]
  BY DEF SetExpected
<1>2. uni = Expected(d) /\ uni \in SUBSET Contracts /\ Listing[d] \subseteq Contracts
  BY DaysAreNumbers DEF Expected
<1>3. a.open # None => a.open.day \in Days
  BY DEF Aggregators, OpenDays
<1>4. SetUp(a, d, b)
  <2>1. CASE a.open = None /\ d = 1
    <3>1. b = a
      BY <2>1, <1>3, AcceptedDay
    <3>. QED
      BY <2>1, <3>1 DEF SetUp, Extends
  <2>2. CASE a.open # None /\ a.open.day = d
    <3>1. b = a
      BY <2>2
    <3>2. a.open.uni = Expected(d)
      BY <2>2, <1>3, AcceptedDay DEF CanExpect
    <3>. QED
      BY <2>2, <3>1, <3>2 DEF SetUp, Extends
  <2>3. CASE ~(a.open = None /\ d = 1) /\ ~(a.open # None /\ a.open.day = d)
    <3>1. b = Rollover(a, d, uni, FALSE) /\ Later(a, d)
      BY <2>3, <1>3, AcceptedDay DEF CanExpect
    <3> HIDE DEF b, uni
    <3>2. Rolled(a, d, uni, b)
      BY <1>2, <3>1, RolloverSound
    <3>3. ~Uninterrupted(a, d)
      BY DEF Uninterrupted
    <3>4. b.pending = None
      <4>1. CASE a.open = None
        <5>1. First(a, b)
          BY <1>2, <3>1, <4>1, FirstDay
        <5>. QED
          BY <5>1 DEF First
      <4>2. CASE a.open # None
        <5>1. ByRound(a, d, b)
          BY <1>2, <3>1, <4>2, NextDayByRound
        <5>. QED
          BY <3>3, <5>1 DEF ByRound
      <4>. QED
        BY <4>1, <4>2
    <3>5. b.open # None /\ b.open.day = d /\ b.open.uni = uni
      BY <1>2, <3>2, NewDayTyped, NoneApart DEF Rolled, Opened, NewDay
    <3>. QED
      BY <1>2, <3>2, <3>3, <3>4, <3>5 DEF SetUp, Rolled, Opened
  <2>. QED
    BY <2>1, <2>2, <2>3
<1> HIDE DEF b, uni
<1> DEFINE c == [b EXCEPT !.catalog = Listing[d]]
<1>5. /\ c \in Aggregators /\ c.completed = b.completed /\ c.moves = b.moves /\ c.open = b.open
      /\ c.linked = b.linked /\ c.pending = b.pending /\ c.seen = b.seen
  BY <1>2, <1>4 DEF SetUp, Aggregators
<1> HIDE DEF c
<1>6. Ordered(c) /\ OpenTrue(c) /\ Extends(a, c)
  BY <1>4, <1>5 DEF SetUp, Ordered, OpenTrue, OpenTrueAt, Extends
<1>7. SetUp(a, d, c)
  BY <1>4, <1>5, <1>6 DEF SetUp
<1>. QED
  BY <1>1, <1>7 DEF c

\* A process that starts has what was saved, and no connection to prove anything of.
LEMMA RestoredTyped ==
    ASSUME NEW rec \in Snapshots
    PROVE  /\ Restored(rec) \in Aggregators
           /\ Restored(rec).completed = rec.completed /\ Restored(rec).moves = rec.moves
           /\ Restored(rec).open = rec.open /\ Restored(rec).up = FALSE
           /\ Restored(rec).seen = FALSE /\ Restored(rec).linked = None
           /\ Restored(rec).pending = None
<1>1. rec.completed \in Completed /\ rec.moves \in Completed /\ rec.open \in OpenDays \cup {None}
  BY DEF Snapshots, Completed
<1>. QED
  BY <1>1 DEF Restored, Aggregators

\* A process starts on the files as they are.
LEMMA StartSound ==
    ASSUME OiInv, stage = "market", NEW kind \in {"live", "collector"}, Start(kind)
    PROVE  OiInv'
<1> DEFINE a == Restored(disk.rec)
           b == SetExpected(a, day, Listing[day])
<1>1. /\ UNCHANGED <<stage, day, phase, flight, saver, disk, chain, watched>>
      /\ proc = None /\ proc' = [kind |-> kind, closing |-> FALSE] /\ up' = TRUE
      /\ agg' = NoteLogin(b) /\ subscribed' = Listing[day]
      /\ worker' = [Rest EXCEPT !.done = day, !.noted = Listing[day]]
      /\ CanExpect(a, day, Expected(day))
  BY DEF Start, marketVars
<1>2. /\ Typed /\ Placed /\ Readable /\ Recorded /\ disk.rec # None /\ disk.rec \in Snapshots
      /\ day \in Days /\ flight = None /\ saver = NoSave /\ chain = {}
  BY <1>1 DEF OiInv, Placed, Typed
<1>3. /\ a \in Aggregators /\ a.completed = disk.rec.completed /\ a.moves = disk.rec.moves
      /\ a.open = disk.rec.open
      /\ a.up = FALSE /\ a.seen = FALSE /\ a.linked = None /\ a.pending = None
  BY <1>2, RestoredTyped
<1> HIDE DEF a
<1>4. Ordered(a) /\ OpenTrue(a) /\ Proven(a)
  BY <1>2, <1>3 DEF Recorded, Ordered, OpenTrue, OpenTrueAt, Proven
<1>5. SetUp(a, day, b)
  BY <1>1, <1>2, <1>3, <1>4, SetExpectedSound
<1> HIDE DEF b
<1>6. CameUp(b, agg')
  BY <1>1, <1>5, NoteLoginFields DEF SetUp
<1>7. /\ agg' \in Aggregators /\ agg'.completed = b.completed /\ agg'.moves = b.moves
      /\ agg'.open = b.open /\ agg'.up = TRUE /\ agg'.seen = FALSE /\ agg'.pending = None
      /\ agg'.linked # "current"
  BY <1>5, <1>6, NoneApart DEF CameUp, SetUp
<1>8. Ordered(b) /\ OpenTrue(b) /\ Proven(b) /\ Extends(disk.rec, b)
  BY <1>3, <1>4, <1>5 DEF SetUp, Proven, Extends
<1>9. proc' \in Process /\ proc' # None /\ ~proc'.closing
  <2>1. proc' \in Process /\ ~proc'.closing
    BY <1>1 DEF Process
  <2>. QED
    BY <2>1, NoneApart
<1>10. /\ worker' \in Workers /\ worker'.done = day /\ worker'.at = "rest" /\ day \in 0..MaxDay
       /\ Listing[day] \subseteq Contracts /\ day \in 1..day
  <2>1. day \in 0..MaxDay /\ Listing[day] \subseteq Contracts /\ day \in 1..day
    BY <1>2, DaysAreNumbers DEF Days
  <2>. QED
    BY <1>1, <2>1, NobodyTyped DEF Workers
<1>11. Typed'
  BY <1>1, <1>2, <1>7, <1>9, <1>10 DEF Typed, NoSave
<1>12. Placed' /\ Readable'
  BY <1>1, <1>2, <1>7, <1>9, <1>10 DEF Placed, Readable, Running, NoSave
<1>13. Recorded'
  <2>1. Ordered(disk.rec)' /\ OpenTrue(disk.rec)' /\ Proven(disk.rec)'
    BY <1>1, <1>2 DEF Recorded, Ordered, OpenTrue, OpenTrueAt, Proven
  <2>2. Ordered(agg)' /\ OpenTrue(agg)' /\ Proven(agg)' /\ Extends(disk'.rec, agg')
    BY <1>1, <1>7, <1>8 DEF Ordered, OpenTrue, OpenTrueAt, Proven, Extends
  <2>. QED
    BY <2>1, <2>2 DEF Recorded
<1>14. Connected(agg', chain') /\ InFlight'
  BY <1>1, <1>2, <1>7 DEF Connected, WaitingIn, Seeing, LinkedIn, ChangedIn, InFlight
<1>15. RoundOK(day)'
  BY <1>1, <1>5, <1>7 DEF RoundOK, SetUp
<1>16. Rounds'
  BY <1>1, <1>10, <1>15 DEF Rounds
<1>. QED
  BY <1>11, <1>12, <1>13, <1>14, <1>16 DEF OiInv, EvidenceInv

-----------------------------------------------------------------------------
(***************************************************************************)
(* The steps that put something into the evidence.                         *)
(***************************************************************************)

\* What is new in memory is in order, and every new proof of a day change is true.
Adds(b) ==
    /\ b \in Aggregators /\ Ordered(b) /\ OpenTrueAt(b, day, phase) /\ Extends(agg, b)
    /\ \A d \in Days : b.moves[d] # None =>
         b.moves[d] = agg.moves[d] \/ (d \in watched' /\ True(d, b.moves[d]))
\* With such an addition every record is in order and true.
LEMMA AddedRecords ==
    ASSUME Typed, Recorded, Running, SameDisk, UNCHANGED <<day, phase>>, watched \subseteq watched',
           Adds(agg')
    PROVE  Recorded'
<1>1. Ordered(agg) /\ OpenTrue(agg) /\ Proven(agg) /\ Extends(disk.rec, agg)
  BY DEF Recorded
<1>2. Ordered(agg)' /\ OpenTrue(agg)' /\ Extends(disk'.rec, agg')
  <2>1. Ordered(agg)' /\ OpenTrue(agg)'
    BY DEF Adds, OpenTrue, Ordered
  <2>2. Extends(disk.rec, agg')
    BY <1>1 DEF Adds, Extends
  <2>. QED
    BY <2>1, <2>2 DEF SameDisk
<1>3. Proven(agg)'
  BY <1>1 DEF Adds, Proven
<1>4. disk'.rec # None => Ordered(disk.rec)' /\ OpenTrue(disk.rec)' /\ Proven(disk.rec)'
  <2> SUFFICES ASSUME disk'.rec # None
               PROVE  Ordered(disk.rec)' /\ OpenTrue(disk.rec)' /\ Proven(disk.rec)'
    OBVIOUS
  <2>1. Ordered(disk.rec) /\ OpenTrue(disk.rec) /\ Proven(disk.rec) /\ disk'.rec = disk.rec
    BY DEF Recorded, SameDisk
  <2>2. Ordered(disk.rec)' /\ OpenTrue(disk.rec)'
    BY <2>1 DEF Ordered, OpenTrue, OpenTrueAt
  <2>3. Proven(disk.rec)'
    BY <2>1 DEF Proven
  <2>. QED
    BY <2>2, <2>3
<1>. QED
  BY <1>2, <1>3, <1>4 DEF Recorded

\* A change of day keeps what is known of the connection: a change that was watched is
\* proved, or waits for its first tick.
LEMMA RolloverConnected ==
    ASSUME NEW a \in Aggregators, Ordered(a), OpenTrue(a), NEW c \in SUBSET Days, Connected(a, c),
           NEW d \in Days, Later(a, d), NEW uni \in SUBSET Contracts,
           NEW b, b = Rollover(a, d, uni, TRUE) \/ b = Rollover(a, d, uni, FALSE)
    PROVE  Connected(b, c)
<1>1. Rolled(a, d, uni, b) /\ Opened(a, d, uni, b)
  <2>1. Rolled(a, d, uni, b)
    BY RolloverSound
  <2>. QED
    BY <2>1 DEF Rolled
<1>2. /\ b.open # None /\ b.open.day = d /\ b.seen = FALSE /\ b.linked = None /\ b.up = a.up
      /\ WaitingIn(a, c) /\ Seeing(a) /\ LinkedIn(a, c) /\ ChangedIn(a, c)
  BY <1>1, NewDayTyped, NoneApart DEF Opened, NewDay, Connected
<1>3. CASE a.open = None
  <2>1. b.completed = a.completed /\ b.moves = a.moves /\ b.pending = a.pending /\ a.pending = None
    <3>1. First(a, b)
      BY <1>3, FirstDay
    <3>2. a.pending = None
      BY <1>2, <1>3 DEF WaitingIn
    <3>. QED
      BY <3>1, <3>2 DEF First
  <2>2. c \subseteq {1} /\ d # 1
    BY <1>2, <1>3, DaysAreNumbers DEF LinkedIn, Later
  <2>3. WaitingIn(b, c) /\ Seeing(b)
    BY <1>2, <2>1 DEF WaitingIn, Seeing
  <2>4. LinkedIn(b, c)
    BY <1>2, <2>2, NoneApart DEF LinkedIn
  <2>5. ChangedIn(b, c)
    BY <2>2 DEF ChangedIn
  <2>. QED
    BY <2>3, <2>4, <2>5 DEF Connected
<1>4. CASE a.open # None
  <2> DEFINE source == a.open.day
             digest == Digest(a.open)
  <2>1. /\ a.open \in OpenDays /\ source \in Days /\ digest \in Digests /\ digest # None
        /\ source < d /\ source \in Nat /\ d \in Nat /\ d > 1
        /\ source >= 1 /\ digest = Digest(a.open)
    BY <1>4, DigestTyped, NoneApart, DaysAreNumbers DEF Aggregators, OpenDays, Later
  <2>2. /\ b.completed = [a.completed EXCEPT ![source] = digest]
        /\ \/ /\ b.moves = IF Uninterrupted(a, d) THEN [a.moves EXCEPT ![source] = digest]
                           ELSE a.moves
              /\ b.pending = IF Uninterrupted(a, d) THEN a.pending ELSE None
           \/ /\ b.moves = a.moves
              /\ b.pending = IF ~Uninterrupted(a, d) THEN None
                             ELSE [from |-> source, digest |-> digest, linked |-> "current"]
    <3>1. CASE b = Rollover(a, d, uni, TRUE)
      BY <1>4, <3>1, NextDayByTick DEF ByTick
    <3>2. CASE b = Rollover(a, d, uni, FALSE)
      BY <1>4, <3>2, NextDayByRound DEF ByRound
    <3>. QED
      BY <3>1, <3>2
  <2>3. a.completed \in Completed /\ a.moves \in Completed /\ a.completed[source] = None
        /\ a.moves[source] = None
    BY <1>4, <2>1, DaysAreNumbers DEF Aggregators, Ordered
  <2>4. /\ \A e \in Days : e # source => b.completed[e] = a.completed[e] /\ b.moves[e] = a.moves[e]
        /\ b.completed[source] = digest
        /\ a.moves[source] = None
    BY <2>1, <2>2, <2>3 DEF Completed
  <2>5. Uninterrupted(a, d) => /\ source \in c /\ source \in Adjacent /\ d = source + 1
                               /\ True(source, digest)
    <3> SUFFICES ASSUME Uninterrupted(a, d)
                 PROVE  /\ source \in c /\ source \in Adjacent /\ d = source + 1
                        /\ True(source, digest)
      OBVIOUS
    <3>1. a.seen /\ a.up /\ a.linked = "current" /\ source \in Adjacent /\ d = source + 1
      BY DEF Uninterrupted
    <3>. QED
      BY <1>2, <1>4, <2>1, <3>1, WholeDayTrue DEF LinkedIn, Seeing
  <2>6. \/ Uninterrupted(a, d) /\ b.moves[source] = digest /\ b.pending = a.pending
        \/ /\ Uninterrupted(a, d) /\ b.moves[source] = None
           /\ b.pending = [from |-> source, digest |-> digest, linked |-> "current"]
        \/ ~Uninterrupted(a, d) /\ b.pending = None
    BY <2>1, <2>2, <2>3 DEF Completed
  <2> HIDE DEF source, digest
  <2>7. WaitingIn(b, c)
    <3>1. CASE b.pending = a.pending /\ a.pending # None
      <4>1. a.pending.from \in Adjacent /\ a.pending.from < source /\ a.pending.from \in Days
            /\ a.pending.from \in Nat
        BY <1>2, <3>1, DaysAreNumbers DEF WaitingIn, source
      <4>. QED
        BY <1>2, <2>1, <2>4, <3>1, <4>1 DEF WaitingIn
    <3>2. CASE b.pending = [from |-> source, digest |-> digest, linked |-> "current"]
               /\ Uninterrupted(a, d) /\ b.moves[source] = None
      BY <1>2, <2>1, <2>4, <2>5, <3>2 DEF WaitingIn
    <3>3. CASE b.pending = None
      BY <3>3 DEF WaitingIn
    <3>. QED
      BY <2>6, <3>1, <3>2, <3>3
  <2>8. \A e \in c \ {1} : e <= source /\ e \in Nat
    BY <1>2, DaysAreNumbers DEF LinkedIn, source
  <2>9. d \notin c
    BY <2>1, <2>8
  <2>10. Seeing(b) /\ LinkedIn(b, c)
    <3>1. \A e \in c \ {1} : e <= d
      BY <2>1, <2>8
    <3>. QED
      BY <1>2, <2>9, <3>1, NoneApart DEF Seeing, LinkedIn
  <2>11. ChangedIn(b, c)
    <3> SUFFICES ASSUME NEW e \in (c \cap Adjacent) \ {1}, Complete(b.completed[e])
                 PROVE  Tied(b, c, e)
      BY DEF ChangedIn
    <3>1. CASE e = source
      <4>1. ~a.open.issue
        BY <2>1, <2>4, <3>1 DEF Complete, Digest
      <4>2. a.seen /\ a.linked = "current" /\ a.up
        BY <1>2, <1>4, <3>1, <4>1 DEF LinkedIn, source
      <4>3. d = source + 1 => Uninterrupted(a, d)
        BY <3>1, <4>2 DEF Uninterrupted, source
      <4>4. source + 1 \notin c
        <5>1. source + 1 # 1 /\ ~(source + 1 <= source)
          BY <2>1
        <5>. QED
          BY <2>8, <5>1
      <4>5. Uninterrupted(a, d) =>
              \/ b.moves[source] # None
              \/ b.pending # None /\ b.pending.from = source /\ b.pending.linked = "current"
        <5>1. CASE b.pending = [from |-> source, digest |-> digest, linked |-> "current"]
          <6>1. b.pending \in Pendings
            BY <2>1, <5>1, <2>5 DEF Pendings
          <6>. QED
            BY <5>1, <6>1, NoneApart
        <5>2. CASE b.pending # [from |-> source, digest |-> digest, linked |-> "current"]
          BY <2>1, <2>6, <5>2
        <5>. QED
          BY <5>1, <5>2
      <4>. QED
        BY <1>2, <3>1, <4>3, <4>4, <4>5 DEF Tied
    <3>2. CASE e # source
      <4>1. e < source /\ e \in Nat /\ Complete(a.completed[e])
        <5>1. e <= source /\ e \in Nat /\ e \in Days
          BY <2>8
        <5>2. Complete(a.completed[e])
          BY <2>4, <3>2, <5>1
        <5>. QED
          BY <2>1, <3>2, <5>1, <5>2
      <4>2. Tied(a, c, e)
        BY <1>2, <4>1 DEF ChangedIn, source
      <4>3. e + 1 # d /\ b.moves[e] = a.moves[e]
        BY <2>1, <2>4, <3>2, <4>1
      <4>. QED
        BY <1>2, <4>2, <4>3 DEF Tied
    <3>. QED
      BY <3>1, <3>2
  <2>. QED
    BY <2>7, <2>10, <2>11 DEF Connected
<1>. QED
  BY <1>3, <1>4

\* The open day is the same, except that something may have been noted against it.
Noted(a, b) ==
    /\ b.completed = a.completed /\ b.moves = a.moves
    /\ b.open = a.open \/ (a.open # None /\ b.open = [a.open EXCEPT !.issue = TRUE])
\* What is noted touches neither the day nor what it has seen.
LEMMA NotedFields ==
    ASSUME NEW a \in Aggregators, NEW b, Noted(a, b)
    PROVE  /\ b.open = None <=> a.open = None
           /\ a.open # None =>
                /\ b.open \in OpenDays /\ b.open.day = a.open.day /\ b.open.uni = a.open.uni
                /\ b.open.got = a.open.got /\ (a.open.issue => b.open.issue)
                /\ b.open = a.open \/ b.open.issue
<1>1. CASE a.open # None
  <2>1. a.open \in OpenDays /\ [a.open EXCEPT !.issue = TRUE] \in OpenDays
    BY <1>1 DEF Aggregators, OpenDays
  <2>2. CASE b.open = a.open
    BY <1>1, <2>1, <2>2
  <2>3. CASE b.open = [a.open EXCEPT !.issue = TRUE]
    <3>1. /\ b.open \in OpenDays /\ b.open.day = a.open.day /\ b.open.uni = a.open.uni
          /\ b.open.got = a.open.got /\ b.open.issue
      BY <2>1, <2>3 DEF OpenDays
    <3>. QED
      BY <1>1, <3>1, NoneApart
  <2>. QED
    BY <2>2, <2>3 DEF Noted
<1>2. CASE a.open = None
  BY <1>2 DEF Noted
<1>. QED
  BY <1>1, <1>2

\* What is noted leaves the record in order.
LEMMA NotedRecord ==
    ASSUME NEW a \in Aggregators, NEW b, Noted(a, b), Ordered(a), NEW d, NEW p, OpenTrueAt(a, d, p)
    PROVE  Ordered(b) /\ OpenTrueAt(b, d, p) /\ Extends(a, b)
<1>1. /\ b.open = None <=> a.open = None
      /\ a.open # None =>
           /\ b.open.day = a.open.day /\ b.open.uni = a.open.uni
           /\ b.open.got = a.open.got /\ (a.open.issue => b.open.issue)
  BY NotedFields
<1>2. b.completed = a.completed /\ b.moves = a.moves
  BY DEF Noted
<1>3. Ordered(b)
  BY <1>1, <1>2 DEF Ordered
<1>4. Extends(a, b)
  BY <1>2 DEF Extends
<1>5. OpenTrueAt(b, d, p)
  BY <1>1 DEF OpenTrueAt, WholeDay, SeenIn
<1>. QED
  BY <1>3, <1>4, <1>5

\* And a round of maintenance as done as it was.
LEMMA NotedRounds ==
    ASSUME agg \in Aggregators, Noted(agg, agg'), UNCHANGED day, SameTick
    PROVE  \A d : RoundOK(d) => RoundOK(d)'
<1> SUFFICES ASSUME NEW d, RoundOK(d) PROVE RoundOK(d)'
  OBVIOUS
<1>1. /\ agg'.open = None <=> agg.open = None
      /\ agg.open # None =>
           /\ agg'.open.day = agg.open.day /\ agg'.open.uni = agg.open.uni
           /\ agg'.open.got = agg.open.got /\ (agg.open.issue => agg'.open.issue)
  BY NotedFields
<1>2. flight' # None => flight # None /\ flight'.day = flight.day
  BY DEF SameTick
<1>3. agg.open # None => (WholeDay(agg.open)' <=> WholeDay(agg.open))
  BY <1>1 DEF WholeDay, SeenIn
<1>. QED
  BY <1>1, <1>2, <1>3 DEF RoundOK

\* And the tick on its way is no less in order.
LEMMA NotedFlight ==
    ASSUME agg \in Aggregators, Noted(agg, agg'), InFlight, UNCHANGED <<day, phase, flight>>,
           Working' => Working, worker'.done = worker.done
    PROVE  InFlight'
<1>1. /\ agg'.open = None <=> agg.open = None
      /\ agg.open # None => agg'.open.day = agg.open.day /\ agg'.open.got = agg.open.got
  BY NotedFields
<1>2. agg'.open # None => (SeenIn(agg.open, "close")' <=> SeenIn(agg.open, "close"))
  BY <1>1 DEF SeenIn
<1>. QED
  BY <1>1, <1>2 DEF InFlight

\* The connection goes down.
LEMMA DisconnectSound ==
    ASSUME OiInv, stage = "market", saver.at = None, Disconnect
    PROVE  OiInv'
<1>1. /\ UNCHANGED <<stage, day, phase, flight, proc, worker, subscribed, saver, disk, watched>>
      /\ Running /\ up' = FALSE /\ agg' = NoteDown(agg) /\ chain' = {}
  BY DEF Disconnect, marketVars
<1>2. /\ Typed /\ Placed /\ Readable /\ Recorded /\ Connected(agg, chain) /\ Rounds /\ InFlight
      /\ agg \in Aggregators
  BY DEF OiInv, EvidenceInv, Typed
<1>3. WentDown(agg, agg')
  BY <1>1, <1>2, NoteDownFields
<1>4. Noted(agg, agg') /\ agg' \in Aggregators /\ agg'.up = FALSE /\ agg'.pending = None
      /\ agg'.seen = agg.seen
  BY <1>3 DEF WentDown, Noted
<1>5. Typed'
  BY <1>1, <1>2, <1>4 DEF Typed, NoSave
<1>6. Placed' /\ Readable'
  BY <1>1, <1>2, <1>4 DEF Placed, Readable, Running, NoSave
<1>7. Recorded'
  <2>1. Ordered(agg) /\ OpenTrueAt(agg, day, phase)
    BY <1>1, <1>2 DEF Recorded, OpenTrue
  <2>2. Adds(agg')
    BY <1>2, <1>4, <2>1, NotedRecord DEF Adds, Noted
  <2>. QED
    BY <1>1, <1>2, <2>2, AddedRecords DEF SameDisk
<1>8. Connected(agg', chain')
  <2>1. agg'.seen => agg'.open # None /\ agg'.open.got # {}
    BY <1>2, <1>4, NotedFields DEF Connected, Seeing
  <2>. QED
    BY <1>1, <1>4, <2>1 DEF Connected, WaitingIn, Seeing, LinkedIn, ChangedIn
<1>9. Working' <=> Working
  BY <1>1 DEF Working, Running, Closing
<1>10. Rounds'
  <2>1. \A d : RoundOK(d) => RoundOK(d)'
    BY <1>1, <1>2, <1>4, NotedRounds DEF SameTick
  <2>. QED
    BY <1>1, <1>2, <1>9, <2>1 DEF Rounds
<1>11. InFlight'
  BY <1>1, <1>2, <1>4, <1>9, NotedFlight
<1>. QED
  BY <1>5, <1>6, <1>7, <1>8, <1>10, <1>11 DEF OiInv, EvidenceInv

\* A connection comes up.
LEMMA LogInSound ==
    ASSUME OiInv, stage = "market", saver.at = None, LogIn
    PROVE  OiInv'
<1>1. /\ UNCHANGED <<stage, day, phase, flight, proc, worker, subscribed, saver, disk,
                     chain, watched>>
      /\ Running /\ ~up /\ up' = TRUE /\ agg' = NoteLogin(agg)
  BY DEF LogIn, marketVars
<1>2. /\ Typed /\ Placed /\ Readable /\ Recorded /\ Connected(agg, chain) /\ Rounds /\ InFlight
      /\ agg \in Aggregators /\ chain = {}
  BY <1>1 DEF OiInv, EvidenceInv, Typed, Placed
<1>3. CameUp(agg, agg')
  BY <1>1, <1>2, NoteLoginFields
<1>4. /\ Noted(agg, agg') /\ agg' \in Aggregators /\ agg'.up = TRUE /\ agg'.open = agg.open
      /\ agg'.seen = agg.seen /\ agg'.linked # "current"
      /\ agg'.completed = agg.completed /\ agg'.moves = agg.moves
      /\ agg'.pending = IF agg.pending = None THEN None ELSE [agg.pending EXCEPT !.linked = "stale"]
  BY <1>3, NoneApart DEF CameUp, Noted
<1>5. Typed'
  BY <1>1, <1>2, <1>4 DEF Typed, NoSave
<1>6. Placed' /\ Readable'
  BY <1>1, <1>2, <1>4 DEF Placed, Readable, Running, NoSave
<1>7. Recorded'
  <2>1. Ordered(agg) /\ OpenTrueAt(agg, day, phase)
    BY <1>1, <1>2 DEF Recorded, OpenTrue
  <2>2. Adds(agg')
    BY <1>2, <1>4, <2>1, NotedRecord DEF Adds, Noted
  <2>. QED
    BY <1>1, <1>2, <2>2, AddedRecords DEF SameDisk
<1>8. Connected(agg', chain')
  <2>1. WaitingIn(agg, {}) /\ Seeing(agg)
    BY <1>2 DEF Connected
  <2>2. agg'.pending # None =>
          /\ agg.pending # None /\ agg'.pending.from = agg.pending.from
          /\ agg'.pending.digest = agg.pending.digest /\ agg'.pending.linked = "stale"
    <3>1. agg.pending # None => agg.pending \in Pendings
      BY <1>2 DEF Aggregators
    <3>. QED
      BY <1>4, <3>1 DEF Pendings
  <2>3. WaitingIn(agg', {})
    BY <1>4, <2>1, <2>2 DEF WaitingIn
  <2>4. Seeing(agg')
    BY <1>4, <2>1 DEF Seeing
  <2>. QED
    BY <1>1, <1>2, <1>4, <2>3, <2>4 DEF Connected, LinkedIn, ChangedIn
<1>9. Working' <=> Working
  BY <1>1 DEF Working, Running, Closing
<1>10. Rounds'
  <2>1. \A d : RoundOK(d) => RoundOK(d)'
    BY <1>1, <1>2, <1>4, NotedRounds DEF SameTick
  <2>. QED
    BY <1>1, <1>2, <1>9, <2>1 DEF Rounds
<1>11. InFlight'
  BY <1>1, <1>2, <1>4, <1>9, NotedFlight
<1>. QED
  BY <1>5, <1>6, <1>7, <1>8, <1>10, <1>11 DEF OiInv, EvidenceInv

\* What is noted against the open day changes nothing in the connection.
LEMMA MarkedConnected ==
    ASSUME NEW a \in Aggregators, NEW c, Connected(a, c)
    PROVE  Connected(MarkIssue(a), c)
<1> DEFINE b == MarkIssue(a)
<1>1. Marked(a, b)
  BY MarkIssueFields
<1> HIDE DEF b
<1>2. /\ b.completed = a.completed /\ b.moves = a.moves /\ b.seen = a.seen /\ b.up = a.up
      /\ b.linked = a.linked /\ b.pending = a.pending
      /\ Noted(a, b)
  BY <1>1 DEF Marked, Noted
<1>3. /\ b.open = None <=> a.open = None
      /\ a.open # None =>
           /\ b.open.day = a.open.day /\ b.open.got = a.open.got /\ (a.open.issue => b.open.issue)
  BY <1>2, NotedFields
<1>4. CASE a.open = None
  BY <1>1, <1>4 DEF Marked, b
<1>5. CASE a.open # None
  <2>1. WaitingIn(b, c)
    BY <1>2, <1>3 DEF Connected, WaitingIn
  <2>2. Seeing(b) /\ LinkedIn(b, c)
    BY <1>2, <1>3 DEF Connected, Seeing, LinkedIn
  <2>3. ChangedIn(b, c)
    BY <1>2, <1>3, <1>5 DEF Connected, ChangedIn, Tied
  <2>. QED
    BY <2>1, <2>2, <2>3 DEF Connected, b
<1>. QED
  BY <1>4, <1>5

\* A round of maintenance fails.
LEMMA RoundFailsSound ==
    ASSUME OiInv, stage = "market", Running, worker.at # "rest", RoundFails,
           UNCHANGED <<stage, marketVars, up, flight, agg, subscribed, saver, disk, chain, watched>>
    PROVE  OiInv'
<1>1. /\ UNCHANGED <<stage, day, phase, up, flight, agg, subscribed, saver, disk, chain, watched>>
      /\ worker' = [worker EXCEPT !.at = "rest", !.error = IsLive] /\ proc' = AfterError
  BY DEF RoundFails, marketVars
<1>2. /\ Typed /\ Placed /\ Readable /\ Recorded /\ Connected(agg, chain) /\ Rounds /\ InFlight
      /\ worker \in Workers
  BY DEF OiInv, EvidenceInv, Typed
<1>3. IsLive \in BOOLEAN
  BY DEF IsLive, Running
<1>4. worker' \in Workers /\ worker'.at = "rest" /\ worker'.done = worker.done
  BY <1>1, <1>2, <1>3 DEF Workers
<1>5. proc' \in Process /\ proc' # None /\ (Working' => Working)
  <2>1. AfterError \in Process /\ (proc.closing => AfterError.closing)
    BY <1>2, AfterErrorFields
  <2>. QED
    BY <1>1, <2>1, NoneApart DEF Working, Running, Closing
<1>6. Typed'
  BY <1>1, <1>2, <1>4, <1>5 DEF Typed, NoSave
<1>7. Placed' /\ Readable'
  BY <1>1, <1>2, <1>4, <1>5 DEF Placed, Readable, Running, NoSave, Durable
<1>8. Recorded'
  BY <1>1, <1>2, KeptRecords DEF SameAgg, SameDisk, TimePasses
<1>9. \A d : RoundOK(d) => RoundOK(d)'
  BY <1>1 DEF RoundOK, WholeDay, SeenIn
<1>10. Rounds'
  BY <1>1, <1>2, <1>4, <1>5, <1>9 DEF Rounds
<1>11. InFlight'
  BY <1>1, <1>2, <1>4, <1>5 DEF InFlight, SeenIn
<1>. QED
  BY <1>1, <1>2, <1>6, <1>7, <1>8, <1>10, <1>11, KeptConnection
     DEF OiInv, EvidenceInv, SameAgg, SameLink

\* The maintenance reports what it has subscribed to, and the round is done.
LEMMA NoteSubscriptionsSound ==
    ASSUME OiInv, stage = "market", saver.at = None, NoteSubscriptions
    PROVE  OiInv'
<1>1. /\ UNCHANGED <<stage, marketVars, up, flight, subscribed, saver, disk, chain, watched>>
      /\ Running /\ worker.at = "subscribed"
  BY DEF NoteSubscriptions, MayMaintain
<1>2. CASE RoundFails /\ UNCHANGED agg
  BY <1>1, <1>2, RoundFailsSound
<1>3. CASE /\ agg' = MarkIssue(agg) \/ agg' = agg
           /\ worker' = [Rest EXCEPT !.done = worker.day, !.noted = worker.noted \cup worker.new]
           /\ UNCHANGED proc
  <2>1. UNCHANGED <<stage, day, phase, up, flight, proc, subscribed, saver, disk, chain, watched>>
    BY <1>1, <1>3 DEF marketVars
  <2>2. /\ Typed /\ Placed /\ Readable /\ Recorded /\ Connected(agg, chain) /\ Rounds /\ InFlight
        /\ agg \in Aggregators /\ worker \in Workers /\ day \in Nat
    BY DaysAreNumbers DEF OiInv, EvidenceInv, Typed
  <2>3. Noted(agg, agg') /\ agg' \in Aggregators /\ agg'.up = agg.up
    <3>1. CASE agg' = MarkIssue(agg)
      BY <2>2, <3>1, MarkIssueFields DEF Marked, Noted
    <3>2. CASE agg' = agg
      BY <2>2, <3>2 DEF Noted
    <3>. QED
      BY <1>3, <3>1, <3>2
  <2>4. worker' \in Workers /\ worker'.at = "rest" /\ worker'.done = worker.day
    BY <1>3, <2>2, NobodyTyped DEF Workers
  <2>5. Typed'
    BY <2>1, <2>2, <2>3, <2>4 DEF Typed, NoSave
  <2>6. Placed' /\ Readable'
    BY <1>1, <2>1, <2>2, <2>3, <2>4 DEF Placed, Readable, Running, NoSave
  <2>7. Recorded'
    <3>1. Ordered(agg) /\ OpenTrueAt(agg, day, phase)
      BY <1>1, <2>2 DEF Recorded, OpenTrue
    <3>2. Adds(agg')
      BY <2>2, <2>3, <3>1, NotedRecord DEF Adds, Noted
    <3>. QED
      BY <1>1, <2>1, <2>2, <3>2, AddedRecords DEF SameDisk
  <2>8. Connected(agg', chain')
    BY <1>3, <2>1, <2>2, MarkedConnected
  <2>9. Working' <=> Working
    BY <2>1 DEF Working, Running, Closing
  <2>10. \A d : RoundOK(d) => RoundOK(d)'
    BY <2>1, <2>2, <2>3, NotedRounds DEF SameTick
  <2>11. Working => /\ worker.day \in 1..day /\ RoundOK(worker.day)
                    /\ phase = "close" => worker.day = day
                    /\ worker.day = day \/ worker.day = worker.done
    <3> SUFFICES ASSUME Working
                 PROVE  /\ worker.day \in 1..day /\ RoundOK(worker.day)
                        /\ phase = "close" => worker.day = day
                        /\ worker.day = day \/ worker.day = worker.done
      OBVIOUS
    <3>1. /\ RoundOK(worker.day) /\ worker.done \in 1..day
          /\ \/ worker.day = day
             \/ worker.done = worker.day /\ day = worker.day + 1 /\ phase = "open"
      BY <1>1, <2>2 DEF Rounds
    <3>2. day \in 1..day
      BY <2>2, DaysAreNumbers DEF Typed
    <3>. QED
      BY <3>1, <3>2
  <2>12. Rounds'
    BY <2>1, <2>4, <2>9, <2>10, <2>11 DEF Rounds
  <2>13. InFlight'
    <3>1. /\ agg'.open = None <=> agg.open = None
          /\ agg.open # None => agg'.open.day = agg.open.day /\ agg'.open.got = agg.open.got
      BY <2>2, <2>3, NotedFields
    <3>2. agg'.open # None => (SeenIn(agg.open, "close")' <=> SeenIn(agg.open, "close"))
      BY <3>1 DEF SeenIn
    <3>. QED
      BY <2>1, <2>2, <2>4, <2>9, <2>11, <3>1, <3>2 DEF InFlight
  <2>. QED
    BY <2>5, <2>6, <2>7, <2>8, <2>12, <2>13 DEF OiInv, EvidenceInv
<1>. QED
  BY <1>2, <1>3 DEF NoteSubscriptions

\* The open day after a round for day d with contracts uni: as it was, or new, or with other
\* contracts, which counts against a day that has seen a tick.
Listed(a, d, uni, b) ==
    \/ /\ b.open = a.open
       /\ a.open = None => d = 1
       /\ a.open # None => a.open.day = d /\ a.open.uni = uni
    \/ /\ b.open = NewDay(d, uni)
       /\ a.open # None => a.open.day < d
       /\ a.open = None => d > 1
    \/ /\ a.open # None /\ a.open.day = d
       /\ b.open \in OpenDays /\ b.open.day = d /\ b.open.uni = uni /\ b.open.got = a.open.got
       /\ a.open.issue \/ a.open.got # {} => b.open.issue

\* A round leaves the evidence in order and proves nothing of itself.
Refreshed(a, c, d, uni, b) ==
    /\ b \in Aggregators /\ b.up = a.up
    /\ Ordered(b) /\ OpenTrue(b) /\ Extends(a, b) /\ Connected(b, c)
    /\ \A e \in Days : b.moves[e] = a.moves[e]
    /\ Listed(a, d, uni, b)
\* The catalog is not evidence.
LEMMA RefreshedStays ==
    ASSUME NEW a, NEW c, NEW d, NEW uni, NEW b, Refreshed(a, c, d, uni, b),
           NEW listed \in SUBSET Contracts
    PROVE  Refreshed(a, c, d, uni, [b EXCEPT !.catalog = listed])
<1> DEFINE e == [b EXCEPT !.catalog = listed]
<1>1. /\ e \in Aggregators /\ e.completed = b.completed /\ e.moves = b.moves /\ e.open = b.open
      /\ e.linked = b.linked /\ e.pending = b.pending /\ e.seen = b.seen /\ e.up = b.up
  BY DEF Refreshed, Aggregators
<1> HIDE DEF e
<1>2. Ordered(e) /\ OpenTrue(e) /\ Extends(a, e)
  BY <1>1 DEF Refreshed, Ordered, OpenTrue, OpenTrueAt, Extends
<1>3. Connected(e, c)
  BY <1>1, SameConnection DEF Refreshed
<1>4. Listed(a, d, uni, e)
  BY <1>1 DEF Refreshed, Listed
<1>5. Refreshed(a, c, d, uni, e)
  BY <1>1, <1>2, <1>3, <1>4 DEF Refreshed
<1>. QED
  BY <1>5 DEF e

\* refresh_contract_catalog leaves the evidence in order.
LEMMA RefreshCatalogSound ==
    ASSUME NEW a \in Aggregators, Ordered(a), OpenTrue(a), NEW c \in SUBSET Days, Connected(a, c),
           NEW d \in Days, NEW listed \in SUBSET Contracts, BridgeCovers(a, d) \/ ~MovesBack(a, d)
    PROVE  Refreshed(a, c, d, listed \cap OiContracts, RefreshCatalog(a, d, listed))
<1> DEFINE uni == listed \cap OiContracts
           other == [a EXCEPT !.open.uni = uni, !.changed = TRUE,
                              !.open.issue = @ \/ a.open.got # {}]
           b == IF BridgeCovers(a, d) THEN a
                ELSE IF a.open = None \/ a.open.day # d THEN Rollover(a, d, uni, FALSE)
                ELSE IF a.open.uni = uni THEN a
                ELSE other
<1>1. RefreshCatalog(a, d, listed) = [b EXCEPT !.catalog = listed]
  BY DEF RefreshCatalog
<1>2. a.open # None => a.open \in OpenDays /\ a.open.day \in Days
  BY DEF Aggregators, OpenDays
<1>3. uni \in SUBSET Contracts
  OBVIOUS
<1> HIDE DEF uni
<1>4. Refreshed(a, c, d, uni, b)
  <2>1. CASE \/ a.open = None /\ d = 1
             \/ a.open # None /\ a.open.day = d /\ a.open.uni = uni
    <3>1. b = a
      BY <2>1, <1>2, AcceptedDay
    <3>. QED
      BY <2>1, <3>1 DEF Refreshed, Listed, Extends
  <2>2. CASE (a.open = None /\ d # 1) \/ (a.open # None /\ a.open.day # d)
    <3>1. b = Rollover(a, d, uni, FALSE) /\ Later(a, d)
      BY <2>2, <1>2, AcceptedDay
    <3> HIDE DEF b
    <3>2. Rolled(a, d, uni, b) /\ Connected(b, c)
      BY <1>3, <3>1, RolloverSound, RolloverConnected
    <3>3. b.moves = a.moves
      <4>1. CASE a.open = None
        <5>1. First(a, b)
          BY <1>3, <3>1, <4>1, FirstDay
        <5>. QED
          BY <5>1 DEF First
      <4>2. CASE a.open # None
        <5>1. ByRound(a, d, b)
          BY <1>3, <3>1, <4>2, NextDayByRound
        <5>. QED
          BY <5>1 DEF ByRound
      <4>. QED
        BY <4>1, <4>2
    <3>4. Listed(a, d, uni, b)
      <4>1. b.open = NewDay(d, uni)
        BY <3>2 DEF Rolled, Opened
      <4>. QED
        BY <3>1, <4>1 DEF Listed, Later
    <3>. QED
      BY <3>2, <3>3, <3>4 DEF Refreshed, Rolled, Opened
  <2>3. CASE a.open # None /\ a.open.day = d /\ a.open.uni # uni
    <3> DEFINE issue == a.open.issue \/ a.open.got # {}
               open == [a.open EXCEPT !.uni = uni, !.issue = issue]
    <3>1. b = other
      BY <2>3, <1>2, AcceptedDay, DaysAreNumbers
    <3>2. other = [a EXCEPT !.open = open, !.changed = TRUE]
      BY <2>3, <1>2 DEF Aggregators, OpenDays
    <3>3. /\ open \in OpenDays /\ open.day = d /\ open.uni = uni /\ open.got = a.open.got
          /\ open.issue = issue
      BY <2>3, <1>2, <1>3 DEF OpenDays
    <3> HIDE DEF b, other, open, issue
    <3>4. /\ b \in Aggregators /\ b.completed = a.completed /\ b.moves = a.moves /\ b.open = open
          /\ b.linked = a.linked /\ b.pending = a.pending /\ b.seen = a.seen /\ b.up = a.up
      BY <3>1, <3>2, <3>3 DEF Aggregators
    <3>5. open # None /\ (a.open.issue \/ a.open.got # {} => open.issue)
      BY <3>3, NoneApart DEF issue
    <3>6. Ordered(b) /\ Extends(a, b)
      BY <2>3, <3>3, <3>4, <3>5 DEF Ordered, Extends
    <3>7. OpenTrue(b)
      <4>1. WholeDay(open) => open.got # {}
        BY DEF WholeDay, SeenIn
      <4>2. SeenIn(open, "close") => SeenIn(a.open, "close")
        BY <3>3 DEF SeenIn
      <4>. QED
        BY <2>3, <3>3, <3>4, <3>5, <4>1, <4>2 DEF OpenTrue, OpenTrueAt
    <3>8. Connected(b, c)
      <4>1. WaitingIn(b, c)
        BY <2>3, <3>3, <3>4, <3>5 DEF Connected, WaitingIn
      <4>2. Seeing(b) /\ LinkedIn(b, c)
        BY <2>3, <3>3, <3>4, <3>5 DEF Connected, Seeing, LinkedIn
      <4>3. ChangedIn(b, c)
        BY <2>3, <3>3, <3>4, <3>5 DEF Connected, ChangedIn, Tied
      <4>. QED
        BY <4>1, <4>2, <4>3 DEF Connected
    <3>9. Listed(a, d, uni, b)
      BY <2>3, <3>3, <3>4, <3>5 DEF Listed
    <3>. QED
      BY <3>4, <3>6, <3>7, <3>8, <3>9 DEF Refreshed
  <2>. QED
    BY <2>1, <2>2, <2>3
<1> HIDE DEF b
<1>. QED
  BY <1>1, <1>4, RefreshedStays DEF uni

\* A round that has refreshed the contracts of a day has done so for good: every round that
\* was done stays done.
LEMMA RefreshedRounds ==
    ASSUME NEW c, NEW d \in Days, Typed, Rounds, Working, worker.at = "read", worker.day = d,
           Refreshed(agg, c, d, Expected(day), agg'), UNCHANGED <<day, flight>>
    PROVE  /\ \A e \in Nat : RoundOK(e) => RoundOK(e)'
           /\ RoundOK(d)'
<1>1. /\ agg \in Aggregators /\ Listed(agg, d, Expected(day), agg') /\ day \in Nat /\ d \in Nat
      /\ agg.open # None => agg.open \in OpenDays /\ agg.open.day \in Nat
  BY DaysAreNumbers DEF Typed, Refreshed, Aggregators, OpenDays
<1>2. /\ RoundOK(worker.done)
      /\ d = day \/ (worker.done = d /\ day > d)
  BY <1>1 DEF Rounds
<1>3. CASE agg'.open = agg.open /\ (agg.open = None => d = 1)
           /\ (agg.open # None => agg.open.day = d /\ agg.open.uni = Expected(day))
  <2>1. \A e : RoundOK(e) => RoundOK(e)'
    BY <1>3 DEF RoundOK, WholeDay, SeenIn
  <2>2. CASE d = day
    BY <1>3, <2>2 DEF RoundOK
  <2>3. CASE worker.done = d
    BY <1>2, <2>1, <2>3
  <2>. QED
    BY <1>2, <2>1, <2>2, <2>3
<1>4. CASE /\ agg'.open = NewDay(d, Expected(day)) /\ (agg.open # None => agg.open.day < d)
           /\ (agg.open = None => d > 1)
  <2>1. /\ agg'.open # None /\ agg'.open.day = d /\ agg'.open.got = {}
        /\ agg'.open.uni = Expected(day)
    <3>1. NewDay(d, Expected(day)) \in OpenDays
      BY NewDayTyped, DaysAreNumbers DEF Expected, Typed
    <3>2. NewDay(d, Expected(day)) # None
      BY <3>1, NoneApart
    <3>. QED
      BY <1>4, <3>2 DEF NewDay
  <2>2. \A e \in Nat : RoundOK(e) => e < d
    <3> SUFFICES ASSUME NEW e \in Nat, RoundOK(e) PROVE e < d
      OBVIOUS
    <3>1. CASE agg.open = None
      BY <1>1, <1>4, <3>1 DEF RoundOK
    <3>2. CASE agg.open # None
      <4>1. agg.open.day >= e
        BY <1>1, <3>2 DEF RoundOK
      <4>. QED
        BY <1>1, <1>4, <3>2, <4>1
    <3>. QED
      BY <3>1, <3>2
  <2>3. \A e \in Nat : e < d => RoundOK(e)'
    BY <2>1, <1>1 DEF RoundOK
  <2>4. RoundOK(d)'
    <3>1. d = day \/ day' > d
      BY <1>2
    <3>. QED
      BY <2>1, <3>1 DEF RoundOK
  <2>. QED
    BY <2>2, <2>3, <2>4
<1>5. CASE /\ agg.open # None /\ agg.open.day = d
           /\ agg'.open \in OpenDays /\ agg'.open.day = d /\ agg'.open.uni = Expected(day)
           /\ agg'.open.got = agg.open.got
           /\ agg.open.issue \/ agg.open.got # {} => agg'.open.issue
  <2>1. agg'.open # None
    BY <1>5, NoneApart
  <2>2. RoundOK(d)'
    <3>1. d = day \/ day' > d
      BY <1>2
    <3>2. agg'.open.got = {} \/ agg'.open.issue
      BY <1>5
    <3>. QED
      BY <1>5, <2>1, <3>1, <3>2 DEF RoundOK
  <2>3. \A e \in Nat : RoundOK(e) => e <= d
    BY <1>1, <1>5 DEF RoundOK
  <2>4. \A e \in Nat : e < d => RoundOK(e)'
    BY <1>5, <2>1, <1>1 DEF RoundOK
  <2>5. \A e \in Nat : e <= d => e < d \/ e = d
    BY <1>1
  <2>. QED
    BY <2>2, <2>3, <2>4, <2>5
<1>. QED
  BY <1>1, <1>3, <1>4, <1>5 DEF Listed

\* The maintenance brings the contracts of the day it has read.
LEMMA RefreshSound ==
    ASSUME OiInv, stage = "market", saver.at = None, Refresh
    PROVE  OiInv'
<1>1. /\ UNCHANGED <<stage, marketVars, up, flight, subscribed, saver, disk, chain, watched>>
      /\ Running /\ worker.at = "read"
  BY DEF Refresh, MayMaintain
<1>2. CASE RoundFails /\ UNCHANGED agg
  BY <1>1, <1>2, RoundFailsSound
<1>3. CASE /\ BridgeCovers(agg, worker.day) \/ ~MovesBack(agg, worker.day)
           /\ agg' = RefreshCatalog(agg, worker.day, Listing[day])
           /\ worker' = [worker EXCEPT !.at = "refreshed", !.new = Listing[day] \ worker.noted]
           /\ UNCHANGED proc
  <2> DEFINE d == worker.day
  <2>1. UNCHANGED <<stage, day, phase, up, flight, proc, subscribed, saver, disk, chain, watched>>
    BY <1>1, <1>3 DEF marketVars
  <2>2. /\ Typed /\ Placed /\ Readable /\ Recorded /\ Connected(agg, chain) /\ Rounds /\ InFlight
        /\ agg \in Aggregators /\ worker \in Workers /\ day \in Days /\ d \in Days
        /\ chain \in SUBSET Days
    BY <1>1 DEF OiInv, EvidenceInv, Typed, Placed
  <2>3. Ordered(agg) /\ OpenTrue(agg) /\ Listing[day] \in SUBSET Contracts
    BY <1>1, <2>2, DaysAreNumbers DEF Recorded
  <2>4. Refreshed(agg, chain, d, Expected(day), agg')
    BY <1>3, <2>2, <2>3, RefreshCatalogSound DEF Expected
  <2>5. /\ worker' \in Workers /\ worker'.at = "refreshed" /\ worker'.day = d
        /\ worker'.done = worker.done
    BY <1>3, <2>2, <2>3 DEF Workers
  <2>6. agg' \in Aggregators /\ agg'.up = agg.up
    BY <2>4 DEF Refreshed
  <2>7. Typed'
    BY <2>1, <2>2, <2>5, <2>6 DEF Typed, NoSave
  <2>8. Placed' /\ Readable'
    BY <1>1, <2>1, <2>2, <2>5, <2>6 DEF Placed, Readable, Running, NoSave
  <2>9. Recorded'
    <3>1. Adds(agg')
      BY <2>4 DEF Refreshed, Adds, OpenTrue
    <3>. QED
      BY <1>1, <2>1, <2>2, <3>1, AddedRecords DEF SameDisk
  <2>10. Connected(agg', chain')
    BY <2>1, <2>4 DEF Refreshed
  <2>11. Working' <=> Working
    BY <2>1 DEF Working, Running, Closing
  <2>12. Rounds'
    <3> SUFFICES ASSUME Working PROVE Rounds'
      BY <2>11 DEF Rounds
    <3>1. PICK x \in Days : x = d
      BY <2>2
    <3>2. (\A e \in Nat : RoundOK(e) => RoundOK(e)') /\ RoundOK(x)'
      <4>1. UNCHANGED <<day, flight>> /\ worker.day = x
        BY <2>1, <3>1
      <4>2. Refreshed(agg, chain, x, Expected(day), agg')
        BY <2>4, <3>1
      <4>. QED
        BY <1>1, <2>2, <4>1, <4>2, RefreshedRounds
    <3>3. PICK y \in Nat : y = worker.done
      BY <2>2, DaysAreNumbers DEF Workers
    <3>4. RoundOK(y)'
      BY <2>2, <3>2, <3>3 DEF Rounds
    <3>5. RoundOK(worker.day)' /\ RoundOK(worker.done)'
      BY <2>5, <3>1, <3>2, <3>3, <3>4
    <3>. QED
      BY <1>1, <2>1, <2>2, <2>5, <3>5 DEF Rounds
  <2>13. InFlight'
    <3>1. Listed(agg, d, Expected(day), agg')
      BY <2>4 DEF Refreshed
    <3>2. agg'.open # None =>
             \/ agg'.open.got = {}
             \/ agg.open # None /\ agg'.open.day = agg.open.day /\ agg'.open.got = agg.open.got
      BY <3>1 DEF Listed, NewDay
    <3>3. agg'.open # None /\ SeenIn(agg.open, "close")' =>
             agg.open # None /\ agg'.open.day = agg.open.day /\ SeenIn(agg.open, "close")
      BY <3>2 DEF SeenIn
    <3>. QED
      BY <2>1, <2>2, <2>5, <2>11, <3>3 DEF InFlight
  <2>. QED
    BY <2>7, <2>8, <2>9, <2>10, <2>12, <2>13 DEF OiInv, EvidenceInv
<1>. QED
  BY <1>2, <1>3 DEF Refresh

\* The day of a tick is open before it is observed. A proof that this makes new is of two
\* days of the chain, with the tick.
BeginsDay(t, a) ==
    /\ a \in Aggregators /\ a.up = agg.up /\ a.open \in OpenDays /\ a.open.day = t.day
    /\ Ordered(a) /\ OpenTrue(a) /\ Extends(agg, a) /\ Connected(a, chain)
    /\ \A e \in Days :
         \/ a.moves[e] = agg.moves[e]
         \/ /\ agg.up /\ e \in chain \cap Adjacent /\ t.day = e + 1
            /\ True(e, a.moves[e])
    /\ a = agg \/ (a.open.got = {} /\ Later(agg, t.day))
\* Whatever day the observer finds open, it leaves that of the tick open.
LEMMA OpenedForSound ==
    ASSUME agg \in Aggregators, Ordered(agg), OpenTrue(agg), chain \in SUBSET Days,
           Connected(agg, chain), NEW t \in Ticks,
           agg.open = None => ~MovesBack(agg, t.day), agg.open # None => ~(t.day < agg.open.day)
    PROVE  BeginsDay(t, OpenedFor(agg, t))
<1> DEFINE a == OpenedFor(agg, t)
           uni == agg.catalog \cap OiContracts
<1>1. t.day \in Days /\ uni \in SUBSET Contracts /\ t.day \in Nat
  BY DaysAreNumbers DEF Ticks, Aggregators
<1>2. agg.open # None => agg.open \in OpenDays /\ agg.open.day \in Days /\ agg.open.day \in Nat
  BY DaysAreNumbers DEF Aggregators, OpenDays
<1>3. CASE agg.open # None /\ agg.open.day = t.day
  <2>1. a = agg
    BY <1>3 DEF OpenedFor
  <2>. QED
    BY <1>2, <1>3, <2>1 DEF BeginsDay, Extends
<1>4. CASE ~(agg.open # None /\ agg.open.day = t.day)
  <2>1. a = Rollover(agg, t.day, uni, TRUE)
    BY <1>4 DEF OpenedFor
  <2>2. Later(agg, t.day)
    <3>1. CASE agg.open = None
      BY <1>1, <1>2, <3>1, AcceptedDay
    <3>2. CASE agg.open # None
      BY <1>1, <1>2, <1>4, <3>2 DEF Later
    <3>. QED
      BY <3>1, <3>2
  <2> HIDE DEF a, uni
  <2>3. Rolled(agg, t.day, uni, a) /\ Connected(a, chain)
    BY <1>1, <2>1, <2>2, RolloverSound, RolloverConnected
  <2>4. a.open \in OpenDays /\ a.open.day = t.day /\ a.open.got = {}
    <3>1. NewDay(t.day, uni) \in OpenDays /\ a.open = NewDay(t.day, uni)
      BY <1>1, <2>3, NewDayTyped DEF Rolled, Opened
    <3>. QED
      BY <3>1 DEF NewDay
  <2>5. ASSUME NEW e \in Days, a.moves[e] # agg.moves[e]
        PROVE  /\ agg.up /\ e \in chain \cap Adjacent /\ t.day = e + 1
               /\ True(e, a.moves[e])
    <3>1. /\ agg.open # None /\ e = agg.open.day /\ Uninterrupted(agg, t.day)
          /\ a.moves[e] = Digest(agg.open)
      BY <2>3, <2>5 DEF Rolled
    <3>2. /\ agg.seen /\ agg.up /\ agg.linked = "current" /\ e \in Adjacent
          /\ t.day = e + 1
      BY <3>1 DEF Uninterrupted
    <3>3. e \in chain /\ agg.open.got # {}
      BY <3>1, <3>2 DEF Connected, LinkedIn, Seeing
    <3>. QED
      BY <1>2, <3>1, <3>2, <3>3, WholeDayTrue
  <2>. QED
    BY <2>2, <2>3, <2>4, <2>5 DEF BeginsDay, Rolled, Opened, a
<1>. QED
  BY <1>3, <1>4

\* The chain after a tick is observed; a tick of an expected contract is tied to it.
LEMMA ObservedConnected ==
    ASSUME NEW a \in Aggregators, a.open \in OpenDays, NEW c \in SUBSET Days, Connected(a, c),
           NEW t \in Ticks, a.open.day = t.day, NEW b, Observed(a, t, b),
           NEW s, s = IF a.up THEN c \cup {t.day} ELSE c
    PROVE  Connected(b, s)
<1>1. /\ WaitingIn(a, c) /\ LinkedIn(a, c) /\ ChangedIn(a, c) /\ a.open # None /\ b.open # None
      /\ t.day \in Nat /\ a.moves \in Completed
  BY NoneApart, DaysAreNumbers DEF Connected, Observed, Ticks, Aggregators
<1>2. /\ b.completed = a.completed /\ b.seen = TRUE /\ b.up = a.up /\ b.pending = None
      /\ b.open.day = t.day /\ b.open.got # {}
      /\ a.up => b.linked = "current" \/ b.open.issue
  BY DEF Observed
<1>3. /\ ~a.up => s = {}
      /\ a.up => s = c \cup {t.day}
  BY <1>1 DEF LinkedIn
<1>4. WaitingIn(b, s) /\ Seeing(b)
  BY <1>1, <1>2 DEF WaitingIn, Seeing
<1>5. LinkedIn(b, s)
  <2>1. \A d \in s \ {1} : d <= t.day
    BY <1>1, <1>3 DEF LinkedIn
  <2>. QED
    BY <1>1, <1>2, <1>3, <2>1 DEF LinkedIn
<1>6. ChangedIn(b, s)
  <2> SUFFICES ASSUME NEW d \in (s \cap Adjacent) \ {1}, t.day > d, Complete(a.completed[d])
               PROVE  Tied(b, s, d)
    BY <1>2 DEF ChangedIn
  <2>1. a.up /\ d \in c /\ d \in Days /\ d \in Nat /\ s = c \cup {t.day} /\ t.day # d
    BY <1>3, DaysAreNumbers
  <2>2. Tied(a, c, d)
    BY <1>1, <2>1 DEF ChangedIn
  <2>3. CASE Awaited(a, t.day)
    <3>1. /\ a.pending \in Pendings /\ a.pending.from \in Days /\ a.pending.digest # None
          /\ b.moves = [a.moves EXCEPT ![a.pending.from] = a.pending.digest]
      BY <2>3, NoneApart DEF Awaited, Aggregators, Pendings, Observed
    <3>2. a.moves[d] # None \/ d = a.pending.from => b.moves[d] # None
      BY <1>1, <2>1, <3>1 DEF Completed
    <3>3. a.pending.from \in Nat /\ t.day = a.pending.from + 1
      BY <2>3, <3>1, DaysAreNumbers DEF Awaited
    <3>4. d + 1 = t.day => d = a.pending.from
      BY <2>1, <3>3
    <3>. QED
      BY <1>2, <2>1, <2>2, <3>2, <3>4 DEF Tied
  <2>4. CASE ~Awaited(a, t.day)
    <3>1. b.moves = a.moves
      BY <2>4 DEF Observed
    <3>2. CASE a.moves[d] # None
      BY <3>1, <3>2 DEF Tied
    <3>3. CASE d + 1 # t.day
      BY <1>2, <2>1, <2>2, <3>1, <3>3 DEF Tied
    <3>4. CASE a.moves[d] = None /\ d + 1 = t.day
      BY <2>1, <2>2, <2>4, <3>4 DEF Tied, Awaited
    <3>. QED
      BY <3>2, <3>3, <3>4
  <2>. QED
    BY <2>3, <2>4
<1>. QED
  BY <1>4, <1>5, <1>6 DEF Connected

\* What a tick of an expected contract adds is true of the day.
LEMMA ObservedRecord ==
    ASSUME NEW a \in Aggregators, a.open \in OpenDays, Ordered(a), OpenTrue(a),
           WaitingIn(a, chain), NEW t \in Ticks, a.open.day = t.day, t.contract \in a.open.uni,
           NEW b, Observed(a, t, b),
           t.phase = "close" => day > t.day \/ (day = t.day /\ phase = "close"),
           t.phase = "open" => ~SeenIn(a.open, "close"),
           t.phase = "close" /\ SeenIn(a.open, "open") =>
              a.open.issue \/ a.open.uni = Expected(t.day)
    PROVE  /\ Ordered(b) /\ OpenTrue(b) /\ Extends(a, b)
           /\ \A e \in Days :
                \/ b.moves[e] = a.moves[e]
                \/ /\ a.up /\ e \in chain \cap Adjacent /\ t.day = e + 1
                   /\ True(e, b.moves[e])
<1>1. /\ a.open # None /\ b.open # None /\ a.moves \in Completed /\ b.completed = a.completed
      /\ t.phase \in AllPhases /\ t.contract \in Contracts
  BY NoneApart DEF Observed, Ticks, Aggregators
<1>2. /\ b.open.day = t.day /\ b.open.uni = a.open.uni /\ (a.open.issue => b.open.issue)
      /\ b.open.got = a.open.got \cup {<<t.contract, t.phase>>}
  BY DEF Observed
<1>3. OpenTrue(b)
  <2>1. \A p : SeenIn(b.open, p) => SeenIn(a.open, p) \/ p = t.phase
    BY <1>1, <1>2 DEF SeenIn
  <2>2. \A e \in b.open.got : b.open.issue \/ e[1] \in b.open.uni
    BY <1>1, <1>2 DEF OpenTrue, OpenTrueAt
  <2>3. SeenIn(b.open, "close") => day > b.open.day \/ (day = b.open.day /\ phase = "close")
    BY <1>1, <1>2, <2>1 DEF OpenTrue, OpenTrueAt
  <2>4. WholeDay(b.open) => b.open.issue \/ b.open.uni = Expected(b.open.day)
    <3> SUFFICES ASSUME WholeDay(b.open)
                 PROVE  b.open.issue \/ b.open.uni = Expected(b.open.day)
      OBVIOUS
    <3>1. CASE t.phase = "open"
      <4>1. ~SeenIn(a.open, "close") /\ t.phase # "close"
        BY <3>1
      <4>. QED
        BY <2>1, <4>1 DEF WholeDay
    <3>2. CASE t.phase = "close"
      <4>1. SeenIn(a.open, "open")
        BY <2>1, <3>2 DEF WholeDay
      <4>. QED
        BY <1>2, <3>2, <4>1
    <3>. QED
      BY <1>1, <3>1, <3>2 DEF AllPhases
  <2>. QED
    BY <2>2, <2>3, <2>4 DEF OpenTrue, OpenTrueAt
<1>4. CASE Awaited(a, t.day)
  <2> DEFINE d == a.pending.from
  <2>1. /\ d \in Days /\ d \in chain /\ d \in Adjacent /\ t.day = d + 1 /\ a.up
        /\ a.completed[d] = a.pending.digest /\ a.moves[d] = None /\ True(d, a.pending.digest)
    BY <1>4, DaysAreNumbers DEF Awaited, WaitingIn, Aggregators, Pendings
  <2>2. b.moves = [a.moves EXCEPT ![d] = a.pending.digest]
    BY <1>4 DEF Observed
  <2>3. /\ \A e \in Days : e # d => b.moves[e] = a.moves[e]
        /\ b.moves[d] = a.pending.digest
    BY <1>1, <2>1, <2>2 DEF Completed
  <2> HIDE DEF d
  <2>4. Ordered(b)
    BY <1>1, <1>2, <2>1, <2>3 DEF Ordered
  <2>5. Extends(a, b)
    BY <1>1, <2>1, <2>3 DEF Extends
  <2>. QED
    BY <1>3, <2>1, <2>3, <2>4, <2>5
<1>5. CASE ~Awaited(a, t.day)
  <2>1. b.moves = a.moves
    BY <1>5 DEF Observed
  <2>2. Ordered(b)
    BY <1>1, <1>2, <2>1 DEF Ordered
  <2>3. Extends(a, b)
    BY <1>1, <2>1 DEF Extends
  <2>. QED
    BY <1>3, <2>1, <2>2, <2>3
<1>. QED
  BY <1>4, <1>5

\* A tick leaves the rounds of maintenance as done as they were.
LEMMA TickRounds ==
    ASSUME agg \in Aggregators, NEW t \in Ticks, NEW a, flight = t, flight' = None, UNCHANGED day,
           BeginsDay(t, a), agg'.open \in OpenDays, agg'.open.day = t.day,
           agg'.open.uni = a.open.uni, a.open.issue => agg'.open.issue,
           a.open.got = {} => ~WholeDay(agg'.open)
    PROVE  \A e \in Nat : RoundOK(e) => RoundOK(e)'
<1> SUFFICES ASSUME NEW e \in Nat, RoundOK(e) PROVE RoundOK(e)'
  OBVIOUS
<1>1. /\ agg'.open # None /\ t.day \in Nat /\ flight # None
      /\ agg.open # None => agg.open.day \in Nat
  BY NoneApart, DaysAreNumbers DEF Ticks, Aggregators, OpenDays
<1>2. CASE a = agg
  <2>1. agg.open # None /\ agg.open.day = t.day
    BY <1>2, NoneApart DEF BeginsDay
  <2>2. CASE t.day > e
    BY <1>1, <2>2 DEF RoundOK
  <2>3. CASE t.day = e /\ (agg.open.uni = Expected(e) \/ agg.open.issue)
    BY <1>1, <1>2, <2>3 DEF RoundOK
  <2>4. CASE t.day = e /\ day > e /\ agg.open.got = {}
    BY <1>1, <1>2, <2>4 DEF RoundOK, WholeDay, SeenIn
  <2>. QED
    BY <1>1, <2>1, <2>2, <2>3, <2>4 DEF RoundOK
<1>3. CASE Later(agg, t.day)
  <2>1. t.day > e
    <3>1. CASE agg.open = None
      BY <1>1, <1>3, <3>1 DEF RoundOK, Later
    <3>2. CASE agg.open # None
      <4>1. agg.open.day >= e /\ t.day > agg.open.day
        BY <1>1, <1>3, <3>2 DEF RoundOK, Later
      <4>. QED
        BY <1>1, <3>2, <4>1
    <3>. QED
      BY <3>1, <3>2
  <2>. QED
    BY <1>1, <2>1 DEF RoundOK
<1>. QED
  BY <1>2, <1>3 DEF BeginsDay

\* The event thread hands a tick to the observer.
LEMMA ObserveTickSound ==
    ASSUME OiInv, stage = "market", saver.at = None, ObserveTick
    PROVE  OiInv'
<1>1. /\ UNCHANGED <<stage, day, phase, up, worker, subscribed, saver, disk>>
      /\ flight # None /\ flight' = None
  BY DEF ObserveTick, marketVars
<1>2. /\ Typed /\ Placed /\ Readable /\ Recorded /\ Connected(agg, chain) /\ Rounds /\ InFlight
      /\ agg \in Aggregators /\ chain \in SUBSET Days /\ day \in Nat
      /\ Running /\ flight \in Ticks /\ agg.up = up
  BY <1>1, DaysAreNumbers DEF OiInv, EvidenceInv, Typed, Placed, Running
<1>3. /\ Ordered(agg) /\ OpenTrue(agg) /\ Proven(agg)
      /\ flight.day \in Days /\ flight.day \in Nat
  BY <1>2, DaysAreNumbers DEF Recorded, Ticks
<1>4. watched \subseteq Watched(flight.day) /\ Watched(flight.day) \subseteq Days
      /\ Shown(flight.day) \subseteq Days
  BY <1>2, <1>3, DaysAreNumbers DEF Typed, Watched, Shown
<1>5. SameTick /\ SameDisk
  BY <1>1 DEF SameTick, SameDisk
<1>6. CASE UNCHANGED <<agg, proc, chain, watched>>
  <2>1. Typed' /\ Placed' /\ Readable'
    BY <1>1, <1>2, <1>6 DEF Typed, Placed, Readable, Running, NoSave, Durable
  <2>. QED
    BY <1>1, <1>5, <1>6, <2>1, QuietSound DEF SameAgg, SameLink, Working, Running, Closing
<1>7. CASE proc' = AfterError /\ UNCHANGED <<agg, chain, watched>>
  <2>1. proc' \in Process /\ proc' # None /\ (Working' => Working)
    <3>1. AfterError \in Process /\ (proc.closing => AfterError.closing)
      BY <1>2, AfterErrorFields
    <3>. QED
      BY <1>2, <1>7, <3>1, NoneApart DEF Working, Running, Closing
  <2>2. Typed' /\ Placed' /\ Readable'
    BY <1>1, <1>2, <1>7, <2>1 DEF Typed, Placed, Readable, Running, NoSave, Durable
  <2>. QED
    BY <1>1, <1>2, <1>5, <1>7, <2>1, <2>2, QuietSound DEF SameAgg, SameLink
\* What all the others have in common.
<1>8. ASSUME UNCHANGED proc, Adds(agg'), agg'.up = agg.up, chain' \in {chain, Shown(flight.day)},
             watched' = Watched(flight.day), Connected(agg', chain'),
             \A e \in Nat : RoundOK(e) => RoundOK(e)'
      PROVE  OiInv'
  <2>1. Typed'
    BY <1>1, <1>2, <1>4, <1>8 DEF Typed, NoSave, Adds
  <2>2. Placed' /\ Readable'
    BY <1>1, <1>2, <1>8 DEF Placed, Readable, Running, NoSave, Shown
  <2>3. Recorded'
    BY <1>1, <1>2, <1>4, <1>5, <1>8, AddedRecords
  <2>4. Working' <=> Working
    BY <1>8 DEF Working, Running, Closing
  <2>5. PICK x \in Nat : x = worker.done
    BY <1>2, DaysAreNumbers DEF Typed, Workers
  <2>6. PICK y \in Nat : y = worker.day
    BY <1>2, DaysAreNumbers DEF Typed, Workers
  <2>7. /\ RoundOK(worker.done) => RoundOK(worker.done)'
        /\ RoundOK(worker.day) => RoundOK(worker.day)'
    BY <1>1, <1>8, <2>5, <2>6
  <2>8. Rounds'
    BY <1>1, <1>2, <2>4, <2>7 DEF Rounds
  <2>9. InFlight'
    BY <1>1 DEF InFlight
  <2>. QED
    BY <1>8, <2>1, <2>2, <2>3, <2>8, <2>9 DEF OiInv, EvidenceInv
<1>9. CASE agg.open = None /\ MovesBack(agg, flight.day) /\ Witness(flight.day)
           /\ UNCHANGED <<agg, proc>>
  <2>1. flight.day = 1
    <3>1. ~Later(agg, flight.day)
      BY <1>3, <1>9, AcceptedDay
    <3>. QED
      BY <1>3, <1>9, <3>1, DaysAreNumbers DEF Later
  <2>2. chain' = Shown(1) /\ watched' = Watched(1) /\ chain \subseteq {1}
    BY <1>2, <1>9, <2>1 DEF Witness, Connected, LinkedIn
  <2>3. chain' \subseteq {1} /\ chain \subseteq chain' /\ (chain' # {} => agg.up)
    BY <1>2, <2>2 DEF Shown, Connected, LinkedIn
  <2>4. Connected(agg', chain')
    <3>1. agg' = agg /\ WaitingIn(agg, chain) /\ Seeing(agg)
      BY <1>2, <1>9 DEF Connected
    <3>2. WaitingIn(agg, chain') /\ LinkedIn(agg, chain') /\ ChangedIn(agg, chain')
      BY <1>9, <2>3, <3>1 DEF WaitingIn, LinkedIn, ChangedIn
    <3>. QED
      BY <3>1, <3>2 DEF Connected
  <2>5. Adds(agg')
    BY <1>2, <1>3, <1>9 DEF Adds, OpenTrue, Extends
  <2>6. \A e \in Nat : RoundOK(e) => RoundOK(e)'
    BY <1>1, <1>9 DEF RoundOK
  <2>. QED
    BY <1>8, <1>9, <2>1, <2>2, <2>4, <2>5, <2>6
<1>10. CASE /\ ~Closing /\ ~(agg.open = None /\ MovesBack(agg, flight.day))
            /\ ~(agg.open # None /\ flight.day < agg.open.day)
            /\ LET a == OpenedFor(agg, flight)
               IN  IF flight.contract \notin a.open.uni
                     THEN /\ agg' = MarkIssue(a) /\ watched' = Watched(flight.day)
                          /\ UNCHANGED <<proc, chain>>
                     ELSE agg' = Observe(a, flight) /\ Witness(flight.day) /\ UNCHANGED proc
  <2> DEFINE t == flight
             a == OpenedFor(agg, t)
  <2>1. BeginsDay(t, a)
    BY <1>2, <1>3, <1>10, OpenedForSound
  <2>2. \/ /\ agg' = MarkIssue(a) /\ watched' = Watched(t.day) /\ UNCHANGED <<proc, chain>>
        \/ /\ t.contract \in a.open.uni /\ agg' = Observe(a, t) /\ Witness(t.day)
           /\ UNCHANGED proc
    BY <1>10
  <2> HIDE DEF a
  <2>3. /\ a \in Aggregators /\ a.up = agg.up /\ a.open \in OpenDays /\ a.open # None
        /\ a.open.day = t.day /\ Ordered(a) /\ OpenTrue(a) /\ Extends(agg, a) /\ Connected(a, chain)
    BY <2>1, NoneApart DEF BeginsDay
  <2>4. \A e \in Days : agg.up /\ e \in chain \cap Adjacent /\ t.day = e + 1
                          => e \in Watched(t.day)
    BY <1>2 DEF Watched, Shown
  <2>5. watched' = Watched(t.day) /\ chain' \in {chain, Shown(t.day)} /\ UNCHANGED proc
    BY <2>2 DEF Witness
  <2>6. \A e \in Days : a.moves[e] = agg.moves[e] \/ (e \in watched' /\ True(e, a.moves[e]))
    BY <2>1, <2>4, <2>5 DEF BeginsDay
  <2>7. CASE agg' = MarkIssue(a) /\ UNCHANGED chain
    <3>1. Marked(a, agg') /\ Connected(agg', chain')
      BY <2>3, <2>7, MarkIssueFields, MarkedConnected
    <3>2. Noted(a, agg') /\ agg' \in Aggregators /\ agg'.up = agg.up /\ agg'.moves = a.moves
      BY <2>3, <3>1 DEF Marked, Noted
    <3>3. Ordered(agg') /\ OpenTrueAt(agg', day, phase) /\ Extends(a, agg')
      BY <2>3, <3>2, NotedRecord DEF OpenTrue
    <3>4. Adds(agg')
      <4>1. Extends(agg, agg')
        BY <2>3, <3>3 DEF Extends
      <4>. QED
        BY <2>6, <3>2, <3>3, <4>1 DEF Adds
    <3>5. /\ agg'.open \in OpenDays /\ agg'.open.day = t.day /\ agg'.open.uni = a.open.uni
          /\ (a.open.issue => agg'.open.issue) /\ agg'.open.got = a.open.got
      BY <2>3, <3>2, NotedFields
    <3>6. a.open.got = {} => ~WholeDay(agg'.open)
      BY <3>5 DEF WholeDay, SeenIn
    <3>7. \A e \in Nat : RoundOK(e) => RoundOK(e)'
      <4>1. PICK x \in Ticks : x = flight
        BY <1>2
      <4>2. PICK y : y = a
        OBVIOUS
      <4>3. BeginsDay(x, y)
        BY <2>1, <4>1, <4>2
      <4>. QED
        BY <1>1, <1>2, <3>5, <3>6, <4>1, <4>2, <4>3, TickRounds
    <3>. QED
      BY <1>8, <2>5, <3>1, <3>2, <3>4, <3>7
  <2>8. CASE t.contract \in a.open.uni /\ agg' = Observe(a, t) /\ Witness(t.day)
    <3>1. Observed(a, t, agg')
      BY <1>2, <2>3, <2>8, ObserveFields
    <3>2. Connected(agg', chain')
      <4>1. chain' = IF a.up THEN chain \cup {t.day} ELSE chain
        BY <1>2, <2>3, <2>8 DEF Witness, Shown
      <4>. QED
        BY <1>2, <2>3, <3>1, <4>1, ObservedConnected
    <3>3. t.phase = "close" => day > t.day \/ (day = t.day /\ phase = "close")
      BY <1>1, <1>2, <1>3 DEF InFlight
    <3>4. a = agg \/ a.open.got = {}
      BY <2>1 DEF BeginsDay
    <3>5. t.phase = "open" => ~SeenIn(a.open, "close")
      BY <1>1, <1>2, <2>3, <3>4 DEF InFlight, SeenIn
    <3>6. ASSUME t.phase = "close", SeenIn(a.open, "open")
          PROVE  a.open.issue \/ a.open.uni = Expected(t.day)
      <4>1. a = agg /\ a.open.got # {}
        BY <3>4, <3>6 DEF SeenIn
      <4>2. /\ t.day <= worker.done /\ RoundOK(worker.done) /\ worker.done \in Nat
        BY <1>1, <1>2, <1>10, <3>6 DEF InFlight, Rounds, Working
      <4>3. worker.done = t.day
        BY <1>3, <2>3, <4>1, <4>2 DEF RoundOK
      <4>. QED
        BY <1>1, <2>3, <4>1, <4>2, <4>3 DEF RoundOK
    <3>7. /\ Ordered(agg') /\ OpenTrueAt(agg', day, phase) /\ Extends(a, agg')
          /\ \A e \in Days :
               \/ agg'.moves[e] = a.moves[e]
               \/ /\ a.up /\ e \in chain \cap Adjacent /\ t.day = e + 1
                  /\ True(e, agg'.moves[e])
      BY <1>2, <2>3, <2>8, <3>1, <3>3, <3>5, <3>6, ObservedRecord DEF Connected, OpenTrue
    <3>8. Adds(agg')
      <4>1. Extends(agg, agg')
        BY <2>3, <3>7 DEF Extends
      <4>2. agg' \in Aggregators
        BY <3>1 DEF Observed
      <4>3. \A e \in Days : \/ agg'.moves[e] = agg.moves[e]
                            \/ e \in watched' /\ True(e, agg'.moves[e])
        BY <2>3, <2>4, <2>5, <2>6, <3>7
      <4>. QED
        BY <3>7, <4>1, <4>2, <4>3 DEF Adds
    <3>9. /\ agg'.open \in OpenDays /\ agg'.open.day = t.day /\ agg'.open.uni = a.open.uni
          /\ (a.open.issue => agg'.open.issue) /\ agg'.up = agg.up
          /\ agg'.open.got = a.open.got \cup {<<t.contract, t.phase>>}
      BY <2>3, <3>1 DEF Observed
    <3>10. a.open.got = {} => ~WholeDay(agg'.open)
      BY <3>9 DEF WholeDay, SeenIn
    <3>11. \A e \in Nat : RoundOK(e) => RoundOK(e)'
      <4>1. PICK x \in Ticks : x = flight
        BY <1>2
      <4>2. PICK y : y = a
        OBVIOUS
      <4>3. BeginsDay(x, y)
        BY <2>1, <4>1, <4>2
      <4>. QED
        BY <1>1, <1>2, <3>9, <3>10, <4>1, <4>2, <4>3, TickRounds
    <3>. QED
      BY <1>8, <2>5, <3>2, <3>8, <3>9, <3>11
  <2>. QED
    BY <2>2, <2>7, <2>8
<1>. QED
  BY <1>6, <1>7, <1>9, <1>10 DEF ObserveTick

-----------------------------------------------------------------------------
(***************************************************************************)
(* The invariant.                                                          *)
(***************************************************************************)

\* Nothing but a new directory, and nothing in memory.
LEMMA InvBegins == Init => Inv
<1> SUFFICES ASSUME Init PROVE Inv
  OBVIOUS
<1>1. BootInv
  BY BootBegins DEF Init
<1>2. /\ stage = "boot" /\ day = 1 /\ phase = "close" /\ up = FALSE /\ flight = None /\ proc = None
      /\ agg = Nobody /\ worker = Rest /\ subscribed = {} /\ saver = NoSave
      /\ disk = [rec |-> None, prev |-> None, first |-> TRUE] /\ chain = {} /\ watched = {}
  BY DEF Init, EvidenceInit
<1>3. Typed
  BY <1>2, NobodyTyped, DaysAreNumbers DEF Typed, AllPhases
<1>4. Placed /\ Readable /\ Recorded
  <2>1. disk.rec = None /\ disk.prev = None /\ disk.first /\ saver.at = None /\ worker.at = "rest"
    BY <1>2, NobodyTyped DEF NoSave
  <2>. QED
    BY <1>2, <2>1 DEF Placed, Readable, Recorded, Running
<1>5. EvidenceInv
  BY <1>2, NobodyTyped DEF EvidenceInv, Connected, WaitingIn, Seeing, LinkedIn, ChangedIn, Rounds,
     Working, Running, InFlight
<1>. QED
  BY <1>1, <1>3, <1>4, <1>5 DEF Inv, OiInv

\* The market's steps touch no file of the bootstrap.
LEMMA MarketSound ==
    ASSUME OiInv, stage = "market", MarketNext
    PROVE  OiInv'
<1>1. CASE saver.at = None /\ \E c \in Contracts : Emit(c)
  BY <1>1, EmitSound
<1>2. CASE saver.at = None /\ (Advance \/ RefreshOhlc \/ Disconnect \/ LogIn)
  BY <1>2, AdvanceSound, RefreshOhlcSound, DisconnectSound, LogInSound
<1>3. CASE saver.at = None /\ (Convert \/ ObserveTick)
  BY <1>3, ConvertSound, ObserveTickSound
<1>4. CASE saver.at = None /\ (ReadDay \/ Refresh \/ Subscribe \/ NoteSubscriptions)
  BY <1>4, ReadDaySound, RefreshSound, SubscribeSound, NoteSubscriptionsSound
<1>5. CASE saver.at = None /\ \E kind \in {"live", "collector"} : Start(kind)
  BY <1>5, StartSound
<1>6. CASE saver.at = None /\ (Snapshot \/ Leave \/ Exit)
  BY <1>6, SnapshotSound, LeaveSound, ForgottenSound DEF Exit
<1>7. CASE ReplacePrevious \/ ReplaceCurrent \/ SaveFails \/ Die
  BY <1>7, ReplacePreviousSound, ReplaceCurrentSound, SaveFailsSound, ForgottenSound DEF Die
<1>. QED
  BY <1>1, <1>2, <1>3, <1>4, <1>5, <1>6, <1>7 DEF MarketNext

\* A step that changes nothing of the evidence.
LEMMA EvidenceStays ==
    ASSUME OiInv, UNCHANGED evidenceVars
    PROVE  OiInv'
<1>1. UNCHANGED <<stage, day, phase, ohlcThrough, up, flight, proc, agg, worker, subscribed, saver,
                  disk, chain, watched, faults, starts>>
  BY DEF evidenceVars, marketVars, volatileVars
<1>2. Typed' /\ Placed' /\ Readable'
  BY <1>1 DEF OiInv, Typed, Placed, Readable, Running, NoSave, Durable
<1>. QED
  BY <1>1, <1>2, QuietSound DEF SameAgg, SameLink, SameDisk, SameTick, Working, Running, Closing

\* And one that changes nothing of the new directory.
LEMMA BootStays ==
    ASSUME BootInv, UNCHANGED <<files, guards, commit, oi, boot>>
    PROVE  BootInv'
<1>1. BootTyped' /\ OwnFiles' /\ Guarded' /\ Tokens'
  BY DEF BootInv, BootTyped, OwnFiles, Guarded, Tokens
<1>2. Committed'
  BY DEF BootInv, Committed, Prepared
<1>. QED
  BY <1>1, <1>2 DEF BootInv

\* Every step keeps the invariant.
LEMMA InvStep == Inv /\ [Next]_vars => Inv'
<1> SUFFICES ASSUME Inv, [Next]_vars PROVE Inv'
  OBVIOUS
<1>1. BootInv /\ OiInv
  BY DEF Inv
<1>2. CASE BootNext /\ UNCHANGED evidenceVars
  BY <1>1, <1>2, BootStepSound, EvidenceStays DEF Inv
<1>3. CASE OpenMarket
  <2>1. UNCHANGED <<files, guards, commit, oi, boot>>
    BY <1>3 DEF OpenMarket
  <2>. QED
    BY <1>1, <1>3, <2>1, BootStays, OpenMarketSound DEF Inv
<1>4. CASE stage = "market" /\ MarketNext /\ UNCHANGED bootVars
  BY <1>1, <1>4, BootStays, MarketSound DEF Inv, bootVars
<1>5. CASE UNCHANGED vars
  <2>1. UNCHANGED bootVars /\ UNCHANGED evidenceVars
    BY <1>5 DEF vars
  <2>. QED
    BY <1>1, <2>1, BootStays, EvidenceStays DEF Inv, bootVars
<1>. QED
  BY <1>2, <1>3, <1>4, <1>5 DEF Next

\* The strengthening of the properties below is an invariant of the specification.
THEOREM EvidenceInvariant == Spec => []Inv
  BY InvBegins, InvStep, PTL DEF Spec

-----------------------------------------------------------------------------
(***************************************************************************)
(* The properties.                                                         *)
(***************************************************************************)

\* The bootstrap is all or nothing, with or without a refresh beside it: once the evidence of
\* the bridge day can be read, the four files under it are whole and the bootstrap's own; a
\* half-written cache always stands beside a witness; and a rollback removes nothing that
\* another process has made or rewritten.
THEOREM BootstrapIsAtomicHolds == Spec => BootstrapIsAtomic
<1>1. Inv => /\ oi = "bridge" => /\ \A f \in {"activity", "seed", "policy"} : files[f] = AsCreated
                                 /\ files["ohlc"].by = "boot"
             /\ files["ohlc"].content = "half" \/ commit # Idle => guards # {}
  <2> SUFFICES ASSUME BootInv
               PROVE  /\ oi = "bridge" =>
                           /\ \A f \in {"activity", "seed", "policy"} : files[f] = AsCreated
                           /\ files["ohlc"].by = "boot"
                      /\ files["ohlc"].content = "half" \/ commit # Idle => guards # {}
    BY DEF Inv
  <2>1. oi = "bridge" => Prepared
    BY DEF BootInv, Committed
  <2>2. commit # Idle => guards # {}
    BY DEF BootInv, BootTyped, Guarded, Writing
  <2>3. files["ohlc"].content = "half" => guards # {}
    BY DEF BootInv, Guarded
  <2>. QED
    BY <2>1, <2>2, <2>3 DEF Prepared, Files
<1>2. Inv /\ [Next]_vars =>
        [\A f \in DOMAIN files :
           Present(f) /\ files'[f] = Absent
             => files[f].by = "boot" /\ files[f].content # "later"]_bootVars
  <2> SUFFICES ASSUME Inv, [Next]_vars, NEW f \in DOMAIN files, Present(f), files'[f] = Absent
               PROVE  files[f].by = "boot" /\ files[f].content # "later"
    OBVIOUS
  <2>1. files' # files
    BY DEF Present
  <2>2. BootNext
    BY <2>1 DEF Next, OpenMarket, vars, bootVars
  <2>. QED
    BY <2>2, BootRemovesItsOwn DEF Inv
<1>. QED
  BY <1>1, <1>2, EvidenceInvariant, PTL DEF Spec, BootstrapIsAtomic

\* Whatever fails or dies during a save, the next load accepts the pair of files it finds.
THEOREM EvidenceStaysReadableHolds == Spec => []EvidenceStaysReadable
<1>1. Inv => EvidenceStaysReadable
  BY DEF Inv, OiInv, EvidenceStaysReadable
<1>. QED
  BY <1>1, EvidenceInvariant, PTL

\* What the files say of a completed day, and the proof of its end, is never revised.
THEOREM SavedEvidenceIsFinalHolds == Spec => SavedEvidenceIsFinal
<1>1. ASSUME Inv, [Next]_vars
      PROVE  disk.rec = None \/ disk'.rec = disk.rec \/ Extends(disk.rec, disk'.rec)
  <2>1. CASE UNCHANGED disk
    BY <2>1
  <2>2. CASE OpenMarket
    BY <1>1, <2>2 DEF Inv, OiInv, Placed, OpenMarket
  <2>3. CASE stage = "market" /\ ReplacePrevious
    <3>1. disk \in [rec : Snapshots \cup {None}, prev : {None, "same", "parent"}, first : BOOLEAN]
      BY <1>1 DEF Inv, OiInv, Typed
    <3>. QED
      BY <2>3, <3>1 DEF ReplacePrevious
  <2>4. CASE stage = "market" /\ ReplaceCurrent
    <3>1. disk'.rec = Durable(agg)
      BY <1>1, <2>4, ReplaceCurrentSound DEF Inv
    <3>2. Running
      BY <1>1, <2>4, NoneApart DEF Inv, OiInv, Placed, Running, NoSave, ReplaceCurrent
    <3>3. Extends(disk.rec, agg)
      BY <1>1, <3>2 DEF Inv, OiInv, Recorded
    <3>. QED
      BY <3>1, <3>3 DEF Extends, Durable
  <2>5. CASE stage = "market" /\ MarketNext /\ ~ReplacePrevious /\ ~ReplaceCurrent
    BY <2>5 DEF MarketNext, Emit, Advance, RefreshOhlc, Disconnect, LogIn, Convert, ObserveTick,
       ReadDay, Refresh, Subscribe, NoteSubscriptions, Snapshot, Start, Leave, Exit, Die,
       Forgotten, SaveFails
  <2>. QED
    BY <1>1, <2>1, <2>2, <2>3, <2>4, <2>5 DEF Next, vars, evidenceVars
<1>2. Inv /\ [Next]_vars =>
        [disk.rec # None =>
           \A d \in Days : /\ disk.rec.completed[d] # None
                                => disk'.rec.completed[d] = disk.rec.completed[d]
                           /\ disk.rec.moves[d] # None
                                => disk'.rec.moves[d] = disk.rec.moves[d]]_vars
  BY <1>1 DEF Extends
<1>. QED
  BY <1>2, EvidenceInvariant, PTL DEF Spec, SavedEvidenceIsFinal

\* Where the files prove the continuity of two days, the change was watched in one connection,
\* and the evidence of the first covers what the exchange listed.
THEOREM ContinuityIsTrueHolds == Spec => []ContinuityIsTrue
<1>1. Inv => ContinuityIsTrue
  <2> SUFFICES ASSUME Inv, NEW d \in Days, Continuity(d)
               PROVE  d \in watched /\ disk.rec.completed[d].uni = Expected(d)
    BY DEF ContinuityIsTrue
  <2>1. /\ disk.rec # None /\ disk.rec.moves[d] = disk.rec.completed[d]
        /\ disk.rec.completed[d] # None /\ Complete(disk.rec.completed[d])
    BY DEF Continuity
  <2>2. Proven(disk.rec)
    BY <2>1 DEF Inv, OiInv, Recorded
  <2>. QED
    BY <2>1, <2>2 DEF Proven, True
<1>. QED
  BY <1>1, EvidenceInvariant, PTL

\* A change of day that a running process has watched in one connection is proved, whoever
\* opened the new day first.
THEOREM ObservedRolloverIsRecordedHolds == Spec => []ObservedRolloverIsRecorded
<1>1. Inv => ObservedRolloverIsRecorded
  <2> SUFFICES ASSUME Inv, NEW d \in Adjacent \ {1}, {d, d + 1} \subseteq chain,
                      Complete(agg.completed[d])
               PROVE  agg.moves[d] # None
    BY DEF ObservedRolloverIsRecorded
  <2>1. LinkedIn(agg, chain) /\ ChangedIn(agg, chain) /\ agg \in Aggregators
    BY DEF Inv, OiInv, EvidenceInv, Connected, Typed
  <2>2. d \in Nat /\ d + 1 # 1 /\ d \in chain
    BY DaysAreNumbers
  <2>3. agg.open # None /\ d + 1 <= agg.open.day
    BY <2>1, <2>2 DEF LinkedIn
  <2>4. agg.open.day \in Nat
    BY <2>1, <2>3, DaysAreNumbers DEF Aggregators, OpenDays
  <2>5. agg.open.day > d
    BY <2>2, <2>3, <2>4
  <2>. QED
    BY <2>1, <2>2, <2>5 DEF ChangedIn, Tied
<1>. QED
  BY <1>1, EvidenceInvariant, PTL
=============================================================================
