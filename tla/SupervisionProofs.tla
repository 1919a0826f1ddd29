--------------------------- MODULE SupervisionProofs ---------------------------
(***************************************************************************)
(* TradingIsEarned of Supervision, for any number of processes, runs and   *)
(* commands.  It is not inductive.  What keeps a process from trading      *)
(* without a permit is a chain: a run that ends unclean leaves a receipt   *)
(* that is not clean, such a receipt leads to a fence, the fence saves a   *)
(* state that is halted and newer than every permit, and only a permit for *)
(* the very state on disk makes it run again.  SInv follows that chain.    *)
(* HalfRestoredGrantsNothing, StoresStayReadable and WatchdogIsRight come  *)
(* after it.                                                               *)
(***************************************************************************)
EXTENDS Supervision, TLAPS

--------------------------------------------------------------------------------
(***************************************************************************)
(* The inductive invariant.                                                *)
(***************************************************************************)

IsPair(f) == f = [cur |-> f.cur, prev |-> f.prev]
IsPermitPair(f) == IsPair(f) /\ f.cur \in Records(Permits) \union {None}
IsSealPair(f) == IsPair(f) /\ f.cur \in Records({"deployment"}) \union {None}
IsBackup(b) ==
    /\ b = [state |-> b.state, seal |-> b.seal, permit |-> b.permit]
    /\ IsPermitPair(b.permit) /\ IsSealPair(b.seal)
IsArchive(b) == IsBackup(b) /\ b.state \in States /\ b.state.mode = "HALTED"

FilesTyped ==
    /\ state \in States \union {None}
    /\ IsPair(receipts) /\ receipts.cur \in Records(Receipts) \union {None}
    /\ IsPermitPair(permit) /\ IsSealPair(seal)
    /\ archive # None => IsArchive(archive)
    /\ stage # None => IsArchive(stage)

ActorsTyped ==
    /\ pc = [a \in Actors |-> pc[a]]
    /\ draft = [a \in Actors |-> draft[a]]
    /\ memory = [p \in Procs |-> memory[p]]
    /\ run \in [Procs -> Nat] /\ born \in Nat

\* What an actor is about to write.
Halfway(p) ==
    /\ pc[p] \in {"beginW", "constructed", "savedW", "silentW", "beatW"}
          => draft[p] \in Records(Receipts) /\ ~draft[p].body.clean
    /\ pc[p] \in {"finishW", "recordW"} => draft[p] \in Records(Receipts)
    /\ pc[p] \in {"consumed", "activate"}
          => draft[p] \in Records(Permits) /\ draft[p].body.status = "consumed"
    /\ pc[p] \in {"revokeW", "revokeUnknownW"}
          => draft[p] \in Records(Permits) /\ draft[p].body.status = "invalidated"

OperatorHalfway ==
    /\ pc[Op] = "doctorW"
          => draft[Op] \in Records(Permits) /\ draft[Op].body.status = "issued"
    /\ pc[Op] = "sealW" => draft[Op] \in Records({"deployment"})
    /\ pc[Op] = "sealRevoked"
          => draft[Op] \in Records(Permits) /\ draft[Op].body.status = "invalidated"
    /\ pc[Op] \in {"backup", "backup2", "backup3"} => IsBackup(draft[Op])

\* One process at a time, on a runtime that is there and not being restored.
Alone ==
    \A p \in Procs : pc[p] # "off" =>
        /\ state # None /\ pc[Op] # "publish"
        /\ \A q \in Procs : pc[q] # "off" => q = p

Present ==
    \A p \in Procs : pc[p] # "off" => state # None /\ pc[Op] # "publish"

\* A run that has begun is not clean until it is over.
BegunIsUnclean == \A p \in Procs : pc[p] \in Begun => ~Clean

Engine == {"startup", "consumed", "activate", "trading", "stopping", "failing"}

HasMemory == \A p \in Procs : pc[p] \in Engine => memory[p] \in States

Halted == state # None => state.mode = "HALTED"

\* As long as a permit is owed the state is halted wherever a run may start from it.
StartsHalted == owed /\ Clean /\ Loads(receipts) => Halted

MayRun == {"beginW", "construct", "constructed", "lease", "startup"}
AfterFence == {"revoke", "revokeW", "revokeUnknown", "revokeUnknownW", "record", "recordW"}
Earned == {"consumed", "activate", "stopping", "saved", "savedW", "silent", "silentW",
           "beat", "beatW", "finish", "finishW"}

RunsHalted(p) ==
    /\ owed /\ pc[p] \in MayRun => Halted
    /\ owed /\ pc[p] = "startup" => memory[p].mode = "HALTED"
    /\ pc[p] \in AfterFence => Halted
    /\ pc[p] \in Earned => ~owed
    /\ pc[p] = "trading" /\ memory[p].mode # "HALTED" => ~owed

\* The permits that are issued or about to be.
Grants == {f \in {permit.cur} : f # None /\ f.body.status = "issued"}
          \union {f \in {draft[Op]} : pc[Op] = "doctorW"}

\* A permit is for a state that was saved no later than the one on disk ...
GrantsArePast ==
    \A f \in Grants : state # None /\ (f.body.for = state \/ f.body.for.seq < state.seq)

\* ... and a permit for the one on disk is younger than what made permits stale, unless
\* the fence, which replaces the state, is still to come.
FenceIsDue ==
    /\ ~(Clean /\ Loads(receipts))
    /\ \A p \in Procs : pc[p] \in {"off", "fence", "unknown"}

StaleIsFenced == stale /\ (\E f \in Grants : f.body.for = state) => FenceIsDue

SealRevokesFirst == pc[Op] \in {"sealing", "sealW"} => ~Has(permit, "issued")
NotRestored == stage # None => ~Has(stage.permit, "issued")

\* A second live process, or one beside a restoration.
Crowded == {"live", "restore"} \intersect overlaps # {}

Chain ==
    /\ Alone /\ BegunIsUnclean
    /\ StartsHalted /\ \A p \in Procs : RunsHalted(p)
    /\ GrantsArePast /\ StaleIsFenced

Typed ==
    /\ FilesTyped /\ ActorsTyped
    /\ \A p \in Procs : Halfway(p)
    /\ OperatorHalfway /\ HasMemory

SInv == Typed /\ SealRevokesFirst /\ NotRestored /\ (Crowded \/ Chain)

--------------------------------------------------------------------------------
(***************************************************************************)
(* Who moves.                                                              *)
(***************************************************************************)

\* What an actor does leaves the places and drafts of the others alone.
OthersKeep(a) ==
    \A b \in Actors : b # a => pc'[b] = pc[b] /\ draft'[b] = draft[b]
OthersRemember(a) ==
    \A p \in Procs : p # a => memory'[p] = memory[p]

LEMMA Moves ==
    ASSUME ActorsTyped, NEW a \in Actors, NEW w, Goes(a, w)
    PROVE  /\ pc' = [b \in Actors |-> pc'[b]]
           /\ pc'[a] = w
           /\ \A b \in Actors : b # a => pc'[b] = pc[b]
BY SMT DEF ActorsTyped, Goes

LEMMA Prepares ==
    ASSUME ActorsTyped, NEW a \in Actors, NEW r, Drafts(a, r)
    PROVE  /\ draft' = [b \in Actors |-> draft'[b]]
           /\ draft'[a] = r
           /\ \A b \in Actors : b # a => draft'[b] = draft[b]
BY SMT DEF ActorsTyped, Drafts

LEMMA Remembers ==
    ASSUME ActorsTyped, NEW p \in Procs, NEW m, memory' = [memory EXCEPT ![p] = m]
    PROVE  /\ memory' = [q \in Procs |-> memory'[q]]
           /\ memory'[p] = m
           /\ OthersRemember(p)
BY SMT DEF ActorsTyped, OthersRemember

LEMMA Persisted ==
    ASSUME ActorsTyped, NEW p \in Procs, NEW m, Persists(p, m)
    PROVE  /\ memory' = [q \in Procs |-> memory'[q]]
           /\ memory'[p] = m /\ state' = Saved(m)
           /\ OthersRemember(p)
BY Remembers DEF Persists

\* A live process has to look after its own draft and memory only.
LEMMA LiveTyped ==
    ASSUME Typed, NEW p \in Procs,
           FilesTyped', ActorsTyped', OthersKeep(p), OthersRemember(p),
           Halfway(p)', pc'[p] \in Engine => memory'[p] \in States
    PROVE  Typed'
<1>1. Op \in Actors /\ Op # p /\ \A q \in Procs : q \in Actors
  BY OperatorIsNoProcess DEF Op, Actors
<1>2. (\A q \in Procs : Halfway(q))'
  <2>1. SUFFICES ASSUME NEW q \in Procs, q # p PROVE Halfway(q)'
    OBVIOUS
  <2> QED BY <1>1, <2>1 DEF Typed, OthersKeep, Halfway
<1>3. OperatorHalfway'
  BY <1>1 DEF Typed, OthersKeep, OperatorHalfway
<1>4. HasMemory'
  BY <1>1 DEF Typed, OthersKeep, OthersRemember, HasMemory
<1> QED BY <1>2, <1>3, <1>4 DEF Typed

\* And so has the operator.
LEMMA OperatorTyped ==
    ASSUME Typed, FilesTyped', ActorsTyped', OthersKeep(Op), UNCHANGED memory,
           OperatorHalfway'
    PROVE  Typed'
<1>1. Op \in Actors /\ \A q \in Procs : q \in Actors /\ q # Op
  BY OperatorIsNoProcess DEF Op, Actors
<1>2. (\A q \in Procs : Halfway(q))'
  BY <1>1 DEF Typed, OthersKeep, Halfway
<1>3. HasMemory'
  BY <1>1 DEF Typed, OthersKeep, HasMemory
<1> QED BY <1>2, <1>3 DEF Typed

--------------------------------------------------------------------------------
(***************************************************************************)
(* What is written.                                                        *)
(***************************************************************************)

LEMMA PreviousKept ==
    ASSUME NEW f, IsPair(f)
    PROVE  IsPair(KeepPrevious(f)) /\ KeepPrevious(f).cur = f.cur
                                   /\ KeepPrevious(f).prev = f.cur
BY DEF IsPair, KeepPrevious

LEMMA CurrentReplaced ==
    ASSUME NEW f, IsPair(f), NEW r
    PROVE  /\ IsPair([f EXCEPT !.cur = r])
           /\ [f EXCEPT !.cur = r].cur = r /\ [f EXCEPT !.cur = r].prev = f.prev
BY DEF IsPair

LEMMA FollowingBody ==
    ASSUME NEW f, NEW body
    PROVE  Following(f, body).body = body
BY DEF Following

LEMMA FollowingRecord ==
    ASSUME NEW B, NEW f, f.cur \in Records(B) \union {None}, NEW body \in B
    PROVE  Following(f, body) \in Records(B) /\ Following(f, body).body = body
<1>1. CASE f.cur = None
  BY <1>1 DEF Following, Records
<1>2. CASE f.cur # None
  <2>1. f.cur \in Records(B)
    BY <1>2
  <2>2. Sum(f.cur) \in [seq : Nat, body : B] /\ f.cur.seq + 1 \in Nat
    BY <2>1 DEF Records, Sum
  <2> QED BY <1>2, <2>2 DEF Following, Records
<1> QED BY <1>1, <1>2

LEMMA FollowingReceipt ==
    ASSUME NEW f, f.cur \in Records(Receipts) \union {None}, NEW body \in Receipts
    PROVE  Following(f, body) \in Records(Receipts)
BY FollowingRecord

LEMMA FollowingPermit ==
    ASSUME NEW f, IsPermitPair(f), NEW body \in Permits
    PROVE  Following(f, body) \in Records(Permits) /\ Following(f, body).body = body
BY FollowingRecord DEF IsPermitPair

LEMMA SavedState ==
    ASSUME FilesTyped, NEW s \in States
    PROVE  /\ Saved(s) \in States
           /\ Saved(s).mode = s.mode
           /\ state = None => Saved(s).seq = 1
           /\ state # None => state.seq \in Nat /\ Saved(s).seq = state.seq + 1
BY DEF FilesTyped, Saved, States

LEMMA FencedStateTyped ==
    ASSUME FilesTyped
    PROVE  FencedState \in States /\ FencedState.mode = "HALTED"
<1>1. (state # None /\ state.circuit) \in BOOLEAN
  BY DEF FilesTyped, States
<1> QED BY <1>1 DEF FencedState, States, Modes

LEMMA FilesKept ==
    ASSUME FilesTyped, UNCHANGED <<state, receipts, permit, seal, archive, stage>>
    PROVE  FilesTyped'
BY DEF FilesTyped, IsPair, IsPermitPair, IsSealPair, IsArchive, IsBackup

LEMMA StateWritten ==
    ASSUME FilesTyped, NEW s \in States, state' = Saved(s),
           UNCHANGED <<receipts, permit, seal, archive, stage>>
    PROVE  FilesTyped'
BY SavedState DEF FilesTyped, IsPair, IsPermitPair, IsSealPair, IsArchive, IsBackup

LEMMA ReceiptKept ==
    ASSUME FilesTyped, receipts' = KeepPrevious(receipts),
           UNCHANGED <<state, permit, seal, archive, stage>>
    PROVE  FilesTyped' /\ receipts'.cur = receipts.cur
<1>1. IsPair(receipts)' /\ receipts'.cur = receipts.cur
  BY PreviousKept DEF FilesTyped, IsPair
<1> QED BY <1>1 DEF FilesTyped, IsPair, IsPermitPair, IsSealPair, IsArchive, IsBackup

LEMMA ReceiptReplaced ==
    ASSUME FilesTyped, NEW r \in Records(Receipts),
           receipts' = [receipts EXCEPT !.cur = r],
           UNCHANGED <<state, permit, seal, archive, stage>>
    PROVE  FilesTyped' /\ receipts'.cur = r
<1>1. IsPair(receipts)' /\ receipts'.cur = r
  BY CurrentReplaced DEF FilesTyped, IsPair
<1> QED BY <1>1 DEF FilesTyped, IsPair, IsPermitPair, IsSealPair, IsArchive, IsBackup

LEMMA PermitKept ==
    ASSUME FilesTyped, permit' = KeepPrevious(permit),
           UNCHANGED <<state, receipts, seal, archive, stage>>
    PROVE  FilesTyped' /\ permit'.cur = permit.cur
<1>1. IsPair(permit)' /\ permit'.cur = permit.cur
  BY PreviousKept DEF FilesTyped, IsPermitPair, IsPair
<1>2. IsPermitPair(permit)'
  BY <1>1 DEF FilesTyped, IsPermitPair, IsPair
<1> QED BY <1>1, <1>2 DEF FilesTyped, IsPair, IsPermitPair, IsSealPair, IsArchive, IsBackup

LEMMA PermitReplaced ==
    ASSUME FilesTyped, NEW r \in Records(Permits),
           permit' = [permit EXCEPT !.cur = r],
           UNCHANGED <<state, receipts, seal, archive, stage>>
    PROVE  FilesTyped' /\ permit'.cur = r
<1>1. IsPair(permit)' /\ permit'.cur = r
  BY CurrentReplaced DEF FilesTyped, IsPermitPair, IsPair
<1>2. IsPermitPair(permit)'
  BY <1>1 DEF IsPermitPair, IsPair
<1> QED BY <1>1, <1>2 DEF FilesTyped, IsPair, IsPermitPair, IsSealPair, IsArchive, IsBackup

LEMMA RecordBodies ==
    ASSUME NEW B, NEW r \in Records(B)
    PROVE  r.body \in B
BY DEF Records

LEMMA PermitBodies ==
    ASSUME NEW f, IsPermitPair(f), f.cur # None,
           NEW s \in {"issued", "consumed", "invalidated"}
    PROVE  /\ [f.cur.body EXCEPT !.status = s] \in Permits
           /\ [f.cur.body EXCEPT !.status = s].status = s
           /\ [f.cur.body EXCEPT !.status = s].for = f.cur.body.for
<1>1. f.cur.body \in Permits
  BY RecordBodies DEF IsPermitPair
<1> QED BY <1>1 DEF Permits

--------------------------------------------------------------------------------
(***************************************************************************)
(* Types: no step of anyone, in whatever company, takes a record for       *)
(* another.                                                                *)
(***************************************************************************)

LEMMA LiveMoves ==
    ASSUME ActorsTyped, NEW p \in Procs, Live(p)
    PROVE  ActorsTyped' /\ OthersKeep(p) /\ OthersRemember(p)
<1> USE Moves, Prepares, Remembers, Persisted
    DEF ActorsTyped, OthersKeep, OthersRemember, bounds, local, files, history
<1>a. p \in Actors
  BY DEF Actors
<1>1. CASE Start(p)
  BY <1>a, <1>1 DEF Start
<1>2. CASE HaltState(p)
  BY <1>a, <1>2 DEF HaltState
<1>3. CASE RevokeBegins(p)
  BY <1>a, <1>3 DEF RevokeBegins
<1>4. CASE RevokeEnds(p)
  BY <1>a, <1>4 DEF RevokeEnds
<1>5. CASE FenceBegins(p)
  BY <1>a, <1>5 DEF FenceBegins
<1>6. CASE FenceEnds(p)
  BY <1>a, <1>6 DEF FenceEnds
<1>7. CASE Begin(p)
  BY <1>a, <1>7 DEF Begin
<1>8. CASE Mark(p)
  BY <1>a, <1>8 DEF Mark
<1>9. CASE WriteReceipt(p)
  BY <1>a, <1>9 DEF WriteReceipt
<1>10. CASE TakeLease(p)
  BY <1>a, <1>10 DEF TakeLease
<1>11. CASE StartupFails(p)
  <2>1. Goes(p, "failing") /\ UNCHANGED <<draft, run, born>>
    BY <1>11 DEF StartupFails
  <2>2. CASE UNCHANGED memory
    BY <1>a, <2>1, <2>2
  <2>3. CASE ~UNCHANGED memory
    <3>1. PICK circuit \in BOOLEAN : Persists(p, Halt(memory[p], FALSE, circuit))
      BY <1>11, <2>3 DEF StartupFails
    <3>2. memory' = [q \in Procs |-> memory'[q]] /\ OthersRemember(p)
      BY <3>1, Persisted
    <3> QED BY <1>a, <2>1, <3>2
  <2> QED BY <2>2, <2>3
<1>12. CASE Resume(p)
  BY <1>a, <1>12 DEF Resume
<1>13. CASE RecoverCircuit(p)
  BY <1>a, <1>13 DEF RecoverCircuit
<1>14. CASE ConsumePermit(p)
  BY <1>a, <1>14 DEF ConsumePermit
<1>15. CASE PermitConsumed(p)
  BY <1>a, <1>15 DEF PermitConsumed
<1>16. CASE Activate(p)
  BY <1>a, <1>16 DEF Activate
<1>17. CASE Trade(p)
  <2>1. \E s : Persists(p, s)
    BY <1>17 DEF Trade
  <2>2. UNCHANGED <<pc, draft, run, born>>
    BY <1>17 DEF Trade
  <2> QED BY <1>a, <2>1, <2>2
<1>18. CASE Beat(p)
  BY <1>a, <1>18 DEF Beat
<1>19. CASE LeaveLoop(p)
  BY <1>a, <1>19 DEF LeaveLoop
<1>20. CASE Stop(p)
  <2>1. /\ Goes(p, "silent") \/ Goes(p, "saved") \/ Goes(p, "off")
        /\ memory' = [memory EXCEPT ![p] = None] /\ UNCHANGED <<draft, run, born>>
    BY <1>20, SMT DEF Stop
  <2> QED BY <1>a, <2>1
<1>21. CASE Die(p)
  BY <1>a, <1>21 DEF Die
<1> QED BY <1>1, <1>2, <1>3, <1>4, <1>5, <1>6, <1>7, <1>8, <1>9, <1>10, <1>11, <1>12, <1>13, <1>14, <1>15, <1>16, <1>17, <1>18, <1>19, <1>20, <1>21 DEF Live

LEMMA OperatorMoves ==
    ASSUME ActorsTyped, Operate
    PROVE  ActorsTyped' /\ OthersKeep(Op) /\ UNCHANGED memory
<1> USE Moves, Prepares DEF ActorsTyped, OthersKeep, bounds, local, files, history
<1>a. Op \in Actors
  BY DEF Actors
<1>1. CASE OpStops
  BY <1>a, <1>1 DEF OpStops
<1>2. CASE RecoverFills
  BY <1>a, <1>2 DEF RecoverFills
<1>3. CASE DoctorBegins
  BY <1>a, <1>3 DEF DoctorBegins, Commands
<1>4. CASE DoctorGrants
  BY <1>a, <1>4 DEF DoctorGrants
<1>5. CASE DoctorEnds
  BY <1>a, <1>5 DEF DoctorEnds
<1>6. CASE SealBegins
  BY <1>a, <1>6 DEF SealBegins, Commands
<1>7. CASE SealRevokes
  BY <1>a, <1>7 DEF SealRevokes
<1>8. CASE SealRevoked
  BY <1>a, <1>8 DEF SealRevoked
<1>9. CASE SealKeeps
  BY <1>a, <1>9 DEF SealKeeps
<1>10. CASE SealEnds
  BY <1>a, <1>10 DEF SealEnds
<1>11. CASE BackupBegins
  BY <1>a, <1>11 DEF BackupBegins, Commands
<1>12. CASE BackupCopies
  BY <1>a, <1>12 DEF BackupCopies
<1>13. CASE BackupEnds
  BY <1>a, <1>13 DEF BackupEnds
<1>14. CASE Disaster
  BY <1>a, <1>14 DEF Disaster
<1>15. CASE RestoreBegins
  BY <1>a, <1>15 DEF RestoreBegins
<1>16. CASE PublishRuntime
  BY <1>a, <1>16 DEF PublishRuntime
<1>17. CASE PublishRegistry
  BY <1>a, <1>17 DEF PublishRegistry
<1>18. CASE RestoreEnds
  BY <1>a, <1>18 DEF RestoreEnds
<1>19. CASE RestoreFails
  BY <1>a, <1>19 DEF RestoreFails
<1> QED BY <1>1, <1>2, <1>3, <1>4, <1>5, <1>6, <1>7, <1>8, <1>9, <1>10, <1>11, <1>12, <1>13, <1>14, <1>15, <1>16, <1>17, <1>18, <1>19 DEF Operate

LEMMA FenceTyped ==
    ASSUME Typed, NEW p \in Procs,
           \/ HaltState(p) \/ RevokeBegins(p) \/ RevokeEnds(p)
           \/ FenceBegins(p) \/ FenceEnds(p)
    PROVE  Typed'
<1>1. p \in Actors
  BY DEF Actors
<1>2. ActorsTyped' /\ OthersKeep(p) /\ OthersRemember(p)
  BY LiveMoves DEF Typed, Live
<1>3. CASE HaltState(p)
  <2>1. FilesTyped'
    BY <1>3, FencedStateTyped, StateWritten DEF Typed, HaltState, recovery
  <2>2. pc'[p] \in {"revoke", "revokeUnknown"}
    BY <1>1, <1>3, Moves DEF Typed, HaltState
  <2> QED BY <1>2, <2>1, <2>2, LiveTyped DEF Halfway, Engine
<1>4. CASE RevokeBegins(p) /\ Loads(permit) /\ ToInvalidate(permit)
  <2>1. FilesTyped'
    BY <1>4, PermitKept DEF Typed, RevokeBegins, recovery
  <2>2. Voided(permit) \in Permits /\ Voided(permit).status = "invalidated"
    BY <1>4, PermitBodies DEF Typed, FilesTyped, Voided, ToInvalidate
  <2>a. draft'[p] = Following(permit, Voided(permit))
    BY <1>1, <1>4, Prepares DEF Typed, RevokeBegins
  <2>3. draft'[p] \in Records(Permits) /\ draft'[p].body = Voided(permit)
    BY <2>2, <2>a, FollowingPermit DEF Typed, FilesTyped
  <2>4. pc'[p] \in {"revokeW", "revokeUnknownW"}
    BY <1>1, <1>4, Moves DEF Typed, RevokeBegins
  <2> QED BY <1>2, <2>1, <2>2, <2>3, <2>4, LiveTyped DEF Halfway, Engine
<1>5. CASE RevokeBegins(p) /\ ~(Loads(permit) /\ ToInvalidate(permit))
  <2>1. FilesTyped'
    BY <1>5, FilesKept DEF Typed, RevokeBegins, recovery
  <2>2. pc'[p] \in {"off", "record", "unknown"}
    BY <1>1, <1>5, Moves DEF Typed, RevokeBegins
  <2> QED BY <1>2, <2>1, <2>2, LiveTyped DEF Halfway, Engine
<1>6. CASE RevokeEnds(p)
  <2>1. FilesTyped'
    BY <1>6, PermitReplaced DEF Typed, Halfway, RevokeEnds, recovery
  <2>2. pc'[p] \in {"off", "record"}
    BY <1>1, <1>6, Moves DEF Typed, RevokeEnds
  <2> QED BY <1>2, <2>1, <2>2, LiveTyped DEF Halfway, Engine
<1>7. CASE FenceBegins(p) /\ Loads(receipts) /\ ~Clean
  <2> DEFINE body == [uuid |-> run[p], phase |-> "restart_fenced", clean |-> TRUE]
  <2>1. FilesTyped'
    BY <1>7, ReceiptKept DEF Typed, FenceBegins, recovery
  <2>2. body \in Receipts
    BY DEF Typed, ActorsTyped, Receipts, Phases
  <2>3. draft'[p] = Following(receipts, body) /\ pc'[p] = "recordW"
    BY <1>1, <1>7, Moves, Prepares DEF Typed, FenceBegins
  <2>4. draft'[p] \in Records(Receipts)
    BY <2>2, <2>3, FollowingReceipt DEF Typed, FilesTyped
  <2> QED BY <1>2, <2>1, <2>3, <2>4, LiveTyped DEF Halfway, Engine
<1>8. CASE FenceBegins(p) /\ ~(Loads(receipts) /\ ~Clean)
  <2>1. FilesTyped'
    BY <1>8, FilesKept DEF Typed, FenceBegins, recovery
  <2>2. pc'[p] = "unknown"
    BY <1>1, <1>8, Moves DEF Typed, FenceBegins
  <2> QED BY <1>2, <2>1, <2>2, LiveTyped DEF Halfway, Engine
<1>9. CASE FenceEnds(p)
  <2>1. FilesTyped'
    BY <1>9, ReceiptReplaced DEF Typed, Halfway, FenceEnds, recovery
  <2>2. pc'[p] \in {"off", "unknown"}
    BY <1>1, <1>9, Moves DEF Typed, FenceEnds
  <2> QED BY <1>2, <2>1, <2>2, LiveTyped DEF Halfway, Engine
<1> QED BY <1>3, <1>4, <1>5, <1>6, <1>7, <1>8, <1>9

LEMMA ReceiptTyped ==
    ASSUME Typed, NEW p \in Procs, Begin(p) \/ Mark(p) \/ WriteReceipt(p)
    PROVE  Typed'
<1>1. p \in Actors
  BY DEF Actors
<1>2. ActorsTyped' /\ OthersKeep(p) /\ OthersRemember(p)
  BY LiveMoves DEF Typed, Live
<1>3. CASE Begin(p) /\ Loads(receipts) /\ Clean
  <2> DEFINE body == [uuid |-> run[p], clean |-> FALSE, phase |-> "run_marker_written"]
  <2>1. FilesTyped'
    BY <1>3, ReceiptKept DEF Typed, Begin, recovery
  <2>2. body \in Receipts
    BY DEF Typed, ActorsTyped, Receipts, Phases
  <2>3. draft'[p] = Following(receipts, body) /\ pc'[p] = "beginW"
    BY <1>1, <1>3, Moves, Prepares DEF Typed, Begin
  <2>4. draft'[p] \in Records(Receipts) /\ ~draft'[p].body.clean
    BY <2>2, <2>3, FollowingReceipt, FollowingBody DEF Typed, FilesTyped
  <2> QED BY <1>2, <2>1, <2>3, <2>4, LiveTyped DEF Halfway, Engine
<1>4. CASE Mark(p)
  <2> DEFINE body == [uuid |-> run[p], phase |-> Phase[pc[p]], clean |-> pc[p] = "finish"]
  <2>1. CASE pc'[p] = "off" /\ UNCHANGED receipts
    <3>1. FilesTyped'
      BY <1>4, <2>1, FilesKept DEF Typed, Mark, recovery
    <3> QED BY <1>2, <2>1, <3>1, LiveTyped DEF Halfway, Engine
  <2>2. CASE ~(pc'[p] = "off" /\ UNCHANGED receipts)
    <3>1. /\ receipts' = KeepPrevious(receipts) /\ Drafts(p, Following(receipts, body))
          /\ Goes(p, Writing[pc[p]])
      BY <1>1, <1>4, <2>2, Moves DEF Typed, Mark
    <3>2. FilesTyped'
      BY <1>4, <3>1, ReceiptKept DEF Typed, Mark, recovery
    <3>a. pc[p] \in {"construct", "saved", "silent", "beat", "finish"}
      BY <1>4 DEF Mark, Phase
    <3>b. Phase[pc[p]] \in Phases
      BY <3>a DEF Phase, Phases
    <3>c. run[p] \in Nat /\ (pc[p] = "finish") \in BOOLEAN
      BY DEF Typed, ActorsTyped
    <3>d. body \in Receipts
      BY <3>b, <3>c DEF Receipts
    <3>3. body \in Receipts /\ (body.clean => pc[p] = "finish")
      BY <3>d
    <3>4. draft'[p] = Following(receipts, body) /\ pc'[p] = Writing[pc[p]]
      BY <1>1, <3>1, Moves, Prepares DEF Typed
    <3>5. draft'[p] \in Records(Receipts) /\ draft'[p].body = body
      BY <3>3, <3>4, FollowingReceipt, FollowingBody DEF Typed, FilesTyped
    <3>6. /\ pc'[p] \in {"constructed", "savedW", "silentW", "beatW", "finishW"}
          /\ pc'[p] # "finishW" => pc[p] # "finish"
      BY <1>4, <3>4 DEF Mark, Phase, Writing
    <3> HIDE DEF body
    <3> QED BY <1>2, <3>2, <3>3, <3>5, <3>6, LiveTyped DEF Halfway, Engine
  <2> QED BY <2>1, <2>2
<1>5. CASE WriteReceipt(p)
  <2>1. draft[p] \in Records(Receipts)
    BY <1>5 DEF Typed, Halfway, WriteReceipt, After
  <2>2. FilesTyped'
    BY <1>5, <2>1, ReceiptReplaced DEF Typed, WriteReceipt, recovery
  <2>3. pc'[p] \in {"construct", "lease", "beat", "off", "finish"}
    BY <1>1, <1>5, Moves DEF Typed, WriteReceipt, After
  <2> QED BY <1>2, <2>2, <2>3, LiveTyped DEF Halfway, Engine
<1>6. Begin(p) /\ ~(Loads(receipts) /\ Clean) => Typed'
  <2> HAVE Begin(p) /\ ~(Loads(receipts) /\ Clean)
  <2>1. FilesTyped'
    BY FilesKept DEF Typed, Begin, recovery
  <2>2. pc'[p] = "off"
    BY <1>1, Moves DEF Typed, Begin
  <2> QED BY <1>2, <2>1, <2>2, LiveTyped DEF Halfway, Engine
<1> QED BY <1>3, <1>4, <1>5, <1>6

\* The states that an engine holds and saves.
LEMMA EngineStates ==
    ASSUME NEW m \in States, NEW reconciled \in BOOLEAN, NEW circuit \in BOOLEAN
    PROVE  /\ Halt(m, reconciled, circuit) \in States
           /\ Halt(m, reconciled, circuit).mode = "HALTED"
           /\ [m EXCEPT !.reconciled = TRUE] \in States
           /\ [m EXCEPT !.mode = "RUNNING"] \in States
           /\ [m EXCEPT !.mode = "REDUCE_ONLY", !.circuit = circuit] \in States
           /\ [m EXCEPT !.seq = 0] \in States /\ [m EXCEPT !.seq = 0].mode = m.mode
           /\ Recovered(m) \in States
BY DEF States, Modes, Halt, Recovered

\* A save of the engine.
LEMMA SavesTyped ==
    ASSUME Typed, NEW p \in Procs, NEW m \in States, Persists(p, m),
           ActorsTyped', OthersKeep(p), OthersRemember(p),
           pc'[p] \in {"failing", "trading"},
           UNCHANGED <<receipts, permit, seal, archive, stage>>
    PROVE  Typed'
<1>1. FilesTyped'
  BY StateWritten DEF Typed, Persists
<1>2. memory'[p] = m
  BY Persisted DEF Typed
<1> QED BY <1>1, <1>2, LiveTyped DEF Halfway

LEMMA EngineTyped ==
    ASSUME Typed, NEW p \in Procs,
           \/ TakeLease(p) \/ StartupFails(p) \/ Resume(p) \/ RecoverCircuit(p)
           \/ Activate(p) \/ Trade(p) \/ Beat(p) \/ LeaveLoop(p) \/ Stop(p) \/ Die(p)
    PROVE  Typed'
<1>1. p \in Actors
  BY DEF Actors
<1>2. ActorsTyped' /\ OthersKeep(p) /\ OthersRemember(p)
  BY LiveMoves DEF Typed, Live
<1>m. pc[p] \in Engine => memory[p] \in States
  BY DEF Typed, HasMemory
<1>3. CASE TakeLease(p)
  <2>1. FilesTyped'
    BY <1>3, FilesKept DEF Typed, TakeLease, files, recovery
  <2>2. CASE pc'[p] = "off"
    BY <1>2, <2>1, <2>2, LiveTyped DEF Halfway, Engine
  <2>3. CASE pc'[p] # "off"
    <3>1. pc'[p] = "startup" /\ memory' = [memory EXCEPT ![p] = Loaded] /\ state # None
      BY <1>1, <1>3, <2>3, Moves DEF Typed, TakeLease, Whole
    <3>2. Loaded \in States
      BY <3>1, EngineStates DEF Typed, FilesTyped, Loaded
    <3>3. memory'[p] \in States
      BY <3>1, <3>2, Remembers DEF Typed
    <3> QED BY <1>2, <2>1, <3>1, <3>3, LiveTyped DEF Halfway
  <2> QED BY <2>2, <2>3
<1>4. CASE StartupFails(p)
  <2>1. pc'[p] = "failing" /\ UNCHANGED <<receipts, permit, seal, archive, stage>>
    BY <1>1, <1>4, Moves DEF Typed, StartupFails, recovery
  <2>2. CASE UNCHANGED <<state, memory>>
    <3>1. FilesTyped'
      BY <2>1, <2>2, FilesKept DEF Typed
    <3> QED BY <1>2, <1>4, <1>m, <2>1, <2>2, <3>1, LiveTyped DEF Halfway, Engine, StartupFails
  <2>3. CASE ~UNCHANGED <<state, memory>>
    <3>1. PICK circuit \in BOOLEAN : Persists(p, Halt(memory[p], FALSE, circuit))
      BY <1>4, <2>3 DEF StartupFails
    <3>2. Halt(memory[p], FALSE, circuit) \in States
      BY <1>4, <1>m, EngineStates DEF StartupFails, Engine
    <3> QED BY <1>2, <2>1, <3>1, <3>2, SavesTyped
  <2> QED BY <2>2, <2>3
<1>5. CASE Resume(p)
  <2>1. memory[p] \in States /\ pc'[p] = "trading"
    BY <1>1, <1>5, <1>m, Moves DEF Typed, Resume, Engine
  <2>2. [memory[p] EXCEPT !.reconciled = TRUE] \in States
    BY <2>1, EngineStates
  <2>3. UNCHANGED <<receipts, permit, seal, archive, stage>>
    BY <1>5 DEF Resume, recovery
  <2> QED BY <1>2, <1>5, <2>1, <2>2, <2>3, SavesTyped DEF Resume
<1>6. CASE RecoverCircuit(p)
  <2>1. memory[p] \in States /\ pc'[p] = "trading"
    BY <1>1, <1>6, <1>m, Moves DEF Typed, RecoverCircuit, Engine
  <2>2. Recovered(memory[p]) \in States
    BY <2>1, EngineStates
  <2>3. UNCHANGED <<receipts, permit, seal, archive, stage>>
    BY <1>6 DEF RecoverCircuit, recovery
  <2> QED BY <1>2, <1>6, <2>1, <2>2, <2>3, SavesTyped DEF RecoverCircuit
<1>7. CASE Activate(p)
  <2>0. UNCHANGED <<receipts, permit, seal, archive, stage>>
    BY <1>7 DEF Activate, recovery
  <2>1. CASE draft[p].body.for = state
    <3>0. draft[p].body \in Permits
      BY <1>7, RecordBodies DEF Typed, Halfway, Activate
    <3>1. state \in States
      BY <2>1, <3>0 DEF Permits
    <3>2. [Loaded EXCEPT !.mode = "RUNNING"] \in States
      BY <3>1, EngineStates DEF Loaded
    <3>3. Persists(p, [Loaded EXCEPT !.mode = "RUNNING"]) /\ pc'[p] = "trading"
      BY <1>1, <1>7, <2>1, Moves DEF Typed, Activate
    <3> QED BY <1>2, <2>0, <3>2, <3>3, SavesTyped
  <2>2. CASE draft[p].body.for # state
    <3>1. pc'[p] = "failing" /\ UNCHANGED <<state, memory>>
      BY <1>1, <1>7, <2>2, Moves DEF Typed, Activate
    <3>2. FilesTyped'
      BY <2>0, <3>1, FilesKept DEF Typed
    <3> QED BY <1>2, <1>7, <1>m, <3>1, <3>2, LiveTyped DEF Halfway, Engine, Activate
  <2> QED BY <2>1, <2>2
<1>8. CASE Trade(p)
  <2>1. memory[p] \in States /\ pc'[p] = "trading"
    BY <1>8, <1>m DEF Trade, Engine
  <2>2. UNCHANGED <<receipts, permit, seal, archive, stage>>
    BY <1>8 DEF Trade, recovery
  <2>3. \E m \in States : Persists(p, m)
    <3>1. memory[p].reconciled \in BOOLEAN /\ memory[p].circuit \in BOOLEAN
      BY <2>1 DEF States
    <3> QED BY <1>8, <2>1, <3>1, EngineStates DEF Trade
  <2> QED BY <1>2, <2>1, <2>2, <2>3, SavesTyped
<1>9. CASE Beat(p) \/ LeaveLoop(p)
  <2>1. FilesTyped'
    BY <1>9, FilesKept DEF Typed, Beat, LeaveLoop, files, recovery
  <2>2. /\ pc'[p] \in {"trading", "stopping", "failing"} /\ pc[p] = "trading"
        /\ UNCHANGED memory
    BY <1>1, <1>9, Moves DEF Typed, Beat, LeaveLoop, local
  <2> QED BY <1>2, <1>m, <2>1, <2>2, LiveTyped DEF Halfway, Engine
<1>10. CASE Stop(p)
  <2>1. memory[p] \in States /\ pc'[p] \in {"silent", "saved", "off"}
    BY <1>1, <1>10, <1>m, Moves DEF Typed, Stop, Engine
  <2>2. state' = Saved(memory[p]) /\ UNCHANGED <<receipts, permit, seal, archive, stage>>
    BY <1>10 DEF Stop, recovery
  <2>3. FilesTyped'
    BY <2>1, <2>2, StateWritten DEF Typed
  <2> QED BY <1>2, <2>1, <2>3, LiveTyped DEF Halfway, Engine
<1>11. CASE Die(p)
  <2>1. FilesTyped'
    BY <1>11, FilesKept DEF Typed, Die, files, recovery
  <2>2. pc'[p] = "off"
    BY <1>1, <1>11, Moves DEF Typed, Die
  <2> QED BY <1>2, <2>1, <2>2, LiveTyped DEF Halfway, Engine
<1> QED BY <1>3, <1>4, <1>5, <1>6, <1>7, <1>8, <1>9, <1>10, <1>11

LEMMA StartAndPermitTyped ==
    ASSUME Typed, NEW p \in Procs, Start(p) \/ ConsumePermit(p) \/ PermitConsumed(p)
    PROVE  Typed'
<1>1. p \in Actors
  BY DEF Actors
<1>2. ActorsTyped' /\ OthersKeep(p) /\ OthersRemember(p)
  BY LiveMoves DEF Typed, Live
<1>3. CASE Start(p)
  <2>1. FilesTyped'
    BY <1>3, FilesKept DEF Typed, Start, files, recovery
  <2>2. pc'[p] \in {"unknown", "begin", "fence"}
    BY <1>1, <1>3, Moves DEF Typed, Start
  <2> QED BY <1>2, <2>1, <2>2, LiveTyped DEF Halfway, Engine
<1>4. CASE ConsumePermit(p)
  <2> DEFINE body == [permit.cur.body EXCEPT !.status = "consumed"]
  <2>1. FilesTyped'
    BY <1>4, PermitKept DEF Typed, ConsumePermit, recovery
  <2>2. body \in Permits /\ body.status = "consumed"
    BY <1>4, PermitBodies DEF Typed, FilesTyped, ConsumePermit, Has
  <2>3. draft'[p] = Following(permit, body) /\ pc'[p] = "consumed"
    BY <1>1, <1>4, Moves, Prepares DEF Typed, ConsumePermit
  <2> HIDE DEF body
  <2>4. draft'[p] \in Records(Permits) /\ draft'[p].body.status = "consumed"
    BY <2>2, <2>3, FollowingPermit DEF Typed, FilesTyped
  <2>5. memory'[p] \in States
    BY <1>4 DEF Typed, HasMemory, ConsumePermit, Engine
  <2> QED BY <1>2, <2>1, <2>3, <2>4, <2>5, LiveTyped DEF Halfway
<1>5. CASE PermitConsumed(p)
  <2>1. FilesTyped'
    BY <1>5, PermitReplaced DEF Typed, Halfway, PermitConsumed, recovery
  <2>2. pc'[p] = "activate" /\ draft'[p] = draft[p] /\ memory'[p] \in States
    BY <1>1, <1>5, Moves DEF Typed, HasMemory, PermitConsumed, Engine
  <2> QED BY <1>2, <1>5, <2>1, <2>2, LiveTyped DEF Typed, Halfway, PermitConsumed
<1> QED BY <1>3, <1>4, <1>5

LEMMA OperateTyped ==
    ASSUME Typed, Operate
    PROVE  Typed'
<1>1. Op \in Actors
  BY DEF Actors
<1>2. ActorsTyped' /\ OthersKeep(Op) /\ UNCHANGED memory
  BY OperatorMoves DEF Typed
<1>3. CASE \/ OpStops \/ DoctorBegins \/ SealBegins \/ RestoreEnds
  <2>1. FilesTyped'
    BY <1>3 DEF Typed, FilesTyped, OpStops, DoctorBegins, SealBegins, RestoreEnds, files,
      recovery, IsPair, IsPermitPair, IsSealPair, IsArchive, IsBackup
  <2>2. pc'[Op] \in {"off", "doctor", "seal"}
    BY <1>1, <1>3, Moves
    DEF Typed, OpStops, DoctorBegins, SealBegins, RestoreEnds, Commands
  <2> QED BY <1>2, <2>1, <2>2, OperatorTyped DEF OperatorHalfway
<1>4. CASE RecoverFills
  <2>1. state \in States /\ [state EXCEPT !.reconciled = TRUE] \in States
    BY <1>4, EngineStates DEF Typed, FilesTyped, RecoverFills
  <2>2. FilesTyped'
    BY <1>4, <2>1, StateWritten DEF Typed, RecoverFills, recovery
  <2>3. pc'[Op] = "off"
    BY <1>4 DEF RecoverFills, local
  <2> QED BY <1>2, <2>2, <2>3, OperatorTyped DEF OperatorHalfway
<1>5. CASE DoctorGrants
  <2> DEFINE body == [status |-> "issued", for |-> state]
  <2>1. FilesTyped'
    BY <1>5, PermitKept DEF Typed, DoctorGrants, recovery
  <2>2. body \in Permits /\ body.status = "issued"
    BY <1>5 DEF Typed, FilesTyped, DoctorGrants, Grantable, Permits
  <2>3. draft'[Op] = Following(permit, body) /\ pc'[Op] = "doctorW"
    BY <1>1, <1>5, Moves, Prepares DEF Typed, DoctorGrants
  <2> HIDE DEF body
  <2>4. draft'[Op] \in Records(Permits) /\ draft'[Op].body.status = "issued"
    BY <2>2, <2>3, FollowingPermit DEF Typed, FilesTyped
  <2> QED BY <1>2, <2>1, <2>3, <2>4, OperatorTyped DEF OperatorHalfway
<1>6. CASE DoctorEnds \/ SealRevoked
  <2>1. FilesTyped'
    BY <1>6, PermitReplaced DEF Typed, OperatorHalfway, DoctorEnds, SealRevoked, recovery
  <2>2. pc'[Op] \in {"off", "sealing"}
    BY <1>1, <1>6, Moves DEF Typed, DoctorEnds, SealRevoked
  <2> QED BY <1>2, <2>1, <2>2, OperatorTyped DEF OperatorHalfway
<1>7. CASE SealRevokes /\ ToInvalidate(permit)
  <2>1. FilesTyped'
    BY <1>7, PermitKept DEF Typed, SealRevokes, recovery
  <2>2. Voided(permit) \in Permits /\ Voided(permit).status = "invalidated"
    BY <1>7, PermitBodies DEF Typed, FilesTyped, Voided, ToInvalidate
  <2>a. draft'[Op] = Following(permit, Voided(permit)) /\ pc'[Op] = "sealRevoked"
    BY <1>1, <1>7, Moves, Prepares DEF Typed, SealRevokes
  <2>3. draft'[Op] \in Records(Permits) /\ draft'[Op].body = Voided(permit)
    BY <2>2, <2>a, FollowingPermit DEF Typed, FilesTyped
  <2> QED BY <1>2, <2>1, <2>2, <2>3, <2>a, OperatorTyped DEF OperatorHalfway
<1>8. CASE SealRevokes /\ ~ToInvalidate(permit)
  <2>1. FilesTyped'
    BY <1>8, FilesKept DEF Typed, SealRevokes, recovery
  <2>2. pc'[Op] = "sealing"
    BY <1>1, <1>8, Moves DEF Typed, SealRevokes
  <2> QED BY <1>2, <2>1, <2>2, OperatorTyped DEF OperatorHalfway
<1>9. CASE BackupBegins
  <2>1. FilesTyped'
    BY <1>9, FilesKept DEF Typed, BackupBegins, files, recovery
  <2>2. /\ draft'[Op] = [state |-> state, seal |-> seal, permit |-> Empty]
        /\ pc'[Op] = "backup"
    BY <1>1, <1>9, Moves, Prepares DEF Typed, BackupBegins, Commands
  <2>3. IsBackup(draft[Op])'
    BY <2>2 DEF Typed, FilesTyped, IsBackup, IsPermitPair, IsSealPair, IsPair, Empty
  <2> QED BY <1>2, <2>1, <2>2, <2>3, OperatorTyped DEF OperatorHalfway
<1>10. CASE BackupCopies
  <2>1. FilesTyped'
    BY <1>10, FilesKept DEF Typed, BackupCopies, files, recovery
  <2>2. IsBackup(draft[Op]) /\ IsPermitPair(permit)
    BY <1>10 DEF Typed, FilesTyped, OperatorHalfway, BackupCopies
  <2>3. pc'[Op] \in {"backup2", "backup3"}
    BY <1>1, <1>10, Moves DEF Typed, BackupCopies
  <2>4. IsBackup(draft[Op])'
    <3>1. CASE pc[Op] = "backup"
      <4>1. draft'[Op] = [draft[Op] EXCEPT !.permit.cur = permit.cur]
        BY <1>1, <1>10, <3>1, Prepares DEF Typed, BackupCopies
      <4> QED BY <2>2, <4>1 DEF IsBackup, IsPermitPair, IsPair
    <3>2. CASE pc[Op] # "backup"
      <4>1. draft'[Op] = [draft[Op] EXCEPT !.permit.prev = permit.prev]
        BY <1>1, <1>10, <3>2, Prepares DEF Typed, BackupCopies
      <4> QED BY <2>2, <4>1 DEF IsBackup, IsPermitPair, IsPair
    <3> QED BY <3>1, <3>2
  <2> QED BY <1>2, <2>1, <2>3, <2>4, OperatorTyped DEF OperatorHalfway
<1>11. CASE BackupEnds
  <2>1. IsArchive(archive)'
    BY <1>11 DEF Typed, FilesTyped, OperatorHalfway, BackupEnds, Authority, Matches, Whole,
      IsArchive, IsBackup, IsPermitPair, IsSealPair, IsPair
  <2>2. FilesTyped'
    BY <1>11, <2>1 DEF Typed, FilesTyped, BackupEnds, IsArchive, IsBackup, IsPermitPair, IsSealPair, IsPair
  <2>3. pc'[Op] = "off"
    BY <1>1, <1>11, Moves DEF Typed, BackupEnds
  <2> QED BY <1>2, <2>2, <2>3, OperatorTyped DEF OperatorHalfway
<1>12. CASE \/ Disaster \/ RestoreFails
  <2>1. FilesTyped'
    BY <1>12 DEF Typed, FilesTyped, Disaster, RestoreFails, Empty,
      IsArchive, IsBackup, IsPermitPair, IsSealPair, IsPair
  <2>2. pc'[Op] = "off"
    BY <1>1, <1>12, Moves DEF Typed, Disaster, RestoreFails, local
  <2> QED BY <1>2, <2>1, <2>2, OperatorTyped DEF OperatorHalfway
<1>13. CASE RestoreBegins
  <2>1. IsArchive(stage)'
    <3>1. IsArchive(archive)
      BY <1>13 DEF Typed, FilesTyped, RestoreBegins
    <3>2. CASE ToInvalidate(archive.permit)
      <4>1. Voided(archive.permit) \in Permits
        BY <3>1, <3>2, PermitBodies DEF IsArchive, IsBackup, Voided, ToInvalidate
      <4>2. IsPermitPair(Written(archive.permit, Voided(archive.permit)))
        BY <3>1, <4>1, FollowingPermit DEF IsArchive, IsBackup, Written, IsPermitPair, IsPair
      <4>3. stage' = [archive EXCEPT !.permit = Written(archive.permit, Voided(archive.permit))]
        BY <1>13, <3>2 DEF RestoreBegins
      <4> QED BY <3>1, <4>2, <4>3 DEF IsArchive, IsBackup
    <3>3. CASE ~ToInvalidate(archive.permit)
      <4>1. stage' = [archive EXCEPT !.permit = archive.permit]
        BY <1>13, <3>3 DEF RestoreBegins
      <4> QED BY <3>1, <4>1 DEF IsArchive, IsBackup
    <3> QED BY <3>2, <3>3
  <2>2. FilesTyped'
    BY <1>13, <2>1 DEF Typed, FilesTyped, RestoreBegins, IsArchive, IsBackup, IsPermitPair, IsSealPair, IsPair
  <2>3. pc'[Op] = "publish"
    BY <1>1, <1>13, Moves DEF Typed, RestoreBegins
  <2> QED BY <1>2, <2>2, <2>3, OperatorTyped DEF OperatorHalfway
<1>14. CASE PublishRuntime \/ PublishRegistry
  <2>1. FilesTyped'
    BY <1>14 DEF Typed, FilesTyped, PublishRuntime, PublishRegistry,
      IsArchive, IsBackup, IsPermitPair, IsSealPair, IsPair
  <2>2. pc'[Op] = "publish"
    BY <1>14 DEF PublishRuntime, PublishRegistry, local
  <2> QED BY <1>2, <2>1, <2>2, OperatorTyped DEF OperatorHalfway
<1>15. CASE SealEnds
  <2>1. IsSealPair(seal)'
    BY <1>15, CurrentReplaced DEF Typed, FilesTyped, OperatorHalfway, SealEnds, IsSealPair, IsPair
  <2>2. FilesTyped'
    BY <1>15, <2>1 DEF Typed, FilesTyped, SealEnds, recovery, IsPair, IsPermitPair,
      IsSealPair, IsArchive, IsBackup
  <2>3. pc'[Op] = "off"
    BY <1>1, <1>15, Moves DEF Typed, SealEnds
  <2> QED BY <1>2, <2>2, <2>3, OperatorTyped DEF OperatorHalfway
<1>16. CASE SealKeeps
  <2>1. IsSealPair(seal)' /\ IsSealPair(seal)
    BY <1>16, PreviousKept DEF Typed, FilesTyped, SealKeeps, IsSealPair, IsPair
  <2>2. FilesTyped'
    BY <1>16, <2>1 DEF Typed, FilesTyped, SealKeeps, recovery, IsPair, IsPermitPair,
      IsSealPair, IsArchive, IsBackup
  <2>3. pc'[Op] = "sealW" /\ draft'[Op] = Following(seal, "deployment")
    BY <1>1, <1>16, Moves, Prepares DEF Typed, SealKeeps
  <2>4. draft'[Op] \in Records({"deployment"})
    BY <2>1, <2>3, FollowingRecord DEF IsSealPair
  <2> QED BY <1>2, <2>2, <2>3, <2>4, OperatorTyped DEF OperatorHalfway
<1> QED BY <1>3, <1>4, <1>5, <1>6, <1>7, <1>8, <1>9, <1>10, <1>11, <1>12, <1>13, <1>14,
    <1>15, <1>16 DEF Operate

LEMMA TypedInit == Init => Typed
<1> SUFFICES ASSUME Init PROVE Typed
  OBVIOUS
<1>1. /\ Commissioned \in States /\ [Commissioned EXCEPT !.seq = 2, !.mode = "RUNNING"] \in States
      /\ Commissioned.mode = "HALTED"
  BY DEF Commissioned, States, Modes
<1>2. /\ IsPair(Empty) /\ Empty.cur = None
      /\ \A f, body : /\ IsPair(Written(f, body))
                      /\ Written(f, body).cur = Following(f, body)
                      /\ Written(f, body).prev = f.cur
  BY DEF IsPair, Empty, Written
<1>3. /\ [status |-> "issued", for |-> Commissioned] \in Permits
      /\ [status |-> "consumed", for |-> Commissioned] \in Permits
  BY <1>1 DEF Permits
<1>a. IsPermitPair(Empty)
  BY <1>2 DEF IsPermitPair
<1>b. \A f, body : IsPermitPair(f) /\ body \in Permits => IsPermitPair(Written(f, body))
  BY <1>2, FollowingPermit DEF IsPermitPair
<1>4. /\ IsPermitPair(Permitted)
      /\ IsPermitPair(Written(Permitted, [status |-> "consumed", for |-> Commissioned]))
  BY <1>3, <1>a, <1>b DEF Permitted
<1>c. IsSealPair(Written(Empty, "deployment"))
  BY <1>2, FollowingRecord DEF IsSealPair
<1>5. /\ Running(0, "run_marker_written") \in Receipts
      /\ Running(0, "broker_constructed") \in Receipts
  BY DEF Running, Receipts, Phases
<1> DEFINE first == Written(Empty, Running(0, "run_marker_written"))
           second == Written(first, Running(0, "broker_constructed"))
<1>6. first.cur \in Records(Receipts)
  BY <1>2, <1>5, FollowingReceipt
<1> HIDE DEF first
<1>7. second.cur \in Records(Receipts) /\ IsPair(second)
  BY <1>2, <1>5, <1>6, FollowingReceipt
<1> USE DEF first
<1>8. FilesTyped
  BY <1>1, <1>2, <1>4, <1>7, <1>a, <1>c DEF Init, FilesTyped, IsArchive, IsBackup
<1>9. ActorsTyped /\ \A a \in Actors : pc[a] = "off"
  BY DEF Init, ActorsTyped
<1> QED BY <1>8, <1>9 DEF Typed, Halfway, OperatorHalfway, HasMemory, Engine, Actors

LEMMA TypedNext == Typed /\ [Next]_vars => Typed'
<1> SUFFICES ASSUME Typed, [Next]_vars PROVE Typed'
  OBVIOUS
<1>1. ASSUME NEW p \in Procs, Live(p) PROVE Typed'
  BY <1>1, FenceTyped, ReceiptTyped, EngineTyped, StartAndPermitTyped DEF Live
<1>2. CASE Observe \/ UNCHANGED vars
  <2>1. UNCHANGED <<files, local, born>>
    BY <1>2 DEF Observe, WatchHeartbeat, WatchReceipt, WatchState, vars, bounds
  <2>2. FilesTyped'
    BY <2>1 DEF Typed, FilesTyped, files, recovery, IsArchive, IsBackup, IsPermitPair,
      IsSealPair, IsPair
  <2>3. ActorsTyped'
    BY <2>1 DEF Typed, ActorsTyped, local
  <2>4. (\A p \in Procs : Halfway(p))' /\ OperatorHalfway' /\ HasMemory'
    BY <2>1 DEF Typed, Halfway, OperatorHalfway, HasMemory, local, IsBackup, IsPermitPair,
      IsSealPair, IsPair
  <2> QED BY <2>2, <2>3, <2>4 DEF Typed
<1> QED BY <1>1, <1>2, OperateTyped DEF Next

\* No process or command, in whatever company, takes one record for another: what is
\* on disk and what each is about to write is a state, a receipt, a permit or an archive.
THEOREM TypedHolds == Spec => []Typed
BY TypedInit, TypedNext, PTL DEF Spec

--------------------------------------------------------------------------------
(***************************************************************************)
(* A live process, while no other runs.                                    *)
(***************************************************************************)

LEMMA Quiet ==
    ASSUME Typed, Alone, ~Crowded', NEW p \in Procs, Live(p)
    PROVE  \A q \in Procs : q # p => pc[q] = "off" /\ pc'[q] = "off"
<1>1. \A q \in Procs : q \in Actors
  BY DEF Actors
<1>2. OthersKeep(p)
  BY LiveMoves DEF Typed
<1>3. CASE Start(p)
  BY <1>1, <1>2, <1>3 DEF Start, Crowded, OthersKeep
<1>4. CASE ~Start(p)
  <2>1. pc[p] # "off"
    BY <1>4 DEF Live, HaltState, RevokeBegins, RevokeEnds, FenceBegins, FenceEnds,
      Begin, Mark, WriteReceipt, TakeLease, StartupFails, Resume, RecoverCircuit,
      ConsumePermit, PermitConsumed, Activate, Trade, Beat, LeaveLoop, Stop, Die, Phase, After
  <2> QED BY <1>1, <1>2, <2>1 DEF Alone, OthersKeep
<1> QED BY <1>3, <1>4

\* It replaces the state by later ones only.
LEMMA LiveState ==
    ASSUME Typed, Present, NEW p \in Procs, Live(p)
    PROVE  \/ state' = state
           \/ /\ state \in States /\ state' \in States
              /\ state'.seq = state.seq + 1 /\ state.seq \in Nat
<1>1. \A m \in States : state # None => Saved(m) \in States /\ Saved(m).seq = state.seq + 1
                                          /\ state.seq \in Nat /\ state \in States
  BY SavedState DEF Typed, FilesTyped
<1>2. pc[p] # "off" => state # None
  BY DEF Present
<1>3. pc[p] \in Engine => memory[p] \in States
  BY DEF Typed, HasMemory
<1>4. CASE HaltState(p)
  BY <1>1, <1>2, <1>4, FencedStateTyped DEF Typed, HaltState
<1>5. ASSUME NEW m \in States, Persists(p, m), pc[p] # "off"
      PROVE  state' = Saved(m) /\ state' \in States /\ state'.seq = state.seq + 1
               /\ state.seq \in Nat /\ state \in States
  BY <1>1, <1>2, <1>5 DEF Persists
<1>6. CASE StartupFails(p)
  BY <1>3, <1>5, <1>6, EngineStates DEF StartupFails, Engine
<1>7. CASE Resume(p) \/ RecoverCircuit(p)
  BY <1>3, <1>5, <1>7, EngineStates DEF Resume, RecoverCircuit, Engine
<1>8. CASE Activate(p)
  <2>1. CASE draft[p].body.for = state
    <3>0. draft[p].body \in Permits
      BY <1>8, RecordBodies DEF Typed, Halfway, Activate
    <3>1. state \in States
      BY <2>1, <3>0 DEF Permits
    <3>2. [Loaded EXCEPT !.mode = "RUNNING"] \in States
      BY <3>1, EngineStates DEF Loaded
    <3> QED BY <1>5, <1>8, <2>1, <3>2 DEF Activate
  <2> QED BY <1>8, <2>1 DEF Activate
<1>9. CASE Trade(p)
  <2>1. memory[p] \in States
    BY <1>3, <1>9 DEF Trade, Engine
  <2>2. memory[p].reconciled \in BOOLEAN /\ memory[p].circuit \in BOOLEAN
    BY <2>1 DEF States
  <2> QED BY <1>5, <1>9, <2>1, <2>2, EngineStates DEF Trade
<1>10. CASE Stop(p)
  BY <1>1, <1>2, <1>3, <1>10 DEF Stop, Engine
<1>11. CASE ~(HaltState(p) \/ StartupFails(p) \/ Resume(p) \/ RecoverCircuit(p)
              \/ Activate(p) \/ Trade(p) \/ Stop(p))
  BY <1>11 DEF Live, Start, RevokeBegins, RevokeEnds, FenceBegins, FenceEnds, Begin, Mark,
      WriteReceipt, TakeLease, ConsumePermit, PermitConsumed, Beat, LeaveLoop, Die, files
<1> QED BY <1>4, <1>6, <1>7, <1>8, <1>9, <1>10, <1>11

\* The permits that are issued or about to be are permits for states.
LEMMA GrantsTyped ==
    ASSUME Typed
    PROVE  \A f \in Grants : f.body.for \in States /\ f.body.for.seq \in Nat
<1> SUFFICES ASSUME NEW f \in Grants PROVE f.body.for \in States /\ f.body.for.seq \in Nat
  OBVIOUS
<1>1. f \in Records(Permits)
  BY DEF Typed, FilesTyped, IsPermitPair, OperatorHalfway, Grants
<1>2. f.body \in Permits
  BY <1>1, RecordBodies
<1> QED BY <1>2 DEF Permits, States

\* It issues no permit.
LEMMA LiveGrants ==
    ASSUME Typed, NEW p \in Procs, Live(p)
    PROVE  Grants' \subseteq Grants /\ (Has(permit, "issued")' => Has(permit, "issued"))
<1>1. draft'[Op] = draft[Op] /\ pc'[Op] = pc[Op]
  BY LiveMoves, OperatorIsNoProcess DEF Typed, OthersKeep, Op, Actors
<1>2. IsPair(permit)
  BY DEF Typed, FilesTyped, IsPermitPair
<1>3. \/ permit'.cur = permit.cur
      \/ permit'.cur.body.status \in {"consumed", "invalidated"}
  <2>1. CASE RevokeEnds(p)
    BY <1>2, <2>1, CurrentReplaced DEF Typed, Halfway, RevokeEnds
  <2>2. CASE PermitConsumed(p)
    BY <1>2, <2>2, CurrentReplaced DEF Typed, Halfway, PermitConsumed
  <2>3. CASE RevokeBegins(p) \/ ConsumePermit(p)
    BY <1>2, <2>3, PreviousKept DEF RevokeBegins, ConsumePermit
  <2>4. CASE ~(RevokeEnds(p) \/ PermitConsumed(p) \/ RevokeBegins(p) \/ ConsumePermit(p))
    BY <2>4 DEF Live, Start, HaltState, FenceBegins, FenceEnds, Begin, Mark,
      WriteReceipt, TakeLease, StartupFails, Resume, RecoverCircuit, Activate, Trade, Beat,
      LeaveLoop, Stop, Die, files
  <2> QED BY <2>1, <2>2, <2>3, <2>4
<1> QED BY <1>1, <1>3 DEF Grants, Has

\* The receipt on disk is replaced when its record is written and else kept.
LEMMA LiveReceipts ==
    ASSUME Typed, NEW p \in Procs, Live(p), ~WriteReceipt(p), ~FenceEnds(p)
    PROVE  receipts'.cur = receipts.cur /\ (Clean' <=> Clean)
<1>1. receipts' = receipts \/ receipts' = KeepPrevious(receipts)
  BY DEF Live, Start, HaltState, RevokeBegins, RevokeEnds, FenceBegins, Begin, Mark,
      TakeLease, StartupFails, Resume, RecoverCircuit, ConsumePermit, PermitConsumed,
      Activate, Trade, Beat, LeaveLoop, Stop, Die, files
<1>2. receipts'.cur = receipts.cur
  BY <1>1, PreviousKept DEF Typed, FilesTyped
<1> QED BY <1>2 DEF Clean

LEMMA WrittenReceipt ==
    ASSUME Typed, NEW p \in Procs, WriteReceipt(p)
    PROVE  /\ receipts'.cur = draft[p] /\ draft[p] \in Records(Receipts)
           /\ pc[p] # "finishW" => ~Clean'
<1>1. /\ pc[p] \in {"beginW", "constructed", "savedW", "silentW", "beatW", "finishW"}
      /\ receipts' = [receipts EXCEPT !.cur = draft[p]]
  BY DEF WriteReceipt, After
<1>2. receipts'.cur = draft[p]
  BY <1>1, CurrentReplaced DEF Typed, FilesTyped
<1>3. /\ draft[p] \in Records(Receipts)
      /\ pc[p] # "finishW" => ~draft[p].body.clean
  BY <1>1 DEF Typed, Halfway
<1> QED BY <1>2, <1>3, NoneIsNothingElse DEF Clean

\* A run that has begun and goes on, or ends without its last receipt, leaves an unclean one.
LEMMA LiveUnclean ==
    ASSUME Typed, BegunIsUnclean, NEW p \in Procs, Live(p), pc[p] \in Begun
    PROVE  Clean' => WriteReceipt(p) /\ pc[p] = "finishW"
<1>1. ~FenceEnds(p)
  BY DEF FenceEnds, Begun
<1> QED BY <1>1, LiveReceipts, WrittenReceipt DEF BegunIsUnclean

\* What it owes, and what makes a permit stale.
EndedUnclean(p) == pc[p] \in Begun /\ pc'[p] = "off" /\ ~(Clean /\ Loads(receipts))'

LEMMA LiveOwed ==
    ASSUME Typed, BegunIsUnclean, NEW p \in Procs, Live(p)
    PROVE  /\ \/ owed' <=> owed
              \/ RecoverCircuit(p) /\ ~owed'
              \/ ConsumePermit(p) /\ owed' = stale
              \/ EndedUnclean(p)
           /\ (stale' <=> stale) \/ EndedUnclean(p)
<1>1. p \in Actors
  BY DEF Actors
<1>a. ASSUME EndsUnclean(p), pc[p] \notin Begun
      PROVE  (owed' <=> owed) /\ (stale' <=> stale)
  BY <1>a DEF EndsUnclean
<1>b. ASSUME Goes(p, "off"), pc[p] \in Begun, ~(Clean /\ Loads(receipts))'
      PROVE  EndedUnclean(p)
  BY <1>1, <1>b, Moves DEF EndedUnclean, Typed
<1>2. CASE Mark(p) \/ TakeLease(p) \/ Stop(p) \/ Die(p)
  <2>1. UNCHANGED <<owed, stale>> \/ (EndsUnclean(p) /\ Goes(p, "off"))
    BY <1>2 DEF Mark, TakeLease, Stop, Die
  <2>2. pc[p] \in Begun => ~Clean'
    <3>1. CASE Die(p)
      BY <3>1 DEF Die, files, BegunIsUnclean, Clean
    <3>2. CASE ~Die(p)
      <4>1. pc[p] \in {"construct", "saved", "silent", "beat", "finish", "lease",
                       "stopping", "failing"}
        BY <1>2, <3>2 DEF Mark, TakeLease, Stop, Phase
      <4>2. ~WriteReceipt(p)
        BY <4>1 DEF WriteReceipt, After
      <4> QED BY <4>2, LiveUnclean
    <3> QED BY <3>1, <3>2
  <2> QED BY <1>a, <1>b, <2>1, <2>2
<1>3. CASE WriteReceipt(p)
  <2>1. \/ UNCHANGED <<owed, stale>>
        \/ /\ EndsUnclean(p) /\ Goes(p, "off")
           /\ ~Loads(receipts') \/ pc[p] = "silentW"
    BY <1>3 DEF WriteReceipt
  <2>2. pc[p] = "silentW" => ~Clean'
    BY <1>3, WrittenReceipt
  <2>3. CASE EndsUnclean(p) /\ Goes(p, "off")
    <3>1. ~Loads(receipts') \/ pc[p] = "silentW" \/ UNCHANGED <<owed, stale>>
      BY <2>1
    <3>2. UNCHANGED <<owed, stale>> \/ ~(Clean /\ Loads(receipts))'
      BY <2>2, <3>1
    <3> QED BY <1>a, <1>b, <2>3, <3>2
  <2> QED BY <2>1, <2>3
<1>4. CASE RecoverCircuit(p) \/ ConsumePermit(p)
  BY <1>4 DEF RecoverCircuit, ConsumePermit
<1>5. CASE ~(Mark(p) \/ TakeLease(p) \/ Stop(p) \/ Die(p) \/ WriteReceipt(p)
             \/ RecoverCircuit(p) \/ ConsumePermit(p))
  <2>1. UNCHANGED <<owed, stale>>
    BY <1>5 DEF Live, Start, HaltState, RevokeBegins, RevokeEnds, FenceBegins, FenceEnds, Begin,
      StartupFails, Resume, PermitConsumed, Activate, Trade, Beat, LeaveLoop, history
  <2> QED BY <2>1
<1> QED BY <1>2, <1>3, <1>4, <1>5

\* Where each step leads.
LEMMA LivePlaces ==
    ASSUME ActorsTyped, NEW p \in Procs
    PROVE  /\ Start(p) => pc'[p] \in {"begin", "fence", "unknown"}
           /\ HaltState(p) => pc'[p] \in {"revoke", "revokeUnknown"}
           /\ RevokeBegins(p) => /\ pc[p] \in {"revoke", "revokeUnknown"}
                                 /\ pc'[p] \in {"revokeW", "revokeUnknownW", "record",
                                                "unknown", "off"}
           /\ RevokeEnds(p) => /\ pc[p] \in {"revokeW", "revokeUnknownW"}
                               /\ pc'[p] \in {"record", "off"}
           /\ FenceBegins(p) => pc[p] = "record" /\ pc'[p] \in {"recordW", "unknown"}
           /\ FenceEnds(p) => pc'[p] \in {"unknown", "off"}
           /\ Begin(p) => pc[p] = "begin" /\ pc'[p] \in {"beginW", "off"}
           /\ Mark(p) => \/ pc'[p] = "off"
                         \/ pc[p] = "construct" /\ pc'[p] = "constructed"
                         \/ pc[p] = "saved" /\ pc'[p] = "savedW"
                         \/ pc[p] = "silent" /\ pc'[p] = "silentW"
                         \/ pc[p] = "beat" /\ pc'[p] = "beatW"
                         \/ pc[p] = "finish" /\ pc'[p] = "finishW"
           /\ WriteReceipt(p) => \/ pc'[p] = "off"
                                 \/ pc[p] = "beginW" /\ pc'[p] = "construct"
                                 \/ pc[p] = "constructed" /\ pc'[p] = "lease"
                                 \/ pc[p] = "savedW" /\ pc'[p] = "beat"
                                 \/ pc[p] = "beatW" /\ pc'[p] = "finish"
           /\ TakeLease(p) => pc[p] = "lease" /\ pc'[p] \in {"startup", "off"}
           /\ StartupFails(p) => pc[p] = "startup" /\ pc'[p] = "failing"
           /\ Resume(p) => pc[p] = "startup" /\ pc'[p] = "trading"
           /\ RecoverCircuit(p) => pc[p] = "startup" /\ pc'[p] = "trading"
           /\ ConsumePermit(p) => pc[p] = "startup" /\ pc'[p] = "consumed"
           /\ PermitConsumed(p) => pc[p] = "consumed" /\ pc'[p] = "activate"
           /\ Activate(p) => pc[p] = "activate" /\ pc'[p] \in {"trading", "failing"}
           /\ Trade(p) \/ Beat(p) => pc[p] = "trading" /\ pc'[p] = "trading"
           /\ LeaveLoop(p) => /\ pc[p] = "trading"
                              /\ \/ memory[p].mode # "HALTED" /\ pc'[p] = "stopping"
                                 \/ pc'[p] = "failing"
           /\ Stop(p) => \/ pc[p] = "stopping" /\ pc'[p] \in {"silent", "saved"}
                         \/ pc'[p] = "off"
           /\ Die(p) => pc'[p] = "off"
<1>1. p \in Actors
  BY DEF Actors
<1>2. /\ Start(p) => pc'[p] \in {"begin", "fence", "unknown"}
      /\ HaltState(p) => pc'[p] \in {"revoke", "revokeUnknown"}
      /\ FenceBegins(p) => pc[p] = "record" /\ pc'[p] \in {"recordW", "unknown"}
      /\ FenceEnds(p) => pc'[p] \in {"unknown", "off"}
      /\ Begin(p) => pc[p] = "begin" /\ pc'[p] \in {"beginW", "off"}
  BY <1>1, Moves DEF Start, HaltState, FenceBegins, FenceEnds, Begin
<1>3. /\ RevokeBegins(p) => /\ pc[p] \in {"revoke", "revokeUnknown"}
                            /\ pc'[p] \in {"revokeW", "revokeUnknownW", "record",
                                           "unknown", "off"}
      /\ RevokeEnds(p) => /\ pc[p] \in {"revokeW", "revokeUnknownW"}
                          /\ pc'[p] \in {"record", "off"}
  BY <1>1, Moves DEF RevokeBegins, RevokeEnds
<1>4. Mark(p) => \/ pc'[p] = "off"
                 \/ pc[p] = "construct" /\ pc'[p] = "constructed"
                 \/ pc[p] = "saved" /\ pc'[p] = "savedW"
                 \/ pc[p] = "silent" /\ pc'[p] = "silentW"
                 \/ pc[p] = "beat" /\ pc'[p] = "beatW"
                 \/ pc[p] = "finish" /\ pc'[p] = "finishW"
  BY <1>1, Moves DEF Mark, Phase, Writing
<1>5. WriteReceipt(p) => \/ pc'[p] = "off"
                         \/ pc[p] = "beginW" /\ pc'[p] = "construct"
                         \/ pc[p] = "constructed" /\ pc'[p] = "lease"
                         \/ pc[p] = "savedW" /\ pc'[p] = "beat"
                         \/ pc[p] = "beatW" /\ pc'[p] = "finish"
  BY <1>1, Moves DEF WriteReceipt, After
<1>6. /\ TakeLease(p) => pc[p] = "lease" /\ pc'[p] \in {"startup", "off"}
      /\ StartupFails(p) => pc[p] = "startup" /\ pc'[p] = "failing"
      /\ Resume(p) => pc[p] = "startup" /\ pc'[p] = "trading"
      /\ RecoverCircuit(p) => pc[p] = "startup" /\ pc'[p] = "trading"
      /\ ConsumePermit(p) => pc[p] = "startup" /\ pc'[p] = "consumed"
      /\ PermitConsumed(p) => pc[p] = "consumed" /\ pc'[p] = "activate"
      /\ Activate(p) => pc[p] = "activate" /\ pc'[p] \in {"trading", "failing"}
  BY <1>1, Moves DEF TakeLease, StartupFails, Resume, RecoverCircuit, ConsumePermit,
     PermitConsumed, Activate
<1>7. /\ Trade(p) \/ Beat(p) => pc[p] = "trading" /\ pc'[p] = "trading"
      /\ LeaveLoop(p) => /\ pc[p] = "trading"
                         /\ \/ memory[p].mode # "HALTED" /\ pc'[p] = "stopping"
                            \/ pc'[p] = "failing"
      /\ Stop(p) => \/ pc[p] = "stopping" /\ pc'[p] \in {"silent", "saved"}
                    \/ pc'[p] = "off"
      /\ Die(p) => pc'[p] = "off"
  BY <1>1, Moves DEF Trade, Beat, LeaveLoop, Stop, Die, local
<1> QED BY <1>2, <1>3, <1>4, <1>5, <1>6, <1>7

LEMMA LiveAlone ==
    ASSUME Typed, Alone, ~Crowded', NEW p \in Procs, Live(p)
    PROVE  Alone'
<1>1. \A q \in Procs : q # p => pc'[q] = "off"
  BY Quiet
<1>2. pc'[Op] = pc[Op]
  BY LiveMoves, OperatorIsNoProcess DEF Typed, OthersKeep, Op, Actors
<1>3. pc[p] # "off" => state # None /\ pc[Op] # "publish"
  BY DEF Alone
<1>4. pc[p] = "off" /\ Start(p) => state # None /\ pc[Op] # "publish"
  BY DEF Start, Matches, Whole, Crowded
<1>5. pc[p] = "off" => Start(p)
  BY DEF Live, HaltState, RevokeBegins, RevokeEnds, FenceBegins, FenceEnds,
      Begin, Mark, WriteReceipt, TakeLease, StartupFails, Resume, RecoverCircuit,
      ConsumePermit, PermitConsumed, Activate, Trade, Beat, LeaveLoop, Stop, Die, Phase, After
<1>6. state' # None
  BY <1>3, <1>4, <1>5, LiveState, NoneIsNothingElse DEF Alone, Present
<1> QED BY <1>1, <1>2, <1>3, <1>4, <1>5, <1>6 DEF Alone

LEMMA LiveBegun ==
    ASSUME Typed, Alone, BegunIsUnclean, ~Crowded', NEW p \in Procs, Live(p)
    PROVE  BegunIsUnclean'
<1>1. p \in Actors
  BY DEF Actors
<1>2. \A q \in Procs : q # p => pc'[q] = "off"
  BY Quiet
<1>3. ASSUME WriteReceipt(p), pc'[p] \in Begun PROVE ~Clean'
  <2>1. pc[p] # "finishW"
    BY <1>1, <1>3, Moves DEF Typed, WriteReceipt, After, Begun
  <2> QED BY <1>3, <2>1, WrittenReceipt
<1>4. ASSUME ~WriteReceipt(p), pc'[p] \in Begun PROVE pc[p] \in Begun
  <2>1. CASE Mark(p) \/ TakeLease(p) \/ StartupFails(p) \/ Resume(p) \/ RecoverCircuit(p)
             \/ ConsumePermit(p) \/ PermitConsumed(p) \/ Activate(p) \/ Trade(p) \/ Beat(p)
             \/ LeaveLoop(p) \/ Stop(p)
    BY <2>1 DEF Mark, TakeLease, StartupFails, Resume, RecoverCircuit, ConsumePermit,
      PermitConsumed, Activate, Trade, Beat, LeaveLoop, Stop, Phase, Begun
  <2>2. CASE Start(p) \/ HaltState(p) \/ RevokeBegins(p) \/ RevokeEnds(p) \/ FenceBegins(p)
             \/ FenceEnds(p) \/ Begin(p) \/ Die(p)
    <3>1. pc'[p] \notin Begun
      BY <1>1, <2>2, Moves DEF Typed, Start, HaltState, RevokeBegins, RevokeEnds,
        FenceBegins, FenceEnds, Begin, Die, Begun
    <3> QED BY <1>4, <3>1
  <2> QED BY <1>4, <2>1, <2>2 DEF Live
<1>5. pc'[p] \in Begun => ~Clean'
  BY <1>3, <1>4, LiveUnclean
<1>6. "off" \notin Begun
  BY DEF Begun
<1> QED BY <1>2, <1>5, <1>6 DEF BegunIsUnclean

LEMMA LiveStartsHalted ==
    ASSUME Typed, Chain, ~Crowded', NEW p \in Procs, Live(p)
    PROVE  StartsHalted'
<1>1. CASE pc[p] \in Begun
  <2>1. CASE ~Clean'
    BY <2>1 DEF StartsHalted
  <2>2. CASE WriteReceipt(p) /\ pc[p] = "finishW"
    <3>1. ~owed
      BY <2>2 DEF Chain, RunsHalted, Earned
    <3>2. (owed' <=> owed) \/ ~(Clean /\ Loads(receipts))'
      BY <2>2, LiveOwed DEF Chain, EndedUnclean, WriteReceipt, RecoverCircuit, ConsumePermit
    <3> QED BY <3>1, <3>2 DEF StartsHalted
  <2> QED BY <1>1, <2>1, <2>2, LiveUnclean DEF Chain
<1>2. CASE pc[p] \notin Begun
  <2>1. owed' <=> owed
    BY <1>2, LiveOwed DEF Chain, EndedUnclean, RecoverCircuit, ConsumePermit, Begun
  <2>2. CASE HaltState(p)
    BY <2>2, SavedState, FencedStateTyped DEF Typed, HaltState, StartsHalted, Halted
  <2>3. CASE FenceEnds(p)
    <3>1. Halted /\ UNCHANGED state
      BY <2>3 DEF FenceEnds, Chain, RunsHalted, AfterFence
    <3> QED BY <3>1 DEF StartsHalted, Halted
  <2>4. CASE WriteReceipt(p)
    <3>1. pc[p] = "beginW"
      BY <1>2, <2>4 DEF WriteReceipt, After, Begun
    <3> QED BY <2>4, <3>1, WrittenReceipt DEF StartsHalted
  <2>5. CASE FenceBegins(p) \/ Begin(p)
    <3>1. UNCHANGED state /\ (Clean' <=> Clean)
      BY <1>2, <2>5, LiveReceipts DEF FenceBegins, Begin, FenceEnds, WriteReceipt, After
    <3>2. Clean' => UNCHANGED receipts \/ (Loads(receipts) /\ Clean)
      BY <2>5, <3>1 DEF FenceBegins, Begin
    <3> QED BY <2>1, <3>1, <3>2 DEF Chain, StartsHalted, Halted
  <2>6. CASE Start(p) \/ RevokeBegins(p) \/ RevokeEnds(p) \/ Die(p)
    <3>1. UNCHANGED <<state, receipts>>
      BY <2>6 DEF Start, RevokeBegins, RevokeEnds, Die, files
    <3> QED BY <2>1, <3>1 DEF Chain, StartsHalted, Halted, Clean
  <2> QED BY <1>2, <2>2, <2>3, <2>4, <2>5, <2>6 DEF Live, Begun, Mark, TakeLease,
        StartupFails, Resume, RecoverCircuit, ConsumePermit, PermitConsumed, Activate, Trade,
        Beat, LeaveLoop, Stop, Phase
<1> QED BY <1>1, <1>2

\* A permit that is used is younger than the last run that owes one.
LEMMA UsedPermitIsFresh ==
    ASSUME Typed, Chain, NEW p \in Procs, ConsumePermit(p)
    PROVE  ~stale
<1>1. permit.cur \in Grants /\ permit.cur.body.for = state
  BY DEF ConsumePermit, Has, Grants
<1>2. ~FenceIsDue
  BY DEF ConsumePermit, FenceIsDue
<1> QED BY <1>1, <1>2 DEF Chain, StaleIsFenced

LEMMA LiveRunsHalted ==
    ASSUME Typed, Chain, ~Crowded', NEW p \in Procs, Live(p)
    PROVE  (\A q \in Procs : RunsHalted(q))'
<1>1. p \in Actors
  BY DEF Actors
<1>2. \A q \in Procs : q # p => pc'[q] = "off"
  BY Quiet DEF Chain
<1>3. SUFFICES RunsHalted(p)'
  BY <1>2 DEF RunsHalted, MayRun, AfterFence, Earned
<1>4. RunsHalted(p) /\ BegunIsUnclean
  BY DEF Chain
<1>5. pc'[p] # "off" => \/ owed' <=> owed
                        \/ RecoverCircuit(p) /\ ~owed'
                        \/ ConsumePermit(p) /\ owed' = stale
  BY <1>4, LiveOwed DEF EndedUnclean
<1>6. CASE pc'[p] \in MayRun
  <2>1. Begin(p) \/ Mark(p) \/ WriteReceipt(p) \/ TakeLease(p)
    BY <1>6, LivePlaces DEF Typed, Live, MayRun
  <2>2. UNCHANGED state /\ (owed' <=> owed)
    BY <1>5, <1>6, <2>1 DEF Begin, Mark, WriteReceipt, TakeLease, files, MayRun, RecoverCircuit,
      ConsumePermit, Phase, After
  <2>3. owed => Halted
    <3>1. CASE Begin(p)
      BY <1>1, <1>6, <3>1, Moves DEF Typed, Begin, MayRun, Chain, StartsHalted
    <3>2. CASE ~Begin(p)
      <4>1. pc[p] \in MayRun
        BY <1>6, <2>1, <3>2, LivePlaces DEF Typed, MayRun
      <4> QED BY <1>4, <4>1 DEF RunsHalted
    <3> QED BY <3>1, <3>2
  <2>4. owed /\ pc'[p] = "startup" => memory'[p].mode = "HALTED"
    <3> HAVE owed /\ pc'[p] = "startup"
    <3>a. TakeLease(p) /\ pc'[p] # "off"
      BY <2>1, LivePlaces DEF Typed
    <3>1. memory' = [memory EXCEPT ![p] = Loaded] /\ state # None
      BY <1>1, <3>a, Moves DEF Typed, TakeLease, Whole
    <3>2. memory'[p] = Loaded
      BY <3>1, Remembers DEF Typed
    <3>3. Loaded.mode = state.mode
      BY <3>1, EngineStates DEF Typed, FilesTyped, Loaded
    <3> QED BY <2>3, <3>1, <3>2, <3>3 DEF Halted
  <2> QED BY <1>6, <2>2, <2>3, <2>4 DEF RunsHalted, Halted, MayRun, AfterFence, Earned
<1>7. CASE pc'[p] \in AfterFence
  <2>1. CASE HaltState(p)
    <3>1. Halted'
      BY <2>1, SavedState, FencedStateTyped DEF Typed, HaltState, Halted
    <3> QED BY <1>7, <3>1 DEF RunsHalted, MayRun, AfterFence, Earned
  <2>2. CASE ~HaltState(p)
    <3>1. RevokeBegins(p) \/ RevokeEnds(p) \/ FenceBegins(p)
      BY <1>7, <2>2, LivePlaces DEF Typed, Live, AfterFence
    <3>2. Halted /\ UNCHANGED state
      BY <1>4, <3>1 DEF RunsHalted, AfterFence, RevokeBegins, RevokeEnds, FenceBegins
    <3> QED BY <1>7, <3>2 DEF RunsHalted, Halted, MayRun, AfterFence, Earned
  <2> QED BY <2>1, <2>2
<1>8. CASE pc'[p] \in Earned
  <2>1. ~owed'
    <3>1. CASE ConsumePermit(p)
      BY <1>5, <1>8, <3>1, UsedPermitIsFresh DEF Earned, ConsumePermit, RecoverCircuit
    <3>2. CASE ~ConsumePermit(p)
      <4>1. \/ pc[p] \in Earned
            \/ pc[p] = "trading" /\ memory[p].mode # "HALTED"
        BY <1>8, <3>2, LivePlaces DEF Typed, Live, Earned
      <4>2. ~owed
        BY <1>4, <4>1 DEF RunsHalted
      <4> QED BY <1>5, <1>8, <3>2, <4>2 DEF Earned
    <3> QED BY <3>1, <3>2
  <2> QED BY <1>8, <2>1 DEF RunsHalted, MayRun, AfterFence, Earned
<1>9. CASE pc'[p] = "trading"
  <2>1. memory'[p].mode # "HALTED" => ~owed'
    <3>1. CASE Resume(p)
      BY <1>4, <1>5, <1>9, <3>1 DEF RunsHalted, Resume, RecoverCircuit, ConsumePermit
    <3>2. CASE RecoverCircuit(p)
      BY <3>2 DEF RecoverCircuit
    <3>3. CASE Activate(p)
      BY <1>4, <1>5, <1>9, <3>3 DEF RunsHalted, Activate, Earned, RecoverCircuit, ConsumePermit
    <3>4. CASE Trade(p)
      BY <1>4, <1>5, <1>9, <3>4 DEF RunsHalted, Trade, RecoverCircuit, ConsumePermit
    <3>5. CASE Beat(p)
      BY <1>4, <1>5, <1>9, <3>5 DEF RunsHalted, Beat, local, RecoverCircuit, ConsumePermit
    <3>6. CASE ~(Resume(p) \/ RecoverCircuit(p) \/ Activate(p) \/ Trade(p) \/ Beat(p))
      <4>1. pc'[p] # "trading"
        BY <3>6, LivePlaces DEF Typed, Live
      <4> QED BY <1>9, <4>1
    <3> QED BY <3>1, <3>2, <3>3, <3>4, <3>5, <3>6
  <2> QED BY <1>9, <2>1 DEF RunsHalted, MayRun, AfterFence, Earned
<1>10. CASE /\ pc'[p] \notin MayRun /\ pc'[p] \notin AfterFence
            /\ pc'[p] \notin Earned /\ pc'[p] # "trading"
  BY <1>10 DEF RunsHalted, MayRun
<1> QED BY <1>6, <1>7, <1>8, <1>9, <1>10

LEMMA LiveGrantsPast ==
    ASSUME Typed, Alone, GrantsArePast, NEW p \in Procs, Live(p)
    PROVE  /\ GrantsArePast'
           /\ \A f \in Grants' : f.body.for = state' => UNCHANGED state
<1>1. \A f \in Grants : f.body.for \in States /\ f.body.for.seq \in Nat
  BY GrantsTyped
<1>2. CASE UNCHANGED state
  BY <1>2, LiveGrants DEF GrantsArePast
<1>3. CASE ~UNCHANGED state
  <2>1. /\ state' \in States /\ state \in States
        /\ state.seq \in Nat /\ state'.seq = state.seq + 1
    BY <1>3, LiveState DEF Alone, Present
  <2>2. \A f \in Grants' : f.body.for.seq < state'.seq
    BY <1>1, <2>1, LiveGrants DEF GrantsArePast
  <2> QED BY <1>1, <2>1, <2>2, LiveGrants, NoneIsNothingElse DEF GrantsArePast
<1> QED BY <1>2, <1>3

LEMMA LiveStale ==
    ASSUME Typed, Chain, ~Crowded', NEW p \in Procs, Live(p)
    PROVE  StaleIsFenced'
<1>1. SUFFICES ASSUME stale', NEW f \in Grants', f.body.for = state'
               PROVE  FenceIsDue'
  BY DEF StaleIsFenced
<1>2. UNCHANGED state /\ f \in Grants
  BY <1>1, LiveGrantsPast, LiveGrants DEF Chain
<1>3. p \in Actors /\ \A q \in Procs : q # p => pc'[q] = "off"
  BY Quiet DEF Chain, Actors
<1>4. CASE EndedUnclean(p)
  BY <1>3, <1>4 DEF EndedUnclean, FenceIsDue
<1>5. CASE ~EndedUnclean(p)
  <2>1. FenceIsDue
    BY <1>1, <1>2, <1>5, LiveOwed DEF Chain, StaleIsFenced
  <2>2. pc[p] \in {"off", "fence", "unknown"} /\ ~(Clean /\ Loads(receipts))
    BY <2>1 DEF FenceIsDue
  <2>3. ~HaltState(p)
    <3> SUFFICES ASSUME HaltState(p) PROVE FALSE
      OBVIOUS
    <3>1. state # None
      BY DEF HaltState, Chain, Alone
    <3>2. state' = Saved(FencedState) /\ state.seq \in Nat /\ state'.seq = state.seq + 1
      BY <3>1, SavedState, FencedStateTyped DEF Typed, HaltState
    <3> QED BY <1>2, <3>2
  <2>4. Start(p) \/ Die(p)
    BY <2>2, <2>3 DEF Live, RevokeBegins, RevokeEnds, FenceBegins, FenceEnds,
      Begin, Mark, WriteReceipt, TakeLease, StartupFails, Resume, RecoverCircuit,
      ConsumePermit, PermitConsumed, Activate, Trade, Beat, LeaveLoop, Stop, Phase, After
  <2>5. UNCHANGED receipts
    BY <2>4 DEF Start, Die, files
  <2>6. pc'[p] \in {"off", "fence", "unknown"}
    BY <1>3, <2>2, <2>4, Moves DEF Typed, Start, Die
  <2> QED BY <1>3, <2>2, <2>5, <2>6 DEF FenceIsDue, Clean
<1> QED BY <1>4, <1>5

LEMMA LiveChain ==
    ASSUME Typed, Chain, ~Crowded', NEW p \in Procs, Live(p)
    PROVE  Chain'
<1>1. Alone' /\ BegunIsUnclean'
  BY LiveAlone, LiveBegun DEF Chain
<1>2. GrantsArePast'
  BY LiveGrantsPast DEF Chain
<1> QED BY <1>1, <1>2, LiveStartsHalted, LiveRunsHalted, LiveStale DEF Chain

--------------------------------------------------------------------------------
(***************************************************************************)
(* A command.                                                              *)
(***************************************************************************)

\* What a command does to the files of the chain.
Replaces == RecoverFills \/ Disaster \/ PublishRuntime \/ RestoreFails

LEMMA OperatorPlaces ==
    ASSUME Typed, Operate
    PROVE  /\ \A q \in Procs : pc'[q] = pc[q]
           /\ pc'[Op] = "publish" => pc[Op] = "publish" \/ RestoreBegins
           /\ pc'[Op] = "doctorW" => pc[Op] = "doctorW" \/ DoctorGrants
           /\ pc'[Op] \in {"sealing", "sealW"} => SealRevokes \/ SealRevoked \/ SealKeeps
<1>1. Op \in Actors /\ \A q \in Procs : q # Op /\ q \in Actors
  BY OperatorIsNoProcess DEF Op, Actors
<1>2. \A q \in Procs : pc'[q] = pc[q]
  BY <1>1, OperatorMoves DEF Typed, OthersKeep
<1>3. CASE OpStops \/ RecoverFills \/ DoctorBegins \/ DoctorGrants \/ DoctorEnds \/ SealBegins
  BY <1>1, <1>2, <1>3, Moves DEF Typed, OpStops, RecoverFills, DoctorBegins, DoctorGrants,
    DoctorEnds, SealBegins, Commands, local
<1>4. CASE SealRevokes \/ SealRevoked \/ SealKeeps \/ SealEnds
  BY <1>1, <1>2, <1>4, Moves DEF Typed, SealRevokes, SealRevoked, SealKeeps, SealEnds
<1>5. CASE BackupBegins \/ BackupCopies \/ BackupEnds
  BY <1>1, <1>2, <1>5, Moves DEF Typed, BackupBegins, BackupCopies, BackupEnds, Commands
<1>6. CASE Disaster \/ RestoreBegins \/ PublishRuntime \/ PublishRegistry \/ RestoreEnds
           \/ RestoreFails
  BY <1>1, <1>2, <1>6, Moves DEF Typed, Disaster, RestoreBegins, PublishRuntime,
    PublishRegistry, RestoreEnds, RestoreFails, local
<1> QED BY <1>3, <1>4, <1>5, <1>6 DEF Operate

LEMMA OperatorFiles ==
    ASSUME Operate
    PROVE  /\ Replaces \/ UNCHANGED <<state, receipts>>
           /\ UNCHANGED receipts \/ state' = None
           /\ UNCHANGED owed \/ PublishRuntime
           /\ UNCHANGED stale \/ DoctorGrants \/ SealEnds \/ PublishRuntime
           /\ Crowded => Crowded'
BY DEF Operate, Replaces, OpStops, RecoverFills, DoctorBegins, DoctorGrants, DoctorEnds,
   SealBegins, SealRevokes, SealRevoked, SealKeeps, SealEnds, BackupBegins, BackupCopies,
   BackupEnds, Disaster, RestoreBegins, PublishRuntime, PublishRegistry, RestoreEnds,
   RestoreFails, files, history, Crowded

\* What replaces the state leaves a halted one or none.
LEMMA ReplacedHalted ==
    ASSUME Typed, Replaces
    PROVE  Halted' \/ UNCHANGED <<state, receipts>>
<1>1. CASE RecoverFills
  <2>1. state \in States /\ state.mode = "HALTED"
    BY <1>1 DEF Typed, FilesTyped, RecoverFills
  <2>2. /\ [state EXCEPT !.reconciled = TRUE] \in States
        /\ [state EXCEPT !.reconciled = TRUE].mode = "HALTED"
    BY <2>1 DEF States
  <2> QED BY <1>1, <2>2, SavedState DEF Typed, RecoverFills, Halted
<1>2. CASE PublishRuntime
  BY <1>2 DEF Typed, FilesTyped, IsArchive, PublishRuntime, Halted
<1>3. CASE Disaster \/ RestoreFails
  BY <1>3 DEF Disaster, RestoreFails, Halted
<1> QED BY <1>1, <1>2, <1>3 DEF Replaces

LEMMA PublishedHalted ==
    ASSUME Typed, PublishRuntime
    PROVE  Halted'
BY DEF Typed, FilesTyped, IsArchive, PublishRuntime, Halted

LEMMA OperateChain1 ==
    ASSUME Typed, Chain, Operate
    PROVE  Alone' /\ BegunIsUnclean' /\ StartsHalted' /\ (\A p \in Procs : RunsHalted(p))'
<1>1. \A q \in Procs : pc'[q] = pc[q] /\ memory'[q] = memory[q]
  BY OperatorPlaces, OperatorMoves DEF Typed
<1>2. pc'[Op] = "publish" \/ Disaster \/ PublishRuntime \/ RestoreFails
        => \A q \in Procs : pc[q] = "off"
  BY OperatorPlaces DEF Chain, Alone, Disaster, PublishRuntime, RestoreFails, RestoreBegins,
    Actors
<1>3. state' = None => state = None \/ Disaster \/ RestoreFails \/ PublishRuntime
  <2>1. CASE RecoverFills
    <3>1. [state EXCEPT !.reconciled = TRUE] \in States
      BY <2>1, EngineStates DEF Typed, FilesTyped, RecoverFills
    <3> QED BY <2>1, <3>1, SavedState, NoneIsNothingElse DEF Typed, RecoverFills
  <2> QED BY <2>1, OperatorFiles DEF Replaces
<1>4. Alone'
  BY <1>1, <1>2, <1>3 DEF Chain, Alone
<1>5. (\E q \in Procs : pc[q] # "off") => UNCHANGED receipts /\ (owed' <=> owed)
  BY <1>2, OperatorFiles DEF Replaces, RecoverFills
<1>6. BegunIsUnclean'
  BY <1>1, <1>5 DEF Chain, BegunIsUnclean, Begun, Clean
<1>7. StartsHalted'
  <2>1. CASE Halted'
    BY <2>1 DEF StartsHalted
  <2>2. CASE ~Halted'
    <3>1. UNCHANGED <<state, receipts>>
      BY <2>2, OperatorFiles, ReplacedHalted
    <3>2. UNCHANGED owed
      BY <2>2, OperatorFiles, ReplacedHalted, PublishedHalted DEF Replaces
    <3> QED BY <3>1, <3>2 DEF Chain, StartsHalted, Halted, Clean
  <2> QED BY <2>1, <2>2
<1>8. (\A p \in Procs : RunsHalted(p))'
  <2> SUFFICES ASSUME NEW p \in Procs PROVE RunsHalted(p)'
    OBVIOUS
  <2>1. CASE pc[p] = "off"
    BY <1>1, <2>1 DEF RunsHalted, MayRun, AfterFence, Earned
  <2>2. CASE pc[p] # "off"
    <3>1. (owed' <=> owed) /\ (Halted => Halted')
      BY <1>5, <2>2, OperatorFiles, ReplacedHalted DEF Halted
    <3> QED BY <1>1, <3>1 DEF Chain, RunsHalted
  <2> QED BY <2>1, <2>2
<1> QED BY <1>4, <1>6, <1>7, <1>8

\* The permits that are issued, or about to be, after a command.
LEMMA OperatorGrants ==
    ASSUME Typed, SealRevokesFirst, NotRestored, Operate
    PROVE  /\ \A f \in Grants' : f \in Grants \/ (DoctorGrants /\ f.body.for = state)
           /\ Disaster \/ PublishRuntime \/ SealEnds => Grants' = {}
           /\ RestoreFails => Grants' = {} \/ UNCHANGED <<state, receipts>>
<1>1. Op \in Actors
  BY DEF Actors
<1>2. IsPair(permit)
  BY DEF Typed, FilesTyped, IsPermitPair
<1>3. CASE DoctorGrants
  <2>1. permit'.cur = permit.cur /\ draft'[Op].body.for = state
    BY <1>1, <1>2, <1>3, PreviousKept, Prepares, FollowingBody DEF Typed, DoctorGrants
  <2>2. ~(Disaster \/ PublishRuntime \/ SealEnds \/ RestoreFails)
    BY <1>1, <1>3 DEF DoctorGrants, Disaster, PublishRuntime, SealEnds, RestoreFails
  <2> QED BY <1>3, <2>1, <2>2 DEF Grants
<1>4. CASE DoctorEnds
  <2>1. permit'.cur = draft[Op] /\ pc[Op] = "doctorW" /\ pc'[Op] = "off"
    BY <1>1, <1>2, <1>4, CurrentReplaced, Moves DEF Typed, DoctorEnds
  <2>2. ~(Disaster \/ PublishRuntime \/ SealEnds \/ RestoreFails)
    BY <1>1, <1>4 DEF DoctorEnds, Disaster, PublishRuntime, SealEnds, RestoreFails
  <2> QED BY <2>1, <2>2 DEF Grants
<1>5. CASE SealRevokes \/ SealRevoked
  <2>1. permit'.cur = permit.cur \/ permit'.cur.body.status = "invalidated"
    <3>1. CASE SealRevokes
      BY <1>2, <3>1, PreviousKept DEF SealRevokes
    <3>2. CASE SealRevoked
      BY <1>2, <3>2, CurrentReplaced DEF Typed, OperatorHalfway, SealRevoked
    <3> QED BY <1>5, <3>1, <3>2
  <2>2. pc'[Op] \in {"sealRevoked", "sealing"}
    BY <1>1, <1>5, Moves DEF Typed, SealRevokes, SealRevoked
  <2>3. ~(Disaster \/ PublishRuntime \/ SealEnds \/ RestoreFails)
    BY <1>1, <1>5 DEF SealRevokes, SealRevoked, Disaster, PublishRuntime, SealEnds, RestoreFails
  <2> QED BY <2>1, <2>2, <2>3 DEF Grants
<1>6. CASE SealEnds \/ PublishRuntime \/ Disaster
  <2>1. pc'[Op] # "doctorW"
    BY <1>1, <1>6, Moves DEF Typed, SealEnds, PublishRuntime, Disaster, local
  <2>2. ~Has(permit, "issued")'
    BY <1>6 DEF SealEnds, PublishRuntime, Disaster, SealRevokesFirst, NotRestored, Has, Empty
  <2>3. Grants' = {}
    BY <2>1, <2>2 DEF Grants, Has
  <2> QED BY <2>3
<1>7. CASE RestoreFails
  <2>1. pc'[Op] = "off"
    BY <1>1, <1>7, Moves DEF Typed, RestoreFails
  <2>2. UNCHANGED <<state, receipts, permit>> \/ permit'.cur = None
    BY <1>7 DEF RestoreFails, Empty
  <2>3. ~(Disaster \/ PublishRuntime \/ SealEnds)
    BY <1>1, <1>7, <2>1 DEF RestoreFails, Disaster, PublishRuntime, SealEnds, local
  <2>4. Grants' = {} \/ (UNCHANGED <<state, receipts>> /\ Grants' \subseteq Grants)
    BY <2>1, <2>2 DEF Grants
  <2> QED BY <2>3, <2>4
<1>8. CASE ~(DoctorGrants \/ DoctorEnds \/ SealRevokes \/ SealRevoked \/ SealEnds
             \/ PublishRuntime \/ Disaster \/ RestoreFails)
  <2>1. UNCHANGED permit
    BY <1>8 DEF Operate, OpStops, RecoverFills, DoctorBegins, SealBegins, SealKeeps,
      BackupBegins, BackupCopies, BackupEnds, RestoreBegins, PublishRegistry, RestoreEnds, files
  <2>2. pc'[Op] = "doctorW" => pc[Op] = "doctorW" /\ UNCHANGED <<pc, draft>>
    BY <1>1, <1>8, Moves DEF Typed, Operate, OpStops, RecoverFills, DoctorBegins, SealBegins,
      SealKeeps, BackupBegins, BackupCopies, BackupEnds, RestoreBegins, PublishRegistry,
      RestoreEnds, Commands, local
  <2> QED BY <1>8, <2>1, <2>2 DEF Grants
<1> QED BY <1>3, <1>4, <1>5, <1>6, <1>7, <1>8

\* Permits stay for states of the past; none for the one on disk is stale.
LEMMA OperateChain2 ==
    ASSUME Typed, SealRevokesFirst, NotRestored, Chain, Operate
    PROVE  GrantsArePast' /\ StaleIsFenced'
<1>1. \A f \in Grants : f.body.for \in States /\ f.body.for.seq \in Nat
  BY GrantsTyped
<1>2. CASE Grants' = {}
  BY <1>2 DEF GrantsArePast, StaleIsFenced
<1>3. CASE DoctorGrants
  <2>1. UNCHANGED state /\ state # None /\ ~stale'
    BY <1>3 DEF DoctorGrants, Grantable
  <2>2. \A f \in Grants' : f \in Grants \/ f.body.for = state
    BY OperatorGrants
  <2> QED BY <2>1, <2>2 DEF Chain, GrantsArePast, StaleIsFenced
<1>4. CASE RecoverFills
  <2>1. state \in States /\ [state EXCEPT !.reconciled = TRUE] \in States
    BY <1>4, EngineStates DEF Typed, FilesTyped, RecoverFills
  <2>2. /\ state' \in States /\ state \in States
        /\ state.seq \in Nat /\ state'.seq = state.seq + 1
    BY <1>4, <2>1, SavedState, NoneIsNothingElse DEF Typed, RecoverFills
  <2>3. Grants' \subseteq Grants
    BY <1>4, OperatorGrants DEF RecoverFills, DoctorGrants
  <2>4. \A f \in Grants' : f.body.for.seq < state'.seq /\ f.body.for # state'
    BY <1>1, <2>2, <2>3 DEF Chain, GrantsArePast
  <2> QED BY <2>2, <2>4, NoneIsNothingElse DEF GrantsArePast, StaleIsFenced
<1>5. CASE Grants' # {} /\ ~DoctorGrants /\ ~RecoverFills
  <2>1. UNCHANGED <<state, receipts>> /\ UNCHANGED stale
    BY <1>5, OperatorGrants, OperatorFiles DEF Replaces
  <2>2. Grants' \subseteq Grants
    BY <1>5, OperatorGrants
  <2>3. \A q \in Procs : pc'[q] = pc[q]
    BY OperatorPlaces
  <2> QED BY <2>1, <2>2, <2>3 DEF Chain, GrantsArePast, StaleIsFenced, FenceIsDue, Clean
<1> QED BY <1>2, <1>3, <1>4, <1>5

LEMMA SealAndRestorationRevoke ==
    ASSUME Typed, SealRevokesFirst, NotRestored, Operate
    PROVE  SealRevokesFirst' /\ NotRestored'
<1>1. Op \in Actors /\ IsPair(permit)
  BY DEF Actors, Typed, FilesTyped, IsPermitPair
<1>2. ASSUME pc'[Op] \in {"sealing", "sealW"} PROVE ~Has(permit, "issued")'
  <2>1. CASE SealRevokes
    <3>1. pc'[Op] = "sealing" => UNCHANGED permit /\ ~ToInvalidate(permit)
      BY <1>1, <2>1, Moves DEF Typed, SealRevokes
    <3>2. pc'[Op] \in {"sealing", "sealRevoked"}
      BY <1>1, <2>1, Moves DEF Typed, SealRevokes
    <3> QED BY <1>2, <3>1, <3>2 DEF ToInvalidate, Has
  <2>2. CASE SealRevoked
    <3>1. permit'.cur = draft[Op] /\ draft[Op].body.status = "invalidated"
      BY <1>1, <2>2, CurrentReplaced DEF Typed, OperatorHalfway, SealRevoked
    <3> QED BY <3>1 DEF Has
  <2>3. CASE SealKeeps
    BY <2>3 DEF SealKeeps, SealRevokesFirst, Has
  <2> QED BY <1>2, <2>1, <2>2, <2>3, OperatorPlaces
<1>3. NotRestored'
  <2>1. CASE RestoreBegins
    <3>1. IsArchive(archive)
      BY <2>1 DEF Typed, FilesTyped, RestoreBegins
    <3>2. stage'.permit = IF ToInvalidate(archive.permit)
                          THEN Written(archive.permit, Voided(archive.permit))
                          ELSE archive.permit
      BY <2>1, <3>1 DEF RestoreBegins, IsArchive, IsBackup
    <3>3. CASE ToInvalidate(archive.permit)
      <4>1. Voided(archive.permit).status = "invalidated"
        BY <3>1, <3>3, PermitBodies DEF IsArchive, IsBackup, Voided, ToInvalidate
      <4>2. stage'.permit.cur.body.status = "invalidated"
        BY <3>2, <3>3, <4>1, FollowingBody DEF Written
      <4> QED BY <4>2 DEF NotRestored, Has
    <3> QED BY <3>2, <3>3 DEF NotRestored, Has, ToInvalidate
  <2>2. CASE ~RestoreBegins
    <3>1. stage' = stage \/ stage' = None
      BY <2>2 DEF Operate, OpStops, RecoverFills, DoctorBegins, DoctorGrants, DoctorEnds,
        SealBegins, SealRevokes, SealRevoked, SealKeeps, SealEnds, BackupBegins, BackupCopies,
        BackupEnds, Disaster, PublishRuntime, PublishRegistry, RestoreEnds, RestoreFails,
        files, recovery
    <3> QED BY <3>1 DEF NotRestored, Has
  <2> QED BY <2>1, <2>2
<1> QED BY <1>2, <1>3 DEF SealRevokesFirst

--------------------------------------------------------------------------------
(***************************************************************************)
(* The invariant holds, and with it the property.                          *)
(***************************************************************************)

LEMMA SInvInit == Init => SInv
<1> SUFFICES ASSUME Init PROVE SInv
  OBVIOUS
<1>1. \A a \in Actors : pc[a] = "off"
  BY DEF Init
<1>2. Op \in Actors /\ \A p \in Procs : p \in Actors
  BY DEF Actors
<1>3. stage = None
  BY DEF Init
<1>4. SealRevokesFirst /\ NotRestored
  BY <1>1, <1>2, <1>3 DEF SealRevokesFirst, NotRestored
<1>5. Alone /\ BegunIsUnclean /\ \A p \in Procs : RunsHalted(p)
  BY <1>1, <1>2 DEF Alone, BegunIsUnclean, Begun, RunsHalted, MayRun, AfterFence, Earned
<1>6. CASE owed
  <2> DEFINE first == Written(Empty, Running(0, "run_marker_written"))
             second == Running(0, "broker_constructed")
             used == [status |-> "consumed", for |-> Commissioned]
  <2>1. receipts = Written(first, second) /\ permit = Written(Permitted, used)
    BY <1>6 DEF Init
  <2>2. receipts.cur = Following(first, second) /\ permit.cur = Following(Permitted, used)
    BY <2>1 DEF Written
  <2>3. receipts.cur.body = second /\ permit.cur.body = used
    BY <2>2, FollowingBody
  <2>4. first.cur \in Records(Receipts) \union {None}
    <3>1. first.cur = Following(Empty, Running(0, "run_marker_written")) /\ Empty.cur = None
      BY DEF Written, Empty
    <3>2. Running(0, "run_marker_written") \in Receipts
      BY DEF Running, Receipts, Phases
    <3> QED BY <3>1, <3>2, FollowingReceipt
  <2>5. second \in Receipts /\ ~second.clean
    BY DEF Running, Receipts, Phases
  <2> HIDE DEF first, second
  <2>6. receipts.cur # None
    BY <2>2, <2>4, <2>5, FollowingReceipt, NoneIsNothingElse
  <2>7. StartsHalted
    BY <2>3, <2>5, <2>6 DEF StartsHalted, Clean
  <2>8. Grants = {}
    BY <1>1, <1>2, <2>3 DEF Grants
  <2> QED BY <1>4, <1>5, <2>7, <2>8, TypedInit DEF SInv, Chain, GrantsArePast, StaleIsFenced
<1>7. CASE ~owed
  <2>1. ~stale /\ state = Commissioned
    BY <1>7 DEF Init
  <2>a. Commissioned \in States
    BY DEF Commissioned, States, Modes
  <2>2. state # None
    BY <2>1, <2>a, NoneIsNothingElse
  <2>3. \A f \in Grants : f.body.for = state
    <3>1. permit = Empty \/ permit = Permitted
      BY <1>7 DEF Init
    <3>2. permit.cur # None => permit.cur.body.for = Commissioned
      BY <3>1, FollowingBody DEF Empty, Permitted, Written
    <3> QED BY <1>1, <1>2, <2>1, <3>2 DEF Grants
  <2> QED BY <1>4, <1>5, <1>7, <2>1, <2>2, <2>3, TypedInit
      DEF SInv, Chain, GrantsArePast, StaleIsFenced, StartsHalted
<1> QED BY <1>6, <1>7

\* A process has no part in a seal or a restoration, and issues no permit.
LEMMA LiveRestores ==
    ASSUME Typed, SealRevokesFirst, NotRestored, NEW p \in Procs, Live(p)
    PROVE  SealRevokesFirst' /\ NotRestored'
<1>1. pc'[Op] = pc[Op]
  BY LiveMoves, OperatorIsNoProcess DEF Typed, OthersKeep, Op, Actors
<1>2. stage' = stage
  BY DEF Live, Start, HaltState, RevokeBegins, RevokeEnds, FenceBegins, FenceEnds,
    Begin, Mark, WriteReceipt, TakeLease, StartupFails, Resume, RecoverCircuit,
    ConsumePermit, PermitConsumed, Activate, Trade, Beat, LeaveLoop, Stop, Die,
    files, recovery
<1> QED BY <1>1, <1>2, LiveGrants DEF SealRevokesFirst, NotRestored, Has

LEMMA SInvNext == SInv /\ [Next]_vars => SInv'
<1> SUFFICES ASSUME SInv, [Next]_vars PROVE SInv'
  OBVIOUS
<1>1. Typed /\ Typed'
  BY TypedNext DEF SInv
<1>2. ASSUME NEW p \in Procs, Live(p) PROVE SInv'
  <2>3. SealRevokesFirst' /\ NotRestored'
    BY <1>1, <1>2, LiveRestores DEF SInv
  <2>4. Crowded => Crowded'
    BY <1>2 DEF Live, Start, HaltState, RevokeBegins, RevokeEnds, FenceBegins, FenceEnds,
      Begin, Mark, WriteReceipt, TakeLease, StartupFails, Resume, RecoverCircuit,
      ConsumePermit, PermitConsumed, Activate, Trade, Beat, LeaveLoop, Stop, Die,
      history, Crowded
  <2> QED BY <1>1, <1>2, <2>3, <2>4, LiveChain DEF SInv
<1>3. CASE Operate
  <2>1. SealRevokesFirst' /\ NotRestored'
    BY <1>1, <1>3, SealAndRestorationRevoke DEF SInv
  <2>2. Crowded => Crowded'
    BY <1>3, OperatorFiles
  <2>3. Chain => Chain'
    BY <1>1, <1>3, OperateChain1, OperateChain2 DEF SInv, Chain
  <2> QED BY <1>1, <2>1, <2>2, <2>3 DEF SInv
<1>4. CASE Observe \/ UNCHANGED vars
  <2>1. UNCHANGED <<files, local, history>>
    BY <1>4 DEF Observe, WatchHeartbeat, WatchReceipt, WatchState, vars
  <2>2. Grants' = Grants /\ Clean' = Clean
    BY <2>1 DEF files, local, Grants, Clean
  <2> QED BY <1>1, <2>1, <2>2 DEF SInv, SealRevokesFirst, NotRestored, Crowded, Chain, Alone,
      BegunIsUnclean, StartsHalted, RunsHalted, Halted, GrantsArePast, StaleIsFenced,
      FenceIsDue, files, recovery, local, history, Has
<1> QED BY <1>2, <1>3, <1>4 DEF Next

\* A process that trades has earned it since the last unclean end and the last restoration,
\* unless a second live process, or one beside a restoration, has run (process_run.py,
\* stress90_activation_permit.py and the restart fence of command_router.py).
THEOREM TradingIsEarnedHolds == Spec => []TradingIsEarned
<1>1. SInv => TradingIsEarned
  BY DEF SInv, Chain, RunsHalted, TradingIsEarned, Crowded
<1> QED BY <1>1, SInvInit, SInvNext, PTL DEF Spec

--------------------------------------------------------------------------------
(***************************************************************************)
(* HalfRestoredGrantsNothing, whoever runs beside whom: the current file   *)
(* of the registry comes last, a permit is issued only where it exists,    *)
(* and the registry goes only together with every permit.                  *)
(***************************************************************************)

RegistryInOrder == registry \subseteq Parts /\ ("current" \in registry => registry = Parts)

WInv ==
    /\ Typed /\ NotRestored /\ SealRevokesFirst /\ RegistryInOrder
    /\ pc[Op] = "doctorW" => registry = Parts
    /\ HalfRestoredGrantsNothing

\* The current file is published when the others are there.
LEMMA CurrentIsLast ==
    ASSUME RegistryInOrder, PublishRegistry
    PROVE  RegistryInOrder' /\ registry \subseteq registry'
<1>1. PICK i \in DOMAIN PublishOrder : /\ Published = 1 .. i - 1
                                       /\ registry' = registry \union {PublishOrder[i]}
  BY DEF PublishRegistry
<1>2. i \in 1 .. 3 /\ PublishOrder[i] \in Parts
  BY DEF PublishOrder, Parts
<1>3. CASE i = 3
  <2>1. 1 \in Published /\ 2 \in Published
    BY <1>1, <1>3
  <2>2. "ledger" \in registry /\ "companions" \in registry
    BY <2>1 DEF Published, PublishOrder
  <2>3. PublishOrder[i] = "current"
    BY <1>3 DEF PublishOrder
  <2> QED BY <1>1, <2>2, <2>3 DEF RegistryInOrder, Parts
<1>4. CASE i # 3
  <2>1. PublishOrder[i] # "current"
    BY <1>2, <1>4 DEF PublishOrder
  <2>2. registry' \subseteq Parts
    BY <1>1, <1>2 DEF RegistryInOrder
  <2>3. "current" \in registry' => registry = Parts
    BY <1>1, <2>1 DEF RegistryInOrder
  <2> QED BY <1>1, <2>2, <2>3 DEF RegistryInOrder
<1> QED BY <1>3, <1>4

\* A process issues no permit and makes none fresh.
LEMMA LiveWhole ==
    ASSUME WInv, NEW p \in Procs, Live(p)
    PROVE  /\ RegistryInOrder' /\ HalfRestoredGrantsNothing'
           /\ pc'[Op] = "doctorW" => registry' = Parts
<1>a. UNCHANGED registry /\ (UNCHANGED stale \/ EndsUnclean(p))
  BY DEF Live, Start, HaltState, RevokeBegins, RevokeEnds, FenceBegins, FenceEnds, Begin,
    Mark, WriteReceipt, TakeLease, StartupFails, Resume, RecoverCircuit, ConsumePermit,
    PermitConsumed, Activate, Trade, Beat, LeaveLoop, Stop, Die, files, recovery, history
<1>1. UNCHANGED registry /\ (stale => stale')
  <2>1. UNCHANGED stale => (stale => stale')
    OBVIOUS
  <2>2. EndsUnclean(p) => (stale => stale')
    BY DEF EndsUnclean
  <2> QED BY <1>a, <2>1, <2>2
<1>2. Has(permit, "issued")' => Has(permit, "issued")
  BY LiveGrants DEF WInv
<1>3. pc'[Op] = pc[Op]
  BY LiveMoves, OperatorIsNoProcess DEF WInv, Typed, OthersKeep, Op, Actors
<1> QED BY <1>1, <1>2, <1>3 DEF WInv, RegistryInOrder, HalfRestoredGrantsNothing

LEMMA OperateWhole ==
    ASSUME WInv, Operate
    PROVE  /\ RegistryInOrder' /\ HalfRestoredGrantsNothing'
           /\ pc'[Op] = "doctorW" => registry' = Parts
<1>1. Op \in Actors /\ IsPair(permit)
  BY DEF Actors, WInv, Typed, FilesTyped, IsPermitPair
<1>2. CASE Disaster
  BY <1>1, <1>2 DEF Disaster, RegistryInOrder, HalfRestoredGrantsNothing, Has, Empty, local
<1>3. RegistryInOrder' /\ (Disaster \/ (registry = Parts => registry' = Parts))
  <2>1. CASE PublishRegistry
    BY <2>1, CurrentIsLast DEF WInv, RegistryInOrder
  <2>2. CASE Disaster
    BY <2>2 DEF Disaster, RegistryInOrder
  <2>3. CASE ~PublishRegistry /\ ~Disaster
    <3>1. UNCHANGED registry
      BY <2>3 DEF Operate, OpStops, RecoverFills, DoctorBegins, DoctorGrants, DoctorEnds,
        SealBegins, SealRevokes, SealRevoked, SealKeeps, SealEnds, BackupBegins, BackupCopies,
        BackupEnds, RestoreBegins, PublishRuntime, RestoreEnds, RestoreFails, files, recovery
    <3> QED BY <3>1 DEF WInv, RegistryInOrder
  <2> QED BY <2>1, <2>2, <2>3
<1>4. CASE ~Disaster
  <2>1. pc'[Op] = "doctorW" => registry = Parts
    BY OperatorPlaces DEF WInv, DoctorGrants, Grantable, RegistryInOrder
  <2>2. Has(permit, "issued")' /\ ~stale' => registry = Parts
    <3> SUFFICES ASSUME Has(permit, "issued")', ~stale' PROVE registry = Parts
      OBVIOUS
    <3>1. permit'.cur \in Grants'
      BY DEF Grants, Has
    <3>2. CASE DoctorGrants
      BY <3>2 DEF WInv, DoctorGrants, Grantable, RegistryInOrder
    <3>3. CASE ~DoctorGrants
      <4>1. permit'.cur \in Grants /\ ~stale
        BY <3>1, <3>3, OperatorGrants, OperatorFiles DEF WInv
      <4>2. CASE pc[Op] = "doctorW"
        BY <4>2 DEF WInv
      <4>3. CASE pc[Op] # "doctorW"
        BY <4>1, <4>3 DEF WInv, Grants, Has, HalfRestoredGrantsNothing
      <4> QED BY <4>2, <4>3
    <3> QED BY <3>2, <3>3
  <2> QED BY <1>3, <1>4, <2>1, <2>2 DEF HalfRestoredGrantsNothing
<1> QED BY <1>2, <1>3, <1>4

\* Wherever a restoration dies, a permit issued since was issued with the whole registry
\* in place, with any number of processes beside it (runtime_backup.py, doctor).
THEOREM HalfRestoredHolds == Spec => []HalfRestoredGrantsNothing
<1>1. Init => WInv
  <2> SUFFICES ASSUME Init PROVE WInv
    OBVIOUS
  <2>1. registry = Parts /\ RegistryInOrder
    BY DEF Init, RegistryInOrder
  <2> QED BY <2>1, SInvInit DEF SInv, WInv, HalfRestoredGrantsNothing
<1>2. WInv /\ [Next]_vars => WInv'
  <2> SUFFICES ASSUME WInv, [Next]_vars PROVE WInv'
    OBVIOUS
  <2>1. Typed'
    BY TypedNext DEF WInv
  <2>2. ASSUME NEW p \in Procs, Live(p) PROVE WInv'
    BY <2>1, <2>2, LiveWhole, LiveRestores DEF WInv
  <2>3. CASE Operate
    BY <2>1, <2>3, OperateWhole, SealAndRestorationRevoke DEF WInv
  <2>4. CASE Observe \/ UNCHANGED vars
    <3>1. UNCHANGED <<files, local, history>>
      BY <2>4 DEF Observe, WatchHeartbeat, WatchReceipt, WatchState, vars
    <3> QED BY <2>1, <3>1 DEF WInv, SealRevokesFirst, NotRestored, RegistryInOrder,
        HalfRestoredGrantsNothing, files, recovery, local, history, Has
  <2> QED BY <2>2, <2>3, <2>4 DEF Next
<1>3. WInv => HalfRestoredGrantsNothing
  BY DEF WInv
<1> QED BY <1>1, <1>2, <1>3, PTL DEF Spec

--------------------------------------------------------------------------------
(***************************************************************************)
(* StoresStayReadable.  A record that is about to be written follows the   *)
(* previous file; keeping a previous file in the middle of another's write *)
(* is harmless only while the current one has not changed since.  The two  *)
(* that can meet over the permit, with no overlap, are doctor, which has   *)
(* the lease, and the fence of a process, which has none.                  *)
(***************************************************************************)

\* What may replace the current file of f.
Fits(r, f) ==
    IF f.prev = None THEN r.seq = 1 ELSE r.seq = f.prev.seq + 1 /\ r.parent = Sum(f.prev)

WritesReceipt == {"beginW", "constructed", "savedW", "silentW", "beatW", "finishW", "recordW"}
Revokes == {"revokeW", "revokeUnknownW"}

Leased == {"doctor", "doctorW", "backup", "backup2", "backup3"}

LeaseHeld ==
    /\ \A p \in Procs : pc[p] \in Engine => lease = p
    /\ pc[Op] \in Leased => lease = Op

ArchivesLoad ==
    /\ archive # None => Loads(archive.permit) /\ Loads(archive.seal)
    /\ stage # None => Loads(stage.permit) /\ Loads(stage.seal)

Untouched == permit.cur = permit.prev

ReceiptsFit ==
    /\ Loads(receipts)
    /\ \A p \in Procs : pc[p] \in WritesReceipt => Fits(draft[p], receipts)
PermitsFit ==
    /\ Loads(permit)
    /\ \A p \in Procs :
        /\ pc[p] \in Revokes \union {"consumed"} => Fits(draft[p], permit)
        /\ pc[p] \in Revokes => Untouched \/ Has(permit, "issued")
    /\ pc[Op] \in {"doctorW", "sealRevoked"} => Fits(draft[Op], permit)
    /\ pc[Op] = "doctorW" => Untouched \/ ~ToInvalidate(permit)
SealFits ==
    /\ Loads(seal)
    /\ pc[Op] = "sealW" => Fits(draft[Op], seal)

SealsAlone == pc[Op] \in Sealing => \A p \in Procs : pc[p] = "off"

Lone == overlaps = {}

RInv ==
    /\ SInv /\ LeaseHeld /\ ArchivesLoad
    /\ Lone => ReceiptsFit /\ PermitsFit /\ SealFits /\ SealsAlone

\* Each half of a write leaves a pair that loads.
LEMMA KeptLoads ==
    ASSUME NEW f, IsPair(f), NEW body
    PROVE  /\ Loads(KeepPrevious(f))
           /\ Fits(Following(f, body), KeepPrevious(f))
           /\ KeepPrevious(f).cur = KeepPrevious(f).prev
           /\ KeepPrevious(f).cur = f.cur
<1>1. KeepPrevious(f).cur = f.cur /\ KeepPrevious(f).prev = f.cur
  BY PreviousKept
<1>2. Loads(KeepPrevious(f))
  BY <1>1 DEF Loads, Sum
<1>3. Fits(Following(f, body), KeepPrevious(f))
  BY <1>1 DEF Fits, Following
<1> QED BY <1>1, <1>2, <1>3

LEMMA ReplacedLoads ==
    ASSUME NEW f, IsPair(f), NEW r, r # None, Fits(r, f)
    PROVE  /\ Loads([f EXCEPT !.cur = r])
           /\ [f EXCEPT !.cur = r].cur = r /\ [f EXCEPT !.cur = r].prev = f.prev
<1>1. [f EXCEPT !.cur = r].cur = r /\ [f EXCEPT !.cur = r].prev = f.prev
  BY CurrentReplaced
<1> QED BY <1>1 DEF Loads, Fits

LEMMA PairLoads ==
    ASSUME NEW B, NEW f, f.cur \in Records(B) \union {None}, NEW body \in B,
           None \notin Records(B)
    PROVE  Loads(Written(f, body)) /\ Written(f, body).cur \in Records(B)
             /\ IsPair(Written(f, body))
<1>1. Written(f, body).cur = Following(f, body) /\ Written(f, body).prev = f.cur
  BY DEF Written
<1>2. Following(f, body) \in Records(B)
  BY FollowingRecord
<1> QED BY <1>1, <1>2 DEF Loads, Following, Written, IsPair

LEMMA WrittenLoads ==
    ASSUME NEW f, IsPermitPair(f), NEW body \in Permits
    PROVE  Loads(Written(f, body)) /\ IsPermitPair(Written(f, body))
BY PairLoads, NoneIsNothingElse DEF IsPermitPair

LEMMA LiveLease ==
    ASSUME Typed, LeaseHeld, NEW p \in Procs, Live(p)
    PROVE  LeaseHeld'
<1>1. p \in Actors /\ Op \in Actors /\ \A q \in Procs : q \in Actors /\ q # Op
  BY OperatorIsNoProcess DEF Actors, Op
<1>2. (\A q \in Procs : q # p => pc'[q] = pc[q]) /\ pc'[Op] = pc[Op]
  BY <1>1, LiveMoves DEF Typed, OthersKeep
<1>3. CASE pc'[p] \notin Engine /\ (lease' = lease \/ (lease = p /\ lease' = None))
  BY <1>1, <1>2, <1>3 DEF LeaseHeld
<1>4. CASE pc[p] \in Engine /\ lease' = lease
  BY <1>2, <1>4 DEF LeaseHeld
<1>5. CASE lease = None /\ lease' = p
  BY <1>1, <1>2, <1>5, NoneIsNothingElse DEF LeaseHeld
<1>6. CASE TakeLease(p)
  <2>1. (lease = None /\ lease' = p) \/ (lease' = lease /\ pc'[p] = "off")
    BY <1>1, <1>6, Moves DEF Typed, TakeLease
  <2> QED BY <1>3, <1>5, <2>1 DEF Engine
<1>7. CASE Stop(p)
  <2>1. lease = p /\ lease' = None
    BY <1>7 DEF Stop, LeaseHeld, Engine
  <2>2. pc'[p] \notin Engine
    BY <1>7, LivePlaces DEF Typed, Engine
  <2> QED BY <1>3, <2>1, <2>2
<1>8. CASE Die(p)
  BY <1>3, <1>8, LivePlaces DEF Typed, Engine, Die
<1>9. CASE ~(TakeLease(p) \/ Stop(p) \/ Die(p))
  <2>1. UNCHANGED lease
    BY <1>9 DEF Live, Start, HaltState, RevokeBegins, RevokeEnds, FenceBegins, FenceEnds, Begin,
      Mark, WriteReceipt, StartupFails, Resume, RecoverCircuit, ConsumePermit, PermitConsumed,
      Activate, Trade, Beat, LeaveLoop
  <2>2. pc[p] \in Engine \/ pc'[p] \notin Engine
    BY <1>9, LivePlaces DEF Typed, Live, Engine
  <2> QED BY <1>3, <1>4, <2>1, <2>2
<1> QED BY <1>6, <1>7, <1>8, <1>9

LEMMA OperatorLease ==
    ASSUME Typed, LeaseHeld, Operate
    PROVE  LeaseHeld'
<1>1. Op \in Actors /\ Op # None /\ \A q \in Procs : q # Op /\ q # None
  BY OperatorIsNoProcess, NoneIsNothingElse DEF Actors, Op
<1>2. \A q \in Procs : pc'[q] = pc[q]
  BY OperatorPlaces
<1>3. CASE lease' = lease /\ (pc'[Op] \in Leased => pc[Op] \in Leased)
  BY <1>2, <1>3 DEF LeaseHeld, Leased
<1>4. CASE lease = Op /\ lease' = None /\ pc'[Op] \notin Leased
  BY <1>1, <1>2, <1>4 DEF LeaseHeld, Leased
<1>5. CASE lease = None /\ lease' = Op
  BY <1>1, <1>2, <1>5 DEF LeaseHeld
<1>6. CASE OpStops \/ DoctorEnds \/ BackupEnds
  <2>1. pc'[Op] \notin Leased
    BY <1>1, <1>6, Moves DEF Typed, OpStops, DoctorEnds, BackupEnds, Leased
  <2>2. lease' = lease \/ (lease = Op /\ lease' = None)
    BY <1>6 DEF OpStops, DoctorEnds, BackupEnds, LeaseHeld, Leased
  <2> QED BY <1>3, <1>4, <2>1, <2>2
<1>7. CASE DoctorBegins \/ BackupBegins
  BY <1>5, <1>7 DEF DoctorBegins, BackupBegins
<1>8. CASE ~(OpStops \/ DoctorEnds \/ BackupEnds \/ DoctorBegins \/ BackupBegins)
  <2>1. UNCHANGED lease
    BY <1>8 DEF Operate, RecoverFills, DoctorGrants, SealBegins, SealRevokes, SealRevoked,
      SealKeeps, SealEnds, BackupCopies, Disaster, RestoreBegins, PublishRuntime,
      PublishRegistry, RestoreEnds, RestoreFails
  <2>2. CASE DoctorGrants \/ BackupCopies
    BY <1>3, <2>1, <2>2 DEF DoctorGrants, BackupCopies, Leased
  <2>3. CASE RecoverFills \/ SealBegins \/ SealRevokes \/ SealRevoked \/ SealKeeps \/ SealEnds
    <3>1. pc'[Op] \notin Leased
      BY <1>1, <2>3, Moves DEF Typed, RecoverFills, SealBegins, SealRevokes, SealRevoked,
        SealKeeps, SealEnds, Commands, Leased, local
    <3> QED BY <1>3, <2>1, <3>1
  <2>4. CASE Disaster \/ RestoreBegins \/ PublishRuntime \/ PublishRegistry \/ RestoreEnds
             \/ RestoreFails
    <3>1. pc'[Op] \notin Leased
      BY <1>1, <2>4, Moves DEF Typed, Disaster, RestoreBegins, PublishRuntime, PublishRegistry,
        RestoreEnds, RestoreFails, Leased, local
    <3> QED BY <1>3, <2>1, <3>1
  <2> QED BY <1>8, <2>2, <2>3, <2>4 DEF Operate
<1> QED BY <1>6, <1>7, <1>8

LEMMA OperatorArchives ==
    ASSUME Typed, ArchivesLoad, Operate
    PROVE  ArchivesLoad'
<1>1. CASE BackupEnds
  BY <1>1 DEF BackupEnds, Authority, Matches, ArchivesLoad
<1>2. CASE RestoreBegins
  <2>1. IsArchive(archive) /\ archive # None
    BY <1>2 DEF Typed, FilesTyped, RestoreBegins
  <2>2. /\ stage'.seal = archive.seal /\ archive' = archive
        /\ stage'.permit = IF ToInvalidate(archive.permit)
                           THEN Written(archive.permit, Voided(archive.permit))
                           ELSE archive.permit
    BY <1>2, <2>1 DEF RestoreBegins, IsArchive, IsBackup
  <2>3. ToInvalidate(archive.permit) => Voided(archive.permit) \in Permits
    BY <2>1, PermitBodies DEF IsArchive, IsBackup, Voided, ToInvalidate
  <2>4. Loads(stage'.permit)
    BY <2>1, <2>2, <2>3, WrittenLoads DEF ArchivesLoad, IsArchive, IsBackup
  <2> QED BY <2>1, <2>2, <2>4 DEF ArchivesLoad
<1>3. CASE ~BackupEnds /\ ~RestoreBegins
  <2>1. archive' = archive /\ (stage' = stage \/ stage' = None)
    BY <1>3 DEF Operate, OpStops, RecoverFills, DoctorBegins, DoctorGrants, DoctorEnds,
      SealBegins, SealRevokes, SealRevoked, SealKeeps, SealEnds, BackupBegins, BackupCopies,
      Disaster, PublishRuntime, PublishRegistry, RestoreEnds, RestoreFails, files, recovery
  <2> QED BY <2>1 DEF ArchivesLoad
<1> QED BY <1>1, <1>2, <1>3

\* What a process does to the receipt ...
LEMMA LiveReceiptsFit ==
    ASSUME Typed, ReceiptsFit, Alone, ~Crowded', NEW p \in Procs, Live(p)
    PROVE  ReceiptsFit'
<1>1. \A q \in Procs : q # p => pc'[q] = "off"
  BY Quiet
<1>2. SUFFICES Loads(receipts)' /\ (pc'[p] \in WritesReceipt => Fits(draft'[p], receipts'))
  BY <1>1 DEF ReceiptsFit, WritesReceipt
<1>3. p \in Actors /\ ActorsTyped /\ IsPair(receipts) /\ Loads(receipts)
  BY DEF Actors, Typed, FilesTyped, ReceiptsFit
<1>4. CASE UNCHANGED receipts /\ pc'[p] \notin WritesReceipt
  BY <1>3, <1>4 DEF Loads
<1>5. ASSUME NEW body, receipts' = KeepPrevious(receipts), Drafts(p, Following(receipts, body))
      PROVE  Loads(receipts)' /\ Fits(draft'[p], receipts')
  <2>1. draft'[p] = Following(receipts, body)
    BY <1>3, <1>5, Prepares
  <2> QED BY <1>3, <1>5, <2>1, KeptLoads DEF Loads
<1>6. CASE FenceBegins(p)
  <2>1. CASE Loads(receipts) /\ ~Clean
    BY <1>5, <1>6, <2>1 DEF FenceBegins
  <2>2. CASE ~(Loads(receipts) /\ ~Clean)
    <3>1. Goes(p, "unknown") /\ UNCHANGED receipts
      BY <1>6, <2>2 DEF FenceBegins
    <3> QED BY <1>3, <1>4, <3>1, Moves DEF WritesReceipt
  <2> QED BY <2>1, <2>2
<1>7. CASE Begin(p)
  <2>1. CASE Loads(receipts) /\ Clean
    BY <1>5, <1>7, <2>1 DEF Begin
  <2>2. CASE ~(Loads(receipts) /\ Clean)
    <3>1. Goes(p, "off") /\ UNCHANGED receipts
      BY <1>7, <2>2 DEF Begin
    <3> QED BY <1>3, <1>4, <3>1, Moves DEF WritesReceipt
  <2> QED BY <2>1, <2>2
<1>8. CASE Mark(p)
  <2>1. CASE Goes(p, "off") /\ UNCHANGED receipts
    BY <1>3, <1>4, <2>1, Moves DEF WritesReceipt
  <2>2. CASE ~(Goes(p, "off") /\ UNCHANGED receipts)
    <3>1. /\ receipts' = KeepPrevious(receipts)
          /\ Drafts(p, Following(receipts, [uuid |-> run[p], phase |-> Phase[pc[p]],
                                            clean |-> pc[p] = "finish"]))
      BY <1>8, <2>2 DEF Mark
    <3> QED BY <1>5, <3>1
  <2> QED BY <2>1, <2>2
<1>9. CASE FenceEnds(p) \/ WriteReceipt(p)
  <2>1. /\ pc[p] \in WritesReceipt /\ receipts' = [receipts EXCEPT !.cur = draft[p]]
        /\ pc'[p] \notin WritesReceipt
    BY <1>3, <1>9, LivePlaces DEF FenceEnds, WriteReceipt, WritesReceipt, After
  <2>2. draft[p] \in Records(Receipts)
    BY <2>1 DEF Typed, Halfway, WritesReceipt
  <2>3. draft[p] # None /\ Fits(draft[p], receipts)
    BY <2>1, <2>2, NoneIsNothingElse DEF ReceiptsFit
  <2>4. Loads([receipts EXCEPT !.cur = draft[p]])
    BY <1>3, <2>3, ReplacedLoads
  <2> QED BY <2>1, <2>4 DEF Loads
<1>10. CASE ~(FenceBegins(p) \/ Begin(p) \/ Mark(p) \/ FenceEnds(p) \/ WriteReceipt(p))
  <2>1. UNCHANGED receipts
    BY <1>10 DEF Live, Start, HaltState, RevokeBegins, RevokeEnds, TakeLease, StartupFails,
      Resume, RecoverCircuit, ConsumePermit, PermitConsumed, Activate, Trade, Beat, LeaveLoop,
      Stop, Die, files
  <2>2. pc'[p] \notin WritesReceipt
    BY <1>3, <1>10, LivePlaces DEF Live, WritesReceipt
  <2> QED BY <1>4, <2>1, <2>2
<1> QED BY <1>6, <1>7, <1>8, <1>9, <1>10

\* ... and to the permit, where it may meet doctor.
LEMMA LivePermitsFit ==
    ASSUME Typed, PermitsFit, SealsAlone, LeaseHeld, Alone, ~Crowded',
           NEW p \in Procs, Live(p)
    PROVE  PermitsFit'
<1>1. \A q \in Procs : q # p => pc[q] = "off" /\ pc'[q] = "off"
  BY Quiet
<1>2. p \in Actors /\ ActorsTyped /\ IsPermitPair(permit) /\ IsPair(permit) /\ Loads(permit)
  BY DEF Actors, Typed, FilesTyped, IsPermitPair, PermitsFit
<1>3. pc'[Op] = pc[Op] /\ draft'[Op] = draft[Op]
  BY LiveMoves, OperatorIsNoProcess DEF Typed, OthersKeep, Op, Actors
<1>4. SUFFICES /\ Loads(permit)'
               /\ pc'[p] \in Revokes \union {"consumed"} => Fits(draft'[p], permit')
               /\ pc'[p] \in Revokes => Untouched' \/ Has(permit, "issued")'
               /\ pc[Op] \in {"doctorW", "sealRevoked"} => Fits(draft[Op], permit')
               /\ pc[Op] = "doctorW" => Untouched' \/ ~ToInvalidate(permit')
  BY <1>1, <1>3 DEF PermitsFit, Revokes
<1>5. pc[p] # "off" => pc[Op] # "sealRevoked"
  BY DEF SealsAlone, Sealing
<1>6. permit'.prev = permit.prev /\ pc[Op] \in {"doctorW", "sealRevoked"}
         => Fits(draft[Op], permit')
  BY DEF PermitsFit, Fits
<1>7. ASSUME NEW body, permit' = KeepPrevious(permit), Drafts(p, Following(permit, body))
      PROVE  Loads(permit)' /\ Untouched' /\ Fits(draft'[p], permit') /\ permit'.prev = permit.cur
  <2>1. draft'[p] = Following(permit, body)
    BY <1>2, <1>7, Prepares
  <2>2. permit'.prev = permit.cur
    BY <1>2, <1>7, PreviousKept
  <2> QED BY <1>2, <1>7, <2>1, <2>2, KeptLoads DEF Loads, Untouched
<1>8. ASSUME pc[p] \in Revokes \union {"consumed"}, permit' = [permit EXCEPT !.cur = draft[p]]
      PROVE  Loads(permit)' /\ permit'.cur = draft[p] /\ permit'.prev = permit.prev
               /\ draft[p] \in Records(Permits)
  <2>1. draft[p] \in Records(Permits)
    BY <1>8 DEF Typed, Halfway, Revokes
  <2>2. draft[p] # None /\ Fits(draft[p], permit)
    BY <1>8, <2>1, NoneIsNothingElse DEF PermitsFit
  <2>3. Loads([permit EXCEPT !.cur = draft[p]])
    BY <1>2, <2>2, ReplacedLoads
  <2> QED BY <1>2, <1>8, <2>1, <2>3, CurrentReplaced DEF Loads
<1>9. CASE UNCHANGED permit /\ pc'[p] \notin Revokes \union {"consumed"}
  BY <1>2, <1>9 DEF PermitsFit, Untouched, Loads, Fits, ToInvalidate
<1>10. CASE RevokeBegins(p)
  <2>0. pc[p] # "off"
    BY <1>10 DEF RevokeBegins
  <2>1. CASE Loads(permit) /\ ToInvalidate(permit)
    <3>1. permit' = KeepPrevious(permit) /\ Drafts(p, Following(permit, Voided(permit)))
      BY <1>10, <2>1 DEF RevokeBegins
    <3>2. Loads(permit)' /\ Untouched' /\ Fits(draft'[p], permit') /\ permit'.prev = permit.cur
      BY <1>7, <3>1
    <3>3. pc[Op] = "doctorW" => permit'.prev = permit.prev
      BY <2>1, <3>2 DEF PermitsFit, Untouched
    <3> QED BY <1>5, <1>6, <2>0, <3>2, <3>3
  <2>2. CASE ~(Loads(permit) /\ ToInvalidate(permit))
    <3>1. UNCHANGED permit
      BY <1>10, <2>2 DEF RevokeBegins
    <3>2. pc'[p] \notin Revokes \union {"consumed"}
      BY <1>2, <1>10, <2>2, Moves DEF RevokeBegins, Revokes
    <3> QED BY <1>9, <3>1, <3>2
  <2> QED BY <2>1, <2>2
<1>11. CASE RevokeEnds(p)
  <2>1. /\ pc[p] \in Revokes /\ pc[p] # "off" /\ permit' = [permit EXCEPT !.cur = draft[p]]
        /\ pc'[p] \notin Revokes \union {"consumed"}
    BY <1>2, <1>11, LivePlaces DEF RevokeEnds, Revokes
  <2>2. Loads(permit)' /\ permit'.cur = draft[p] /\ permit'.prev = permit.prev
    BY <1>8, <2>1
  <2>3. draft[p].body.status = "invalidated"
    BY <2>1 DEF Typed, Halfway, Revokes
  <2>4. ~ToInvalidate(permit')
    BY <2>2, <2>3 DEF ToInvalidate
  <2> QED BY <1>6, <2>1, <2>2, <2>4
<1>12. CASE ConsumePermit(p)
  <2>1. pc[p] = "startup" /\ pc'[p] = "consumed"
    BY <1>2, <1>12, LivePlaces
  <2>2. lease = p /\ p # Op
    BY <2>1, OperatorIsNoProcess DEF LeaseHeld, Engine, Op
  <2>3. pc[Op] \notin {"doctorW", "sealRevoked"}
    BY <1>5, <2>1, <2>2 DEF LeaseHeld, Leased
  <2>4. /\ permit' = KeepPrevious(permit)
        /\ Drafts(p, Following(permit, [permit.cur.body EXCEPT !.status = "consumed"]))
    BY <1>12 DEF ConsumePermit
  <2>5. Loads(permit)' /\ Untouched' /\ Fits(draft'[p], permit')
    BY <1>7, <2>4
  <2> QED BY <2>3, <2>5
<1>13. CASE PermitConsumed(p)
  <2>1. /\ pc[p] = "consumed" /\ pc'[p] = "activate"
        /\ permit' = [permit EXCEPT !.cur = draft[p]]
    BY <1>2, <1>13, LivePlaces DEF PermitConsumed
  <2>2. lease = p /\ p # Op
    BY <2>1, OperatorIsNoProcess DEF LeaseHeld, Engine, Op
  <2>3. pc[Op] \notin {"doctorW", "sealRevoked"}
    BY <1>5, <2>1, <2>2 DEF LeaseHeld, Leased
  <2> QED BY <1>8, <2>1, <2>3 DEF Revokes
<1>14. CASE ~(RevokeBegins(p) \/ RevokeEnds(p) \/ ConsumePermit(p) \/ PermitConsumed(p))
  <2>1. UNCHANGED permit
    BY <1>14 DEF Live, Start, HaltState, FenceBegins, FenceEnds, Begin, Mark, WriteReceipt,
      TakeLease, StartupFails, Resume, RecoverCircuit, Activate, Trade, Beat, LeaveLoop,
      Stop, Die, files
  <2>2. pc'[p] \notin Revokes \union {"consumed"}
    BY <1>2, <1>14, LivePlaces DEF Live, Revokes
  <2> QED BY <1>9, <2>1, <2>2
<1> QED BY <1>10, <1>11, <1>12, <1>13, <1>14

\* A seal is nothing to it, and one that starts beside a seal overlaps it.
LEMMA LiveSeal ==
    ASSUME Typed, SealFits, SealsAlone, NEW p \in Procs, Live(p), Lone'
    PROVE  Lone /\ SealFits' /\ SealsAlone'
<1>1. pc'[Op] = pc[Op] /\ draft'[Op] = draft[Op]
  BY LiveMoves, OperatorIsNoProcess DEF Typed, OthersKeep, Op, Actors
<1>2. UNCHANGED seal
  BY DEF Live, Start, HaltState, RevokeBegins, RevokeEnds, FenceBegins, FenceEnds, Begin,
    Mark, WriteReceipt, TakeLease, StartupFails, Resume, RecoverCircuit, ConsumePermit,
    PermitConsumed, Activate, Trade, Beat, LeaveLoop, Stop, Die, files
<1>3. CASE Start(p)
  <2>1. pc[Op] \notin Sealing /\ Lone
    BY <1>3 DEF Start, Lone
  <2> QED BY <1>1, <1>2, <2>1 DEF SealFits, SealsAlone, Loads, Fits, Sealing
<1>4. CASE ~Start(p)
  <2>1. pc[p] # "off"
    BY <1>4 DEF Live, HaltState, RevokeBegins, RevokeEnds, FenceBegins, FenceEnds,
      Begin, Mark, WriteReceipt, TakeLease, StartupFails, Resume, RecoverCircuit,
      ConsumePermit, PermitConsumed, Activate, Trade, Beat, LeaveLoop, Stop, Die, Phase, After
  <2>2. pc[Op] \notin Sealing
    BY <2>1 DEF SealsAlone
  <2>3. overlaps' = overlaps
    BY <1>4 DEF Live, HaltState, RevokeBegins, RevokeEnds, FenceBegins, FenceEnds, Begin,
      Mark, WriteReceipt, TakeLease, StartupFails, Resume, RecoverCircuit, ConsumePermit,
      PermitConsumed, Activate, Trade, Beat, LeaveLoop, Stop, Die, history
  <2> QED BY <1>1, <1>2, <2>2, <2>3 DEF SealFits, SealsAlone, Loads, Fits, Lone, Sealing
<1> QED BY <1>3, <1>4

\* What a command does to the files, and when: commands that replace a directory find no
\* process, and a new seal that finds one overlaps it.
Idle == \A p \in Procs : pc[p] = "off"

LEMMA OperatorSteps ==
    ASSUME ActorsTyped, Operate
    PROVE  /\ \A q \in Procs : pc'[q] = pc[q] /\ draft'[q] = draft[q]
           /\ DoctorGrants => pc'[Op] = "doctorW"
           /\ DoctorEnds \/ SealEnds \/ Disaster \/ RestoreFails => pc'[Op] = "off"
           /\ SealRevokes => pc[Op] = "seal" /\ pc'[Op] \in {"sealRevoked", "sealing"}
           /\ SealRevoked => pc[Op] = "sealRevoked" /\ pc'[Op] = "sealing"
           /\ SealKeeps => pc[Op] = "sealing" /\ pc'[Op] = "sealW"
           /\ PublishRuntime => pc[Op] = "publish" /\ pc'[Op] = "publish"
           /\ SealBegins => pc'[Op] = "seal"
           /\ DoctorGrants \/ SealBegins \/ SealRevokes \/ SealRevoked \/ SealKeeps
                \/ pc'[Op] \notin Sealing \union {"doctorW"}
<1>1. Op \in Actors /\ \A q \in Procs : q # Op /\ q \in Actors
  BY OperatorIsNoProcess DEF Op, Actors
<1>2. \A q \in Procs : pc'[q] = pc[q] /\ draft'[q] = draft[q]
  BY <1>1, OperatorMoves DEF OthersKeep
<1>3. /\ DoctorGrants => pc'[Op] = "doctorW"
      /\ SealBegins => pc'[Op] = "seal"
  BY <1>1, Moves DEF DoctorGrants, SealBegins, Commands
<1>4. DoctorEnds \/ SealEnds \/ Disaster \/ RestoreFails => pc'[Op] = "off"
  BY <1>1, Moves DEF DoctorEnds, SealEnds, Disaster, RestoreFails, local, Actors
<1>5. /\ SealRevokes => pc[Op] = "seal" /\ pc'[Op] \in {"sealRevoked", "sealing"}
      /\ SealRevoked => pc[Op] = "sealRevoked" /\ pc'[Op] = "sealing"
      /\ SealKeeps => pc[Op] = "sealing" /\ pc'[Op] = "sealW"
  BY <1>1, Moves DEF SealRevokes, SealRevoked, SealKeeps
<1>6. PublishRuntime => pc[Op] = "publish" /\ pc'[Op] = "publish"
  BY DEF PublishRuntime, local
<1>7. DoctorGrants \/ SealBegins \/ SealRevokes \/ SealRevoked \/ SealKeeps
        \/ pc'[Op] \notin Sealing \union {"doctorW"}
  <2>1. CASE OpStops \/ RecoverFills \/ DoctorBegins
    BY <1>1, <2>1, Moves DEF OpStops, RecoverFills, DoctorBegins, Commands, local, Sealing
  <2>2. CASE BackupBegins \/ BackupCopies \/ BackupEnds
    BY <1>1, <2>2, Moves DEF BackupBegins, BackupCopies, BackupEnds, Commands, Sealing
  <2>3. CASE RestoreBegins \/ PublishRegistry \/ RestoreEnds
    BY <1>1, <2>3, Moves DEF RestoreBegins, PublishRegistry, RestoreEnds, local, Sealing
  <2> QED BY <1>4, <1>6, <2>1, <2>2, <2>3 DEF Operate, Sealing
<1> QED BY <1>2, <1>3, <1>4, <1>5, <1>6, <1>7

LEMMA OperateReceiptsFit ==
    ASSUME Typed, ReceiptsFit, Alone, Operate
    PROVE  ReceiptsFit'
<1>1. \A q \in Procs : pc'[q] = pc[q] /\ draft'[q] = draft[q] /\ q \in Actors
  BY OperatorSteps DEF Typed, Actors
<1>2. CASE UNCHANGED receipts
  BY <1>1, <1>2 DEF ReceiptsFit, Loads, Fits
<1>3. CASE ~UNCHANGED receipts
  <2>1. receipts' = Empty /\ Idle
    BY <1>1, <1>3 DEF Operate, OpStops, RecoverFills, DoctorBegins, DoctorGrants, DoctorEnds,
      SealBegins, SealRevokes, SealRevoked, SealKeeps, SealEnds, BackupBegins, BackupCopies,
      BackupEnds, Disaster, RestoreBegins, PublishRuntime, PublishRegistry, RestoreEnds,
      RestoreFails, files, Alone, Idle
  <2>2. \A q \in Procs : pc'[q] \notin WritesReceipt
    BY <1>1, <2>1 DEF Idle, WritesReceipt
  <2> QED BY <2>1, <2>2 DEF ReceiptsFit, Loads, Empty
<1> QED BY <1>2, <1>3

LEMMA OperateSeal ==
    ASSUME Typed, SealFits, SealsAlone, ArchivesLoad, Operate, Lone'
    PROVE  Lone /\ SealFits' /\ SealsAlone'
<1>1. IsPair(seal) /\ Op \in Actors
  BY DEF Typed, FilesTyped, IsSealPair, Actors
<1>2. \A q \in Procs : pc'[q] = pc[q]
  BY OperatorSteps DEF Typed
<1>3. CASE SealBegins
  <2>1. overlaps = {} /\ Idle /\ UNCHANGED seal
    BY <1>3 DEF SealBegins, Lone, Idle, files
  <2>2. pc'[Op] = "seal"
    BY <1>3, OperatorSteps DEF Typed
  <2> QED BY <1>2, <2>1, <2>2 DEF Lone, Idle, SealFits, SealsAlone, Loads
<1>4. CASE ~SealBegins
  <2>1. UNCHANGED overlaps
    BY <1>4 DEF Operate, OpStops, RecoverFills, DoctorBegins, DoctorGrants, DoctorEnds,
      SealRevokes, SealRevoked, SealKeeps, SealEnds, BackupBegins, BackupCopies, BackupEnds,
      Disaster, RestoreBegins, PublishRuntime, PublishRegistry, RestoreEnds, RestoreFails,
      history
  <2>2. SealsAlone'
    <3>1. pc'[Op] \in Sealing => pc[Op] \in Sealing
      BY <1>4, OperatorSteps DEF Typed, Sealing
    <3> QED BY <1>2, <3>1 DEF SealsAlone
  <2>3. CASE SealKeeps
    <3>1. seal' = KeepPrevious(seal) /\ draft'[Op] = Following(seal, "deployment")
      BY <1>1, <2>3, Prepares DEF Typed, SealKeeps
    <3>2. SealFits'
      BY <1>1, <3>1, KeptLoads DEF SealFits, Loads
    <3> QED BY <2>1, <2>2, <3>2 DEF Lone
  <2>4. CASE SealEnds
    <3>1. pc[Op] = "sealW" /\ seal' = [seal EXCEPT !.cur = draft[Op]] /\ pc'[Op] = "off"
      BY <2>4, OperatorSteps DEF Typed, SealEnds
    <3>2. draft[Op] # None /\ Fits(draft[Op], seal)
      BY <3>1, NoneIsNothingElse DEF Typed, OperatorHalfway, SealFits
    <3>3. Loads([seal EXCEPT !.cur = draft[Op]])
      BY <1>1, <3>2, ReplacedLoads
    <3> QED BY <2>1, <2>2, <3>1, <3>3 DEF Lone, SealFits, Loads
  <2>5. CASE ~SealKeeps /\ ~SealEnds
    <3>1. pc'[Op] # "sealW"
      BY <1>4, <2>5, OperatorSteps DEF Typed, Sealing
    <3>2. Loads(seal)'
      <4>1. UNCHANGED seal \/ seal' = Empty \/ (stage # None /\ seal' = stage.seal)
        BY <1>4, <2>5 DEF Operate, OpStops, RecoverFills, DoctorBegins, DoctorGrants, DoctorEnds,
          SealRevokes, SealRevoked, BackupBegins, BackupCopies, BackupEnds, Disaster,
          RestoreBegins, PublishRuntime, PublishRegistry, RestoreEnds, RestoreFails, files
      <4> QED BY <4>1 DEF SealFits, ArchivesLoad, Loads, Empty
    <3> QED BY <2>1, <2>2, <3>1, <3>2 DEF Lone, SealFits
  <2> QED BY <2>3, <2>4, <2>5
<1> QED BY <1>3, <1>4

LEMMA OperatePermitsFit ==
    ASSUME Typed, PermitsFit, SealsAlone, LeaseHeld, ArchivesLoad, Alone, Operate
    PROVE  PermitsFit'
<1>1. IsPermitPair(permit) /\ IsPair(permit) /\ Loads(permit) /\ Op \in Actors /\ ActorsTyped
  BY DEF Typed, FilesTyped, IsPermitPair, PermitsFit, Actors
<1>2. \A q \in Procs : pc'[q] = pc[q] /\ draft'[q] = draft[q]
  BY OperatorSteps DEF Typed
<1>3. ASSUME Idle, Loads(permit)',
             pc'[Op] \in {"doctorW", "sealRevoked"} => Fits(draft'[Op], permit'),
             pc'[Op] # "doctorW"
      PROVE  PermitsFit'
  BY <1>2, <1>3 DEF Idle, PermitsFit, Revokes
<1>4. ASSUME NEW body, permit' = KeepPrevious(permit), Drafts(Op, Following(permit, body))
      PROVE  Loads(permit)' /\ Untouched' /\ Fits(draft'[Op], permit') /\ permit'.prev = permit.cur
  <2>1. draft'[Op] = Following(permit, body)
    BY <1>1, <1>4, Prepares
  <2>2. permit'.prev = permit.cur
    BY <1>1, <1>4, PreviousKept
  <2> QED BY <1>1, <1>4, <2>1, <2>2, KeptLoads DEF Loads, Untouched
<1>5. ASSUME pc[Op] \in {"doctorW", "sealRevoked"}, permit' = [permit EXCEPT !.cur = draft[Op]]
      PROVE  Loads(permit)' /\ permit'.cur = draft[Op] /\ permit'.prev = permit.prev
               /\ permit'.cur # None
  <2>1. draft[Op] # None /\ Fits(draft[Op], permit)
    BY <1>5, NoneIsNothingElse DEF Typed, OperatorHalfway, PermitsFit
  <2>2. Loads([permit EXCEPT !.cur = draft[Op]])
    BY <1>1, <2>1, ReplacedLoads
  <2> QED BY <1>1, <1>5, <2>1, <2>2, CurrentReplaced DEF Loads
<1>6. CASE UNCHANGED permit /\ pc'[Op] \notin {"doctorW", "sealRevoked"}
  BY <1>2, <1>6 DEF PermitsFit, Untouched, Loads, Fits, Has
<1>7. CASE DoctorGrants
  <2>1. /\ permit' = KeepPrevious(permit) /\ ~Has(permit, "issued")
        /\ Drafts(Op, Following(permit, [status |-> "issued", for |-> state]))
        /\ pc[Op] = "doctor" /\ pc'[Op] = "doctorW"
    BY <1>7, OperatorSteps DEF Typed, DoctorGrants
  <2>2. Loads(permit)' /\ Untouched' /\ Fits(draft'[Op], permit') /\ permit'.prev = permit.cur
    BY <1>4, <2>1
  <2>3. \A q \in Procs : pc[q] # "consumed"
    BY <2>1, OperatorIsNoProcess DEF LeaseHeld, Leased, Engine, Op
  <2>4. \A q \in Procs : pc[q] \in Revokes => Fits(draft[q], permit')
    BY <2>1, <2>2 DEF PermitsFit, Untouched, Fits
  <2> QED BY <1>2, <2>1, <2>2, <2>3, <2>4 DEF PermitsFit
<1>8. CASE DoctorEnds
  <2>1. pc[Op] = "doctorW" /\ permit' = [permit EXCEPT !.cur = draft[Op]] /\ pc'[Op] = "off"
    BY <1>8, OperatorSteps DEF Typed, DoctorEnds
  <2>2. /\ Loads(permit)' /\ permit'.cur = draft[Op] /\ permit'.prev = permit.prev
        /\ permit'.cur # None
    BY <1>5, <2>1
  <2>3. Has(permit, "issued")'
    BY <2>1, <2>2 DEF Typed, OperatorHalfway, Has
  <2>4. \A q \in Procs : pc[q] \in Revokes \union {"consumed"} => Fits(draft[q], permit')
    BY <2>2 DEF PermitsFit, Fits
  <2> QED BY <1>2, <2>1, <2>2, <2>3, <2>4 DEF PermitsFit
<1>9. CASE SealRevokes
  <2>1. Idle /\ pc'[Op] \in {"sealRevoked", "sealing"}
    BY <1>9, OperatorSteps DEF Typed, SealsAlone, Sealing, Idle
  <2>2. CASE ToInvalidate(permit)
    BY <1>3, <1>4, <1>9, <2>1, <2>2 DEF SealRevokes
  <2>3. CASE ~ToInvalidate(permit)
    <3>1. UNCHANGED permit /\ pc'[Op] = "sealing"
      BY <1>1, <1>9, <2>3, Moves DEF SealRevokes
    <3> QED BY <1>6, <3>1
  <2> QED BY <2>2, <2>3
<1>10. CASE SealRevoked
  <2>1. Idle /\ pc[Op] = "sealRevoked" /\ pc'[Op] = "sealing"
    BY <1>10, OperatorSteps DEF Typed, SealsAlone, Sealing, Idle
  <2> QED BY <1>3, <1>5, <1>10, <2>1 DEF SealRevoked
<1>11. CASE Disaster \/ RestoreFails \/ PublishRuntime
  <2>1. Idle /\ pc'[Op] \in {"off", "publish"}
    BY <1>11, OperatorSteps DEF Typed, Disaster, RestoreFails, PublishRuntime, Alone, Idle, Actors
  <2>2. UNCHANGED permit \/ permit' = Empty \/ (stage # None /\ permit' = stage.permit)
    BY <1>11 DEF Disaster, RestoreFails, PublishRuntime
  <2>3. Loads(permit)'
    BY <1>1, <2>2 DEF ArchivesLoad, Loads, Empty
  <2> QED BY <1>3, <2>1, <2>3
<1>12. CASE ~(DoctorGrants \/ DoctorEnds \/ SealRevokes \/ SealRevoked \/ Disaster
              \/ RestoreFails \/ PublishRuntime)
  <2>1. UNCHANGED permit
    BY <1>12 DEF Operate, OpStops, RecoverFills, DoctorBegins, SealBegins, SealKeeps, SealEnds,
      BackupBegins, BackupCopies, BackupEnds, RestoreBegins, PublishRegistry, RestoreEnds, files
  <2>2. pc'[Op] \notin {"doctorW", "sealRevoked"}
    BY <1>12, OperatorSteps DEF Typed, Sealing
  <2> QED BY <1>6, <2>1, <2>2
<1> QED BY <1>7, <1>8, <1>9, <1>10, <1>11, <1>12

LEMMA RInvInit == Init => RInv
<1> SUFFICES ASSUME Init PROVE RInv
  OBVIOUS
<1>1. \A a \in Actors : pc[a] = "off"
  BY DEF Init
<1>2. Op \in Actors /\ \A p \in Procs : p \in Actors
  BY DEF Actors
<1>3. LeaseHeld /\ SealsAlone
  BY <1>1, <1>2 DEF LeaseHeld, Engine, Leased, SealsAlone, Sealing
<1>a. Commissioned \in States
  BY DEF Commissioned, States, Modes
<1>4. Loads(Empty) /\ IsPermitPair(Empty)
  BY DEF Loads, Empty, IsPermitPair, IsPair
<1>5. Loads(Permitted) /\ Loads(Written(Permitted, [status |-> "consumed", for |-> Commissioned]))
  <2>1. \A x \in {"issued", "consumed"} : [status |-> x, for |-> Commissioned] \in Permits
    BY <1>a DEF Permits
  <2>2. Loads(Permitted) /\ IsPermitPair(Permitted)
    BY <1>4, <2>1, WrittenLoads DEF Permitted
  <2> QED BY <2>1, <2>2, WrittenLoads
<1>6. Loads(seal)
  BY PairLoads, NoneIsNothingElse DEF Init, Empty
<1>7. Loads(receipts)
  <2> DEFINE first == Written(Empty, Running(0, "run_marker_written"))
             second == Running(0, "broker_constructed")
  <2>1. Running(0, "run_marker_written") \in Receipts /\ second \in Receipts
    BY DEF Running, Receipts, Phases
  <2>2. Empty.cur \in Records(Receipts) \union {None}
    BY DEF Empty
  <2>3. receipts = Empty \/ receipts = Written(first, second)
    BY DEF Init
  <2>4. first.cur \in Records(Receipts)
    BY <2>1, <2>2, PairLoads, NoneIsNothingElse
  <2> HIDE DEF first, second
  <2>5. Loads(Written(first, second))
    BY <2>1, <2>4, PairLoads, NoneIsNothingElse
  <2> QED BY <1>4, <2>3, <2>5 DEF Loads
<1>8. Loads(permit) /\ ArchivesLoad
  BY <1>4, <1>5, <1>6 DEF Init, ArchivesLoad
<1> QED BY <1>1, <1>2, <1>3, <1>6, <1>7, <1>8, SInvInit
    DEF RInv, ReceiptsFit, PermitsFit, SealFits, WritesReceipt, Revokes

LEMMA RInvNext == RInv /\ [Next]_vars => RInv'
<1> SUFFICES ASSUME RInv, [Next]_vars PROVE RInv'
  OBVIOUS
<1>1. SInv' /\ Typed /\ ActorsTyped
  BY SInvNext DEF RInv, SInv, Typed
<1>2. Lone => Alone
  BY DEF RInv, SInv, Chain, Crowded, Lone
<1>3. Lone' => ~Crowded'
  BY DEF Crowded, Lone
<1>4. ASSUME NEW p \in Procs, Live(p) PROVE RInv'
  <2>1. LeaseHeld'
    BY <1>1, <1>4, LiveLease DEF RInv
  <2>2. UNCHANGED <<archive, stage>>
    BY <1>4 DEF Live, Start, HaltState, RevokeBegins, RevokeEnds, FenceBegins, FenceEnds,
      Begin, Mark, WriteReceipt, TakeLease, StartupFails, Resume, RecoverCircuit,
      ConsumePermit, PermitConsumed, Activate, Trade, Beat, LeaveLoop, Stop, Die,
      files, recovery
  <2>3. ArchivesLoad'
    BY <2>2 DEF RInv, ArchivesLoad, Loads
  <2>4. ASSUME Lone' PROVE ReceiptsFit' /\ PermitsFit' /\ SealFits' /\ SealsAlone'
    <3>1. overlaps \subseteq overlaps'
      BY <1>4 DEF Live, Start, HaltState, RevokeBegins, RevokeEnds, FenceBegins, FenceEnds,
        Begin, Mark, WriteReceipt, TakeLease, StartupFails, Resume, RecoverCircuit,
        ConsumePermit, PermitConsumed, Activate, Trade, Beat, LeaveLoop, Stop, Die, history
    <3>2. Lone /\ ~Crowded'
      BY <1>3, <2>4, <3>1 DEF Lone
    <3> QED BY <1>1, <1>2, <1>4, <2>4, <3>2, LiveReceiptsFit, LivePermitsFit, LiveSeal DEF RInv
  <2> QED BY <1>1, <2>1, <2>3, <2>4 DEF RInv
<1>5. CASE Operate
  <2>1. LeaseHeld' /\ ArchivesLoad'
    BY <1>1, <1>5, OperatorLease, OperatorArchives DEF RInv
  <2>2. ASSUME Lone' PROVE ReceiptsFit' /\ PermitsFit' /\ SealFits' /\ SealsAlone'
    <3>1. Lone
      BY <1>5, <2>2 DEF Lone, Operate, OpStops, RecoverFills, DoctorBegins, DoctorGrants,
        DoctorEnds, SealBegins, SealRevokes, SealRevoked, SealKeeps, SealEnds, BackupBegins,
        BackupCopies, BackupEnds, Disaster, RestoreBegins, PublishRuntime, PublishRegistry,
        RestoreEnds, RestoreFails, history
    <3> QED BY <1>1, <1>2, <1>5, <2>2, <3>1, OperateReceiptsFit, OperatePermitsFit, OperateSeal
        DEF RInv
  <2> QED BY <1>1, <2>1, <2>2 DEF RInv
<1>6. CASE Observe \/ UNCHANGED vars
  <2>1. UNCHANGED <<files, lease, local, history>>
    BY <1>6 DEF Observe, WatchHeartbeat, WatchReceipt, WatchState, vars
  <2> QED BY <1>1, <2>1 DEF RInv, LeaseHeld, ArchivesLoad, Lone, ReceiptsFit, PermitsFit,
      SealFits, SealsAlone, Untouched, ToInvalidate, Loads, Fits, Has, files, recovery, local,
      history
<1> QED BY <1>4, <1>5, <1>6 DEF Next

\* Wherever a process or a command dies, what the next one reads of the receipt, the permit
\* and the seal loads, for any number of processes that start one after another beside the
\* operator (the two writes of process_run.py, stress90_activation_permit.py and
\* deployment_identity.py).
THEOREM StoresStayReadableHolds == Spec => []StoresStayReadable
<1>1. RInv => StoresStayReadable
  BY DEF RInv, Lone, ReceiptsFit, PermitsFit, SealFits, StoresStayReadable
<1> QED BY <1>1, RInvInit, RInvNext, PTL DEF Spec

--------------------------------------------------------------------------------
(***************************************************************************)
(* WatchdogIsRight, also beside a second live process.  A heartbeat names  *)
(* a state that is the one on disk or older, and older for good once the   *)
(* process that wrote it has saved its last; so a receipt that comes back  *)
(* after a clean one comes with a state that is newer than the heartbeat.  *)
(***************************************************************************)

Apart == "restore" \notin overlaps

\* Each run has a number of its own, and its receipts have it too.
RunsApart ==
    /\ \A p \in Procs :
        /\ run[p] <= born
        /\ pc[p] # "off" => run[p] # 0
        /\ pc[p] \in WritesReceipt => draft[p].body.uuid = run[p]
    /\ \A p, q \in Procs : run[p] = run[q] /\ run[p] # 0 => p = q

Dead(h) == h.state.seq < state.seq

\* A heartbeat that counts: of a state that is on disk or past.
Past(h) == h.uuid <= born /\ (h.state = state \/ Dead(h))

\* The processes that may still save a state of the run that wrote it.
Saving == {"trading", "stopping", "failing", "off"}
Left(h) == \A p \in Procs : run[p] = h.uuid /\ pc[p] \notin Saving => Dead(h)

HeartIsPast ==
    heart # None =>
        /\ heart \in Heartbeats /\ state # None /\ pc[Op] # "publish"
        /\ Past(heart)
        /\ heart.status = "running" => Left(heart)

Own(h) == ~Clean /\ receipts.cur.body.uuid = h.uuid

WatchIsPast ==
    watch.at # "idle" =>
        /\ heart # None /\ watch.heart \in Heartbeats
        /\ watch.heart.state.mode # "HALTED"
        /\ Past(watch.heart) /\ Left(watch.heart)
        /\ watch.at = "receipt" /\ watch.down => Dead(watch.heart) \/ ~Own(watch.heart)
        /\ watch.at = "state" /\ watch.down => Dead(watch.heart)
        /\ watch.at = "well" => ~watch.down

VInv ==
    /\ Typed /\ RunsApart
    /\ watch = [at |-> watch.at, heart |-> watch.heart, down |-> watch.down]
    /\ watch.at \in {"idle", "receipt", "state", "well"}
    /\ Apart => Present /\ HeartIsPast /\ WatchIsPast

\* A live process beside no restoration: what was past stays past.
LEMMA LivePresent ==
    ASSUME Typed, Present, Apart', NEW p \in Procs, Live(p)
    PROVE  /\ Apart /\ Present' /\ state' # None /\ pc[Op] # "publish" /\ pc'[Op] = pc[Op]
           /\ state # None
<1>1. pc'[Op] = pc[Op]
  BY LiveMoves, OperatorIsNoProcess DEF Typed, OthersKeep, Op, Actors
<1>2. \A q \in Procs : q # p => pc'[q] = pc[q]
  BY LiveMoves DEF Typed, OthersKeep, Actors
<1>3. CASE Start(p)
  BY <1>1, <1>2, <1>3 DEF Start, Matches, Whole, Apart, Present, files
<1>4. CASE ~Start(p)
  <2>1. pc[p] # "off"
    BY <1>4 DEF Live, HaltState, RevokeBegins, RevokeEnds, FenceBegins, FenceEnds,
      Begin, Mark, WriteReceipt, TakeLease, StartupFails, Resume, RecoverCircuit,
      ConsumePermit, PermitConsumed, Activate, Trade, Beat, LeaveLoop, Stop, Die, Phase, After
  <2>2. UNCHANGED overlaps
    BY <1>4 DEF Live, HaltState, RevokeBegins, RevokeEnds, FenceBegins, FenceEnds, Begin,
      Mark, WriteReceipt, TakeLease, StartupFails, Resume, RecoverCircuit, ConsumePermit,
      PermitConsumed, Activate, Trade, Beat, LeaveLoop, Stop, Die, history
  <2>3. state # None /\ state' # None /\ pc[Op] # "publish"
    BY <2>1, LiveState, NoneIsNothingElse DEF Present
  <2> QED BY <1>1, <1>2, <2>2, <2>3 DEF Apart, Present
<1> QED BY <1>3, <1>4

LEMMA LiveRuns ==
    ASSUME Typed, NEW p \in Procs, Live(p)
    PROVE  /\ born \in Nat /\ born' \in Nat /\ born <= born'
           /\ \A q \in Procs : q # p => /\ run'[q] = run[q] /\ pc'[q] = pc[q]
                                        /\ draft'[q] = draft[q]
           /\ Start(p) => pc[p] = "off" /\ born' = born + 1 /\ run'[p] = born'
           /\ ~Start(p) => run' = run /\ born' = born /\ pc[p] # "off"
<1>1. \A q \in Procs : q # p => pc'[q] = pc[q] /\ draft'[q] = draft[q]
  BY LiveMoves DEF Typed, OthersKeep, Actors
<1>2. born \in Nat /\ run \in [Procs -> Nat]
  BY DEF Typed, ActorsTyped
<1>3. CASE Start(p)
  <2>1. pc[p] = "off" /\ born' = born + 1 /\ run' = [run EXCEPT ![p] = born + 1]
    BY <1>3 DEF Start
  <2> QED BY <1>1, <1>2, <1>3, <2>1
<1>4. CASE ~Start(p)
  <2>1. pc[p] # "off" /\ run' = run
    BY <1>4 DEF Live, HaltState, RevokeBegins, RevokeEnds, FenceBegins, FenceEnds, Begin, Mark,
      WriteReceipt, TakeLease, StartupFails, Resume, RecoverCircuit, ConsumePermit,
      PermitConsumed, Activate, Trade, Beat, LeaveLoop, Stop, Die, Phase, After, local
  <2>2. born' = born
    BY <1>4 DEF Live, HaltState, RevokeBegins, RevokeEnds, FenceBegins, FenceEnds, Begin, Mark,
      WriteReceipt, TakeLease, StartupFails, Resume, RecoverCircuit, ConsumePermit,
      PermitConsumed, Activate, Trade, Beat, LeaveLoop, Stop, Die, bounds
  <2> QED BY <1>1, <1>2, <1>4, <2>1, <2>2
<1> QED BY <1>3, <1>4

LEMMA LivePast ==
    ASSUME Typed, RunsApart, Present, Apart', NEW p \in Procs, Live(p), NEW h \in Heartbeats
    PROVE  /\ Dead(h) => Dead(h)'
           /\ Past(h) => Past(h)'
           /\ Past(h) /\ Left(h) => Left(h)'
<1>1. state \in States /\ state' \in States
  BY LivePresent, TypedNext DEF Typed, FilesTyped, Next
<1>2. \/ state' = state
      \/ state'.seq = state.seq + 1
  BY LiveState
<1>3. h.state.seq \in Nat /\ state.seq \in Nat /\ state'.seq \in Nat /\ h.uuid \in Nat
  BY <1>1 DEF Heartbeats, States
<1>4. Dead(h) => Dead(h)'
  BY <1>2, <1>3 DEF Dead
<1>5. born \in Nat /\ born' \in Nat /\ born <= born'
  BY LiveRuns
<1>6. Past(h) => Past(h)'
  BY <1>2, <1>3, <1>4, <1>5 DEF Past, Dead
<1>7. ASSUME Past(h), Left(h) PROVE Left(h)'
  <2> SUFFICES ASSUME NEW q \in Procs, run'[q] = h.uuid, pc'[q] \notin Saving PROVE Dead(h)'
    BY DEF Left
  <2>1. CASE q # p
    <3>1. run'[q] = run[q] /\ pc'[q] = pc[q]
      BY <2>1, LiveRuns
    <3> QED BY <1>4, <1>7, <3>1 DEF Left
  <2>2. CASE q = p /\ Start(p)
    <3>1. run'[p] = born + 1
      BY <2>2, LiveRuns
    <3> QED BY <1>3, <1>5, <1>7, <2>2, <3>1 DEF Past
  <2>3. CASE q = p /\ Stop(p)
    <3>1. state'.seq = state.seq + 1
      <4>1. memory[p] \in States /\ state # None
        BY <2>3, LivePresent DEF Typed, HasMemory, Stop, Engine
      <4> QED BY <2>3, <4>1, SavedState DEF Typed, Stop
    <3> QED BY <1>3, <1>7, <3>1 DEF Past, Dead
  <2>4. CASE q = p /\ ~Start(p) /\ ~Stop(p)
    <3>1. run'[p] = run[p] /\ pc[p] \notin Saving
      <4>1. pc'[p] \notin Saving
        BY <2>4
      <4>2. HaltState(p) \/ FenceEnds(p) => pc[p] \notin Saving
        BY DEF HaltState, FenceEnds, Saving
      <4> QED BY <2>4, <4>1, <4>2, LiveRuns, LivePlaces DEF Typed, Live, Saving
    <3> QED BY <1>4, <1>7, <2>4, <3>1 DEF Left
  <2> QED BY <2>1, <2>2, <2>3, <2>4
<1> QED BY <1>4, <1>6, <1>7

\* A process writes receipts of its own run.
LEMMA LiveRunsApart ==
    ASSUME Typed, RunsApart, NEW p \in Procs, Live(p)
    PROVE  RunsApart'
<1>1. /\ born \in Nat /\ born' \in Nat /\ born <= born'
      /\ \A q \in Procs : q # p => /\ run'[q] = run[q] /\ pc'[q] = pc[q]
                                   /\ draft'[q] = draft[q]
  BY LiveRuns
<1>2. \A q \in Procs : run[q] \in Nat
  BY DEF Typed, ActorsTyped
<1>3. CASE Start(p)
  <2>1. run'[p] = born + 1 /\ born' = born + 1
    BY <1>3, LiveRuns
  <2>2. pc'[p] \notin WritesReceipt
    BY <1>3, LivePlaces DEF Typed, WritesReceipt
  <2> QED BY <1>1, <1>2, <2>1, <2>2 DEF RunsApart
<1>4. CASE ~Start(p)
  <2>1. run' = run /\ born' = born /\ pc[p] # "off"
    BY <1>4, LiveRuns
  <2>2. pc'[p] \in WritesReceipt => draft'[p].body.uuid = run[p]
    <3> SUFFICES ASSUME pc'[p] \in WritesReceipt PROVE draft'[p].body.uuid = run[p]
      OBVIOUS
    <3>0. ASSUME NEW body, body.uuid = run[p], Drafts(p, Following(receipts, body))
          PROVE  draft'[p].body.uuid = run[p]
      BY <3>0, Prepares, FollowingBody DEF Typed, Actors
    <3>1. CASE FenceBegins(p)
      <4>1. ~Goes(p, "unknown")
        BY Moves DEF Typed, Actors, WritesReceipt
      <4>2. Drafts(p, Following(receipts, [uuid |-> run[p], phase |-> "restart_fenced",
                                           clean |-> TRUE]))
        BY <3>1, <4>1 DEF FenceBegins
      <4> QED BY <3>0, <4>2
    <3>2. CASE Begin(p)
      <4>1. ~Goes(p, "off")
        BY Moves DEF Typed, Actors, WritesReceipt
      <4>2. Drafts(p, Following(receipts, [uuid |-> run[p], clean |-> FALSE,
                                           phase |-> "run_marker_written"]))
        BY <3>2, <4>1 DEF Begin
      <4> QED BY <3>0, <4>2
    <3>4. CASE Mark(p)
      <4>1. ~Goes(p, "off")
        BY Moves DEF Typed, Actors, WritesReceipt
      <4>2. Drafts(p, Following(receipts, [uuid |-> run[p], phase |-> Phase[pc[p]],
                                           clean |-> pc[p] = "finish"]))
        BY <3>4, <4>1 DEF Mark
      <4> QED BY <3>0, <4>2
    <3>3. CASE ~(FenceBegins(p) \/ Begin(p) \/ Mark(p))
      BY <1>4, <3>3, LivePlaces DEF Typed, Live, WritesReceipt
    <3> QED BY <3>1, <3>2, <3>3, <3>4
  <2> QED BY <1>1, <2>1, <2>2 DEF RunsApart
<1> QED BY <1>3, <1>4

\* It beats with the state on disk, and stops with its last.
LEMMA LiveHeart ==
    ASSUME Typed, Typed', RunsApart, Present, HeartIsPast, Apart', NEW p \in Procs, Live(p)
    PROVE  HeartIsPast' /\ (heart # None => heart' # None)
<1>a. state' # None /\ pc'[Op] # "publish" /\ state' \in States
  BY LivePresent DEF Typed, FilesTyped
<1>b. /\ run[p] \in Nat /\ born \in Nat /\ run[p] <= born
      /\ ~Start(p) => run' = run /\ born' = born /\ pc[p] # "off"
  BY LiveRuns DEF Typed, ActorsTyped, RunsApart
<1>1. CASE UNCHANGED heart
  BY <1>a, <1>1, LivePast DEF HeartIsPast
<1>2. CASE Beat(p)
  <2>1. heart' = [uuid |-> run[p], status |-> "running", state |-> state] /\ UNCHANGED state
    BY <1>2 DEF Beat
  <2>2. pc'[p] = "trading" /\ ~Start(p)
    BY <1>2, LiveRuns, LivePlaces DEF Typed, Beat
  <2>3. heart' \in Heartbeats /\ heart'.uuid = run[p] /\ heart'.state = state'
    BY <1>a, <1>b, <2>1 DEF Heartbeats
  <2>4. Left(heart)'
    <3> SUFFICES ASSUME NEW q \in Procs, run'[q] = heart'.uuid, pc'[q] \notin Saving
                 PROVE  FALSE
      BY DEF Left
    <3>1. run[q] = run[p] /\ run[p] # 0
      BY <1>b, <2>2, <2>3 DEF RunsApart
    <3>2. q = p
      BY <3>1 DEF RunsApart
    <3> QED BY <2>2, <3>2 DEF Saving
  <2>5. heart' # None
    BY <2>3, NoneIsNothingElse
  <2> QED BY <1>a, <1>b, <2>2, <2>3, <2>4, <2>5 DEF HeartIsPast, Past
<1>3. CASE Stop(p) /\ ~UNCHANGED heart
  <2>1. heart' = [uuid |-> run[p], status |-> "stopped", state |-> state']
    BY <1>3 DEF Stop
  <2>2. ~Start(p)
    BY <1>3 DEF Start, Stop
  <2>3. heart' \in Heartbeats /\ heart'.uuid = run[p] /\ heart'.state = state'
          /\ heart'.status = "stopped"
    BY <1>a, <1>b, <2>1 DEF Heartbeats
  <2>4. heart' # None
    BY <2>3, NoneIsNothingElse
  <2> QED BY <1>a, <1>b, <2>2, <2>3, <2>4 DEF HeartIsPast, Past
<1>4. UNCHANGED heart \/ Beat(p) \/ Stop(p)
  BY DEF Live, Start, HaltState, RevokeBegins, RevokeEnds, FenceBegins, FenceEnds, Begin,
    Mark, WriteReceipt, TakeLease, StartupFails, Resume, RecoverCircuit, ConsumePermit,
    PermitConsumed, Activate, Trade, LeaveLoop, Die, files
<1> QED BY <1>1, <1>2, <1>3, <1>4

\* A watch of a runtime that was down comes to nothing.
LEMMA LiveWatch ==
    ASSUME Typed, RunsApart, Present, HeartIsPast, WatchIsPast, Apart', NEW p \in Procs, Live(p)
    PROVE  WatchIsPast'
<1>1. watch' = watch
  BY DEF Live, Start, HaltState, RevokeBegins, RevokeEnds, FenceBegins, FenceEnds, Begin,
    Mark, WriteReceipt, TakeLease, StartupFails, Resume, RecoverCircuit, ConsumePermit,
    PermitConsumed, Activate, Trade, Beat, LeaveLoop, Stop, Die
<1>2. SUFFICES ASSUME watch.at # "idle" PROVE WatchIsPast'
  BY <1>1 DEF WatchIsPast
<1>3. /\ heart # None /\ heart' # None /\ watch.heart \in Heartbeats
      /\ Past(watch.heart) /\ Left(watch.heart)
  BY <1>2, LiveHeart, TypedNext DEF WatchIsPast, Next
<1>4. /\ Past(watch.heart)' /\ Left(watch.heart)'
      /\ Dead(watch.heart) => Dead(watch.heart)'
  BY <1>1, <1>3, LivePast
<1>5. ASSUME ~Own(watch.heart) PROVE ~Own(watch.heart)' \/ Dead(watch.heart)
  <2>1. CASE WriteReceipt(p) \/ FenceEnds(p)
    <3>1. pc[p] \in WritesReceipt /\ receipts' = [receipts EXCEPT !.cur = draft[p]]
      BY <2>1 DEF WriteReceipt, FenceEnds, After, WritesReceipt
    <3>2. receipts'.cur.body.uuid = run[p]
      BY <3>1, CurrentReplaced DEF Typed, FilesTyped, RunsApart
    <3>3. run[p] = watch.heart.uuid => Dead(watch.heart)
      BY <1>3, <3>1 DEF Left, Saving, WritesReceipt
    <3> QED BY <1>1, <3>2, <3>3 DEF Own
  <2>2. CASE ~WriteReceipt(p) /\ ~FenceEnds(p)
    BY <1>1, <1>5, <2>2, LiveReceipts DEF Own
  <2> QED BY <2>1, <2>2
<1> QED BY <1>1, <1>2, <1>3, <1>4, <1>5 DEF WatchIsPast

LEMMA OperatorRuns ==
    ASSUME Typed, Operate
    PROVE  /\ run' = run /\ born' = born
           /\ \A q \in Procs : pc'[q] = pc[q] /\ draft'[q] = draft[q]
           /\ Apart' => Apart
<1>1. run' = run
  BY DEF Operate, OpStops, RecoverFills, DoctorBegins, DoctorGrants, DoctorEnds, SealBegins,
    SealRevokes, SealRevoked, SealKeeps, SealEnds, BackupBegins, BackupCopies, BackupEnds,
    Disaster, RestoreBegins, PublishRuntime, PublishRegistry, RestoreEnds, RestoreFails, local
<1>2. born' = born
  BY DEF Operate, OpStops, RecoverFills, DoctorBegins, DoctorGrants, DoctorEnds, SealBegins,
    SealRevokes, SealRevoked, SealKeeps, SealEnds, BackupBegins, BackupCopies, BackupEnds,
    Disaster, RestoreBegins, PublishRuntime, PublishRegistry, RestoreEnds, RestoreFails, bounds
<1>3. overlaps \subseteq overlaps'
  BY DEF Operate, OpStops, RecoverFills, DoctorBegins, DoctorGrants, DoctorEnds, SealBegins,
    SealRevokes, SealRevoked, SealKeeps, SealEnds, BackupBegins, BackupCopies, BackupEnds,
    Disaster, RestoreBegins, PublishRuntime, PublishRegistry, RestoreEnds, RestoreFails, history
<1> QED BY <1>1, <1>2, <1>3, OperatorSteps DEF Typed, Apart

\* The operator's commands replace a runtime only where nothing beats.
LEMMA OperatorPast ==
    ASSUME Typed, Operate, state # None, state' # None, ~PublishRuntime,
           NEW h \in Heartbeats
    PROVE  /\ Dead(h) => Dead(h)'
           /\ Past(h) => Past(h)'
           /\ Past(h) /\ Left(h) => Left(h)'
<1>1. state \in States /\ state' \in States
  BY TypedNext DEF Typed, FilesTyped, Next
<1>2. state' = state \/ state'.seq = state.seq + 1
  <2>1. CASE RecoverFills
    <3>1. state' = Saved([state EXCEPT !.reconciled = TRUE])
      BY <2>1 DEF RecoverFills
    <3>2. [state EXCEPT !.reconciled = TRUE] \in States
      BY <1>1 DEF States
    <3> QED BY <3>1, <3>2, SavedState DEF Typed
  <2>2. CASE ~RecoverFills
    BY <2>2 DEF Operate, OpStops, DoctorBegins, DoctorGrants, DoctorEnds, SealBegins,
      SealRevokes, SealRevoked, SealKeeps, SealEnds, BackupBegins, BackupCopies, BackupEnds,
      Disaster, RestoreBegins, PublishRegistry, RestoreEnds, RestoreFails, files
  <2> QED BY <2>1, <2>2
<1>3. h.state.seq \in Nat /\ state.seq \in Nat /\ state'.seq \in Nat
  BY <1>1 DEF Heartbeats, States
<1>4. Dead(h) => Dead(h)'
  BY <1>2, <1>3 DEF Dead
<1>5. run' = run /\ born' = born /\ \A q \in Procs : pc'[q] = pc[q]
  BY OperatorRuns
<1> QED BY <1>2, <1>3, <1>4, <1>5 DEF Past, Left, Dead

LEMMA OperateWatch ==
    ASSUME VInv, Operate
    PROVE  VInv'
<1>a. Typed /\ Typed' /\ RunsApart /\ Op \in Actors /\ ActorsTyped
  BY TypedNext DEF VInv, Typed, Next, Actors
<1>b. RunsApart'
  BY <1>a, OperatorRuns DEF RunsApart
<1>c. /\ watch' = watch \/ (Disaster /\ watch' = Unwatched)
      /\ heart' = heart \/ heart' = None
      /\ heart' = heart \/ Disaster \/ RestoreFails
  BY DEF Operate, OpStops, RecoverFills, DoctorBegins, DoctorGrants, DoctorEnds, SealBegins,
    SealRevokes, SealRevoked, SealKeeps, SealEnds, BackupBegins, BackupCopies, BackupEnds,
    Disaster, RestoreBegins, PublishRuntime, PublishRegistry, RestoreEnds, RestoreFails, files
<1>d. /\ watch' = [at |-> watch'.at, heart |-> watch'.heart, down |-> watch'.down]
      /\ watch'.at \in {"idle", "receipt", "state", "well"}
  BY <1>c DEF VInv, Unwatched
<1>1. SUFFICES ASSUME Apart' PROVE Present' /\ HeartIsPast' /\ WatchIsPast'
  BY <1>a, <1>b, <1>d DEF VInv
<1>2. Present /\ HeartIsPast /\ WatchIsPast
  BY <1>a, <1>1, OperatorRuns DEF VInv
<1>3. ASSUME Idle, heart' = None, watch'.at = "idle"
      PROVE  Present' /\ HeartIsPast' /\ WatchIsPast'
  BY <1>a, <1>3, OperatorRuns DEF Idle, Present, HeartIsPast, WatchIsPast
<1>4. CASE Disaster
  BY <1>3, <1>4 DEF Disaster, Idle, Actors, Unwatched
<1>5. CASE ~Disaster /\ (state = None \/ pc[Op] = "publish")
  <2>1. Idle /\ heart = None /\ watch.at = "idle"
    BY <1>2, <1>5 DEF Present, Idle, HeartIsPast, WatchIsPast
  <2> QED BY <1>3, <1>5, <1>c, <2>1
<1>6. CASE ~Disaster /\ state # None /\ pc[Op] # "publish"
  <2>1. ~PublishRuntime /\ ~RestoreFails /\ ~RestoreBegins
    BY <1>6 DEF PublishRuntime, RestoreFails, RestoreBegins
  <2>2. UNCHANGED <<heart, watch, receipts>> /\ state' # None
    <3>1. UNCHANGED <<heart, watch>>
      BY <1>c, <1>6, <2>1
    <3>2. UNCHANGED receipts
      BY <1>6, <2>1, OperatorFiles DEF Operate, OpStops, RecoverFills, DoctorBegins, DoctorGrants,
        DoctorEnds, SealBegins, SealRevokes, SealRevoked, SealKeeps, SealEnds, BackupBegins,
        BackupCopies, BackupEnds, PublishRegistry, RestoreEnds, files
    <3>3. state' # None
      <4>1. CASE RecoverFills
        <5>1. state \in States
          BY <1>6, <1>a DEF Typed, FilesTyped
        <5>2. [state EXCEPT !.reconciled = TRUE] \in States
          BY <5>1 DEF States
        <5> QED BY <1>a, <4>1, <5>2, SavedState, NoneIsNothingElse DEF Typed, RecoverFills
      <4>2. CASE ~RecoverFills
        BY <1>6, <2>1, <4>2, OperatorFiles DEF Replaces
      <4> QED BY <4>1, <4>2
    <3> QED BY <3>1, <3>2, <3>3
  <2>3. pc'[Op] # "publish"
    BY <1>6, <1>a, <2>1, OperatorPlaces
  <2>4. \A h \in Heartbeats : /\ Dead(h) => Dead(h)'
                              /\ Past(h) => Past(h)'
                              /\ Past(h) /\ Left(h) => Left(h)'
    BY <1>6, <1>a, <2>1, <2>2, OperatorPast
  <2>5. Present'
    BY <1>a, <2>2, <2>3, OperatorRuns DEF Present
  <2>6. HeartIsPast'
    BY <1>2, <2>2, <2>3, <2>4 DEF HeartIsPast
  <2>7. Clean' = Clean
    BY <2>2 DEF Clean
  <2>8. WatchIsPast'
    <3> SUFFICES ASSUME watch.at # "idle" PROVE WatchIsPast'
      BY <2>2 DEF WatchIsPast
    <3>1. watch.heart \in Heartbeats /\ Past(watch.heart) /\ Left(watch.heart)
      BY <1>2 DEF WatchIsPast
    <3>2. /\ Past(watch.heart)' /\ Left(watch.heart)'
          /\ Dead(watch.heart) => Dead(watch.heart)'
      BY <2>2, <2>4, <3>1
    <3>3. Own(watch.heart)' <=> Own(watch.heart)
      BY <2>2, <2>7 DEF Own
    <3> QED BY <1>2, <2>2, <3>1, <3>2, <3>3 DEF WatchIsPast
  <2> QED BY <2>5, <2>6, <2>8
<1> QED BY <1>4, <1>5, <1>6

LEMMA ObserveWatch ==
    ASSUME VInv, Observe
    PROVE  VInv'
<1>a. Typed /\ Typed' /\ UNCHANGED <<files, lease, local, history, bounds>>
  BY TypedNext DEF VInv, Next, Observe, WatchHeartbeat, WatchReceipt, WatchState
<1>b. UNCHANGED <<state, receipts, heart, pc, draft, run, overlaps, born>>
  BY <1>a DEF files, local, history, bounds
<1>c. RunsApart' /\ (Apart' => Apart /\ Present') /\ (HeartIsPast => HeartIsPast')
  BY <1>b DEF VInv, RunsApart, Apart, Present, HeartIsPast, Past, Left, Dead
<1>d. ASSUME NEW x \in {"state", "well"}, watch' = [watch EXCEPT !.at = x]
      PROVE  watch' = [at |-> x, heart |-> watch.heart, down |-> watch.down]
  BY <1>d DEF VInv
<1>e. /\ watch' = [at |-> watch'.at, heart |-> watch'.heart, down |-> watch'.down]
      /\ watch'.at \in {"idle", "receipt", "state", "well"}
  BY <1>d DEF Observe, WatchHeartbeat, WatchReceipt, WatchState, Unwatched
<1>1. SUFFICES ASSUME Apart PROVE WatchIsPast'
  BY <1>a, <1>c, <1>e DEF VInv
<1>2. HeartIsPast /\ WatchIsPast
  BY <1>1 DEF VInv
<1>3. \A h \in Heartbeats : /\ Dead(h)' <=> Dead(h)
                            /\ Past(h)' <=> Past(h)
                            /\ Left(h)' <=> Left(h)
                            /\ Own(h)' <=> Own(h)
  BY <1>b DEF Dead, Past, Left, Own, Clean
<1>4. CASE WatchHeartbeat
  <2>1. /\ heart # None /\ heart.status = "running" /\ heart.state.mode # "HALTED"
        /\ watch'.at = "receipt" /\ watch'.heart = heart
        /\ watch'.down <=> (state = None \/ state.mode = "HALTED" \/ Clean)
    BY <1>4 DEF WatchHeartbeat
  <2>2. heart \in Heartbeats /\ state # None /\ Past(heart) /\ Left(heart)
    BY <1>2, <2>1 DEF HeartIsPast
  <2>3. state.mode = "HALTED" => Dead(heart)
    BY <2>1, <2>2 DEF Past
  <2>4. watch'.down => Dead(heart)' \/ ~Own(heart)'
    <3>1. watch'.down => Dead(heart) \/ ~Own(heart)
      BY <2>1, <2>2, <2>3 DEF Own
    <3>2. (Dead(heart)' <=> Dead(heart)) /\ (Own(heart)' <=> Own(heart))
      BY <1>b DEF Dead, Own, Clean
    <3> QED BY <3>1, <3>2
  <2>5. Past(watch.heart)' /\ Left(watch.heart)'
    BY <1>b, <1>3, <2>1, <2>2
  <2>6. watch'.down => Dead(watch.heart)' \/ ~Own(watch.heart)'
    BY <1>b, <2>1, <2>4
  <2> QED BY <1>b, <2>1, <2>2, <2>5, <2>6 DEF WatchIsPast
<1>5. CASE WatchReceipt
  <2>1. CASE watch'.at = "idle"
    BY <2>1 DEF WatchIsPast
  <2>2. CASE watch'.at # "idle"
    <3>1. watch.at = "receipt" /\ Own(watch.heart) /\ watch' = [watch EXCEPT !.at = "state"]
      BY <1>5, <2>2 DEF WatchReceipt, Own, Unwatched
    <3>2. watch'.at = "state" /\ watch'.heart = watch.heart /\ watch'.down = watch.down
      BY <1>d, <3>1
    <3>3. /\ watch.heart \in Heartbeats /\ Past(watch.heart) /\ Left(watch.heart)
          /\ watch.down => Dead(watch.heart)
      BY <1>2, <3>1 DEF WatchIsPast
    <3>4. Past(watch.heart)' /\ Left(watch.heart)' /\ (watch'.down => Dead(watch.heart)')
      BY <1>3, <3>2, <3>3
    <3> QED BY <1>b, <1>2, <3>1, <3>2, <3>3, <3>4 DEF WatchIsPast
  <2> QED BY <2>1, <2>2
<1>6. CASE WatchState
  <2>1. CASE watch'.at = "idle"
    BY <2>1 DEF WatchIsPast
  <2>2. CASE watch'.at # "idle"
    <3>1. watch.at = "state" /\ state = watch.heart.state /\ watch' = [watch EXCEPT !.at = "well"]
      BY <1>6, <2>2 DEF WatchState, HeartbeatIsCurrent, Unwatched
    <3>2. watch'.at = "well" /\ watch'.heart = watch.heart /\ watch'.down = watch.down
      BY <1>d, <3>1
    <3>3. /\ watch.heart \in Heartbeats /\ Past(watch.heart) /\ Left(watch.heart)
          /\ watch.down => Dead(watch.heart)
      BY <1>2, <3>1 DEF WatchIsPast
    <3>4. ~Dead(watch.heart)
      BY <3>1, <3>3 DEF Dead, Heartbeats, States
    <3>5. Past(watch.heart)' /\ Left(watch.heart)'
      BY <1>3, <3>2, <3>3
    <3> QED BY <1>b, <1>2, <3>1, <3>2, <3>3, <3>4, <3>5 DEF WatchIsPast
  <2> QED BY <2>1, <2>2
<1> QED BY <1>4, <1>5, <1>6 DEF Observe

\* All well is never said of a runtime that was down when the watchdog began to read, for
\* any number of processes, one beside another too (watchdog.py, runtime_heartbeat.py).
THEOREM WatchdogIsRightHolds == Spec => []WatchdogIsRight
<1>1. Init => VInv
  <2> SUFFICES ASSUME Init PROVE VInv
    OBVIOUS
  <2>1. watch = Unwatched /\ heart = None
    BY DEF Init
  <2>2. /\ \A p \in Procs : pc[p] = "off" /\ run[p] = 0
        /\ born = 0
    BY DEF Init, Actors
  <2> QED BY <2>1, <2>2, TypedInit DEF VInv, RunsApart, WritesReceipt, Unwatched, Present,
      HeartIsPast, WatchIsPast
<1>2. VInv /\ [Next]_vars => VInv'
  <2> SUFFICES ASSUME VInv, [Next]_vars PROVE VInv'
    OBVIOUS
  <2>1. Typed /\ Typed'
    BY TypedNext DEF VInv
  <2>2. ASSUME NEW p \in Procs, Live(p) PROVE VInv'
    <3>1. RunsApart'
      BY <2>1, <2>2, LiveRunsApart DEF VInv
    <3>2. UNCHANGED watch
      BY <2>2 DEF Live, Start, HaltState, RevokeBegins, RevokeEnds, FenceBegins, FenceEnds,
        Begin, Mark, WriteReceipt, TakeLease, StartupFails, Resume, RecoverCircuit,
        ConsumePermit, PermitConsumed, Activate, Trade, Beat, LeaveLoop, Stop, Die
    <3>3. overlaps \subseteq overlaps'
      BY <2>2 DEF Live, Start, HaltState, RevokeBegins, RevokeEnds, FenceBegins, FenceEnds,
        Begin, Mark, WriteReceipt, TakeLease, StartupFails, Resume, RecoverCircuit,
        ConsumePermit, PermitConsumed, Activate, Trade, Beat, LeaveLoop, Stop, Die, history
    <3>4. ASSUME Apart' PROVE Present' /\ HeartIsPast' /\ WatchIsPast'
      <4>1. Present /\ HeartIsPast /\ WatchIsPast /\ RunsApart
        BY <3>3, <3>4 DEF VInv, Apart
      <4> QED BY <2>1, <2>2, <3>4, <4>1, LivePresent, LiveHeart, LiveWatch
    <3> QED BY <2>1, <3>1, <3>2, <3>4 DEF VInv
  <2>3. CASE UNCHANGED vars
    <3>1. UNCHANGED <<watch, state, receipts, heart, pc, draft, run, overlaps, born>>
      BY <2>3 DEF vars, files, local, history, bounds
    <3> QED BY <2>1, <3>1 DEF VInv, RunsApart, Apart, Present, HeartIsPast, WatchIsPast,
        Past, Left, Dead, Own, Clean
  <2> QED BY <2>2, <2>3, OperateWatch, ObserveWatch DEF Next
<1>3. VInv => WatchdogIsRight
  BY DEF VInv, WatchIsPast, Apart, WatchdogIsRight
<1> QED BY <1>1, <1>2, <1>3, PTL DEF Spec

================================================================================
