------------------------- MODULE HaltedRecoveryProofs -------------------------
(***************************************************************************)
(* The invariants of HaltedRecovery for any number of operation ids, days,   *)
(* fills, saves and failures: a marker in the state is proven                *)
(* (MarkersAreProven), a prepared transaction is undisturbed                 *)
(* (PreparedTransactionsAreUndisturbed), the evidence can catch up           *)
(* (EvidenceCatchesUp), and an interrupted recovery can be retried with the  *)
(* request the registry has (ExactRetriesConverge).                          *)
(*                                                                           *)
(* None is inductive: each depends on where the process that has the lease   *)
(* is, and on what the record it is about to write is made of.  Inv has four *)
(* parts beside the types.  EInv: which operation the evidence is of, and in *)
(* which order a prepared transaction takes effect; a command that has begun *)
(* keeps what it found.  SInv: the generations of the recovery store.  MInv: *)
(* the marker; its heart is Blocked, that while a new recovery waits beside  *)
(* the marker of an older one, the receipt is older than the evidence, so    *)
(* that no process trades and no other command saves the state the recovery  *)
(* was prepared for.  RInv: the request of a recovery can be rebuilt as long *)
(* as state and session are the same.                                        *)
(***************************************************************************)
EXTENDS HaltedRecovery, FiniteSetTheorems, TLAPS

LifecycleOps == {"rollforward", "rebase"}
Ops == {"live", "doctor", "prepare", "recover"} \cup LifecycleOps

-------------------------------------------------------------------------------
(***************************************************************************)
(* The fields of the records.                                              *)
(***************************************************************************)

Ids == Nonces \cup {Activation, First}
IsEvidence(e) ==
    /\ e = [seq |-> e.seq, day |-> e.day, epoch |-> e.epoch, revision |-> e.revision,
            registry |-> e.registry, rebind |-> e.rebind]
    /\ e.seq \in Nat /\ e.day \in Nat /\ e.revision \in Nat
IsPlanRequest(q) == q.evidence \in Nat /\ q.state \in Nat /\ q.policy \in Nat
IsReceipt(r) ==
    /\ r = [seq |-> r.seq, nonce |-> r.nonce, day |-> r.day, epoch |-> r.epoch,
            request |-> r.request, revision |-> r.revision, evidence |-> r.evidence]
    /\ r.seq \in Nat /\ r.evidence \in Nat
IsTxn(t) ==
    /\ t = [op |-> t.op, nonce |-> t.nonce, status |-> t.status, source |-> t.source,
            day |-> t.day, from |-> t.from, epoch |-> t.epoch, state |-> t.state,
            policy |-> t.policy, marker |-> t.marker, request |-> t.request]
    /\ t.op \in LifecycleOps /\ t.nonce \in Ids
    /\ t.day \in Nat /\ t.state \in Nat /\ t.policy \in Nat
    /\ t.op = "rollforward" => t.epoch = t.from /\ IsPlanRequest(t.request)
    /\ t.status = "prepared" => t.nonce \in Nonces
IsState(s) ==
    /\ s = [seq |-> s.seq, mode |-> s.mode, day |-> s.day, known |-> s.known,
            marker |-> s.marker]
    /\ s.seq \in Nat /\ s.day \in Nat
IsMarker(m) == m # NoMarker => m = [txn |-> m.txn, by |-> m.by]

Writing == At("previous") \/ At("current")
Writes(store, then) == Writing /\ proc.write.store = store /\ proc.write.then = then
IsWrite(w) ==
    /\ w = [store |-> w.store, record |-> w.record, then |-> w.then]
    /\ w.store = "evidence" => IsEvidence(w.record)
    /\ w.store = "recovery" => w.record \in Recoveries
    /\ w.store = "receipts" => IsReceipt(w.record)
IsProcess(p) ==
    /\ p = [op |-> p.op, nonce |-> p.nonce, plan |-> p.plan, at |-> p.at, write |-> p.write]
    /\ p.op \in LifecycleOps => IsTxn(p.plan) /\ IsMarker(p.plan.marker)
    /\ p.op = "recover" =>
         /\ p.nonce \in Nonces
         /\ p.plan = [request |-> p.plan.request, resumed |-> p.plan.resumed,
                      semantic |-> p.plan.semantic]
         /\ p.plan.request \in Requests /\ p.plan.resumed \in BOOLEAN
         /\ IsEvidence(p.plan.semantic)
    /\ p.at \in {"previous", "current"} => IsWrite(p.write)

IsOperation(o) ==
    /\ o = [kind |-> o.kind, nonce |-> o.nonce, request |-> o.request]
    /\ o.nonce \in Ids
    /\ o.kind = "recovery" => o.request \in Requests
RegistryTyped ==
    /\ registry = [log |-> registry.log, epoch |-> registry.epoch, others |-> registry.others]
    /\ \E S : registry.log \in Seq(S)
    /\ Revision > 0
    /\ \A i \in 1..Revision : IsOperation(registry.log[i])
AccountTyped == day \in Nat /\ trades \in Seq(Nat) /\ working \in BOOLEAN
IsStore(s) == s = [current |-> s.current, previous |-> s.previous]
FilesTyped ==
    /\ files = [evidence |-> files.evidence, recovery |-> files.recovery,
                receipts |-> files.receipts]
    /\ IsStore(files.evidence) /\ IsStore(files.recovery) /\ IsStore(files.receipts)
    /\ IsEvidence(Evidence) /\ IsEvidence(files.evidence.previous)
    /\ Recovery \in {NoFile, Torn} \cup Recoveries
    /\ files.recovery.previous \in {NoFile} \cup Recoveries
    /\ IsReceipt(Receipt)
    /\ lineage \in BOOLEAN
StatesTyped ==
    /\ IsState(state) /\ IsMarker(state.marker)
    /\ policy = [seq |-> policy.seq, epoch |-> policy.epoch, target |-> policy.target]
    /\ policy.seq \in Nat /\ policy.target \in Nat
    /\ IsTxn(lifecycle) /\ IsMarker(lifecycle.marker)
ProcTyped == proc # NoProc => IsProcess(proc)
Typed == AccountTyped /\ RegistryTyped /\ FilesTyped /\ StatesTyped /\ ProcTyped

-------------------------------------------------------------------------------
(***************************************************************************)
(* How far a process has come.                                             *)
(***************************************************************************)

Commands(op) == proc # NoProc /\ proc.op = op
InTxn == proc # NoProc /\ proc.op \in LifecycleOps

AfterGeneric == {"consume", "finish"}
AfterPolicy == AfterGeneric \cup {"generic"}
AfterBound == AfterPolicy \cup {"receipt", "policy"}
AfterAcknowledged == AfterBound \cup {"bind"}

Placed ==
    proc # NoProc =>
      \/ proc.op = "live" /\ proc.at = "trading"
      \/ proc.op = "doctor" /\ Writes("evidence", "end")
      \/ proc.op = "prepare" /\ (proc.at = "prepare" \/ Writes("evidence", "prepare"))
      \/ /\ proc.op = "recover"
         /\ \/ proc.at \in {"acknowledge", "bind", "begin", "create", "apply", "commit"}
            \/ Writes("evidence", "begin")
            \/ Writes("recovery", "apply") \/ Writes("recovery", "end")
      \/ /\ proc.op \in LifecycleOps
         /\ \/ proc.at \in {"begin", "acknowledge"} \cup AfterAcknowledged
            \/ Writes("evidence", "receipt") \/ Writes("evidence", "policy")
            \/ Writes("receipts", "policy")
            \/ Writes("recovery", "acknowledge") \/ Writes("recovery", "finish")

\* A process that writes the evidence has still to bind it; one that writes another store
\* has done what the step after it asks for.
Place ==
    IF proc.at \in {"previous", "current"}
    THEN IF proc.write.store = "evidence" THEN "bind" ELSE proc.write.then
    ELSE proc.at

-------------------------------------------------------------------------------
(***************************************************************************)
(* The registry, the evidence and a prepared transaction.                  *)
(***************************************************************************)

NonceOnce ==
    \A i, j \in 1..Revision : registry.log[i].nonce = registry.log[j].nonce => i = j

Acknowledges == Prepared /\ Last.nonce = lifecycle.nonce
IsBound ==
    /\ Evidence.rebind = lifecycle.nonce /\ Evidence.epoch = lifecycle.epoch
    /\ Evidence.day = lifecycle.day

EvidenceHasReceipt ==
    /\ Evidence.revision \in 1..Revision
    /\ registry.log[Evidence.revision].nonce = Evidence.rebind

\* The operations before the one of a prepared transaction: the evidence has them, or
\* all but the last, a recovery.
Before == IF Acknowledges THEN Revision - 1 ELSE Revision
MissesOne ==
    IF Acknowledges /\ Evidence.rebind = lifecycle.nonce THEN Evidence.revision = Revision
    ELSE /\ Evidence.revision = Before \/ Evidence.revision = Before - 1
         /\ Evidence.revision = Before - 1 => registry.log[Before].kind = "recovery"

EvidenceHolds == NonceOnce /\ EvidenceHasReceipt /\ MissesOne

\* One epoch is in force without a transaction; under one its effects come in order.
OneEpoch == ~Prepared => policy.epoch = registry.epoch /\ Evidence.epoch = policy.epoch
InOrder ==
    LET t == lifecycle
    IN  /\ state.mode = "HALTED" /\ ~working
        /\ \/ policy.seq = t.policy /\ policy.epoch = t.from
           \/ policy.seq = t.policy + 1 /\ policy.epoch = t.epoch
        /\ state.seq = t.state \/ state.seq = t.state + 1
        /\ IF Last.nonce = t.nonce
           THEN registry.epoch = t.epoch /\ Last.kind \in {"advance", "continuity"}
           ELSE registry.epoch = t.from /\ ~IsUsed(t.nonce)
        /\ IF Evidence.rebind = t.nonce
           THEN IsBound /\ Acknowledges ELSE Evidence.epoch = t.from
        /\ policy.seq = t.policy + 1 => IsBound
        /\ state.seq = t.state + 1 => policy.seq = t.policy + 1
Effects == Prepared => InOrder

\* What a new transaction is made of does not change before it begins.
PlanFresh(t) ==
    /\ t.status = "prepared" /\ t.op = proc.op
    /\ t.state = state.seq /\ t.policy = policy.seq /\ t.from = policy.epoch
    /\ ~IsUsed(t.nonce)
    /\ t.marker = TargetMarker(t.op, t.nonce)
    /\ t.op = "rollforward" => t.request.evidence = Evidence.seq /\ t.request.epoch = t.epoch

\* The evidence that is being written is of the last operation.
EvidenceWrite(r) ==
    /\ r.seq = Evidence.seq + 1
    /\ r.revision = Revision /\ r.rebind = Last.nonce
    /\ IF InTxn THEN r.epoch = lifecycle.epoch /\ r.day = lifecycle.day
       ELSE r.epoch = Evidence.epoch
WritesEvidence == Writing /\ proc.write.store = "evidence" => EvidenceWrite(proc.write.record)

TxnRuns ==
    IF proc.at = "begin"
    THEN ~Prepared /\ PlanFresh(proc.plan) /\ state.mode = "HALTED" /\ ~working
    ELSE /\ Prepared /\ lifecycle.op = proc.op
         /\ Place \in AfterAcknowledged => Acknowledges
         /\ Place \in AfterBound => IsBound
         /\ Place \in AfterPolicy => policy.seq = lifecycle.policy + 1
         /\ Place \in AfterGeneric => state.seq = lifecycle.state + 1
         /\ Place = "receipt" \/ Writes("evidence", "receipt") \/ Writes("receipts", "policy")
              => proc.op = "rollforward"
         /\ Writes("evidence", "policy") => proc.op = "rebase"
RecoveryRuns ==
    /\ ~Prepared /\ state.mode = "HALTED" /\ ~working
    /\ Place = "acknowledge" => Evidence.revision = Revision \/ Last.nonce = proc.nonce
    /\ Place \in {"bind", "begin"} => Last.nonce = proc.nonce /\ Last.kind = "recovery"
ObserverRuns ==
    /\ ~Prepared
    /\ proc.op = "prepare" => state.mode = "HALTED"
    /\ Writing => Evidence.revision = Revision
Runs ==
    proc # NoProc =>
      /\ WritesEvidence
      /\ proc.op \in LifecycleOps => TxnRuns
      /\ proc.op = "recover" => RecoveryRuns
      /\ proc.op \in {"doctor", "prepare", "live"} => ObserverRuns

EInv == EvidenceHolds /\ OneEpoch /\ Effects /\ Runs

-------------------------------------------------------------------------------
(***************************************************************************)
(* The recovery store.                                                     *)
(***************************************************************************)

StoreShape ==
    LET s == files.recovery
    IN  \/ s.current = NoFile /\ s.previous = NoFile
        \/ s.current = Torn /\ s.previous = NoFile /\ lineage
        \/ /\ s.current \in Recoveries /\ lineage /\ s.current.seq = 1
           /\ s.previous = NoFile \/ s.previous = s.current
        \/ /\ s.current \in Recoveries /\ lineage /\ s.current.seq > 1
           /\ s.previous \in Recoveries
           /\ s.previous = s.current \/ s.previous.seq + 1 = s.current.seq

StoreRuns ==
    proc # NoProc =>
      /\ Writing /\ proc.write.store = "recovery" =>
           /\ HasRecovery /\ proc.write.record.seq = Recovery.seq + 1
           /\ At("current") => files.recovery.previous = Recovery
      /\ proc.op = "recover" =>
           /\ Place \in {"acknowledge", "bind", "begin"} => RecoveryReadable
           /\ Place = "create" => Recovery = NoFile /\ lineage
           /\ Place \in {"apply", "commit", "end"} => HasRecovery
           /\ proc.plan.resumed => HasRecovery

SInv == StoreShape /\ StoreRuns

-------------------------------------------------------------------------------
(***************************************************************************)
(* The marker in the state.                                                *)
(***************************************************************************)

MarkerHasRecovery ==
    LET marker == state.marker
    IN  marker # NoMarker =>
          /\ HasRecovery
          /\ \/ Recovery.plan.nonce = marker.txn
             \/ Recovery.status = "prepared" /\ AtSource(Recovery.plan)
          /\ \/ marker.by = NoNonce
             \/ Recovery.by = marker.by
             \/ Recovery.status = "prepared"
             \/ Prepared /\ marker.by = lifecycle.nonce

TargetsMarker ==
    Prepared /\ state.seq = lifecycle.state =>
      lifecycle.marker = TargetMarker(lifecycle.op, lifecycle.nonce)

\* What a recovery or a consumption is about to write is of the state and the record
\* in place.
RecoveryMarks ==
    /\ Place \in {"acknowledge", "bind", "begin", "create"} /\ ~proc.plan.resumed
         => proc.plan.request.state = state.seq
    /\ Place \in {"commit", "end"} => Recovery.status = "prepared" /\ AtTarget(Recovery.plan)
    /\ Writes("recovery", "end") =>
         LET record == proc.write.record
         IN  /\ record.plan = Recovery.plan /\ record.by = Recovery.by
             /\ record.status = "committed"
    /\ Writes("recovery", "apply") =>
         proc.write.record.status = "prepared" /\ AtSource(proc.write.record.plan)
TxnMarks ==
    /\ Writing /\ proc.write.store = "recovery" =>
         LET record == proc.write.record
         IN  /\ record.plan = Recovery.plan /\ record.by = lifecycle.nonce
             /\ record.status = "committed" /\ Recovery.status = "committed"
             /\ state.marker = [txn |-> Recovery.plan.nonce, by |-> lifecycle.nonce]
    /\ proc.at = "finish" =>
         \/ state.marker = NoMarker \/ state.marker.by = NoNonce
         \/ Recovery.by = state.marker.by \/ Recovery.status = "prepared"
Marks ==
    proc # NoProc =>
      /\ proc.op = "recover" => RecoveryMarks
      /\ proc.op \in LifecycleOps => TxnMarks

\* A receipt is of evidence that no recovery has replaced.
ReceiptPast ==
    /\ Receipt.evidence <= Evidence.seq /\ IsUsed(Receipt.nonce)
    /\ registry.log[Evidence.revision].kind = "recovery" => Receipt.evidence < Evidence.seq
    /\ Writing /\ proc.write.store = "receipts" =>
         /\ proc.write.record.evidence = Evidence.seq
         /\ proc.write.record.epoch = lifecycle.epoch
         /\ proc.write.record.nonce = lifecycle.nonce

\* Between a rebase and the next receipt nobody trades.
BetweenEpochs ==
    /\ state.mode # "HALTED" \/ At("trading") \/ working \/ Adopted # {}
         => Receipt.epoch = policy.epoch
    /\ (Prepared /\ lifecycle.op = "rebase") \/ Commands("rebase") => Adopted = {}

\* A recovery that is not applied yet beside the marker of an older one: the receipt is
\* older than the evidence, so nothing but the recovery may save the state.
Unapplied ==
    /\ state.marker # NoMarker
    /\ \/ HasRecovery /\ Recovery.status = "prepared" /\ AtSource(Recovery.plan)
       \/ Commands("recover") /\ Writes("recovery", "apply")
Blocked ==
    Unapplied =>
      /\ state.mode = "HALTED" /\ ~At("trading")
      /\ Receipt.evidence < Evidence.seq /\ Receipt.epoch = policy.epoch
      /\ Prepared =>
           /\ lifecycle.op = "rollforward" /\ policy.seq = lifecycle.policy
           /\ lifecycle.request.evidence > Receipt.evidence
           /\ lifecycle.request.epoch = Receipt.epoch
           /\ Receipt.nonce # lifecycle.nonce
      /\ ~Commands("rebase")
      /\ InTxn => Place \in {"begin", "acknowledge", "bind", "receipt"}
      /\ ~(Writing /\ proc.write.store = "receipts")

MInv == MarkerHasRecovery /\ TargetsMarker /\ Marks /\ ReceiptPast /\ BetweenEpochs /\ Blocked

-------------------------------------------------------------------------------
(***************************************************************************)
(* A recovery that is retried.                                             *)
(***************************************************************************)

TradesArePast == \A i \in DOMAIN trades : trades[i] <= day
DayIsDecided ==
    /\ policy.target <= day
    /\ Session # {} \/ working => policy.target = day
    /\ state.mode # "HALTED" => policy.target = state.day
    /\ At("trading") => policy.target = day /\ state.day = day
    /\ Commands("prepare") => Session = {} /\ ~working

\* As long as state and session are those of a request, it may be made again.
RequestStands(q) ==
    /\ q.session \subseteq DOMAIN trades /\ q.session # {} /\ q.adopted # {}
    /\ q.state <= state.seq
    /\ state.seq = q.state /\ Session = q.session => Adoptable /\ Adopted = q.adopted
LastRequest ==
    Last.kind = "recovery" =>
      /\ RequestStands(Last.request)
      /\ IF Evidence.revision = Revision THEN Last.request.evidence < Evidence.seq
         ELSE Last.request.evidence = Evidence.seq

CheckpointStands(c) ==
    /\ c.revision \in 1..Revision
    /\ registry.log[c.revision] =
         [kind |-> "recovery", nonce |-> c.nonce, request |-> c.request]
    /\ c.bound = c.request.evidence + 1 /\ c.bound <= Evidence.seq
    /\ c.request.state <= state.seq
    /\ c.revision = Revision =>
         /\ Evidence.revision = Revision
         /\ Session = c.request.session => c.policy = policy.seq

EvidenceChained ==
    /\ files.evidence.previous = Evidence \/ files.evidence.previous.seq + 1 = Evidence.seq
    /\ At("current") /\ proc.write.store = "evidence" => files.evidence.previous = Evidence

Retries ==
    /\ Place \in {"acknowledge", "bind", "begin", "create"} /\ ~proc.plan.resumed =>
         proc.plan.request.session = Session
    /\ Place = "acknowledge" /\ ~proc.plan.resumed =>
         /\ RequestStands(proc.plan.request)
         /\ ~IsUsed(proc.nonce) =>
              proc.plan.request.evidence = Evidence.seq /\ Evidence.revision = Revision
    /\ Place \in {"acknowledge", "bind", "begin"} /\ proc.plan.resumed =>
         Recovery.plan.nonce = proc.nonce /\ IsUsed(proc.nonce)
    /\ ~proc.plan.resumed => proc.plan.request.evidence = proc.plan.semantic.seq
    /\ Place \in {"bind", "begin", "create"} /\ ~proc.plan.resumed =>
         Last = [kind |-> "recovery", nonce |-> proc.nonce, request |-> proc.plan.request]
    /\ Place \in {"begin", "create"} /\ ~proc.plan.resumed =>
         Evidence.revision = Revision /\ Evidence.seq = proc.plan.request.evidence + 1
    /\ Place = "create" => ~proc.plan.resumed
    /\ Writing /\ proc.write.store = "evidence" => proc.plan.semantic = Evidence
    /\ Writing /\ proc.write.store = "recovery" => CheckpointStands(proc.write.record.plan)

RInv ==
    /\ TradesArePast /\ DayIsDecided /\ LastRequest /\ EvidenceChained
    /\ Commands("recover") => Retries
    /\ HasRecovery => CheckpointStands(Recovery.plan)

Inv == Typed /\ Placed /\ EInv /\ SInv /\ MInv /\ RInv

-------------------------------------------------------------------------------
(***************************************************************************)
(* Steps that leave every file and the states alone.                       *)
(***************************************************************************)

\* The morning of day 1 is made of records of the right kind.
LEMMA InitTyped == Init => Typed /\ Placed
<1> SUFFICES ASSUME Init PROVE Typed /\ Placed
  OBVIOUS
<1>1. AccountTyped
  <2>1. day \in Nat /\ working \in BOOLEAN
    BY DEF Init
  <2>2. trades = <<>>
    BY DEF Init
  <2>3. trades \in Seq(Nat)
    BY <2>2
  <2>. QED
    BY <2>1, <2>3 DEF AccountTyped
<1>2. RegistryTyped
  <2> DEFINE a == [kind |-> "activation", nonce |-> Activation, request |-> NoRequest]
             c == [kind |-> "continuity", nonce |-> First, request |-> FirstRequest]
  <2>1. registry = [log |-> <<a, c>>, epoch |-> Activation, others |-> 0]
    BY DEF Init
  <2>2. IsOperation(a) /\ IsOperation(c)
    BY DEF IsOperation, Ids
  <2> HIDE DEF a, c
  <2>3. registry.log \in Seq({a, c}) /\ Len(registry.log) = 2
        /\ registry.log[1] = a /\ registry.log[2] = c
    BY <2>1
  <2>4. Revision = 2 /\ 1..2 = {1, 2}
    BY <2>3 DEF Revision
  <2>5. registry = [log |-> registry.log, epoch |-> registry.epoch, others |-> registry.others]
    BY <2>1
  <2>6. \A i \in 1..Revision : IsOperation(registry.log[i])
    BY <2>2, <2>3, <2>4
  <2>. QED
    BY <2>3, <2>4, <2>5, <2>6 DEF RegistryTyped
<1> USE DEF Init
<1>3. FilesTyped
  <2>1. lineage \in BOOLEAN
    OBVIOUS
  <2>2. Recovery = NoFile /\ files.recovery.previous = NoFile /\ IsStore(files.recovery)
    BY DEF Recovery, IsStore
  <2>3. IsEvidence(Evidence) /\ IsEvidence(files.evidence.previous)
    BY DEF Evidence, IsEvidence
  <2>4. IsReceipt(Receipt)
    BY DEF Receipt, IsReceipt, IsPlanRequest, FirstRequest
  <2>5. IsStore(files.evidence) /\ IsStore(files.receipts)
    BY DEF IsStore
  <2>. QED
    BY <2>1, <2>2, <2>3, <2>4, <2>5 DEF FilesTyped
<1>4. StatesTyped
  BY RecoveryAssumption DEF StatesTyped, IsState, IsMarker, IsTxn, LifecycleOps, Ids,
     FirstRequest, IsPlanRequest
<1>. QED
  BY <1>1, <1>2, <1>3, <1>4 DEF Typed, ProcTyped, Placed

\* The morning of day 1: two operations in the log, evidence and receipt of the second.
LEMMA InitSound == Init => Inv
<1> SUFFICES ASSUME Init PROVE Inv
  OBVIOUS
<1> USE DEF Init
<1>1. /\ Len(registry.log) = 2 /\ Revision = 2
      /\ registry.log[1] = [kind |-> "activation", nonce |-> Activation, request |-> NoRequest]
      /\ registry.log[2] = [kind |-> "continuity", nonce |-> First, request |-> FirstRequest]
      /\ Evidence.revision = 2 /\ Evidence.rebind = First /\ Evidence.epoch = Activation
      /\ Evidence.seq = 2
      /\ ~Prepared /\ Last = registry.log[2]
  BY DEF Revision, Evidence, Prepared, Last
<1>2. EInv
  <2>1. NonceOnce
    BY <1>1, RecoveryAssumption DEF NonceOnce
  <2>2. EvidenceHasReceipt
    BY <1>1 DEF EvidenceHasReceipt
  <2>3. MissesOne
    BY <1>1 DEF MissesOne, Acknowledges, Before
  <2>4. OneEpoch
    BY <1>1 DEF OneEpoch
  <2>. QED
    BY <2>1, <2>2, <2>3, <2>4, <1>1 DEF EInv, EvidenceHolds, Effects, Runs
<1>3. SInv
  BY DEF SInv, StoreShape, StoreRuns
<1>4. Session = {} /\ Adopted = {} /\ ~HasRecovery
  BY DEF Session, Adopted, HasRecovery, Recovery
<1>5. MInv
  <2>1. MarkerHasRecovery /\ TargetsMarker /\ Marks
    BY <1>1 DEF MarkerHasRecovery, TargetsMarker, Marks
  <2>2. IsUsed(First) /\ Receipt.nonce = First /\ Receipt.evidence = 2
    BY <1>1 DEF IsUsed, Receipt
  <2>4. ReceiptPast
    BY <1>1, <2>2 DEF ReceiptPast, Writing, At
  <2>3. BetweenEpochs /\ Blocked
    BY <1>1, <1>4 DEF BetweenEpochs, Blocked, Unapplied, Receipt, At, Commands
  <2>. QED
    BY <2>1, <2>3, <2>4 DEF MInv
<1>6. RInv
  BY <1>1, <1>4 DEF RInv, TradesArePast, DayIsDecided, LastRequest, EvidenceChained, Commands, At,
                    Evidence
<1>. QED
  BY InitTyped, <1>2, <1>3, <1>5, <1>6 DEF Inv

\* A process that ends leaves what holds without one.
LEMMA EndSound ==
    ASSUME Inv, proc' = NoProc, lineage' \in {lineage, TRUE},
           UNCHANGED <<account, registry, files, states>>
    PROVE  Inv'
<1> USE DEF account, states
<1>1. Typed' /\ Placed'
  BY DEF Inv, Typed, Placed, AccountTyped, RegistryTyped, FilesTyped, StatesTyped, ProcTyped,
         Revision, Evidence, Recovery, Receipt
<1>2. EInv'
  BY DEF Inv, EInv, EvidenceHolds, NonceOnce, EvidenceHasReceipt, MissesOne, OneEpoch, Effects,
         InOrder, Runs, Revision, Evidence, Acknowledges, Prepared, Last, Before, IsBound, IsUsed
<1>3. SInv'
  BY DEF Inv, SInv, StoreShape, StoreRuns
<1>4. MInv'
  BY DEF Inv, MInv, MarkerHasRecovery, TargetsMarker, Marks, ReceiptPast, BetweenEpochs, Blocked,
         Unapplied, HasRecovery, Recovery, AtSource, Prepared, TargetMarker, Writing, At, Adopted,
         Session, Commands, Evidence, Receipt, InTxn, IsUsed
<1>5. RInv'
  BY DEF Inv, RInv, TradesArePast, DayIsDecided, LastRequest, EvidenceChained, Commands, At,
         HasRecovery, Recovery, CheckpointStands, RequestStands, Session, Adoptable, Adopted, Net,
         Last, Revision, Evidence
<1>. QED
  BY <1>1, <1>2, <1>3, <1>4, <1>5 DEF Inv

\* A step of a process that writes no file, but for the lineage marker.
LEMMA MoveSound ==
    ASSUME Inv, UNCHANGED <<account, registry, files, states>>, lineage' \in {lineage, TRUE},
           ProcTyped', Placed', Runs', StoreRuns', Marks',
           (ReceiptPast /\ BetweenEpochs /\ Blocked)',
           (DayIsDecided /\ EvidenceChained /\ (Commands("recover") => Retries))'
    PROVE  Inv'
<1> USE DEF account, states
<1>1. Typed'
  BY DEF Inv, Typed, AccountTyped, RegistryTyped, FilesTyped, StatesTyped,
         Revision, Evidence, Recovery, Receipt
<1>2. EInv'
  BY DEF Inv, EInv, EvidenceHolds, NonceOnce, EvidenceHasReceipt, MissesOne, OneEpoch, Effects,
         InOrder, Revision, Evidence, Acknowledges, Prepared, Last, Before, IsBound, IsUsed
<1>3. SInv'
  BY DEF Inv, SInv, StoreShape
<1>4. MInv'
  BY DEF Inv, MInv, MarkerHasRecovery, TargetsMarker,
         HasRecovery, Recovery, AtSource, Prepared, TargetMarker
<1>5. RInv'
  BY DEF Inv, RInv, TradesArePast, LastRequest,
         HasRecovery, Recovery, CheckpointStands, RequestStands, Session, Adoptable, Adopted, Net,
         Last, Revision, Evidence
<1>. QED
  BY <1>1, <1>2, <1>3, <1>4, <1>5 DEF Inv

\* An observation keeps the binding of the evidence it renews.
LEMMA ObservationIsSound ==
    ASSUME Inv, Authoritative, ~InTxn
    PROVE  IsEvidence(Observation) /\ EvidenceWrite(Observation)
<1>1. Evidence.revision = Revision /\ Evidence.rebind = Last.nonce
  BY DEF Inv, Typed, RegistryTyped, EInv, EvidenceHolds, EvidenceHasReceipt, Authoritative, Last
<1>2. IsEvidence(Evidence) /\ day \in Nat
  BY DEF Inv, Typed, AccountTyped, FilesTyped
<1> DEFINE e == Evidence
<1>3. /\ IsEvidence(e) /\ e.revision = Revision /\ e.rebind = Last.nonce
      /\ Observation = [e EXCEPT !.seq = @ + 1, !.day = day, !.registry = RegistrySequence]
  BY <1>1, <1>2 DEF Observation
<1> HIDE DEF e
<1>4. Observation = [seq |-> e.seq + 1, day |-> day, epoch |-> e.epoch, revision |-> e.revision,
                     registry |-> RegistrySequence, rebind |-> e.rebind]
  BY <1>3 DEF IsEvidence
<1> DEFINE o == Observation
           n == RegistrySequence
<1>5. /\ o = [seq |-> e.seq + 1, day |-> day, epoch |-> e.epoch, revision |-> e.revision,
              registry |-> n, rebind |-> e.rebind]
      /\ e.seq \in Nat /\ e.revision \in Nat /\ day \in Nat
  BY <1>2, <1>3, <1>4 DEF IsEvidence
<1> HIDE DEF o, n
<1>6. IsEvidence(o)
  BY <1>5 DEF IsEvidence
<1>. QED
  BY <1>3, <1>5, <1>6 DEF EvidenceWrite, e, o

\* The doctor decides to write an observation.
LEMMA DoctorSound ==
    ASSUME Inv, Doctor
    PROVE  Inv'
<1>1. /\ Halted /\ Authoritative
      /\ UNCHANGED <<account, registry, files, lineage, states>>
      /\ proc' = [op |-> "doctor", nonce |-> NoNonce, plan |-> NoFile, at |-> "previous",
                  write |-> [store |-> "evidence", record |-> Observation, then |-> "end"]]
  BY DEF Doctor, Observable, Replacing, Process
<1> USE DEF account, states
<1>2. ~Prepared' /\ Evidence'.revision = Revision' /\ state'.mode = "HALTED"
  BY <1>1 DEF Authoritative, Evidence, Revision, Halted, Prepared
<1>3. IsEvidence(Observation) /\ EvidenceWrite(Observation)
  BY <1>1, ObservationIsSound DEF InTxn, Halted
<1> DEFINE r == Observation
<1> HIDE DEF r
<1>4. /\ proc' = [op |-> "doctor", nonce |-> NoNonce, plan |-> NoFile, at |-> "previous",
                  write |-> [store |-> "evidence", record |-> r, then |-> "end"]]
      /\ IsEvidence(r) /\ EvidenceWrite(r) /\ proc = NoProc
  BY <1>1, <1>3 DEF r, Halted
<1>5. ProcTyped' /\ Placed'
  BY <1>4 DEF ProcTyped, IsProcess, LifecycleOps, IsWrite, Placed, Writes, Writing, At
<1>6. Runs'
  BY <1>1, <1>2, <1>4 DEF Runs, LifecycleOps, WritesEvidence, EvidenceWrite, ObserverRuns,
     InTxn, Writing, At, Evidence, Revision, Last
<1>7. StoreRuns' /\ Marks' /\ (Commands("recover") => Retries)'
  BY <1>4 DEF StoreRuns, Marks, LifecycleOps, Commands
<1>8. (ReceiptPast /\ BetweenEpochs /\ Blocked)'
  BY <1>1, <1>2, <1>4 DEF Inv, MInv, ReceiptPast, IsUsed, BetweenEpochs, Blocked, Unapplied,
     LifecycleOps, Receipt, Evidence, At, Writing, Writes, Commands, InTxn, Prepared, Adopted,
     Session, HasRecovery, Recovery, AtSource
<1>9. (DayIsDecided /\ EvidenceChained)'
  BY <1>1, <1>2, <1>4 DEF Inv, RInv, DayIsDecided, EvidenceChained, Session, At, Commands,
     Evidence
<1>. QED
  BY <1>1, <1>5, <1>6, <1>7, <1>8, <1>9, MoveSound


\* A preparation starts on a day that nobody has traded.
LEMMA StartPrepareDecisionSound ==
    ASSUME Inv, StartPrepareDecision
    PROVE  Inv'
<1> DEFINE r == Observation
<1>1. /\ Halted /\ Authoritative /\ Quiet /\ policy.target < day
      /\ UNCHANGED <<account, registry, files, lineage, states>>
      /\ \/ proc' = [op |-> "prepare", nonce |-> NoNonce, plan |-> NoFile, at |-> "previous",
                     write |-> [store |-> "evidence", record |-> r, then |-> "prepare"]]
         \/ proc' = [op |-> "prepare", nonce |-> NoNonce, plan |-> NoFile, at |-> "prepare",
                     write |-> NoWrite]
  BY DEF StartPrepareDecision, Observable, Replacing, Process
<1> USE DEF account, states
<1>2. /\ ~Prepared' /\ Evidence'.revision = Revision' /\ state'.mode = "HALTED" /\ proc = NoProc
      /\ UNCHANGED <<Evidence, Revision, Last>>
  BY <1>1 DEF Authoritative, Evidence, Revision, Halted, Prepared, Last
<1>3. IsEvidence(r) /\ EvidenceWrite(r)
  BY <1>1, ObservationIsSound DEF InTxn, Halted
<1> HIDE DEF r
<1>4. proc' # NoProc => proc'.op = "prepare" /\ proc'.at \in {"previous", "prepare"}
  BY <1>1
<1>5. ProcTyped' /\ Placed'
  BY <1>1, <1>3 DEF ProcTyped, IsProcess, LifecycleOps, IsWrite, Placed, Writes, Writing, At
<1>6. Runs'
  BY <1>1, <1>2, <1>3, <1>4 DEF Runs, LifecycleOps, WritesEvidence, EvidenceWrite, ObserverRuns,
     InTxn,
       Writing, At, NoWrite
<1>7. StoreRuns' /\ Marks' /\ (Commands("recover") => Retries)'
  BY <1>1, <1>4 DEF StoreRuns, Marks, LifecycleOps, Commands, Writing, At, NoWrite
<1>8. (ReceiptPast /\ BetweenEpochs /\ Blocked)'
  BY <1>1, <1>2, <1>4 DEF Inv, MInv, ReceiptPast, IsUsed, BetweenEpochs, Blocked, Unapplied,
     LifecycleOps, Receipt, Evidence, At, Writing, Writes, Commands, InTxn, Prepared, Adopted,
     Session, HasRecovery, Recovery, AtSource
<1>9. Session = {} /\ policy.target <= day
  BY <1>1 DEF Inv, Typed, AccountTyped, StatesTyped, RInv, DayIsDecided
<1>10. (DayIsDecided /\ EvidenceChained)'
  BY <1>1, <1>2, <1>4, <1>9 DEF Inv, RInv, DayIsDecided, EvidenceChained, Session, At, Commands,
     Evidence, Quiet
<1>. QED
  BY <1>1, <1>5, <1>6, <1>7, <1>8, <1>10, MoveSound

-------------------------------------------------------------------------------
(***************************************************************************)
(* The recovery's steps that write no store.                               *)
(***************************************************************************)

\* A recovery goes to its next step and writes nothing yet.
LEMMA RecoverMoveSound ==
    ASSUME Inv, UNCHANGED <<account, registry, files, states>>, lineage' \in {lineage, TRUE},
           proc'.op = "recover", proc'.at # "trading",
           IsProcess(proc)', Placed', RecoveryRuns', WritesEvidence', StoreRuns', RecoveryMarks',
           Retries', EvidenceChained', ~(Writes("recovery", "apply") /\ state.marker # NoMarker)'
    PROVE  Inv'
<1> USE DEF account, states
<1>1. Runs' /\ ProcTyped' /\ Marks'
  BY DEF Runs, ProcTyped, LifecycleOps, Marks
<1>2. SUFFICES ASSUME proc' # NoProc PROVE Inv'
  BY EndSound
<1>3. ~(Writing /\ proc.write.store = "receipts")'
  BY DEF Placed, LifecycleOps, Writes, Writing, At
<1>4. (ReceiptPast /\ BetweenEpochs /\ Blocked)'
  BY <1>3 DEF Inv, MInv, ReceiptPast, BetweenEpochs, Blocked, Unapplied, Writing, Commands, InTxn,
       LifecycleOps, At, Receipt, Evidence, Recovery, HasRecovery, AtSource, Prepared, Adopted,
       Session, IsUsed
<1>5. DayIsDecided'
  BY DEF Inv, RInv, DayIsDecided, Session, At, Commands
<1>. QED
  BY <1>1, <1>4, <1>5, MoveSound

\* A recovery starts: its request is of the state and the session as they are.
LEMMA StartRecoverSound ==
    ASSUME Inv, NEW n \in Nonces, StartRecover(n)
    PROVE  Inv'
<1> DEFINE resumed == HasRecovery /\ Recovery.plan.nonce = n
           e == SemanticEvidence(n)
           q == IF resumed THEN Recovery.plan.request ELSE RecoveryRequest(n)
<1>1. /\ Halted /\ CanRecover(n)
      /\ UNCHANGED <<account, registry, files, lineage, states>>
      /\ proc' = [op |-> "recover", nonce |-> n,
                  plan |-> [request |-> q, resumed |-> resumed, semantic |-> e],
                  at |-> "acknowledge", write |-> NoWrite]
  BY DEF StartRecover, Process
<1> USE DEF account, states
<1>2. /\ ~Prepared /\ ~working /\ state.mode = "HALTED" /\ RecoveryReadable
      /\ Authoritative \/ IsRecoverySource(n)
      /\ Evidence.revision = Revision \/ Last.nonce = n
  BY <1>1 DEF CanRecover, Quiet, Authoritative, IsRecoverySource, Halted
<1>3. IsEvidence(e) /\ e.seq \in Nat
  BY DEF Inv, Typed, FilesTyped, SemanticEvidence, IsEvidence
<1>4. ~resumed =>
        /\ RequestStands(q) /\ q.session = Session /\ q.state = state.seq /\ q.evidence = e.seq
        /\ q \in Requests
  <2>1. Session \in SUBSET Nat /\ Adopted \in SUBSET Nat /\ Session \subseteq DOMAIN trades
    BY DEF Inv, Typed, AccountTyped, Session, Adopted
  <2>2. ~resumed => Adoptable /\ Adopted # {} /\ Session # {}
    BY <1>1 DEF CanRecover, Adopted
  <2>3. ~resumed =>
          q = [evidence |-> e.seq, session |-> Session, state |-> state.seq, adopted |-> Adopted]
    BY DEF RecoveryRequest
  <2>4. state.seq \in Nat
    BY DEF Inv, Typed, StatesTyped, IsState
  <2> HIDE DEF resumed, e, q
  <2>. QED
    BY <1>3, <2>1, <2>2, <2>3, <2>4 DEF RequestStands, Requests
<1>5. resumed => q \in Requests /\ IsUsed(n)
  <2>1. SUFFICES ASSUME resumed PROVE q \in Requests /\ IsUsed(n)
    OBVIOUS
  <2>2. Recovery \in Recoveries /\ CheckpointStands(Recovery.plan) /\ Recovery.plan.nonce = n
    BY <2>1 DEF Inv, Typed, FilesTyped, RInv, HasRecovery
  <2>3. q \in Requests
    BY <2>1, <2>2 DEF Recoveries, Checkpoints
  <2>4. IsUsed(n)
    BY <2>2 DEF CheckpointStands, IsUsed, Revision, Inv, Typed, RegistryTyped
  <2>. QED
    BY <2>3, <2>4
<1>6. ~IsUsed(n) => e = Evidence /\ Evidence.revision = Revision
  <2>1. ASSUME ~IsUsed(n) PROVE Evidence.rebind # n /\ Last.nonce # n
    BY <2>1 DEF Inv, EInv, EvidenceHolds, EvidenceHasReceipt, IsUsed, Typed, RegistryTyped,
       Revision,
                Last
  <2>. QED
    BY <1>2, <2>1 DEF SemanticEvidence
<1>7. IsProcess(proc)' /\ Placed'
  BY <1>1, <1>3, <1>4, <1>5 DEF IsProcess, LifecycleOps, Placed, NoWrite
<1> DEFINE p == [request |-> q, resumed |-> resumed, semantic |-> e]
<1>8. /\ proc' = [op |-> "recover", nonce |-> n, plan |-> p, at |-> "acknowledge",
                  write |-> NoWrite]
      /\ p.request = q /\ (p.resumed <=> resumed) /\ p.semantic = e
  BY <1>1
<1> HIDE DEF p
<1>9. RecoveryRuns' /\ WritesEvidence'
  BY <1>1, <1>2, <1>8 DEF RecoveryRuns, WritesEvidence, Writing, At, Place, Prepared, Evidence,
       Revision, Last
<1>10. StoreRuns'
  BY <1>1, <1>2, <1>8 DEF StoreRuns, Writing, At, Place, RecoveryReadable, HasRecovery, Recovery,
       Chained
<1> HIDE DEF e, q, resumed
<1>11. RecoveryMarks'
  BY <1>1, <1>4, <1>8 DEF RecoveryMarks, Place, Writes, Writing, At
<1>12. Retries'
  <2>1. /\ proc'.at = "acknowledge" /\ proc'.nonce = n /\ Place' = "acknowledge"
        /\ proc'.plan.request = q /\ (proc'.plan.resumed <=> resumed)
        /\ proc'.plan.semantic = e /\ ~Writing'
    BY <1>8 DEF Place, Writing, At
  <2>2. UNCHANGED <<Session, Evidence, Revision, Recovery>> /\ (IsUsed(n) <=> IsUsed(proc.nonce)')
    BY <1>1, <2>1 DEF Session, Evidence, Revision, Recovery, IsUsed
  <2>3. ~resumed => RequestStands(proc.plan.request)'
    BY <1>1, <1>4, <2>1 DEF RequestStands, Session, Adoptable, Adopted, Net
  <2>4. resumed => Recovery.plan.nonce = n
    BY DEF resumed
  <2>. QED
    BY <1>4, <1>5, <1>6, <2>1, <2>2, <2>3, <2>4 DEF Retries
<1>13. EvidenceChained'
  BY <1>1, <1>8 DEF Inv, RInv, EvidenceChained, At, Evidence
<1>. QED
  BY <1>1, <1>7, <1>8, <1>9, <1>10, <1>11, <1>12, <1>13, RecoverMoveSound DEF Writes, Writing, At

\* A process that starts to replace a record.
LEMMA ReplacingIs ==
    ASSUME NEW op, NEW n, NEW plan, NEW at, NEW x, NEW store, NEW record, NEW then
    PROVE  Replacing([op |-> op, nonce |-> n, plan |-> plan, at |-> at, write |-> x],
                     store, record, then) =
             [op |-> op, nonce |-> n, plan |-> plan, at |-> "previous",
              write |-> [store |-> store, record |-> record, then |-> then]]
<1> DEFINE w == [store |-> store, record |-> record, then |-> then]
           p == [op |-> op, nonce |-> n, plan |-> plan, at |-> at, write |-> x]
           q == [p EXCEPT !.at = "previous"]
           r == [q EXCEPT !.write = w]
<1>1. q = [op |-> op, nonce |-> n, plan |-> plan, at |-> "previous", write |-> x]
  OBVIOUS
<1> HIDE DEF w
<1>2. [p EXCEPT !.at = "previous", !.write = w] = r
  OBVIOUS
<1>3. Replacing(p, store, record, then) = r
  BY <1>2 DEF Replacing, w
<1> HIDE DEF q
<1>4. r = [op |-> op, nonce |-> n, plan |-> plan, at |-> "previous", write |-> w]
  BY <1>1
<1>. QED
  BY <1>3, <1>4 DEF w

\* A recovery's process as a record.
LEMMA RecoverIsRecord ==
    ASSUME Inv, proc # NoProc, proc.op = "recover"
    PROVE  /\ proc = [op |-> "recover", nonce |-> proc.nonce, plan |-> proc.plan, at |-> proc.at,
                      write |-> proc.write]
           /\ proc.nonce \in Nonces /\ IsEvidence(proc.plan.semantic)
           /\ proc.plan.request \in Requests /\ proc.plan.resumed \in BOOLEAN
           /\ proc.plan = [request |-> proc.plan.request, resumed |-> proc.plan.resumed,
                           semantic |-> proc.plan.semantic]
           /\ RecoveryRuns /\ RecoveryMarks /\ Retries
BY DEF Inv, Typed, ProcTyped, IsProcess, LifecycleOps, EInv, Runs, MInv, Marks, RInv, Commands

\* What a recovery that has been acknowledged knows of the registry and the evidence.
LEMMA BoundRecovery ==
    ASSUME Inv, proc # NoProc, proc.op = "recover", Place = "bind"
    PROVE  /\ Last.nonce = proc.nonce /\ Last.kind = "recovery" /\ RecoveryReadable
           /\ ~proc.plan.resumed =>
                /\ Last.request = proc.plan.request
                /\ proc.plan.request.evidence = proc.plan.semantic.seq
                /\ IF Evidence.revision = Revision
                   THEN proc.plan.request.evidence < Evidence.seq
                   ELSE proc.plan.request.evidence = Evidence.seq
<1>1. RecoveryRuns /\ Retries
  BY RecoverIsRecord
<1>2. StoreRuns /\ LastRequest
  BY DEF Inv, SInv, RInv
<1>. QED
  BY <1>1, <1>2 DEF RecoveryRuns, Retries, StoreRuns, LastRequest

\* A recovery finds its evidence bound, or is about to bind it.
LEMMA BindRecoverySound ==
    ASSUME Inv, BindRecovery
    PROVE  Inv'
<1> DEFINE source == proc.plan.semantic
           target == Rebound(source, source.day, source.epoch, proc.nonce)
<1>1. /\ proc # NoProc /\ proc.op = "recover" /\ proc.at = "bind" /\ Place = "bind"
      /\ UNCHANGED <<account, registry, files, lineage, states>>
  BY DEF BindRecovery, At, Place
<1> USE DEF account, states
<1>2. /\ proc = [op |-> "recover", nonce |-> proc.nonce, plan |-> proc.plan, at |-> "bind",
                 write |-> proc.write]
      /\ IsEvidence(source) /\ RecoveryRuns /\ RecoveryMarks /\ Retries
      /\ proc.nonce \in Nonces
      /\ proc.plan.request \in Requests /\ proc.plan.resumed \in BOOLEAN
  BY <1>1, RecoverIsRecord
<1>3. /\ Last.nonce = proc.nonce /\ Last.kind = "recovery" /\ RecoveryReadable
      /\ ~proc.plan.resumed =>
           /\ Last.request = proc.plan.request
           /\ proc.plan.request.evidence = source.seq
           /\ IF Evidence.revision = Revision
              THEN proc.plan.request.evidence < Evidence.seq
              ELSE proc.plan.request.evidence = Evidence.seq
  BY <1>1, BoundRecovery
<1>4. /\ IsEvidence(target) /\ target.seq = Evidence.seq + 1 /\ target.revision = Revision
      /\ target.rebind = proc.nonce /\ target.epoch = source.epoch /\ target.day = source.day
  BY <1>2 DEF Rebound, IsEvidence, Inv, Typed, FilesTyped, RegistryTyped, Revision
<1>5. CASE proc' = NoProc
  BY <1>1, <1>5, EndSound
<1>6. CASE /\ SameBinding(Evidence, target) /\ files.evidence.previous = source
           /\ proc' = [proc EXCEPT !.at = "begin"]
  <2> DEFINE u == proc.nonce
             m == proc.plan
             w == proc.write
  <2>1. /\ proc' = [op |-> "recover", nonce |-> u, plan |-> m, at |-> "begin",
                    write |-> w]
        /\ Evidence.revision = Revision
    BY <1>2, <1>4, <1>6 DEF SameBinding
  <2>2. ~m.resumed => Evidence.seq = m.request.evidence + 1
    <3>1. EvidenceChained /\ source.seq \in Nat /\ Evidence.seq \in Nat
      BY <1>2 DEF Inv, RInv, IsEvidence, Typed, FilesTyped
    <3>. QED
      BY <1>3, <1>6, <2>1, <3>1 DEF EvidenceChained
  <2>3. /\ u \in Nonces /\ m.resumed \in BOOLEAN /\ IsEvidence(m.semantic) /\ m.request \in Requests
        /\ m = [request |-> m.request, resumed |-> m.resumed, semantic |-> m.semantic]
        /\ Last.nonce = u /\ Last.kind = "recovery" /\ RecoveryReadable
    BY <1>1, <1>2, <1>3, RecoverIsRecord
  <2>4. /\ ~Prepared /\ state.mode = "HALTED" /\ ~working
        /\ m.resumed => HasRecovery /\ Recovery.plan.nonce = u /\ IsUsed(u)
        /\ ~m.resumed =>
             /\ m.request.state = state.seq /\ m.request.session = Session
             /\ Last = [kind |-> "recovery", nonce |-> u, request |-> m.request]
             /\ m.request.evidence = m.semantic.seq
    BY <1>1, <1>2 DEF RecoveryRuns, RecoveryMarks, Retries, Inv, SInv, StoreRuns
  <2> HIDE DEF u, m, w
  <2>5. /\ Place' = "begin" /\ ~Writing' /\ proc'.plan = m /\ proc'.nonce = u
        /\ proc'.at = "begin" /\ proc'.op = "recover"
    BY <2>1 DEF Place, Writing, At
  <2>6. IsProcess(proc)' /\ Placed'
    BY <2>1, <2>3 DEF IsProcess, LifecycleOps, Placed
  <2>7. RecoveryRuns' /\ WritesEvidence'
    BY <1>1, <2>3, <2>4, <2>5 DEF RecoveryRuns, WritesEvidence, Prepared, Evidence, Revision, Last
  <2>8. StoreRuns'
    BY <1>1, <2>3, <2>4, <2>5 DEF StoreRuns, RecoveryReadable, HasRecovery, Recovery, Chained
  <2>9. RecoveryMarks'
    BY <1>1, <2>4, <2>5 DEF RecoveryMarks, Writes
  <2>10. UNCHANGED <<Session, Evidence, Revision, Recovery, Last>>
         /\ (IsUsed(u) <=> IsUsed(proc.nonce)')
    BY <1>1, <2>5 DEF Session, Evidence, Revision, Recovery, IsUsed, Last
  <2>11. Retries'
    BY <2>1, <2>2, <2>4, <2>5, <2>10 DEF Retries
  <2>12. EvidenceChained'
    BY <1>1, <2>5 DEF Inv, RInv, EvidenceChained, At, Evidence
  <2>. QED
    BY <1>1, <2>5, <2>6, <2>7, <2>8, <2>9, <2>11, <2>12, RecoverMoveSound DEF Writes
<1>7. CASE /\ ~SameBinding(Evidence, target) /\ Evidence = source
           /\ proc' = Replacing(proc, "evidence", target, "begin")
  <2> DEFINE u == proc.nonce
             m == proc.plan
             e == target
  <2>1. proc' = [op |-> "recover", nonce |-> u, plan |-> m, at |-> "previous",
                 write |-> [store |-> "evidence", record |-> e, then |-> "begin"]]
    BY <1>1, <1>2, <1>7, ReplacingIs
  <2>3. /\ u \in Nonces /\ m.resumed \in BOOLEAN /\ IsEvidence(m.semantic) /\ m.request \in Requests
        /\ m = [request |-> m.request, resumed |-> m.resumed, semantic |-> m.semantic]
        /\ Last.nonce = u /\ Last.kind = "recovery" /\ RecoveryReadable
        /\ m.semantic = Evidence
    BY <1>1, <1>2, <1>3, <1>7, RecoverIsRecord
  <2>4. /\ ~Prepared /\ state.mode = "HALTED" /\ ~working
        /\ m.resumed => HasRecovery /\ Recovery.plan.nonce = u /\ IsUsed(u)
        /\ ~m.resumed =>
             /\ m.request.state = state.seq /\ m.request.session = Session
             /\ Last = [kind |-> "recovery", nonce |-> u, request |-> m.request]
             /\ m.request.evidence = m.semantic.seq
    BY <1>1, <1>2 DEF RecoveryRuns, RecoveryMarks, Retries, Inv, SInv, StoreRuns
  <2>5. /\ IsEvidence(e) /\ e.seq = Evidence.seq + 1 /\ e.revision = Revision
        /\ e.rebind = u /\ e.epoch = Evidence.epoch
    BY <1>4, <1>7
  <2> HIDE DEF u, m, e
  <2>6. /\ Place' = "bind" /\ proc'.plan = m /\ proc'.nonce = u
        /\ proc'.at = "previous" /\ proc'.op = "recover"
        /\ proc'.write = [store |-> "evidence", record |-> e, then |-> "begin"]
    BY <2>1 DEF Place
  <2>7. IsProcess(proc)' /\ Placed'
    BY <2>1, <2>3, <2>5 DEF IsProcess, LifecycleOps, Placed, IsWrite, Writes, Writing, At
  <2>8. RecoveryRuns' /\ WritesEvidence'
    BY <1>1, <2>3, <2>4, <2>5, <2>6 DEF RecoveryRuns, WritesEvidence, EvidenceWrite, Prepared,
         Evidence, Revision, Last, InTxn, LifecycleOps
  <2>9. StoreRuns'
    BY <1>1, <2>3, <2>4, <2>6 DEF StoreRuns, RecoveryReadable, HasRecovery, Recovery, Chained
  <2>10. RecoveryMarks'
    BY <1>1, <2>4, <2>6 DEF RecoveryMarks, Writes
  <2>11. UNCHANGED <<Session, Evidence, Revision, Recovery, Last>>
         /\ (IsUsed(u) <=> IsUsed(proc.nonce)')
    BY <1>1, <2>6 DEF Session, Evidence, Revision, Recovery, IsUsed, Last
  <2>12. Retries'
    BY <2>3, <2>4, <2>6, <2>11 DEF Retries
  <2>13. EvidenceChained'
    BY <1>1, <2>6 DEF Inv, RInv, EvidenceChained, At, Evidence
  <2>. QED
    BY <1>1, <2>6, <2>7, <2>8, <2>9, <2>10, <2>12, <2>13, RecoverMoveSound DEF Writes
<1>. QED
  BY <1>5, <1>6, <1>7 DEF BindRecovery, Go, End

\* A recovery whose marker is in the state is about to be committed.
LEMMA CommitRecoverySound ==
    ASSUME Inv, CommitRecovery
    PROVE  Inv'
<1> DEFINE u == proc.nonce
           m == proc.plan
           x == proc.write
           r == RecoveryRecord("committed", Recovery.plan, Recovery.by)
<1>1. /\ proc # NoProc /\ proc.op = "recover" /\ proc.at = "commit" /\ Place = "commit"
      /\ UNCHANGED <<account, registry, files, lineage, states>>
      /\ proc' = Replacing(proc, "recovery", r, "end")
  BY DEF CommitRecovery, At, Place
<1> USE DEF account, states
<1>2. /\ proc = [op |-> "recover", nonce |-> u, plan |-> m, at |-> "commit", write |-> x]
      /\ u \in Nonces /\ IsEvidence(m.semantic)
      /\ m.request \in Requests /\ m.resumed \in BOOLEAN
      /\ m = [request |-> m.request, resumed |-> m.resumed, semantic |-> m.semantic]
      /\ RecoveryRuns /\ RecoveryMarks /\ Retries
  BY <1>1, RecoverIsRecord
<1>3. /\ HasRecovery /\ Recovery \in Recoveries /\ CheckpointStands(Recovery.plan)
      /\ Recovery.status = "prepared" /\ AtTarget(Recovery.plan)
  BY <1>1, <1>2 DEF Inv, SInv, StoreRuns, Typed, FilesTyped, HasRecovery, RInv, RecoveryMarks
<1>4. /\ r = [seq |-> Recovery.seq + 1, status |-> "committed", plan |-> Recovery.plan,
              by |-> Recovery.by]
      /\ r \in Recoveries
  BY <1>3 DEF RecoveryRecord, Recoveries
<1>5. /\ ~Prepared /\ state.mode = "HALTED" /\ ~working
      /\ ~m.resumed => m.request.evidence = m.semantic.seq
  BY <1>1, <1>2 DEF RecoveryRuns, Retries
<1> HIDE DEF r, m, u, x
<1>6. proc' = [op |-> "recover", nonce |-> u, plan |-> m, at |-> "previous",
               write |-> [store |-> "recovery", record |-> r, then |-> "end"]]
  BY <1>1, <1>2, ReplacingIs
<1>7. /\ Place' = "end" /\ proc'.plan = m /\ proc'.nonce = u
      /\ proc'.at = "previous" /\ proc'.op = "recover"
      /\ proc'.write = [store |-> "recovery", record |-> r, then |-> "end"]
  BY <1>6 DEF Place
<1>8. IsProcess(proc)' /\ Placed'
  BY <1>2, <1>4, <1>6 DEF IsProcess, LifecycleOps, Placed, IsWrite, Writes, Writing, At
<1>9. RecoveryRuns' /\ WritesEvidence'
  BY <1>1, <1>5, <1>7 DEF RecoveryRuns, WritesEvidence, Prepared
<1>10. StoreRuns'
  BY <1>1, <1>3, <1>4, <1>7 DEF StoreRuns, HasRecovery, Recovery, At
<1>11. RecoveryMarks'
  <2>1. Recovery' = Recovery /\ AtTarget(Recovery.plan)'
    BY <1>1, <1>3 DEF Recovery, AtTarget
  <2>2. ~Writes("recovery", "apply")'
    BY <1>7 DEF Writes
  <2>. QED
    BY <1>3, <1>4, <1>7, <2>1, <2>2 DEF RecoveryMarks
<1>12. (proc.write.record.plan)' = Recovery.plan
  BY <1>4, <1>7
<1>13. CheckpointStands(proc.write.record.plan)'
  BY <1>1, <1>3, <1>12 DEF CheckpointStands, Revision, Evidence, Session
<1>14. Retries'
  BY <1>5, <1>7, <1>13 DEF Retries
<1>15. EvidenceChained'
  BY <1>1, <1>7 DEF Inv, RInv, EvidenceChained, At, Evidence
<1>. QED
  BY <1>1, <1>7, <1>8, <1>9, <1>10, <1>11, <1>14, <1>15, RecoverMoveSound DEF Writes

\* The checkpoint of a recovery that has bound the evidence.
LEMMA NewCheckpointStands ==
    ASSUME Inv, proc # NoProc, proc.op = "recover", Place \in {"begin", "create"},
           ~proc.plan.resumed
    PROVE  /\ NewCheckpoint \in Checkpoints /\ CheckpointStands(NewCheckpoint)
           /\ AtSource(NewCheckpoint) /\ NewCheckpoint.nonce = proc.nonce
           /\ Last.kind = "recovery" /\ Evidence.revision = Revision
           /\ Adopted # {}
<1> DEFINE c == NewCheckpoint
           q == proc.plan.request
<1>1. /\ c = [nonce |-> proc.nonce, request |-> q, revision |-> Revision, policy |-> policy.seq,
              bound |-> Evidence.seq]
      /\ c.nonce = proc.nonce /\ c.request = q /\ c.revision = Revision /\ c.policy = policy.seq
      /\ c.bound = Evidence.seq
  BY DEF NewCheckpoint
<1>2. /\ q.state = state.seq /\ q.session = Session /\ Evidence.revision = Revision
      /\ Evidence.seq = q.evidence + 1
      /\ Last = [kind |-> "recovery", nonce |-> proc.nonce, request |-> q]
      /\ proc.nonce \in Nonces /\ q \in Requests
  BY RecoverIsRecord DEF RecoveryMarks, Retries
<1>3. /\ Revision \in Nat /\ Revision > 0 /\ policy.seq \in Nat /\ Evidence.seq \in Nat
      /\ state.seq \in Nat
  BY DEF Inv, Typed, StatesTyped, RegistryTyped, Revision, FilesTyped, IsEvidence, IsState
<1>4. Adopted # {}
  <2>1. RequestStands(Last.request)
    BY <1>2 DEF Inv, RInv, LastRequest
  <2>. QED
    BY <1>2, <2>1 DEF RequestStands
<1> HIDE DEF c, q
<1>5. c \in Checkpoints
  BY <1>1, <1>2, <1>3 DEF Checkpoints
<1>6. CheckpointStands(c)
  BY <1>1, <1>2, <1>3 DEF CheckpointStands, Last
<1>7. AtSource(c)
  BY <1>1, <1>2 DEF AtSource
<1>. QED
  BY <1>1, <1>2, <1>4, <1>5, <1>6, <1>7 DEF c

\* A recovery is about to be prepared, unless another one still is.
LEMMA BeginRecoverySound ==
    ASSUME Inv, BeginRecovery
    PROVE  Inv'
<1> DEFINE u == proc.nonce
           m == proc.plan
           x == proc.write
           c == NewCheckpoint
           r == RecoveryRecord("prepared", c, NoNonce)
<1>1. /\ proc # NoProc /\ proc.op = "recover" /\ proc.at = "begin" /\ Place = "begin"
      /\ UNCHANGED <<account, registry, files, states>>
  BY DEF BeginRecovery, At, Place
<1> USE DEF account, states
<1>2. /\ proc = [op |-> "recover", nonce |-> u, plan |-> m, at |-> "begin", write |-> x]
      /\ u \in Nonces /\ IsEvidence(m.semantic)
      /\ m.request \in Requests /\ m.resumed \in BOOLEAN
      /\ m = [request |-> m.request, resumed |-> m.resumed, semantic |-> m.semantic]
      /\ RecoveryRuns /\ RecoveryMarks /\ Retries /\ StoreRuns
  BY <1>1, RecoverIsRecord DEF Inv, SInv
<1>3. /\ ~Prepared /\ state.mode = "HALTED" /\ ~working /\ RecoveryReadable
      /\ m.resumed => HasRecovery
      /\ ~m.resumed =>
           /\ m.request.state = state.seq /\ m.request.session = Session
           /\ Last = [kind |-> "recovery", nonce |-> u, request |-> m.request]
           /\ Evidence.revision = Revision /\ Evidence.seq = m.request.evidence + 1
           /\ m.request.evidence = m.semantic.seq
  BY <1>1, <1>2 DEF RecoveryRuns, RecoveryMarks, Retries, StoreRuns
<1>4. CASE proc' = NoProc /\ UNCHANGED lineage
  BY <1>1, <1>4, EndSound
<1>5. CASE ~HasRecovery /\ lineage' = TRUE /\ proc' = [proc EXCEPT !.at = "create"]
  <2> HIDE DEF u, m, x
  <2>1. /\ proc' = [op |-> "recover", nonce |-> u, plan |-> m, at |-> "create", write |-> x]
        /\ ~m.resumed /\ Recovery = NoFile
    BY <1>2, <1>3, <1>5 DEF HasRecovery, RecoveryReadable, Recovery
  <2>2. /\ Place' = "create" /\ ~Writing' /\ proc'.plan = m /\ proc'.nonce = u
        /\ proc'.at = "create" /\ proc'.op = "recover"
    BY <2>1 DEF Place, Writing, At
  <2>3. IsProcess(proc)' /\ Placed'
    BY <1>2, <2>1 DEF IsProcess, LifecycleOps, Placed
  <2>4. RecoveryRuns' /\ WritesEvidence'
    BY <1>1, <1>3, <2>2 DEF RecoveryRuns, WritesEvidence, Prepared
  <2>5. StoreRuns'
    BY <1>1, <1>5, <2>1, <2>2 DEF StoreRuns, Recovery
  <2>6. RecoveryMarks'
    BY <1>1, <1>3, <2>2 DEF RecoveryMarks, Writes
  <2>7. UNCHANGED <<Session, Evidence, Revision, Last>>
    BY <1>1 DEF Session, Evidence, Revision, Last
  <2>8. Retries'
    BY <1>3, <2>1, <2>2, <2>7 DEF Retries
  <2>9. EvidenceChained'
    BY <1>1, <2>2 DEF Inv, RInv, EvidenceChained, At, Evidence
  <2>. QED
    BY <1>1, <1>5, <2>2, <2>3, <2>4, <2>5, <2>6, <2>8, <2>9, RecoverMoveSound DEF Writes
<1>6. CASE HasRecovery /\ m.resumed /\ UNCHANGED lineage /\ proc' = [proc EXCEPT !.at = "apply"]
  <2> HIDE DEF u, m, x
  <2>1. proc' = [op |-> "recover", nonce |-> u, plan |-> m, at |-> "apply", write |-> x]
    BY <1>2, <1>6
  <2>2. /\ Place' = "apply" /\ ~Writing' /\ proc'.plan = m /\ proc'.nonce = u
        /\ proc'.at = "apply" /\ proc'.op = "recover"
    BY <2>1 DEF Place, Writing, At
  <2>3. IsProcess(proc)' /\ Placed'
    BY <1>2, <2>1 DEF IsProcess, LifecycleOps, Placed
  <2>4. RecoveryRuns' /\ WritesEvidence'
    BY <1>1, <1>3, <2>2 DEF RecoveryRuns, WritesEvidence, Prepared
  <2>5. StoreRuns' /\ RecoveryMarks'
    BY <1>1, <1>6, <2>2 DEF StoreRuns, HasRecovery, Recovery, RecoveryMarks, Writes
  <2>6. Retries'
    BY <1>6, <2>2 DEF Retries
  <2>7. EvidenceChained'
    BY <1>1, <2>2 DEF Inv, RInv, EvidenceChained, At, Evidence
  <2>. QED
    BY <1>1, <1>6, <2>2, <2>3, <2>4, <2>5, <2>6, <2>7, RecoverMoveSound DEF Writes
<1>7. CASE /\ HasRecovery /\ ~m.resumed /\ UNCHANGED lineage
           /\ proc' = Replacing(proc, "recovery", r, "apply")
  <2>1. /\ c \in Checkpoints /\ CheckpointStands(c) /\ AtSource(c)
        /\ Last.kind = "recovery" /\ Evidence.revision = Revision /\ Adopted # {}
    BY <1>1, <1>7, NewCheckpointStands
  <2>2. HasRecovery /\ Recovery \in Recoveries
    BY <1>7 DEF Inv, Typed, FilesTyped, HasRecovery
  <2> HIDE DEF u, m, x, c
  <2>3. /\ r = [seq |-> Recovery.seq + 1, status |-> "prepared", plan |-> c, by |-> NoNonce]
        /\ r \in Recoveries
    BY <2>1, <2>2 DEF RecoveryRecord, Recoveries
  <2> HIDE DEF r
  <2>4. proc' = [op |-> "recover", nonce |-> u, plan |-> m, at |-> "previous",
                 write |-> [store |-> "recovery", record |-> r, then |-> "apply"]]
    BY <1>2, <1>7, ReplacingIs
  <2>5. /\ Place' = "apply" /\ proc'.plan = m /\ proc'.nonce = u
        /\ proc'.at = "previous" /\ proc'.op = "recover"
        /\ proc'.write = [store |-> "recovery", record |-> r, then |-> "apply"]
        /\ (proc.write.record.plan)' = c
    BY <2>3, <2>4 DEF Place
  <2>6. ProcTyped' /\ Placed'
    BY <1>2, <2>3, <2>4 DEF ProcTyped, IsProcess, LifecycleOps, Placed, IsWrite, Writes,
       Writing, At
  <2>7. Runs'
    BY <1>1, <1>3, <2>5 DEF Runs, RecoveryRuns, WritesEvidence, Prepared, LifecycleOps
  <2>8. StoreRuns'
    BY <1>1, <1>7, <2>2, <2>3, <2>5 DEF StoreRuns, HasRecovery, Recovery, At
  <2>9. Marks'
    BY <1>1, <2>1, <2>3, <2>5 DEF Marks, RecoveryMarks, Writes, Recovery, AtSource, LifecycleOps
  <2>10. CheckpointStands(proc.write.record.plan)'
    BY <1>1, <2>1, <2>5 DEF CheckpointStands, Revision, Evidence, Session
  <2>11. Retries'
    BY <1>3, <2>5, <2>10 DEF Retries
  <2>12. (DayIsDecided /\ EvidenceChained)'
    BY <1>1, <2>5 DEF Inv, RInv, DayIsDecided, EvidenceChained, At, Evidence, Session, Commands
  <2>13. Receipt.evidence < Evidence.seq /\ Receipt.epoch = policy.epoch
    BY <2>1 DEF Inv, MInv, ReceiptPast, BetweenEpochs, Last
  <2>14. (ReceiptPast /\ BetweenEpochs)'
    BY <1>1, <2>5 DEF Inv, MInv, ReceiptPast, BetweenEpochs, Writing, Commands, At, Receipt,
         Evidence, Prepared, Adopted, Session, IsUsed
  <2>15. Blocked'
    BY <1>1, <1>3, <2>5, <2>13 DEF Blocked, Writing, Commands, InTxn, LifecycleOps, At, Receipt,
         Evidence, Prepared
  <2>. QED
    BY <1>1, <1>7, <2>6, <2>7, <2>8, <2>9, <2>11, <2>12, <2>14, <2>15, MoveSound
<1>. QED
  BY <1>1, <1>4, <1>5, <1>6, <1>7 DEF BeginRecovery, Go, End

\* The first record is written in place.
LEMMA CreateRecoverySound ==
    ASSUME Inv, CreateRecovery
    PROVE  Inv'
<1> DEFINE u == proc.nonce
           m == proc.plan
           x == proc.write
           c == NewCheckpoint
           r == RecoveryRecord("prepared", c, NoNonce)
<1>1. /\ proc # NoProc /\ proc.at = "create" /\ Place = "create" /\ proc.op = "recover"
      /\ UNCHANGED <<account, registry, lineage, states>>
      /\ files' = [files EXCEPT !.recovery.current = r]
      /\ proc' = [proc EXCEPT !.at = "apply"]
  <2>1. proc # NoProc /\ proc.at = "create" /\ Place = "create"
    BY DEF CreateRecovery, At, Place
  <2>2. proc.op = "recover"
    BY <2>1 DEF Inv, Placed, LifecycleOps, Writes, Writing, At, AfterAcknowledged, AfterBound,
                AfterPolicy, AfterGeneric
  <2>. QED
    BY <2>1, <2>2 DEF CreateRecovery, Go
<1> USE DEF account, states
<1>2. /\ proc = [op |-> "recover", nonce |-> u, plan |-> m, at |-> "create", write |-> x]
      /\ u \in Nonces /\ IsEvidence(m.semantic)
      /\ m.request \in Requests /\ m.resumed \in BOOLEAN
      /\ m = [request |-> m.request, resumed |-> m.resumed, semantic |-> m.semantic]
      /\ RecoveryRuns /\ Retries /\ StoreRuns
  BY <1>1, RecoverIsRecord DEF Inv, SInv
<1>3. /\ ~Prepared /\ state.mode = "HALTED" /\ ~working /\ Recovery = NoFile /\ lineage
      /\ ~m.resumed /\ ~HasRecovery /\ m.request.evidence = m.semantic.seq
  BY <1>1, <1>2 DEF RecoveryRuns, Retries, StoreRuns, HasRecovery
<1>4. /\ c \in Checkpoints /\ CheckpointStands(c)
  BY <1>1, <1>3, NewCheckpointStands
<1> HIDE DEF u, m, x, c
<1>5. /\ r = [seq |-> 1, status |-> "prepared", plan |-> c, by |-> NoNonce]
      /\ r \in Recoveries
  BY <1>3, <1>4 DEF RecoveryRecord, Recoveries
<1> HIDE DEF r
<1>6. /\ files = [evidence |-> files.evidence, recovery |-> files.recovery,
                  receipts |-> files.receipts]
      /\ files.recovery = [current |-> NoFile, previous |-> NoFile]
      /\ state.marker = NoMarker
  BY <1>3, NoFileIsNothingElse DEF Inv, Typed, FilesTyped, IsStore, Recovery, SInv, StoreShape,
     MInv, MarkerHasRecovery,
     HasRecovery
<1>7. /\ files'.evidence = files.evidence /\ files'.receipts = files.receipts
      /\ files'.recovery = [current |-> r, previous |-> NoFile]
      /\ files' = [evidence |-> files'.evidence, recovery |-> files'.recovery,
                   receipts |-> files'.receipts]
  BY <1>1, <1>6
<1>8. proc' = [op |-> "recover", nonce |-> u, plan |-> m, at |-> "apply", write |-> x]
  BY <1>1, <1>2
<1>9. /\ Place' = "apply" /\ ~Writing' /\ proc'.plan = m /\ proc'.nonce = u
      /\ proc'.at = "apply" /\ proc'.op = "recover"
  BY <1>8 DEF Place, Writing, At
<1>10. UNCHANGED <<Evidence, Receipt, Session, Revision, Last, Adopted, Prepared>>
       /\ Recovery' = r /\ HasRecovery'
  BY <1>1, <1>5, <1>7, NoFileIsNothingElse
     DEF Evidence, Receipt, Session, Revision, Last, Adopted, Prepared, Recovery, HasRecovery
<1>11. Typed' /\ Placed'
  <2>1. FilesTyped'
    BY <1>1, <1>5, <1>7, <1>10 DEF Inv, Typed, FilesTyped, IsStore
  <2>2. ProcTyped' /\ Placed'
    BY <1>2, <1>8 DEF ProcTyped, IsProcess, LifecycleOps, Placed
  <2>. QED
    BY <1>1, <2>1, <2>2 DEF Inv, Typed, AccountTyped, RegistryTyped, StatesTyped, Revision
<1>12. EInv'
  <2>1. Runs'
    BY <1>1, <1>3, <1>9 DEF Runs, RecoveryRuns, WritesEvidence, Prepared, LifecycleOps
  <2>. QED
    BY <1>1, <1>3, <1>10, <2>1 DEF Inv, EInv, EvidenceHolds, NonceOnce, EvidenceHasReceipt,
         MissesOne, OneEpoch, Effects, Before, Acknowledges
<1>13. SInv'
  BY <1>1, <1>3, <1>5, <1>7, <1>9, <1>10 DEF SInv, StoreShape, StoreRuns, Recovery
<1>14. MInv'
  BY <1>1, <1>3, <1>6, <1>9, <1>10 DEF Inv, MInv, MarkerHasRecovery, TargetsMarker, Marks,
       RecoveryMarks, ReceiptPast, BetweenEpochs, Blocked, Unapplied, LifecycleOps, Commands, At,
       Writes, IsUsed
<1>15. RInv'
  <2>1. CheckpointStands(Recovery.plan)'
    BY <1>1, <1>4, <1>5, <1>10 DEF CheckpointStands
  <2>2. Retries'
    BY <1>3, <1>9 DEF Retries
  <2>3. (TradesArePast /\ DayIsDecided /\ EvidenceChained)'
    BY <1>1, <1>7, <1>9, <1>10 DEF Inv, RInv, TradesArePast, DayIsDecided, EvidenceChained, At,
         Commands
  <2>4. LastRequest'
    BY <1>1, <1>10 DEF Inv, RInv, LastRequest, RequestStands, Adoptable, Net, Session
  <2>. QED
    BY <2>1, <2>2, <2>3, <2>4 DEF RInv
<1>. QED
  BY <1>11, <1>12, <1>13, <1>14, <1>15 DEF Inv

-------------------------------------------------------------------------------
(***************************************************************************)
(* The registry accepts an operation.                                      *)
(***************************************************************************)

\* The log with one more operation.
LEMMA AppendIsSeq ==
    ASSUME NEW S, NEW s \in Seq(S), NEW e
    PROVE  /\ Append(s, e) \in Seq(S \cup {e}) /\ Len(Append(s, e)) = Len(s) + 1
           /\ \A i \in 1..Len(s) : Append(s, e)[i] = s[i]
           /\ Append(s, e)[Len(s) + 1] = e
<1>1. s \in Seq(S \cup {e}) /\ Len(s) \in Nat
  OBVIOUS
<1>. QED
  BY <1>1

\* What the registry's acknowledgement of an operation changes.
LEMMA AcknowledgedFacts ==
    ASSUME Inv, NEW kind, NEW n, NEW request, NEW epoch, ~IsUsed(n),
           registry' = Acknowledged(kind, n, request, epoch),
           IsOperation([kind |-> kind, nonce |-> n, request |-> request])
    PROVE  /\ RegistryTyped' /\ NonceOnce' /\ Revision' = Revision + 1
           /\ Revision \in Nat /\ Revision > 0
           /\ \A i \in 1..Revision : registry'.log[i] = registry.log[i]
           /\ Last' = [kind |-> kind, nonce |-> n, request |-> request]
           /\ Last' = registry'.log[Revision']
           /\ registry'.epoch = epoch /\ registry'.others = registry.others
<1> DEFINE e == [kind |-> kind, nonce |-> n, request |-> request]
<1>1. PICK S : registry.log \in Seq(S)
  BY DEF Inv, Typed, RegistryTyped
<1>2. /\ registry = [log |-> registry.log, epoch |-> registry.epoch, others |-> registry.others]
      /\ Revision = Len(registry.log) /\ Revision \in Nat /\ Revision > 0
      /\ \A i \in 1..Revision : IsOperation(registry.log[i])
  BY <1>1 DEF Inv, Typed, RegistryTyped, Revision
<1>3. IsOperation(e) /\ e.nonce = n
  OBVIOUS
<1>4. registry' = [registry EXCEPT !.log = Append(@, e), !.epoch = epoch]
  BY DEF Acknowledged
<1>5. /\ registry' = [log |-> registry'.log, epoch |-> registry'.epoch,
                      others |-> registry'.others]
      /\ registry'.log = Append(registry.log, e)
      /\ registry'.epoch = epoch /\ registry'.others = registry.others
  <2> DEFINE f == [registry EXCEPT !.log = Append(@, e)]
  <2>1. f = [log |-> Append(registry.log, e), epoch |-> registry.epoch,
             others |-> registry.others]
    <3>1. PICK log : log = Append(registry.log, e)
      OBVIOUS
    <3>2. registry = [log |-> registry.log, epoch |-> registry.epoch,
                      others |-> registry.others]
      BY <1>2
    <3>3. f = [registry EXCEPT !.log = log]
      BY <3>1
    <3> HIDE DEF f, e
    <3>. QED
      BY <3>1, <3>2, <3>3
  <2>2. registry' = [f EXCEPT !.epoch = epoch]
    BY <1>4
  <2> HIDE DEF f, e
  <2>3. registry' = [log |-> Append(registry.log, e), epoch |-> epoch,
                     others |-> registry.others]
    BY <2>1, <2>2
  <2>. QED
    BY <2>3
<1> HIDE DEF e
<1>6. /\ registry'.log \in Seq(S \cup {e}) /\ Len(registry'.log) = Len(registry.log) + 1
      /\ \A i \in 1..Len(registry.log) : registry'.log[i] = registry.log[i]
      /\ registry'.log[Len(registry.log) + 1] = e
  BY <1>1, <1>5, AppendIsSeq
<1>7. /\ Revision' = Revision + 1 /\ Last' = e /\ registry'.log[Revision'] = e
      /\ \A i \in 1..Revision : registry'.log[i] = registry.log[i]
  BY <1>2, <1>6 DEF Revision, Last
<1>8. \A i \in 1..Revision' : i \in 1..Revision \/ i = Revision'
  BY <1>2, <1>7
<1>9. RegistryTyped'
  <2>1. \A i \in 1..Revision' : IsOperation(registry'.log[i])
    BY <1>2, <1>3, <1>7, <1>8
  <2>2. Revision' > 0
    BY <1>2, <1>7
  <2>. QED
    BY <1>5, <1>6, <2>1, <2>2 DEF RegistryTyped, IsOperation
<1>10. \A i \in 1..Revision : registry.log[i].nonce # n
  BY <1>1, <1>2 DEF IsUsed
<1>11. NonceOnce'
  <2>1. SUFFICES ASSUME NEW i \in 1..Revision', NEW j \in 1..Revision',
                        registry'.log[i].nonce = registry'.log[j].nonce
                 PROVE  i = j
    BY DEF NonceOnce
  <2>2. CASE i \in 1..Revision /\ j \in 1..Revision
    BY <1>7, <2>1, <2>2 DEF Inv, EInv, EvidenceHolds, NonceOnce
  <2>3. CASE i = Revision' \/ j = Revision'
    BY <1>3, <1>7, <1>8, <1>10, <2>1, <2>3
  <2>. QED
    BY <1>8, <2>2, <2>3
<1>. QED
  BY <1>2, <1>5, <1>7, <1>9, <1>11 DEF e

\* The registry takes a recovery, once; the evidence then misses it.
LEMMA AcknowledgeRecoverySound ==
    ASSUME Inv, AcknowledgeRecovery
    PROVE  Inv'
<1> DEFINE u == proc.nonce
           m == proc.plan
           x == proc.write
           q == m.request
<1>1. /\ proc # NoProc /\ proc.at = "acknowledge" /\ Place = "acknowledge"
      /\ proc.op = "recover"
      /\ UNCHANGED <<account, files, lineage, states>>
  BY DEF AcknowledgeRecovery, At, Place
<1> USE DEF account, states
<1>2. /\ proc = [op |-> "recover", nonce |-> u, plan |-> m, at |-> "acknowledge", write |-> x]
      /\ u \in Nonces /\ IsEvidence(m.semantic)
      /\ q \in Requests /\ m.resumed \in BOOLEAN
      /\ m = [request |-> q, resumed |-> m.resumed, semantic |-> m.semantic]
      /\ RecoveryRuns /\ RecoveryMarks /\ Retries /\ StoreRuns
  BY <1>1, RecoverIsRecord DEF Inv, SInv
<1>3. /\ ~Prepared /\ state.mode = "HALTED" /\ ~working /\ RecoveryReadable
      /\ Evidence.revision = Revision \/ Last.nonce = u
      /\ m.resumed => HasRecovery /\ Recovery.plan.nonce = u /\ IsUsed(u)
      /\ ~m.resumed =>
           /\ q.state = state.seq /\ q.session = Session /\ RequestStands(q)
           /\ q.evidence = m.semantic.seq
           /\ ~IsUsed(u) => q.evidence = Evidence.seq /\ Evidence.revision = Revision
  BY <1>1, <1>2 DEF RecoveryRuns, RecoveryMarks, Retries, StoreRuns
<1>4. CASE proc' = NoProc /\ UNCHANGED registry
  BY <1>1, <1>4, EndSound
<1>5. CASE /\ IsUsed(u) /\ UNCHANGED registry /\ proc' = [proc EXCEPT !.at = "bind"]
           /\ Last = [kind |-> "recovery", nonce |-> u, request |-> q]
  <2> HIDE DEF u, m, x, q
  <2>1. proc' = [op |-> "recover", nonce |-> u, plan |-> m, at |-> "bind", write |-> x]
    BY <1>2, <1>5
  <2>2. /\ Place' = "bind" /\ ~Writing' /\ proc'.plan = m /\ proc'.nonce = u
        /\ proc'.at = "bind" /\ proc'.op = "recover"
    BY <2>1 DEF Place, Writing, At
  <2>3. IsProcess(proc)' /\ Placed'
    BY <1>2, <2>1 DEF IsProcess, LifecycleOps, Placed, q
  <2>4. RecoveryRuns' /\ WritesEvidence'
    BY <1>1, <1>3, <1>5, <2>2 DEF RecoveryRuns, WritesEvidence, Prepared, Last, Revision
  <2>5. StoreRuns' /\ RecoveryMarks'
    BY <1>1, <1>3, <2>2 DEF StoreRuns, HasRecovery, Recovery, RecoveryMarks, Writes,
         RecoveryReadable, Chained, q
  <2>6. UNCHANGED <<Session, Evidence, Revision, Recovery, Last>>
        /\ (IsUsed(u) <=> IsUsed(proc.nonce)')
    BY <1>1, <1>5, <2>2 DEF Session, Evidence, Revision, Recovery, IsUsed, Last
  <2>7. Retries'
    BY <1>3, <1>5, <2>2, <2>6 DEF Retries, q
  <2>8. EvidenceChained'
    BY <1>1, <2>2 DEF Inv, RInv, EvidenceChained, At, Evidence
  <2>. QED
    BY <1>1, <1>5, <2>2, <2>3, <2>4, <2>5, <2>7, <2>8, RecoverMoveSound DEF Writes
<1>6. CASE /\ ~IsUsed(u) /\ proc' = [proc EXCEPT !.at = "bind"]
           /\ registry' = Acknowledged("recovery", u, q, registry.epoch)
  <2>1. IsOperation([kind |-> "recovery", nonce |-> u, request |-> q])
    BY <1>2 DEF IsOperation, Ids
  <2> HIDE DEF u, m, x, q
  <2>2. proc' = [op |-> "recover", nonce |-> u, plan |-> m, at |-> "bind", write |-> x]
    BY <1>2, <1>6
  <2>3. /\ Place' = "bind" /\ ~Writing' /\ proc'.plan = m /\ proc'.nonce = u
        /\ proc'.at = "bind" /\ proc'.op = "recover"
    BY <2>2 DEF Place, Writing, At
  <2>4. /\ RegistryTyped' /\ NonceOnce' /\ Revision' = Revision + 1
        /\ Revision \in Nat /\ Revision > 0
        /\ \A i \in 1..Revision : registry'.log[i] = registry.log[i]
        /\ Last' = [kind |-> "recovery", nonce |-> u, request |-> q]
        /\ Last' = registry'.log[Revision'] /\ registry'.epoch = registry.epoch
    BY <1>6, <2>1, AcknowledgedFacts
  <2>5. UNCHANGED <<Evidence, Receipt, Recovery, Session, Adopted, Prepared, HasRecovery>>
    BY <1>1 DEF Evidence, Receipt, Recovery, Session, Adopted, Prepared, HasRecovery
  <2>6. /\ ~m.resumed /\ q.evidence = Evidence.seq /\ Evidence.revision = Revision
        /\ RequestStands(q) /\ q.state = state.seq /\ q.session = Session
    BY <1>2, <1>3, <1>6
  <2>7. ProcTyped' /\ Placed'
    BY <1>2, <2>2 DEF ProcTyped, IsProcess, LifecycleOps, Placed, q
  <2>8. Typed'
    BY <1>1, <2>4, <2>5, <2>7 DEF Inv, Typed, AccountTyped, FilesTyped, StatesTyped
  <2>9. EInv'
    <3>1. EvidenceHasReceipt'
      BY <2>4, <2>5 DEF Inv, EInv, EvidenceHolds, EvidenceHasReceipt
    <3>2. MissesOne' /\ OneEpoch' /\ Effects'
      BY <1>1, <1>3, <2>4, <2>5, <2>6 DEF Inv, EInv, OneEpoch, Effects, MissesOne, Acknowledges,
         Before
    <3>3. Runs'
      BY <1>1, <1>3, <2>3, <2>4, <2>5 DEF Runs, RecoveryRuns, WritesEvidence, LifecycleOps
    <3>. QED
      BY <2>4, <3>1, <3>2, <3>3 DEF EInv, EvidenceHolds
  <2>10. SInv'
    BY <1>1, <1>3, <2>3, <2>5 DEF Inv, SInv, StoreShape, StoreRuns, RecoveryReadable, Chained
  <2>11. MInv'
    <3>1. MarkerHasRecovery' /\ TargetsMarker'
      BY <1>1, <1>3, <2>5 DEF Inv, MInv, MarkerHasRecovery, TargetsMarker, AtSource, Prepared
    <3>2. Marks'
      BY <1>1, <2>3, <2>5, <2>6 DEF Marks, RecoveryMarks, Writes, LifecycleOps, q
    <3>3. \A i \in DOMAIN registry.log : i \in DOMAIN registry'.log /\ registry'.log[i] = registry.log[i]
      BY <2>4 DEF Inv, Typed, RegistryTyped, Revision
    <3>4. ReceiptPast'
      BY <1>1, <2>3, <2>5, <2>6, <2>4, <3>3 DEF Inv, MInv, ReceiptPast, IsUsed
    <3>5. BetweenEpochs'
      BY <1>1, <1>3, <2>3, <2>5 DEF Inv, MInv, BetweenEpochs, Commands, At
    <3>6. Blocked'
      BY <1>1, <1>3, <2>3, <2>5 DEF Inv, MInv, Blocked, Unapplied, Commands, At, InTxn,
           LifecycleOps, AtSource, Writes
    <3>. QED
      BY <3>1, <3>2, <3>4, <3>5, <3>6 DEF MInv
  <2>12. RInv'
    <3>1. (TradesArePast /\ DayIsDecided /\ EvidenceChained)'
      BY <1>1, <2>3, <2>5 DEF Inv, RInv, TradesArePast, DayIsDecided, EvidenceChained, At,
         Commands
    <3>2. LastRequest'
      BY <1>1, <2>4, <2>5, <2>6 DEF LastRequest, RequestStands, Adoptable, Net
    <3>3. Retries'
      BY <1>3, <2>3, <2>4, <2>5, <2>6 DEF Retries, q
    <3>4. HasRecovery => CheckpointStands(Recovery.plan)'
      BY <1>1, <2>4, <2>5 DEF Inv, RInv, CheckpointStands
    <3>. QED
      BY <2>5, <3>1, <3>2, <3>3, <3>4 DEF RInv
  <2>. QED
    BY <2>7, <2>8, <2>9, <2>10, <2>11, <2>12 DEF Inv
<1>. QED
  BY <1>1, <1>4, <1>5, <1>6 DEF AcknowledgeRecovery, Go, End, Accepts, Acknowledged

-------------------------------------------------------------------------------
(***************************************************************************)
(* Steps that save the generic state.                                      *)
(***************************************************************************)

\* A save of the state, which no record in the recovery store is the source of any more.
LEMMA SaveSound ==
    ASSUME Inv, UNCHANGED <<account, registry, files, lineage, policy, lifecycle>>,
           state'.seq = state.seq + 1, IsState(state)', IsMarker(state.marker)',
           ProcTyped', Placed', Effects', Runs', StoreRuns', MarkerHasRecovery', Marks',
           BetweenEpochs', DayIsDecided', (Commands("recover") => Retries)', ~Writing'
    PROVE  Inv'
<1> USE DEF account, states
<1>1. UNCHANGED <<Evidence, Receipt, Recovery, Session, Prepared, HasRecovery, Revision, Last>>
  BY DEF Evidence, Receipt, Recovery, Session, Prepared, HasRecovery, Revision, Last
<1>2. state.seq \in Nat
  BY DEF Inv, Typed, StatesTyped, IsState
<1>3. HasRecovery => ~AtSource(Recovery.plan)' /\ CheckpointStands(Recovery.plan)'
  <2>1. SUFFICES ASSUME HasRecovery
                 PROVE  ~AtSource(Recovery.plan)' /\ CheckpointStands(Recovery.plan)'
    OBVIOUS
  <2>2. CheckpointStands(Recovery.plan) /\ Recovery.plan.request.state \in Nat
    BY <2>1 DEF Inv, RInv, Typed, FilesTyped, HasRecovery, Recoveries, Checkpoints, Requests
  <2>. QED
    BY <1>1, <1>2, <2>2 DEF CheckpointStands, AtSource
<1>4. Typed'
  BY <1>1 DEF Inv, Typed, AccountTyped, RegistryTyped, FilesTyped, StatesTyped
<1>5. EInv'
  BY <1>1 DEF Inv, EInv, EvidenceHolds, NonceOnce, EvidenceHasReceipt, MissesOne, OneEpoch,
       Acknowledges, Before
<1>6. SInv'
  BY <1>1 DEF Inv, SInv, StoreShape
<1>7. MInv'
  <2>1. TargetsMarker'
    BY <1>1, <1>2 DEF Inv, EInv, Effects, InOrder, TargetsMarker, Typed, StatesTyped, IsTxn
  <2>2. ReceiptPast' /\ Blocked'
    BY <1>1, <1>3 DEF Inv, MInv, ReceiptPast, Blocked, Unapplied, Writes, IsUsed
  <2>. QED
    BY <2>1, <2>2 DEF MInv
<1>8. RInv'
  <2>1. LastRequest'
    <3>1. SUFFICES ASSUME Last.kind = "recovery" PROVE RequestStands(Last.request)'
      BY <1>1 DEF Inv, RInv, LastRequest
    <3>2. RequestStands(Last.request)
      BY <3>1 DEF Inv, RInv, LastRequest
    <3>3. Revision \in 1..Revision /\ IsOperation(Last)
      BY DEF Inv, Typed, RegistryTyped, Revision, Last
    <3>4. Last.request.state \in Nat
      BY <3>1, <3>3 DEF IsOperation, Requests
    <3>. QED
      BY <1>1, <1>2, <3>2, <3>4 DEF RequestStands
  <2>2. TradesArePast' /\ EvidenceChained'
    BY <1>1 DEF Inv, RInv, TradesArePast, EvidenceChained, Writing, At
  <2>. QED
    BY <1>1, <1>3, <2>1, <2>2 DEF RInv
<1>. QED
  BY <1>4, <1>5, <1>6, <1>7, <1>8 DEF Inv

\* What a running state says: no transaction, no recovery and no preparation is under way,
\* and no recovery waits beside a marker.
LEMMA RunningFacts ==
    ASSUME Inv, state.mode # "HALTED" \/ At("trading")
    PROVE  /\ Receipt.epoch = policy.epoch /\ ~Unapplied
           /\ state.mode # "HALTED" => ~Prepared
           /\ At("trading") => ~Prepared /\ proc.op = "live" /\ policy.target = day /\ state.day = day
<1>1. At("trading") => proc.op = "live" /\ ~Prepared
  BY DEF Inv, Placed, At, EInv, Runs, ObserverRuns, LifecycleOps, Writes, Writing,
         AfterAcknowledged, AfterBound, AfterPolicy, AfterGeneric
<1>. QED
  BY <1>1 DEF Inv, MInv, BetweenEpochs, Blocked, EInv, Effects, InOrder, RInv, DayIsDecided

\* A save that keeps the marker, with no recovery waiting beside it.
LEMMA MarkerKept ==
    ASSUME Inv, ~Unapplied, UNCHANGED <<files, lifecycle>>, state'.marker = state.marker
    PROVE  MarkerHasRecovery'
BY DEF Inv, MInv, MarkerHasRecovery, Unapplied, HasRecovery, Recovery, AtSource, Prepared

\* What a save writes.
LEMMA StateSaved ==
    ASSUME Inv, NEW s, NEW mode, NEW d \in Nat, NEW known, NEW marker, IsMarker(marker),
           s = [seq |-> state.seq, mode |-> mode, day |-> d, known |-> known,
                marker |-> marker],
           Save(s)
    PROVE  /\ state'.seq = state.seq + 1 /\ state'.mode = mode /\ state'.day = d
           /\ state'.known = known /\ state'.marker = marker
           /\ IsState(state)' /\ IsMarker(state.marker)'
<1>1. state.seq \in Nat
  BY DEF Inv, Typed, StatesTyped, IsState
<1>2. state' = [s EXCEPT !.seq = state.seq + 1]
  BY DEF Save
<1>3. state' = [seq |-> state.seq + 1, mode |-> mode, day |-> d, known |-> known,
                marker |-> marker]
  BY <1>2
<1>. QED
  BY <1>1, <1>3 DEF IsState, IsMarker

\* The generic state as a record.
LEMMA StateIsRecord ==
    ASSUME Inv
    PROVE  /\ state = [seq |-> state.seq, mode |-> state.mode, day |-> state.day,
                       known |-> state.known, marker |-> state.marker]
           /\ state.seq \in Nat /\ state.day \in Nat /\ IsMarker(state.marker)
BY DEF Inv, Typed, StatesTyped, IsState

\* A save that changes the mode only.
LEMMA ModeSaved ==
    ASSUME Inv, NEW mode, Save([state EXCEPT !.mode = mode])
    PROVE  /\ state'.seq = state.seq + 1 /\ state'.mode = mode /\ state'.day = state.day
           /\ state'.known = state.known /\ state'.marker = state.marker
           /\ IsState(state)' /\ IsMarker(state.marker)'
<1> DEFINE d == state.day
           known == state.known
           marker == state.marker
           seq == state.seq
<1>1. /\ state = [seq |-> seq, mode |-> state.mode, day |-> d, known |-> known,
                  marker |-> marker]
      /\ seq \in Nat /\ d \in Nat /\ IsMarker(marker)
  BY StateIsRecord
<1> HIDE DEF d, known, marker
<1>2. [state EXCEPT !.mode = mode] =
        [seq |-> state.seq, mode |-> mode, day |-> d, known |-> known, marker |-> marker]
  BY <1>1
<1>3. /\ state'.seq = state.seq + 1 /\ state'.mode = mode /\ state'.day = d
      /\ state'.known = known /\ state'.marker = marker
      /\ IsState(state)' /\ IsMarker(state.marker)'
  BY <1>1, <1>2, StateSaved
<1>. QED
  BY <1>3 DEF d, known, marker

\* A save that adopts fills only.
LEMMA KnownSaved ==
    ASSUME Inv, NEW fills, Save([state EXCEPT !.known = @ \cup fills])
    PROVE  /\ state'.seq = state.seq + 1 /\ state'.mode = state.mode /\ state'.day = state.day
           /\ state'.known = state.known \cup fills /\ state'.marker = state.marker
           /\ IsState(state)' /\ IsMarker(state.marker)'
<1> DEFINE d == state.day
           known == state.known \cup fills
           marker == state.marker
           mode == state.mode
           seq == state.seq
<1>1. /\ state = [seq |-> seq, mode |-> mode, day |-> d, known |-> state.known,
                  marker |-> marker]
      /\ seq \in Nat /\ d \in Nat /\ IsMarker(marker)
  BY StateIsRecord
<1> HIDE DEF d, mode, marker
<1>2. [state EXCEPT !.known = @ \cup fills] =
        [seq |-> state.seq, mode |-> mode, day |-> d, known |-> known, marker |-> marker]
  BY <1>1
<1> HIDE DEF known
<1>3. /\ state'.seq = state.seq + 1 /\ state'.mode = mode /\ state'.day = d
      /\ state'.known = known /\ state'.marker = marker
      /\ IsState(state)' /\ IsMarker(state.marker)'
  BY <1>1, <1>2, StateSaved
<1>. QED
  BY <1>3 DEF d, known, marker, mode

\* A live process starts on the day's receipt and target.
LEMMA StartLiveSound ==
    ASSUME Inv, StartLive
    PROVE  Inv'
<1>1. /\ proc = NoProc /\ Quiet /\ Authoritative /\ ReceiptAuthorises
      /\ state.day = day /\ policy.target = day
      /\ UNCHANGED <<account, registry, files, lineage, policy, lifecycle>>
      /\ proc' = [op |-> "live", nonce |-> NoNonce, plan |-> NoFile, at |-> "trading",
                  write |-> NoWrite]
      /\ Save([state EXCEPT !.mode = "RUNNING"])
  BY DEF StartLive, Halted, Process
<1> USE DEF account
<1>2. /\ state'.seq = state.seq + 1 /\ state'.mode = "RUNNING" /\ state'.day = state.day
      /\ state'.known = state.known /\ state'.marker = state.marker
      /\ IsState(state)' /\ IsMarker(state.marker)'
  BY <1>1, ModeSaved
<1>3. /\ Place' = "trading" /\ ~Writing' /\ proc'.at = "trading" /\ proc'.op = "live"
  BY <1>1 DEF Place, Writing, At
<1>4. ~Prepared' /\ Receipt.epoch = policy.epoch /\ ~Unapplied
  <2>1. ~Prepared /\ Receipt.epoch = policy.epoch /\ Evidence.seq = Receipt.evidence
    BY <1>1 DEF Authoritative, ReceiptAuthorises
  <2>2. ~(Receipt.evidence < Evidence.seq)
    BY <2>1 DEF Inv, Typed, FilesTyped, IsReceipt, IsEvidence
  <2>. QED
    BY <1>1, <2>1, <2>2 DEF Inv, MInv, Blocked, Prepared
<1>5. ProcTyped' /\ Placed'
  BY <1>1 DEF ProcTyped, IsProcess, LifecycleOps, Placed
<1>6. Effects' /\ Runs'
  BY <1>3, <1>4 DEF Effects, Runs, ObserverRuns, WritesEvidence, LifecycleOps
<1>7. StoreRuns' /\ Marks' /\ (Commands("recover") => Retries)'
  BY <1>3 DEF StoreRuns, Marks, Commands, LifecycleOps
<1>8. MarkerHasRecovery'
  BY <1>1, <1>2, <1>4, MarkerKept
<1>9. BetweenEpochs'
  BY <1>1, <1>2, <1>3, <1>4 DEF BetweenEpochs, Commands, Receipt
<1>10. DayIsDecided'
  BY <1>1, <1>2, <1>3 DEF Inv, RInv, DayIsDecided, Commands, Session
<1>. QED
  BY <1>1, <1>2, <1>3, <1>5, <1>6, <1>7, <1>8, <1>9, <1>10, SaveSound

\* A restart adopts the session's fills, or halts.
LEMMA RestartSound ==
    ASSUME Inv, Restart
    PROVE  Inv'
<1>1. /\ proc = NoProc /\ state.mode = "RUNNING"
      /\ UNCHANGED <<account, registry, files, lineage, policy, lifecycle>>
  BY DEF Restart
<1> USE DEF account
<1>2. Receipt.epoch = policy.epoch /\ ~Unapplied /\ ~Prepared
  BY <1>1, RunningFacts
<1>3. ~Prepared'
  BY <1>1, <1>2 DEF Prepared
<1>4. CASE /\ state.day = day /\ Save([state EXCEPT !.known = @ \cup Session])
           /\ proc' = Process("live", NoNonce, NoFile, "trading")
  <2>1. /\ state'.seq = state.seq + 1 /\ state'.mode = state.mode /\ state'.day = state.day
        /\ state'.known = state.known \cup Session /\ state'.marker = state.marker
        /\ IsState(state)' /\ IsMarker(state.marker)'
    BY <1>4, KnownSaved
  <2>2. proc' = [op |-> "live", nonce |-> NoNonce, plan |-> NoFile, at |-> "trading",
                  write |-> NoWrite]
    BY <1>4 DEF Process
  <2>3. Place' = "trading" /\ ~Writing' /\ proc'.at = "trading" /\ proc'.op = "live"
    BY <2>2 DEF Place, Writing, At
  <2>4. ProcTyped' /\ Placed'
    BY <2>2 DEF ProcTyped, IsProcess, LifecycleOps, Placed
  <2>5. Effects' /\ Runs'
    BY <1>3, <2>3 DEF Effects, Runs, ObserverRuns, WritesEvidence, LifecycleOps
  <2>6. StoreRuns' /\ Marks' /\ (Commands("recover") => Retries)'
    BY <2>3 DEF StoreRuns, Marks, Commands, LifecycleOps
  <2>7. MarkerHasRecovery'
    BY <1>1, <1>2, <2>1, MarkerKept
  <2>8. BetweenEpochs'
    BY <1>1, <1>2, <1>3, <2>3 DEF BetweenEpochs, Commands, Receipt
  <2>9. DayIsDecided'
    BY <1>1, <1>4, <2>1, <2>3 DEF Inv, RInv, DayIsDecided, Commands, Session
  <2>. QED
    BY <1>1, <2>1, <2>3, <2>4, <2>5, <2>6, <2>7, <2>8, <2>9, SaveSound
<1>5. CASE Save([state EXCEPT !.mode = "HALTED"]) /\ UNCHANGED proc
  <2>1. /\ state'.seq = state.seq + 1 /\ state'.mode = "HALTED" /\ state'.day = state.day
        /\ state'.known = state.known /\ state'.marker = state.marker
        /\ IsState(state)' /\ IsMarker(state.marker)'
    BY <1>5, ModeSaved
  <2>2. proc' = NoProc /\ ~Writing'
    BY <1>1, <1>5 DEF Writing, At
  <2>3. ProcTyped' /\ Placed' /\ Effects' /\ Runs' /\ StoreRuns' /\ Marks'
        /\ (Commands("recover") => Retries)'
    BY <1>3, <2>2 DEF ProcTyped, Placed, Effects, Runs, StoreRuns, Marks, Commands
  <2>4. MarkerHasRecovery'
    BY <1>1, <1>2, <2>1, MarkerKept
  <2>5. BetweenEpochs'
    BY <1>1, <1>2, <1>3, <2>2 DEF BetweenEpochs, Commands, Receipt
  <2>6. DayIsDecided'
    BY <1>1, <2>1, <2>2 DEF Inv, RInv, DayIsDecided, Commands, At, Session
  <2>. QED
    BY <1>1, <2>1, <2>2, <2>3, <2>4, <2>5, <2>6, SaveSound
<1>. QED
  BY <1>4, <1>5 DEF Restart

\* The trading process saves the state and trades on.
LEMMA TradingSaveSound ==
    ASSUME Inv, At("trading"), UNCHANGED <<account, registry, files, lineage, policy, lifecycle, proc>>,
           state'.seq = state.seq + 1, state'.mode \in {state.mode, "HALTED"},
           state'.day = state.day, state'.marker = state.marker,
           IsState(state)', IsMarker(state.marker)'
    PROVE  Inv'
<1> USE DEF account
<1>1. /\ Receipt.epoch = policy.epoch /\ ~Unapplied /\ ~Prepared
      /\ proc # NoProc /\ proc.op = "live" /\ proc.at = "trading" /\ policy.target = day
      /\ state.day = day
  BY RunningFacts DEF At
<1>2. ~Prepared' /\ ~Writing'
  BY <1>1 DEF Prepared, Writing, At
<1>3. ProcTyped' /\ Placed'
  BY DEF Inv, Typed, ProcTyped, Placed, Writes, Writing, At
<1>4. Effects' /\ Runs'
  BY <1>1, <1>2 DEF Effects, Runs, ObserverRuns, WritesEvidence, LifecycleOps
<1>5. StoreRuns' /\ Marks' /\ (Commands("recover") => Retries)'
  BY <1>1, <1>2 DEF StoreRuns, Marks, Commands, LifecycleOps
<1>6. MarkerHasRecovery'
  BY <1>1, MarkerKept
<1>7. BetweenEpochs'
  BY <1>1, <1>2 DEF BetweenEpochs, Commands, Receipt
<1>8. DayIsDecided'
  BY <1>1 DEF Inv, RInv, DayIsDecided, Commands, Session
<1>. QED
  BY <1>2, <1>3, <1>4, <1>5, <1>6, <1>7, <1>8, SaveSound

\* The live process saves its fills.
LEMMA SaveFillsSound ==
    ASSUME Inv, SaveFills
    PROVE  Inv'
BY KnownSaved, TradingSaveSound DEF SaveFills

\* The live process stops.
LEMMA EmergencyStopSound ==
    ASSUME Inv, EmergencyStop
    PROVE  Inv'
BY ModeSaved, TradingSaveSound DEF EmergencyStop

\* A recovery is applied to the state it was prepared for.
LEMMA ApplyRecoverySound ==
    ASSUME Inv, ApplyRecovery
    PROVE  Inv'
<1> DEFINE u == proc.nonce
           m == proc.plan
           x == proc.write
           c == Recovery.plan
<1>1. /\ proc # NoProc /\ proc.at = "apply" /\ Place = "apply" /\ proc.op = "recover"
      /\ UNCHANGED <<account, registry, files, lineage, policy, lifecycle>>
  BY DEF ApplyRecovery, At, Place
<1> USE DEF account
<1>2. /\ proc = [op |-> "recover", nonce |-> u, plan |-> m, at |-> "apply", write |-> x]
      /\ u \in Nonces /\ IsEvidence(m.semantic)
      /\ m.request \in Requests /\ m.resumed \in BOOLEAN
      /\ m = [request |-> m.request, resumed |-> m.resumed, semantic |-> m.semantic]
      /\ RecoveryRuns /\ Retries /\ StoreRuns
  BY <1>1, RecoverIsRecord DEF Inv, SInv
<1>3. /\ ~Prepared /\ state.mode = "HALTED" /\ ~working /\ HasRecovery
      /\ ~m.resumed => m.request.evidence = m.semantic.seq
      /\ c.nonce \in Nonces /\ Recovery \in Recoveries
  BY <1>1, <1>2 DEF RecoveryRuns, Retries, StoreRuns, Inv, Typed, FilesTyped, HasRecovery,
     Recoveries,
     Checkpoints
<1>4. CASE proc' = NoProc /\ UNCHANGED state
  BY <1>1, <1>4, EndSound DEF states
<1> HIDE DEF u, m, x
<1>5. CASE proc' = [proc EXCEPT !.at = "commit"]
  <2>1. proc' = [op |-> "recover", nonce |-> u, plan |-> m, at |-> "commit", write |-> x]
    BY <1>2, <1>5
  <2>2. /\ Place' = "commit" /\ ~Writing' /\ proc'.plan = m /\ proc'.nonce = u
        /\ proc'.at = "commit" /\ proc'.op = "recover"
    BY <2>1 DEF Place, Writing, At
  <2>3. IsProcess(proc)' /\ Placed' /\ ProcTyped'
    BY <1>2, <2>1 DEF IsProcess, LifecycleOps, Placed, ProcTyped
  <2>4. ~Prepared' /\ Retries' /\ HasRecovery' /\ Recovery' = Recovery
    BY <1>1, <1>3, <2>2 DEF Prepared, Retries, HasRecovery, Recovery
  <2>5. CASE UNCHANGED state /\ Recovery.status = "prepared" /\ AtTarget(c)
    <3>1. RecoveryRuns' /\ WritesEvidence'
      BY <1>1, <1>3, <2>2, <2>4, <2>5 DEF RecoveryRuns, WritesEvidence
    <3>2. StoreRuns' /\ RecoveryMarks'
      BY <1>1, <2>2, <2>4, <2>5 DEF StoreRuns, RecoveryMarks, Writes, AtTarget
    <3>3. EvidenceChained'
      BY <1>1, <2>2 DEF Inv, RInv, EvidenceChained, At, Evidence
    <3>. QED
      BY <1>1, <2>2, <2>3, <2>4, <2>5, <3>1, <3>2, <3>3, RecoverMoveSound DEF Writes, states
  <2>6. CASE /\ Recovery.status = "prepared" /\ AtSource(c)
             /\ Save([state EXCEPT !.known = @ \cup c.request.adopted,
                                   !.marker = [txn |-> c.nonce, by |-> NoNonce]])
    <3> DEFINE d == state.day
               fills == c.request.adopted
               known == state.known \cup fills
               marker == [txn |-> c.nonce, by |-> NoNonce]
               mode == state.mode
               seq == state.seq
    <3>1. /\ state = [seq |-> seq, mode |-> mode, day |-> d, known |-> state.known,
                      marker |-> state.marker]
          /\ seq \in Nat /\ d \in Nat
      BY StateIsRecord
    <3>2. IsMarker(marker)
      BY DEF IsMarker
    <3>3. marker.txn = c.nonce /\ marker.by = NoNonce
      OBVIOUS
    <3> HIDE DEF d, mode, marker, fills
    <3>4. [state EXCEPT !.known = @ \cup fills, !.marker = marker] =
            [seq |-> state.seq, mode |-> mode, day |-> d, known |-> known, marker |-> marker]
      <4> DEFINE s == [state EXCEPT !.known = @ \cup fills]
                 t == [s EXCEPT !.marker = marker]
      <4>1. s = [seq |-> seq, mode |-> mode, day |-> d, known |-> known, marker |-> state.marker]
        BY <3>1
      <4>2. t = [state EXCEPT !.known = @ \cup fills, !.marker = marker]
        OBVIOUS
      <4> HIDE DEF s, known
      <4>3. t = [seq |-> state.seq, mode |-> mode, day |-> d, known |-> known, marker |-> marker]
        BY <4>1
      <4>. QED
        BY <4>2, <4>3
    <3> HIDE DEF known
    <3>5. Save([state EXCEPT !.known = @ \cup fills, !.marker = marker])
      BY <2>6 DEF fills, marker
    <3>6. /\ state'.seq = state.seq + 1 /\ state'.mode = mode /\ state'.day = d
          /\ state'.known = known /\ state'.marker = marker
          /\ IsState(state)' /\ IsMarker(state.marker)'
      BY <3>1, <3>2, <3>4, <3>5, StateSaved
    <3>7. state'.mode = "HALTED" /\ state'.day = state.day
      BY <1>3, <3>6 DEF mode, d
    <3>8. Effects' /\ Runs'
      BY <1>1, <1>3, <2>2, <2>4, <3>7 DEF Effects, Runs, RecoveryRuns, WritesEvidence,
         LifecycleOps
    <3>9. StoreRuns' /\ MarkerHasRecovery'
      BY <1>1, <2>2, <2>4, <3>3, <3>6 DEF StoreRuns, MarkerHasRecovery
    <3>10. AtTarget(Recovery.plan)'
      BY <2>4, <2>6, <3>6 DEF AtTarget, AtSource, marker
    <3>11. Marks'
      BY <1>1, <2>2, <2>4, <2>6, <3>10 DEF Marks, RecoveryMarks, Writes, LifecycleOps
    <3>12. BetweenEpochs'
      <4>1. Adopted' \subseteq Adopted
        BY <1>1, <3>6 DEF Adopted, Session, known
      <4>2. Adopted' # {} => Receipt.epoch = policy.epoch
        BY <4>1 DEF Inv, MInv, BetweenEpochs
      <4>. QED
        BY <1>1, <1>3, <2>2, <2>4, <3>7, <4>2 DEF BetweenEpochs, At, Commands, Receipt
    <3>13. DayIsDecided'
      BY <1>1, <2>2, <3>7 DEF Inv, RInv, DayIsDecided, At, Commands, Session
    <3>. QED
      BY <1>1, <2>2, <2>3, <2>4, <3>6, <3>8, <3>9, <3>11, <3>12, <3>13, SaveSound
  <2>. QED
    BY <1>1, <1>4, <2>5, <2>6 DEF ApplyRecovery, Go, End
<1>. QED
  BY <1>1, <1>4, <1>5 DEF ApplyRecovery, Go, End

-------------------------------------------------------------------------------
(***************************************************************************)
(* The lifecycle commands.                                                 *)
(***************************************************************************)

\* A lifecycle command's process as a record.
LEMMA TxnIsRecord ==
    ASSUME Inv, proc # NoProc, proc.op \in LifecycleOps
    PROVE  /\ proc = [op |-> proc.op, nonce |-> proc.nonce, plan |-> proc.plan, at |-> proc.at,
                      write |-> proc.write]
           /\ IsTxn(proc.plan) /\ IsMarker(proc.plan.marker)
           /\ TxnRuns /\ TxnMarks
BY DEF Inv, Typed, ProcTyped, IsProcess, LifecycleOps, EInv, Runs, MInv, Marks

\* The steps that only a lifecycle command has.
LEMMA TxnPlaces ==
    ASSUME Inv, proc # NoProc,
           proc.at \in {"receipt", "policy", "generic", "consume", "finish"}
    PROVE  proc.op \in LifecycleOps
BY DEF Inv, Placed, Writes, Writing, At

\* A lifecycle command that writes no file.
LEMMA TxnMoveSound ==
    ASSUME Inv, UNCHANGED <<account, registry, files, states>>, lineage' \in {lineage, TRUE},
           proc'.op \in LifecycleOps, proc'.at \notin {"trading", "current"},
           IsProcess(proc)', Placed', TxnRuns', WritesEvidence', StoreRuns', TxnMarks',
           ReceiptPast', proc'.op = "rebase" => Adopted = {}, Blocked'
    PROVE  Inv'
<1> USE DEF account, states
<1>1. Runs' /\ ProcTyped' /\ Marks'
  BY DEF Runs, ProcTyped, LifecycleOps, Marks
<1>2. BetweenEpochs'
  BY DEF Inv, MInv, BetweenEpochs, Commands, At, Receipt, Prepared, Adopted, Session
<1>3. (DayIsDecided /\ EvidenceChained /\ (Commands("recover") => Retries))'
  BY DEF Inv, RInv, DayIsDecided, EvidenceChained, Session, At, Commands, Evidence, LifecycleOps
<1>. QED
  BY <1>1, <1>2, <1>3, MoveSound

\* A command whose marker waits for no recovery is not held back.
LEMMA NotBlocked ==
    ASSUME ~Unapplied, UNCHANGED <<files, state>>, proc'.op \in LifecycleOps
    PROVE  Blocked'
BY DEF Blocked, Unapplied, HasRecovery, Recovery, AtSource, Commands, LifecycleOps

\* Nothing but the receipt's own write touches what the receipt is of.
LEMMA ReceiptPastKept ==
    ASSUME Inv, UNCHANGED <<registry, files>>, ~(Writing /\ proc.write.store = "receipts")'
    PROVE  ReceiptPast'
BY DEF Inv, MInv, ReceiptPast, Receipt, Evidence, IsUsed

\* The numbers and records that most steps need.
LEMMA TypedFacts ==
    ASSUME Inv
    PROVE  /\ Evidence.seq \in Nat /\ policy.seq \in Nat /\ day \in Nat
           /\ state.seq \in Nat /\ IsMarker(state.marker)
           /\ IsTxn(lifecycle) /\ IsMarker(lifecycle.marker)
<1>1. IsEvidence(Evidence) /\ day \in Nat
  BY DEF Inv, Typed, AccountTyped, FilesTyped
<1>2. policy.seq \in Nat /\ IsState(state) /\ IsMarker(state.marker) /\ IsTxn(lifecycle)
      /\ IsMarker(lifecycle.marker)
  BY DEF Inv, Typed, StatesTyped
<1>. QED
  BY <1>1, <1>2 DEF IsEvidence, IsState

\* A roll-forward starts, or the one prepared goes on.
LEMMA StartRollForwardSound ==
    ASSUME Inv, NEW n \in Nonces, StartRollForward(n)
    PROVE  Inv'
<1> DEFINE mine == Mine("rollforward", n)
           source == IF mine THEN lifecycle.source ELSE state.day
           request == IF HasReceipt(n) THEN Receipt.request ELSE RollForwardRequest(n, source)
           t == IF mine THEN lifecycle ELSE NewTxn("rollforward", n, source, policy.epoch, request)
           at == IF mine THEN "acknowledge" ELSE "begin"
<1>1. /\ Halted /\ Quiet /\ (mine \/ (Fresh(n) /\ ~Prepared))
      /\ UNCHANGED <<account, registry, files, lineage, states>>
      /\ ~mine => ~HasReceipt(n)
      /\ proc' = [op |-> "rollforward", nonce |-> n, plan |-> t, at |-> at, write |-> NoWrite]
  BY DEF StartRollForward, Process
<1> USE DEF account, states
<1>2. /\ proc = NoProc /\ state.mode = "HALTED" /\ ~working
      /\ Evidence.seq \in Nat /\ policy.seq \in Nat /\ day \in Nat
      /\ state.seq \in Nat /\ IsMarker(state.marker)
      /\ IsTxn(lifecycle) /\ IsMarker(lifecycle.marker)
  <2>1. proc = NoProc /\ state.mode = "HALTED" /\ ~working
    BY DEF StartRollForward, Halted, Quiet
  <2>. QED
    BY ONLY <2>1, Inv, TypedFacts
<1>3. mine => t = lifecycle /\ at = "acknowledge" /\ Prepared /\ lifecycle.op = "rollforward"
  BY DEF Mine
<1>4. ~mine =>
        /\ at = "begin" /\ ~Prepared /\ IsTxn(t) /\ IsMarker(t.marker)
        /\ t.status = "prepared" /\ t.op = "rollforward" /\ t.state = state.seq
        /\ t.policy = policy.seq /\ t.from = policy.epoch /\ ~IsUsed(t.nonce)
        /\ t.marker = TargetMarker(t.op, t.nonce)
        /\ t.request.evidence = Evidence.seq /\ t.request.epoch = t.epoch
  <2>1. SUFFICES ASSUME ~mine
                 PROVE  /\ at = "begin" /\ ~Prepared /\ IsTxn(t) /\ IsMarker(t.marker)
                        /\ t.status = "prepared" /\ t.op = "rollforward" /\ t.state = state.seq
                        /\ t.policy = policy.seq /\ t.from = policy.epoch /\ ~IsUsed(t.nonce)
                        /\ t.marker = TargetMarker(t.op, t.nonce)
                        /\ t.request.evidence = Evidence.seq /\ t.request.epoch = t.epoch
    OBVIOUS
  <2>2. request = RollForwardRequest(n, source) /\ SourceEvidence(n) = Evidence
    BY <1>1, <2>1 DEF SourceEvidence
  <2>3. /\ request.state = state.seq /\ request.policy = policy.seq
        /\ request.evidence = Evidence.seq /\ request.epoch = policy.epoch
    BY <2>2 DEF RollForwardRequest
  <2> DEFINE marker == TargetMarker("rollforward", n)
  <2>4. IsMarker(marker)
    BY <1>2 DEF TargetMarker
  <2> HIDE DEF request, source, marker
  <2>5. t = [op |-> "rollforward", nonce |-> n, status |-> "prepared", source |-> source,
             day |-> day, from |-> policy.epoch, epoch |-> policy.epoch, state |-> state.seq,
             policy |-> policy.seq, marker |-> marker, request |-> request]
    BY <2>1 DEF NewTxn, marker
  <2> HIDE DEF t
  <2>6. IsTxn(t)
    BY <1>2, <2>3, <2>5 DEF IsTxn, LifecycleOps, Ids, IsPlanRequest
  <2>. QED
    BY <1>1, <2>1, <2>3, <2>4, <2>5, <2>6 DEF Fresh, marker
<1> HIDE DEF t, at, mine
<1>5. /\ proc'.op = "rollforward" /\ proc'.nonce = n /\ proc'.plan = t /\ proc'.at = at
      /\ Place' = at /\ ~Writing'
  BY <1>1, <1>3, <1>4 DEF Place, Writing, At
<1>6. IsProcess(proc)' /\ Placed'
  BY <1>1, <1>2, <1>3, <1>4 DEF IsProcess, LifecycleOps, Placed
<1>7. TxnRuns'
  <2>1. CASE mine
    BY <1>1, <1>3, <1>5, <2>1 DEF TxnRuns, Prepared, AfterAcknowledged, AfterBound, AfterPolicy,
       AfterGeneric, Writes
  <2>2. CASE ~mine
    <3>1. PlanFresh(proc.plan)'
      BY <1>1, <1>4, <1>5, <2>2 DEF PlanFresh, IsUsed, TargetMarker, Evidence
    <3>. QED
      BY <1>1, <1>2, <1>4, <1>5, <2>2, <3>1 DEF TxnRuns, Prepared
  <2>. QED
    BY <2>1, <2>2
<1>8. WritesEvidence' /\ StoreRuns' /\ TxnMarks'
  BY <1>3, <1>4, <1>5 DEF WritesEvidence, StoreRuns, TxnMarks
<1>9. ReceiptPast'
  BY <1>1, <1>5, ReceiptPastKept
<1>10. Blocked'
  <2>1. CASE ~Unapplied
    BY <1>1, <1>5, <2>1, NotBlocked DEF LifecycleOps
  <2>2. CASE Unapplied
    BY <1>1, <1>3, <1>4, <1>5, <2>2 DEF Inv, MInv, Blocked, Commands, At, Receipt, Evidence,
       Prepared
  <2>. QED
    BY <2>1, <2>2
<1>. QED
  BY <1>1, <1>3, <1>4, <1>5, <1>6, <1>7, <1>8, <1>9, <1>10, TxnMoveSound DEF LifecycleOps

\* A rebase starts, or the one prepared goes on and tells the recovery store first.
LEMMA StartRebaseSound ==
    ASSUME Inv, NEW n \in Nonces, StartRebase(n)
    PROVE  Inv'
<1> DEFINE mine == Mine("rebase", n)
           source == state.day
           t == IF mine THEN lifecycle ELSE NewTxn("rebase", n, source, n, NoRequest)
           at == IF mine THEN "acknowledge" ELSE "begin"
           r == RecoveryRecord("committed", Recovery.plan, n)
           p == [op |-> "rebase", nonce |-> n, plan |-> t, at |-> at, write |-> NoWrite]
           proven == state.marker = NoMarker \/ IsProven
<1>1. /\ Halted /\ Quiet /\ (mine \/ (Fresh(n) /\ ~Prepared))
      /\ UNCHANGED <<account, registry, files, lineage, states>>
      /\ Adopted = {}
      /\ proven \/ (mine /\ Consumable(n))
      /\ proc' = IF proven THEN p ELSE Replacing(p, "recovery", r, "acknowledge")
  BY DEF StartRebase, Process
<1> USE DEF account, states
<1>2. /\ proc = NoProc /\ state.mode = "HALTED" /\ ~working
      /\ Evidence.seq \in Nat /\ policy.seq \in Nat /\ day \in Nat
      /\ state.seq \in Nat /\ IsMarker(state.marker)
      /\ IsTxn(lifecycle) /\ IsMarker(lifecycle.marker)
  <2>1. proc = NoProc /\ state.mode = "HALTED" /\ ~working
    BY DEF StartRebase, Halted, Quiet
  <2>. QED
    BY ONLY <2>1, Inv, TypedFacts
<1>3. mine => t = lifecycle /\ at = "acknowledge" /\ Prepared /\ lifecycle.op = "rebase"
              /\ lifecycle.nonce = n
  BY DEF Mine
<1>4. ~mine =>
        /\ at = "begin" /\ ~Prepared /\ IsTxn(t) /\ IsMarker(t.marker)
        /\ t.status = "prepared" /\ t.op = "rebase" /\ t.state = state.seq
        /\ t.policy = policy.seq /\ t.from = policy.epoch /\ ~IsUsed(t.nonce)
        /\ t.marker = TargetMarker(t.op, t.nonce)
  <2>1. SUFFICES ASSUME ~mine
                 PROVE  /\ at = "begin" /\ ~Prepared /\ IsTxn(t) /\ IsMarker(t.marker)
                        /\ t.status = "prepared" /\ t.op = "rebase" /\ t.state = state.seq
                        /\ t.policy = policy.seq /\ t.from = policy.epoch /\ ~IsUsed(t.nonce)
                        /\ t.marker = TargetMarker(t.op, t.nonce)
    OBVIOUS
  <2> DEFINE marker == TargetMarker("rebase", n)
  <2>2. IsMarker(marker)
    <3> DEFINE txn == state.marker.txn
               by == state.marker.by
    <3>1. state.marker # NoMarker => state.marker = [txn |-> txn, by |-> by]
      BY <1>2 DEF IsMarker
    <3> HIDE DEF txn, by
    <3>2. state.marker # NoMarker => [state.marker EXCEPT !.by = n] = [txn |-> txn, by |-> n]
      BY <3>1
    <3>. QED
      BY <1>2, <3>2 DEF TargetMarker, IsMarker
  <2> HIDE DEF source, marker
  <2>3. t = [op |-> "rebase", nonce |-> n, status |-> "prepared", source |-> source,
             day |-> day, from |-> policy.epoch, epoch |-> n, state |-> state.seq,
             policy |-> policy.seq, marker |-> marker, request |-> NoRequest]
    BY <2>1 DEF NewTxn, marker
  <2> HIDE DEF t
  <2>4. IsTxn(t)
    BY <1>2, <2>3 DEF IsTxn, LifecycleOps, Ids
  <2>. QED
    BY <1>1, <2>1, <2>2, <2>3, <2>4 DEF Fresh, marker
<1> HIDE DEF t, at, mine, r
<1>5. ~Unapplied
  <2>1. state.marker # NoMarker => Recovery.status = "committed"
    BY <1>1 DEF IsProven, Consumable
  <2>. QED
    BY <1>2, <2>1 DEF Unapplied, Commands
<1>6. CASE proven
  <2>1. /\ proc' = p
        /\ proc'.op = "rebase" /\ proc'.nonce = n /\ proc'.plan = t /\ proc'.at = at
        /\ Place' = at /\ ~Writing'
    BY <1>1, <1>3, <1>4, <1>6 DEF Place, Writing, At
  <2>2. IsProcess(proc)' /\ Placed'
    BY <1>1, <1>2, <1>3, <1>4, <2>1 DEF IsProcess, LifecycleOps, Placed
  <2>3. TxnRuns'
    <3>1. CASE mine
      BY <1>1, <1>3, <2>1, <3>1 DEF TxnRuns, Prepared, AfterAcknowledged, AfterBound, AfterPolicy,
         AfterGeneric, Writes
    <3>2. CASE ~mine
      <4>1. PlanFresh(proc.plan)'
        BY <1>1, <1>4, <2>1, <3>2 DEF PlanFresh, IsUsed, TargetMarker, Evidence
      <4>. QED
        BY <1>1, <1>2, <1>4, <2>1, <3>2, <4>1 DEF TxnRuns, Prepared
    <3>. QED
      BY <3>1, <3>2
  <2>4. WritesEvidence' /\ StoreRuns' /\ TxnMarks'
    BY <1>3, <1>4, <2>1 DEF WritesEvidence, StoreRuns, TxnMarks
  <2>5. ReceiptPast' /\ Blocked'
    BY <1>1, <1>5, <2>1, ReceiptPastKept, NotBlocked DEF LifecycleOps
  <2>. QED
    BY <1>1, <1>3, <1>4, <2>1, <2>2, <2>3, <2>4, <2>5, TxnMoveSound DEF LifecycleOps
<1>7. CASE ~proven
  <2>1. /\ mine /\ RecoveryReadable /\ HasRecovery /\ Recovery.status = "committed"
        /\ state.marker = [txn |-> Recovery.plan.nonce, by |-> n]
        /\ proc' = Replacing(p, "recovery", r, "acknowledge")
    BY <1>1, <1>7 DEF Consumable
  <2>2. Recovery \in Recoveries
    BY <2>1 DEF Inv, Typed, FilesTyped, HasRecovery
  <2>3. /\ r = [seq |-> Recovery.seq + 1, status |-> "committed", plan |-> Recovery.plan,
               by |-> n]
        /\ r \in Recoveries
    BY <2>1, <2>2 DEF RecoveryRecord, Recoveries, r
  <2>4. proc' = [op |-> "rebase", nonce |-> n, plan |-> t, at |-> "previous",
                 write |-> [store |-> "recovery", record |-> r, then |-> "acknowledge"]]
    BY <2>1, ReplacingIs
  <2>5. /\ proc'.op = "rebase" /\ proc'.nonce = n /\ proc'.plan = t /\ proc'.at = "previous"
        /\ Place' = "acknowledge"
        /\ proc'.write = [store |-> "recovery", record |-> r, then |-> "acknowledge"]
    BY <2>4 DEF Place
  <2>6. IsProcess(proc)' /\ Placed'
    BY <1>2, <1>3, <2>1, <2>3, <2>4 DEF IsProcess, LifecycleOps, Placed, IsWrite, Writes,
       Writing, At
  <2>7. TxnRuns'
    BY <1>1, <1>3, <2>1, <2>5 DEF TxnRuns, Prepared, AfterAcknowledged, AfterBound, AfterPolicy,
       AfterGeneric, Writes
  <2>8. WritesEvidence' /\ ~(Writing /\ proc.write.store = "receipts")'
    BY <2>5 DEF WritesEvidence
  <2>9. StoreRuns'
    <3>1. Recovery' = Recovery /\ HasRecovery' = HasRecovery
      BY <1>1 DEF HasRecovery, Recovery
    <3>2. ~At("current")' /\ Recovery.seq \in Nat
      BY <2>2, <2>5 DEF At, Recoveries
    <3>. QED
      BY <2>1, <2>3, <2>5, <3>1, <3>2 DEF StoreRuns
  <2>10. TxnMarks'
    <3>1. Recovery' = Recovery /\ state' = state /\ lifecycle' = lifecycle
      BY <1>1 DEF Recovery
    <3>. QED
      BY <1>3, <2>1, <2>3, <2>5, <3>1 DEF TxnMarks
  <2>11. ReceiptPast' /\ Blocked'
    BY <1>1, <1>5, <2>5, <2>8, ReceiptPastKept, NotBlocked DEF LifecycleOps
  <2>. QED
    BY <1>1, <2>5, <2>6, <2>7, <2>8, <2>9, <2>10, <2>11, TxnMoveSound DEF LifecycleOps
<1>. QED
  BY <1>6, <1>7

\* A transaction is prepared: none of its effects is there yet.
LEMMA BeginLifecycleSound ==
    ASSUME Inv, BeginLifecycle
    PROVE  Inv'
<1> DEFINE op == proc.op
           u == proc.nonce
           x == proc.write
           t == proc.plan
<1>1. /\ proc # NoProc /\ proc.at = "begin" /\ Place = "begin" /\ op \in LifecycleOps
      /\ UNCHANGED <<account, registry, files, lineage, state, policy>>
      /\ lifecycle' = t /\ proc' = [proc EXCEPT !.at = "acknowledge"]
  BY DEF BeginLifecycle, At, Place, LifecycleOps, Go
<1> USE DEF account
<1>2. /\ proc = [op |-> op, nonce |-> u, plan |-> t, at |-> "begin", write |-> x]
      /\ IsTxn(t) /\ IsMarker(t.marker) /\ TxnRuns
  BY <1>1, TxnIsRecord
<1>3. /\ ~Prepared /\ state.mode = "HALTED" /\ ~working
      /\ t.status = "prepared" /\ t.op = op /\ t.state = state.seq /\ t.policy = policy.seq
      /\ t.from = policy.epoch /\ ~IsUsed(t.nonce) /\ t.marker = TargetMarker(t.op, t.nonce)
      /\ op = "rollforward" => t.request.evidence = Evidence.seq /\ t.request.epoch = t.epoch
  BY <1>1, <1>2 DEF TxnRuns, PlanFresh
<1>4. /\ policy.epoch = registry.epoch /\ Evidence.epoch = policy.epoch
      /\ Evidence.revision \in 1..Revision /\ registry.log[Evidence.revision].nonce = Evidence.rebind
      /\ Last.nonce # t.nonce /\ Evidence.rebind # t.nonce /\ Receipt.nonce # t.nonce
  <2>1. /\ policy.epoch = registry.epoch /\ Evidence.epoch = policy.epoch
        /\ Evidence.revision \in 1..Revision
        /\ registry.log[Evidence.revision].nonce = Evidence.rebind
        /\ IsUsed(Receipt.nonce)
    BY <1>3 DEF Inv, EInv, EvidenceHolds, OneEpoch, EvidenceHasReceipt, MInv, ReceiptPast
  <2>2. 1..Revision = DOMAIN registry.log /\ Revision \in 1..Revision
    BY DEF Inv, Typed, RegistryTyped, Revision
  <2>. QED
    BY <1>3, <2>1, <2>2 DEF IsUsed, Last
<1>5. t.op = "rollforward" => t.epoch = t.from
  BY <1>2 DEF IsTxn
<1> HIDE DEF op, u, x, t
<1>6. proc' = [op |-> op, nonce |-> u, plan |-> t, at |-> "acknowledge", write |-> x]
  BY <1>1, <1>2
<1>7. /\ proc'.op = op /\ proc'.plan = t /\ proc'.at = "acknowledge" /\ Place' = "acknowledge"
      /\ ~Writing' /\ Prepared' /\ op # "recover"
  BY <1>1, <1>3, <1>6 DEF Place, Writing, At, Prepared, LifecycleOps
<1>8. UNCHANGED <<Evidence, Receipt, Recovery, HasRecovery, Session, Adopted, Revision, Last>>
  BY <1>1 DEF Evidence, Receipt, Recovery, HasRecovery, Session, Adopted, Revision, Last
<1>9. ~Acknowledges' /\ (IsUsed(t.nonce) <=> IsUsed(lifecycle.nonce)')
  BY <1>1, <1>4, <1>8 DEF Acknowledges, IsUsed
<1>10. Typed' /\ Placed'
  <2>1. ProcTyped' /\ Placed'
    BY <1>1, <1>2, <1>6 DEF ProcTyped, IsProcess, LifecycleOps, Placed
  <2>2. StatesTyped'
    BY <1>1, <1>2 DEF Inv, Typed, StatesTyped
  <2>. QED
    BY <1>1, <1>8, <2>1, <2>2 DEF Inv, Typed, AccountTyped, RegistryTyped, FilesTyped
<1>11. EInv'
  <2>1. EvidenceHolds'
    BY <1>1, <1>3, <1>8, <1>9 DEF Inv, EInv, EvidenceHolds, NonceOnce, EvidenceHasReceipt,
       MissesOne,
         Before, Acknowledges
  <2>2. OneEpoch'
    BY <1>7 DEF OneEpoch
  <2>3. Effects'
    BY <1>1, <1>3, <1>4, <1>8, <1>9, TypedFacts DEF Effects, InOrder
  <2>4. Runs'
    BY <1>1, <1>3, <1>7 DEF Runs, WritesEvidence, TxnRuns, LifecycleOps, AfterAcknowledged,
         AfterBound, AfterPolicy, AfterGeneric, Writes
  <2>. QED
    BY <2>1, <2>2, <2>3, <2>4 DEF EInv
<1>12. SInv'
  BY <1>1, <1>7, <1>8 DEF Inv, SInv, StoreShape, StoreRuns, LifecycleOps
<1>13. MInv'
  <2>1. MarkerHasRecovery'
    BY <1>1, <1>3, <1>8 DEF Inv, MInv, MarkerHasRecovery, AtSource
  <2>2. TargetsMarker'
    BY <1>1, <1>3 DEF TargetsMarker, TargetMarker
  <2>3. Marks'
    BY <1>7 DEF Marks, TxnMarks
  <2>4. ReceiptPast'
    BY <1>1, <1>7, ReceiptPastKept
  <2>5. BetweenEpochs'
    BY <1>1, <1>3, <1>7, <1>8 DEF Inv, MInv, BetweenEpochs, Commands, At
  <2>6. Blocked'
    <3>1. SUFFICES ASSUME Unapplied' PROVE Blocked'
      BY DEF Blocked
    <3>2. Unapplied
      BY <1>1, <1>7, <1>8, <3>1 DEF Unapplied, AtSource, Writes
    <3>3. op = "rollforward" /\ Receipt.evidence < Evidence.seq /\ Receipt.epoch = policy.epoch
      BY <1>1, <3>2 DEF Inv, MInv, Blocked, Commands, LifecycleOps, op
    <3>. QED
      BY <1>1, <1>3, <1>4, <1>5, <1>7, <1>8, <3>3 DEF Blocked, At, Commands
  <2>. QED
    BY <2>1, <2>2, <2>3, <2>4, <2>5, <2>6 DEF MInv
<1>14. RInv'
  BY <1>1, <1>7, <1>8 DEF Inv, RInv, TradesArePast, DayIsDecided, LastRequest, EvidenceChained,
       RequestStands, Adoptable, Net, CheckpointStands, Commands, At, LifecycleOps
<1>. QED
  BY <1>10, <1>11, <1>12, <1>13, <1>14 DEF Inv

\* What a lifecycle command knows after its transaction was prepared.
LEMMA TxnFacts ==
    ASSUME Inv, proc # NoProc, proc.op \in LifecycleOps, proc.at # "begin"
    PROVE  /\ Prepared /\ lifecycle.op = proc.op /\ InOrder /\ state.mode = "HALTED" /\ ~working
           /\ Place \in AfterAcknowledged => Acknowledges
           /\ Place \in AfterBound => IsBound
           /\ Place \in AfterPolicy => policy.seq = lifecycle.policy + 1
           /\ Place \in AfterGeneric => state.seq = lifecycle.state + 1
           /\ Place = "receipt" => proc.op = "rollforward"
           /\ proc.op = "rebase" => Adopted = {}
           /\ Unapplied => Place \in {"acknowledge", "bind", "receipt"} /\ proc.op = "rollforward"
<1>1. TxnRuns
  BY TxnIsRecord
<1>2. Prepared /\ InOrder
  BY <1>1 DEF TxnRuns, Inv, EInv, Effects
<1>3. Unapplied => Place \in {"begin", "acknowledge", "bind", "receipt"} /\ ~Commands("rebase")
  BY DEF Inv, MInv, Blocked, InTxn
<1>4. Place # "begin"
  BY DEF Inv, Placed, Place, LifecycleOps, Writes, Writing, At, AfterAcknowledged, AfterBound,
         AfterPolicy, AfterGeneric
<1>. QED
  BY <1>1, <1>2, <1>3, <1>4 DEF TxnRuns, InOrder, Commands, LifecycleOps, Inv, MInv, BetweenEpochs

\* A lifecycle process goes to its next step and writes nothing.
LEMMA TxnGoSound ==
    ASSUME Inv, UNCHANGED <<account, registry, files, lineage, states>>,
           proc # NoProc, proc.op \in LifecycleOps, proc.at # "begin",
           NEW step \in AfterAcknowledged, proc' = [proc EXCEPT !.at = step],
           Acknowledges, step \in AfterBound => IsBound,
           step \in AfterPolicy => policy.seq = lifecycle.policy + 1,
           step \in AfterGeneric => state.seq = lifecycle.state + 1,
           step = "receipt" => proc.op = "rollforward",
           Unapplied => step \in {"bind", "receipt"},
           step = "finish" =>
             \/ state.marker = NoMarker \/ state.marker.by = NoNonce
             \/ Recovery.by = state.marker.by \/ Recovery.status = "prepared"
    PROVE  Inv'
<1> DEFINE op == proc.op
           u == proc.nonce
           x == proc.write
           t == proc.plan
           at == proc.at
<1> USE DEF account, states
<1>1. /\ proc = [op |-> op, nonce |-> u, plan |-> t, at |-> at, write |-> x]
      /\ op \in LifecycleOps /\ IsTxn(t) /\ IsMarker(t.marker)
  BY TxnIsRecord
<1>2. Prepared /\ lifecycle.op = op /\ (op = "rebase" => Adopted = {})
  BY TxnFacts
<1>3. step = "receipt" => op = "rollforward"
  OBVIOUS
<1>. HIDE DEF op, u, x, t, at
<1>4. proc' = [op |-> op, nonce |-> u, plan |-> t, at |-> step, write |-> x]
  BY <1>1
<1>5. step \notin {"previous", "current", "trading", "begin"}
  BY DEF AfterAcknowledged, AfterBound, AfterPolicy, AfterGeneric
<1>6. /\ proc'.op = op /\ proc'.plan = t /\ proc'.at = step /\ Place' = step /\ ~Writing'
  BY <1>4, <1>5 DEF Place, Writing, At
<1>7. IsProcess(proc)' /\ Placed'
  BY <1>1, <1>4, <1>5 DEF IsProcess, LifecycleOps, Placed
<1>8. TxnRuns'
  BY <1>2, <1>3, <1>5, <1>6 DEF TxnRuns, Prepared, Acknowledges, Last, Revision, IsBound,
     Evidence, Writes
<1>9. WritesEvidence' /\ StoreRuns' /\ TxnMarks'
  BY <1>1, <1>6 DEF WritesEvidence, StoreRuns, TxnMarks, LifecycleOps, Recovery
<1>10. ReceiptPast'
  BY <1>6, ReceiptPastKept
<1>11. Blocked'
  <2>1. CASE ~Unapplied
    BY <1>1, <1>6, <2>1, NotBlocked
  <2>2. CASE Unapplied
    <3>1. op = "rollforward"
      BY <2>2, TxnFacts DEF op
    <3>. QED
      BY <1>5, <1>6, <2>2, <3>1 DEF Inv, MInv, Blocked, Commands, At, Receipt, Evidence, Prepared
  <2>. QED
    BY <2>1, <2>2
<1>. QED
  BY <1>1, <1>2, <1>5, <1>6, <1>7, <1>8, <1>9, <1>10, <1>11, TxnMoveSound

\* What a lifecycle process may write after the acknowledgement.
MayWrite(store, r, then) ==
    /\ Acknowledges
    /\ store \in {"evidence", "receipts", "recovery"}
    /\ IsWrite([store |-> store, record |-> r, then |-> then])
    /\ store = "evidence" =>
         /\ then = IF proc.op = "rollforward" THEN "receipt" ELSE "policy"
         /\ EvidenceWrite(r)
    /\ store = "receipts" =>
         /\ then = "policy" /\ proc.op = "rollforward" /\ IsBound /\ ~Unapplied
         /\ r.evidence = Evidence.seq /\ r.epoch = lifecycle.epoch /\ r.nonce = lifecycle.nonce
    /\ store = "recovery" =>
         /\ then = "finish" /\ IsBound /\ ~Unapplied
         /\ policy.seq = lifecycle.policy + 1 /\ state.seq = lifecycle.state + 1
         /\ HasRecovery /\ r.seq = Recovery.seq + 1 /\ Recovery.status = "committed"
         /\ r.plan = Recovery.plan /\ r.by = lifecycle.nonce /\ r.status = "committed"
         /\ state.marker = [txn |-> Recovery.plan.nonce, by |-> lifecycle.nonce]

\* A lifecycle command that is about to replace a record.
LEMMA TxnWriteSound ==
    ASSUME Inv, UNCHANGED <<account, registry, files, lineage, states>>,
           proc # NoProc, proc.op \in LifecycleOps, proc.at # "begin",
           NEW store, NEW r, NEW then, MayWrite(store, r, then),
           proc' = Replacing(proc, store, r, then)
    PROVE  Inv'
<1> DEFINE op == proc.op
           u == proc.nonce
           x == proc.write
           t == proc.plan
           at == proc.at
           w == [store |-> store, record |-> r, then |-> then]
           place == IF store = "evidence" THEN "bind" ELSE then
<1> USE DEF account, states
<1>1. /\ proc = [op |-> op, nonce |-> u, plan |-> t, at |-> at, write |-> x]
      /\ op \in LifecycleOps /\ IsTxn(t) /\ IsMarker(t.marker)
  BY TxnIsRecord
<1>2. Prepared /\ lifecycle.op = op /\ (op = "rebase" => Adopted = {})
  BY TxnFacts
<1>3. /\ store = "evidence" => then = IF op = "rollforward" THEN "receipt" ELSE "policy"
      /\ store = "receipts" => then = "policy" /\ op = "rollforward"
      /\ store = "recovery" => then = "finish"
      /\ w.store = store /\ w.record = r /\ w.then = then /\ IsWrite(w)
      /\ store \in {"evidence", "receipts", "recovery"}
  BY DEF MayWrite
<1>. HIDE DEF op, u, x, t, at
<1>4. proc' = [op |-> op, nonce |-> u, plan |-> t, at |-> "previous", write |-> w]
  BY <1>1, ReplacingIs
<1> HIDE DEF w
<1>5. /\ proc'.op = op /\ proc'.plan = t /\ proc'.at = "previous" /\ proc'.write = w
      /\ Place' = place
  BY <1>3, <1>4 DEF Place
<1>6. IsProcess(proc)'
  BY <1>1, <1>3, <1>4 DEF IsProcess, LifecycleOps
<1>7. Placed'
  BY <1>1, <1>3, <1>5 DEF Placed, LifecycleOps, Writes, Writing, At
<1>8. TxnRuns'
  BY <1>1, <1>2, <1>3, <1>5 DEF MayWrite, TxnRuns, Prepared, Acknowledges, Last, Revision,
     IsBound, Evidence,
     Writes, LifecycleOps, AfterAcknowledged, AfterBound, AfterPolicy, AfterGeneric
<1>9. WritesEvidence'
  <2>1. store = "evidence" =>
          /\ r.seq = Evidence.seq + 1 /\ r.revision = Revision /\ r.rebind = Last.nonce
          /\ r.epoch = lifecycle.epoch /\ r.day = lifecycle.day
    BY DEF MayWrite, EvidenceWrite, InTxn
  <2>2. UNCHANGED <<Evidence, Revision, Last>>
    BY DEF Evidence, Revision, Last
  <2>. QED
    BY <1>1, <1>3, <1>5, <2>1, <2>2 DEF WritesEvidence, EvidenceWrite, InTxn, Writing, At
<1>10. StoreRuns'
  BY <1>1, <1>3, <1>5 DEF MayWrite, StoreRuns, LifecycleOps, HasRecovery, Recovery, At
<1>11. TxnMarks'
  BY <1>3, <1>5 DEF MayWrite, TxnMarks, Recovery
<1>12. ReceiptPast'
  BY <1>3, <1>5 DEF MayWrite, Inv, MInv, ReceiptPast, Receipt, Evidence, IsUsed
<1>13. Blocked'
  <2>1. CASE ~Unapplied
    BY <1>1, <1>5, <2>1, NotBlocked
  <2>2. CASE Unapplied
    <3>1. op = "rollforward" /\ store = "evidence"
      BY <1>3, <2>2, TxnFacts DEF op, MayWrite
    <3>. QED
      BY <1>3, <1>5, <2>2, <3>1 DEF Inv, MInv, Blocked, Commands, At, Receipt, Evidence, Prepared
  <2>. QED
    BY <2>1, <2>2
<1>. QED
  BY <1>1, <1>2, <1>5, <1>6, <1>7, <1>8, <1>9, <1>10, <1>11, <1>12, <1>13, TxnMoveSound

\* The registry takes the transaction's operation, and its epoch is in force.
LEMMA AcknowledgeLifecycleSound ==
    ASSUME Inv, AcknowledgeLifecycle
    PROVE  Inv'
<1> DEFINE op == proc.op
           u == proc.nonce
           x == proc.write
           m == proc.plan
           t == lifecycle
           kind == IF t.op = "rebase" THEN "advance" ELSE "continuity"
<1>1. /\ proc # NoProc /\ proc.at = "acknowledge" /\ Place = "acknowledge" /\ op \in LifecycleOps
      /\ UNCHANGED <<account, files, lineage, states>>
  BY DEF AcknowledgeLifecycle, At, Place, LifecycleOps
<1> USE DEF account, states
<1>2. /\ proc = [op |-> op, nonce |-> u, plan |-> m, at |-> "acknowledge", write |-> x]
      /\ IsTxn(m) /\ IsMarker(m.marker)
  BY <1>1, TxnIsRecord
<1>3. /\ Prepared /\ t.op = op /\ InOrder /\ state.mode = "HALTED" /\ ~working
      /\ op = "rebase" => Adopted = {}
      /\ Unapplied => op = "rollforward"
  BY <1>1, TxnFacts
<1>4. CASE proc' = NoProc /\ UNCHANGED registry
  BY <1>1, <1>4, EndSound
<1>5. CASE /\ IsUsed(t.nonce) /\ UNCHANGED registry /\ proc' = [proc EXCEPT !.at = "bind"]
           /\ Last = [kind |-> kind, nonce |-> t.nonce, request |-> t.request]
  <2>1. Acknowledges
    BY <1>3, <1>5 DEF Acknowledges
  <2>2. "bind" \in AfterAcknowledged /\ "bind" \notin AfterBound
    BY DEF AfterAcknowledged, AfterBound, AfterPolicy, AfterGeneric
  <2>. QED
    BY <1>1, <1>5, <2>1, <2>2, TxnGoSound DEF AfterBound, AfterPolicy
<1>6. CASE /\ ~IsUsed(t.nonce) /\ proc' = [proc EXCEPT !.at = "bind"]
           /\ registry' = Acknowledged(kind, t.nonce, t.request, t.epoch)
  <2>1. /\ kind \in {"advance", "continuity"}
        /\ IsOperation([kind |-> kind, nonce |-> t.nonce, request |-> t.request])
    BY TypedFacts DEF IsOperation, IsTxn
  <2> HIDE DEF op, u, x, m, t, kind
  <2>2. proc' = [op |-> op, nonce |-> u, plan |-> m, at |-> "bind", write |-> x]
    BY <1>2, <1>6
  <2>3. /\ Place' = "bind" /\ ~Writing' /\ proc'.plan = m /\ proc'.at = "bind" /\ proc'.op = op
    BY <2>2 DEF Place, Writing, At
  <2>4. /\ RegistryTyped' /\ NonceOnce' /\ Revision' = Revision + 1
        /\ Revision \in Nat /\ Revision > 0
        /\ \A i \in 1..Revision : registry'.log[i] = registry.log[i]
        /\ Last' = [kind |-> kind, nonce |-> t.nonce, request |-> t.request]
        /\ Last' = registry'.log[Revision'] /\ registry'.epoch = t.epoch
    BY <1>6, <2>1, AcknowledgedFacts
  <2>5. UNCHANGED <<Evidence, Receipt, Recovery, Session, Adopted, Prepared, HasRecovery,
  IsBound>>
    BY <1>1 DEF Evidence, Receipt, Recovery, Session, Adopted, Prepared, HasRecovery, IsBound
  <2>6. Last'.kind = kind /\ Last'.nonce = t.nonce /\ lifecycle' = t
    BY <1>1, <2>4 DEF t
  <2>7. ~Acknowledges /\ Evidence.rebind # t.nonce /\ Last.nonce # t.nonce
    <3>1. Revision \in 1..Revision /\ DOMAIN registry.log = 1..Revision
      BY DEF Inv, Typed, RegistryTyped, Revision
    <3>2. Evidence.revision \in 1..Revision /\ registry.log[Evidence.revision].nonce = Evidence.rebind
      BY DEF Inv, EInv, EvidenceHolds, EvidenceHasReceipt
    <3>. QED
      BY <1>6, <3>1, <3>2 DEF Acknowledges, Last, IsUsed, t
  <2>8. Acknowledges'
    BY <1>3, <2>5, <2>6 DEF Acknowledges, t
  <2>9. ProcTyped' /\ Placed'
    BY <1>1, <1>2, <2>2 DEF ProcTyped, IsProcess, LifecycleOps, Placed, AfterAcknowledged
  <2>10. Typed'
    BY <1>1, <2>4, <2>5, <2>9 DEF Inv, Typed, AccountTyped, FilesTyped, StatesTyped
  <2>11. EInv'
    <3>1. EvidenceHasReceipt'
      BY <2>4, <2>5 DEF Inv, EInv, EvidenceHolds, EvidenceHasReceipt
    <3>2. MissesOne'
      <4>1. /\ Evidence.revision = Revision \/ Evidence.revision = Revision - 1
            /\ Evidence.revision = Revision - 1 => registry.log[Revision].kind = "recovery"
        BY <2>7 DEF Inv, EInv, EvidenceHolds, MissesOne, Before
      <4>2. Before' = Revision
        BY <2>4, <2>8 DEF Before
      <4>3. Revision \in 1..Revision
        BY <2>4
      <4>. QED
        BY <2>4, <2>5, <2>6, <2>7, <4>1, <4>2, <4>3 DEF MissesOne, t
    <3>3. OneEpoch'
      BY <1>3, <2>5 DEF OneEpoch
    <3>4. Effects'
      BY <1>1, <1>3, <2>1, <2>4, <2>5, <2>6, <2>7 DEF Effects, InOrder, t
    <3>5. Runs'
      BY <1>1, <1>3, <2>3, <2>5, <2>6, <2>8 DEF Runs, WritesEvidence, TxnRuns, LifecycleOps,
         AfterAcknowledged, AfterBound, AfterPolicy, AfterGeneric, Writes
    <3>. QED
      BY <2>4, <3>1, <3>2, <3>3, <3>4, <3>5 DEF EInv, EvidenceHolds
  <2>12. SInv'
    BY <1>1, <2>3, <2>5 DEF Inv, SInv, StoreShape, StoreRuns, LifecycleOps
  <2>13. MInv'
    <3>1. MarkerHasRecovery' /\ TargetsMarker'
      BY <1>1, <2>5 DEF Inv, MInv, MarkerHasRecovery, TargetsMarker, AtSource, TargetMarker
    <3>2. Marks'
      BY <1>1, <2>3 DEF Marks, TxnMarks, LifecycleOps
    <3>3. \A i \in DOMAIN registry.log : i \in DOMAIN registry'.log /\ registry'.log[i] = registry.log[i]
      BY <2>4 DEF Inv, Typed, RegistryTyped, Revision
    <3>4. ReceiptPast'
      <4>1. Evidence.revision \in 1..Revision
        BY DEF Inv, EInv, EvidenceHolds, EvidenceHasReceipt
      <4>. QED
        BY <1>1, <2>3, <2>5, <2>4, <3>3, <4>1 DEF Inv, MInv, ReceiptPast, IsUsed
    <3>5. BetweenEpochs'
      BY <1>1, <1>3, <2>3, <2>5 DEF Inv, MInv, BetweenEpochs, Commands, At
    <3>6. Blocked'
      <4>1. SUFFICES ASSUME Unapplied' PROVE Blocked'
        BY DEF Blocked
      <4>2. Unapplied
        BY <1>1, <2>3, <2>5, <4>1 DEF Unapplied, AtSource, Writes
      <4>. QED
        BY <1>1, <1>3, <2>3, <2>5, <4>2 DEF Inv, MInv, Blocked, Commands, At, InTxn
    <3>. QED
      BY <3>1, <3>2, <3>4, <3>5, <3>6 DEF MInv
  <2>14. RInv'
    <3>1. (TradesArePast /\ DayIsDecided /\ EvidenceChained)'
      BY <1>1, <2>3, <2>5 DEF Inv, RInv, TradesArePast, DayIsDecided, EvidenceChained, At,
         Commands,
         LifecycleOps
    <3>2. LastRequest'
      BY <2>1, <2>6 DEF LastRequest
    <3>3. HasRecovery => CheckpointStands(Recovery.plan)'
      BY <1>1, <2>4, <2>5 DEF Inv, RInv, CheckpointStands
    <3>. QED
      BY <1>1, <2>3, <2>5, <3>1, <3>2, <3>3 DEF RInv, Commands, LifecycleOps
  <2>. QED
    BY <2>9, <2>10, <2>11, <2>12, <2>13, <2>14 DEF Inv
<1>. QED
  BY <1>1, <1>4, <1>5, <1>6 DEF AcknowledgeLifecycle, Go, End, Accepts, Acknowledged

\* The evidence is bound, or is about to be.
LEMMA BindLifecycleSound ==
    ASSUME Inv, BindLifecycle
    PROVE  Inv'
<1> DEFINE t == lifecycle
           target == Rebound(Evidence, t.day, t.epoch, t.nonce)
           next == IF t.op = "rollforward" THEN "receipt" ELSE "policy"
<1>1. /\ proc # NoProc /\ proc.at = "bind" /\ Place = "bind" /\ proc.op \in LifecycleOps
      /\ UNCHANGED <<account, registry, files, lineage, states>>
  BY DEF BindLifecycle, At, Place, LifecycleOps
<1>2. /\ Prepared /\ t.op = proc.op /\ InOrder /\ Acknowledges
      /\ Unapplied => proc.op = "rollforward"
  BY <1>1, TxnFacts DEF AfterAcknowledged
<1>3. CASE proc' = NoProc
  BY <1>1, <1>3, EndSound
<1>4. CASE SameBinding(Evidence, target) /\ proc' = [proc EXCEPT !.at = next]
  <2>1. IsBound
    BY <1>4 DEF SameBinding, Rebound, IsBound
  <2>2. /\ next \in AfterAcknowledged /\ next \in AfterBound /\ next \notin AfterPolicy
        /\ next \notin AfterGeneric /\ next # "finish"
        /\ Unapplied => next \in {"bind", "receipt"}
    BY <1>2 DEF AfterAcknowledged, AfterBound, AfterPolicy, AfterGeneric
  <2> HIDE DEF next
  <2>3. next = "receipt" => proc.op = "rollforward"
    BY <1>2 DEF next
  <2>. QED
    BY <1>1, <1>2, <1>4, <2>1, <2>2, <2>3, TxnGoSound
<1>5. CASE Last.nonce = t.nonce /\ proc' = Replacing(proc, "evidence", target, next)
  <2>1. t.day \in Nat /\ Evidence.seq \in Nat /\ Revision \in Nat
    BY TypedFacts DEF IsTxn, Inv, Typed, RegistryTyped, Revision
  <2>2. IsEvidence(target) /\ EvidenceWrite(target)
    BY <1>1, <1>5, <2>1 DEF Rebound, IsEvidence, EvidenceWrite, InTxn
  <2> HIDE DEF target
  <2>3. IsWrite([store |-> "evidence", record |-> target, then |-> next])
    BY <2>2 DEF IsWrite
  <2>4. next = IF proc.op = "rollforward" THEN "receipt" ELSE "policy"
    BY <1>2
  <2> HIDE DEF next
  <2>5. MayWrite("evidence", target, next)
    BY <1>2, <2>2, <2>3, <2>4 DEF MayWrite
  <2>. QED
    BY <1>1, <1>5, <2>5, TxnWriteSound
<1>. QED
  BY <1>3, <1>4, <1>5 DEF BindLifecycle, Go, End

\* The receipt is there, or is about to be: no recovery waits beside a marker.
LEMMA SaveReceiptSound ==
    ASSUME Inv, SaveReceipt
    PROVE  Inv'
<1> DEFINE t == lifecycle
           r == NewReceipt(t)
<1>1. /\ proc # NoProc /\ proc.at = "receipt" /\ Place = "receipt" /\ proc.op \in LifecycleOps
      /\ UNCHANGED <<account, registry, files, lineage, states>>
  <2>1. proc # NoProc /\ proc.at = "receipt"
    BY DEF SaveReceipt, At
  <2>. QED
    BY <2>1, TxnPlaces DEF SaveReceipt, Place
<1>2. /\ Prepared /\ t.op = proc.op /\ InOrder /\ Acknowledges /\ IsBound
      /\ proc.op = "rollforward"
  BY <1>1, TxnFacts DEF AfterAcknowledged, AfterBound
<1>3. CASE proc' = NoProc
  BY <1>1, <1>3, EndSound
<1>4. CASE HasReceipt(t.nonce) /\ proc' = [proc EXCEPT !.at = "policy"]
  <2>1. ~Unapplied
    BY <1>2, <1>4 DEF Inv, MInv, Blocked, HasReceipt
  <2>2. /\ "policy" \in AfterAcknowledged /\ "policy" \notin AfterPolicy
        /\ "policy" \notin AfterGeneric
    BY DEF AfterAcknowledged, AfterBound, AfterPolicy, AfterGeneric
  <2>. QED
    BY <1>1, <1>2, <1>4, <2>1, <2>2, TxnGoSound
<1>5. CASE Follows(t.request) /\ proc' = Replacing(proc, "receipts", r, "policy")
  <2>1. /\ Receipt.seq \in Nat /\ Evidence.seq \in Nat /\ Receipt.evidence \in Nat
        /\ t.request.evidence \in Nat
    BY <1>2, TypedFacts DEF Inv, Typed, FilesTyped, IsReceipt, IsTxn, IsPlanRequest
  <2>2. IsReceipt(r)
    BY <2>1 DEF NewReceipt, IsReceipt
  <2>3. r.evidence = Evidence.seq /\ r.epoch = lifecycle.epoch /\ r.nonce = lifecycle.nonce
    BY DEF NewReceipt
  <2>4. ~Unapplied
    BY <1>2, <1>5, <2>1 DEF Inv, MInv, Blocked, Follows
  <2> HIDE DEF r
  <2>5. IsWrite([store |-> "receipts", record |-> r, then |-> "policy"])
    BY <2>2 DEF IsWrite
  <2>6. MayWrite("receipts", r, "policy")
    BY <1>2, <2>3, <2>4, <2>5 DEF MayWrite
  <2>. QED
    BY <1>1, <1>5, <2>6, TxnWriteSound
<1>6. ReceiptsReadable /\ ~HasReceipt(t.nonce) =>
        IF Follows(r.request) THEN proc' = Replacing(proc, "receipts", r, "policy")
        ELSE proc' = NoProc
  BY DEF SaveReceipt, End
<1>7. ReceiptsReadable /\ HasReceipt(t.nonce) =>
        proc' = [proc EXCEPT !.at = "policy"] \/ proc' = NoProc
  BY DEF SaveReceipt, Go, End
<1>8. ~ReceiptsReadable => proc' = NoProc
  BY DEF SaveReceipt, End
<1>9. r.request = t.request
  BY DEF NewReceipt
<1>. QED
  BY <1>3, <1>4, <1>5, <1>6, <1>7, <1>8, <1>9

\* A consumed marker is about to be told to the recovery store.
LEMMA ConsumeSound ==
    ASSUME Inv, Consume
    PROVE  Inv'
<1> DEFINE t == lifecycle
           r == RecoveryRecord("committed", Recovery.plan, lifecycle.nonce)
<1>1. /\ proc # NoProc /\ proc.at = "consume" /\ Place = "consume" /\ proc.op \in LifecycleOps
      /\ UNCHANGED <<account, registry, files, lineage, states>>
  <2>1. proc # NoProc /\ proc.at = "consume"
    BY DEF Consume, At
  <2>. QED
    BY <2>1, TxnPlaces DEF Consume, Place
<1>2. /\ Prepared /\ Acknowledges /\ IsBound /\ ~Unapplied
      /\ policy.seq = lifecycle.policy + 1 /\ state.seq = lifecycle.state + 1
  BY <1>1, TxnFacts DEF AfterAcknowledged, AfterBound, AfterPolicy, AfterGeneric
<1>3. CASE proc' = NoProc
  BY <1>1, <1>3, EndSound
<1>4. CASE /\ proc' = [proc EXCEPT !.at = "finish"]
           /\ \/ state.marker = NoMarker \/ state.marker.by = NoNonce
              \/ Recovery.by = state.marker.by
  <2>1. "finish" \in AfterAcknowledged
    BY DEF AfterAcknowledged, AfterBound, AfterPolicy, AfterGeneric
  <2>. QED
    BY <1>1, <1>2, <1>4, <2>1, TxnGoSound
<1>5. CASE Consumable(t.nonce) /\ proc' = Replacing(proc, "recovery", r, "finish")
  <2>1. /\ HasRecovery /\ Recovery.status = "committed" /\ Recovery \in Recoveries
        /\ state.marker = [txn |-> Recovery.plan.nonce, by |-> t.nonce]
    BY <1>5 DEF Consumable, Inv, Typed, FilesTyped, HasRecovery
  <2>2. t.nonce \in Nonces
    BY <1>2, TypedFacts DEF IsTxn, Prepared
  <2>3. /\ r = [seq |-> Recovery.seq + 1, status |-> "committed", plan |-> Recovery.plan,
                by |-> lifecycle.nonce]
        /\ r \in Recoveries
    BY <2>1, <2>2 DEF RecoveryRecord, Recoveries
  <2> HIDE DEF r
  <2>4. IsWrite([store |-> "recovery", record |-> r, then |-> "finish"])
    BY <2>3 DEF IsWrite
  <2>5. MayWrite("recovery", r, "finish")
    BY <1>2, <2>1, <2>3, <2>4 DEF MayWrite
  <2>. QED
    BY <1>1, <1>5, <2>5, TxnWriteSound
<1>6. Consumable(t.nonce) /\ Recovery.by = t.nonce => Recovery.by = state.marker.by
  BY DEF Consumable
<1>. QED
  BY <1>3, <1>4, <1>5, <1>6 DEF Consume, Go, End

\* The policy state takes the transaction's epoch.
LEMMA SavePolicySound ==
    ASSUME Inv, SavePolicy
    PROVE  Inv'
<1> DEFINE op == proc.op
           u == proc.nonce
           x == proc.write
           m == proc.plan
           t == lifecycle
<1>1. /\ proc # NoProc /\ proc.at = "policy" /\ Place = "policy" /\ op \in LifecycleOps
      /\ UNCHANGED <<account, registry, files, lineage, state, lifecycle>>
  <2>1. proc # NoProc /\ proc.at = "policy"
    BY DEF SavePolicy, At
  <2>. QED
    BY <2>1, TxnPlaces DEF SavePolicy, Place
<1> USE DEF account
<1>2. /\ Prepared /\ t.op = op /\ InOrder /\ Acknowledges /\ IsBound /\ ~Unapplied
      /\ state.mode = "HALTED" /\ ~working /\ (op = "rebase" => Adopted = {})
  BY <1>1, TxnFacts DEF AfterAcknowledged, AfterBound
<1>3. CASE proc' = NoProc /\ UNCHANGED policy
  BY <1>1, <1>3, EndSound DEF states
<1>4. CASE policy.seq = t.policy + 1 /\ UNCHANGED policy /\ proc' = [proc EXCEPT !.at = "generic"]
  <2>1. /\ "generic" \in AfterAcknowledged /\ "generic" \notin AfterGeneric
    BY DEF AfterAcknowledged, AfterBound, AfterPolicy, AfterGeneric
  <2>. QED
    BY <1>1, <1>2, <1>4, <2>1, TxnGoSound DEF states
<1>5. CASE /\ policy.seq = t.policy /\ proc' = [proc EXCEPT !.at = "generic"]
           /\ policy' = [policy EXCEPT !.seq = @ + 1, !.epoch = lifecycle.epoch]
  <2>1. /\ proc = [op |-> op, nonce |-> u, plan |-> m, at |-> "policy", write |-> x]
        /\ IsTxn(m) /\ IsMarker(m.marker)
    BY <1>1, TxnIsRecord
  <2>2. /\ policy'.seq = t.policy + 1 /\ policy'.epoch = t.epoch /\ policy'.target = policy.target
        /\ policy' = [seq |-> policy'.seq, epoch |-> policy'.epoch, target |-> policy'.target]
        /\ policy'.seq \in Nat /\ policy'.target \in Nat
    <3> DEFINE a == policy.seq
               b == policy.epoch
               g == policy.target
               p == [policy EXCEPT !.seq = @ + 1]
               q == [p EXCEPT !.epoch = t.epoch]
    <3>1. policy = [seq |-> a, epoch |-> b, target |-> g] /\ a \in Nat /\ g \in Nat
      BY DEF Inv, Typed, StatesTyped
    <3>2. p = [seq |-> a + 1, epoch |-> b, target |-> g]
      BY <3>1
    <3>3. policy' = q
      BY <1>5
    <3> HIDE DEF p, t
    <3>4. q = [seq |-> a + 1, epoch |-> t.epoch, target |-> g]
      BY <3>2
    <3>5. policy' = [seq |-> a + 1, epoch |-> t.epoch, target |-> g] /\ a = t.policy
      BY <1>5, <3>3, <3>4
    <3> HIDE DEF q, a, g
    <3>6. policy'.target = g /\ policy'.seq = a + 1 /\ policy'.epoch = t.epoch
      BY <3>5
    <3>. QED
      BY <3>1, <3>5, <3>6 DEF g
  <2> HIDE DEF op, u, x, m
  <2>3. proc' = [op |-> op, nonce |-> u, plan |-> m, at |-> "generic", write |-> x]
    BY <1>5, <2>1
  <2>4. /\ proc'.op = op /\ proc'.plan = m /\ proc'.at = "generic" /\ Place' = "generic"
        /\ ~Writing'
    BY <2>3 DEF Place, Writing, At
  <2>5. UNCHANGED <<Evidence, Receipt, Recovery, HasRecovery, Session, Adopted, Revision, Last,
                    Prepared, IsBound, Acknowledges>>
    BY <1>1 DEF Evidence, Receipt, Recovery, HasRecovery, Session, Adopted, Revision, Last,
                Prepared, IsBound, Acknowledges
  <2>6. Typed' /\ Placed'
    <3>1. ProcTyped' /\ Placed'
      BY <1>1, <2>1, <2>3 DEF ProcTyped, IsProcess, LifecycleOps, Placed, AfterAcknowledged,
         AfterBound, AfterPolicy
    <3>. QED
      BY <1>1, <2>2, <2>5, <3>1 DEF Inv, Typed, AccountTyped, RegistryTyped, FilesTyped,
         StatesTyped
  <2>7. EInv'
    <3>1. EvidenceHolds' /\ OneEpoch'
      BY <1>1, <1>2, <2>5 DEF Inv, EInv, EvidenceHolds, NonceOnce, EvidenceHasReceipt, MissesOne,
         Before, OneEpoch
    <3>2. Effects'
      BY <1>1, <1>2, <2>2, <2>5 DEF Effects, InOrder, IsUsed
    <3>3. Runs'
      BY <1>1, <1>2, <2>2, <2>4, <2>5 DEF Runs, WritesEvidence, TxnRuns, LifecycleOps,
         AfterAcknowledged, AfterBound, AfterPolicy, AfterGeneric, Writes
    <3>. QED
      BY <3>1, <3>2, <3>3 DEF EInv
  <2>8. SInv'
    BY <1>1, <2>4, <2>5 DEF Inv, SInv, StoreShape, StoreRuns, LifecycleOps
  <2>9. MInv'
    <3>1. MarkerHasRecovery' /\ TargetsMarker'
      BY <1>1, <2>5 DEF Inv, MInv, MarkerHasRecovery, TargetsMarker, AtSource, TargetMarker
    <3>2. Marks'
      BY <1>1, <2>4 DEF Marks, TxnMarks, LifecycleOps
    <3>3. ReceiptPast'
      BY <1>1, <2>4, ReceiptPastKept
    <3>4. BetweenEpochs'
      <4>1. op = "rollforward" => t.epoch = policy.epoch
        BY <1>2, <1>5, TypedFacts DEF InOrder, IsTxn
      <4>. QED
        BY <1>1, <1>2, <2>2, <2>4, <2>5, <4>1 DEF Inv, MInv, BetweenEpochs, Commands, At,
           LifecycleOps
    <3>5. Blocked'
      BY <1>1, <1>2, <2>4, NotBlocked
    <3>. QED
      BY <3>1, <3>2, <3>3, <3>4, <3>5 DEF MInv
  <2>10. RInv'
    <3>1. (TradesArePast /\ DayIsDecided /\ EvidenceChained)'
      BY <1>1, <2>2, <2>4, <2>5 DEF Inv, RInv, TradesArePast, DayIsDecided, EvidenceChained, At,
         Commands, LifecycleOps
    <3>2. Last.kind # "recovery"
      BY <1>2 DEF InOrder, Acknowledges
    <3>3. HasRecovery => CheckpointStands(Recovery.plan)'
      BY <1>1, <2>5, <3>2 DEF Inv, RInv, CheckpointStands, Last
    <3>. QED
      BY <1>1, <2>4, <2>5, <3>1, <3>2, <3>3 DEF RInv, LastRequest, Commands, LifecycleOps
  <2>. QED
    BY <2>6, <2>7, <2>8, <2>9, <2>10 DEF Inv
<1>. QED
  BY <1>1, <1>3, <1>4, <1>5 DEF SavePolicy, Go, End

\* The generic state takes the transaction's day and marker.
LEMMA SaveGenericSound ==
    ASSUME Inv, SaveGeneric
    PROVE  Inv'
<1> DEFINE op == proc.op
           u == proc.nonce
           x == proc.write
           m == proc.plan
           t == lifecycle
<1>1. /\ proc # NoProc /\ proc.at = "generic" /\ Place = "generic" /\ op \in LifecycleOps
      /\ UNCHANGED <<account, registry, files, lineage, policy, lifecycle>>
  <2>1. proc # NoProc /\ proc.at = "generic"
    BY DEF SaveGeneric, At
  <2>. QED
    BY <2>1, TxnPlaces DEF SaveGeneric, Place
<1> USE DEF account
<1>2. /\ Prepared /\ t.op = op /\ InOrder /\ Acknowledges /\ IsBound /\ ~Unapplied
      /\ policy.seq = t.policy + 1
      /\ state.mode = "HALTED" /\ ~working /\ (op = "rebase" => Adopted = {})
  BY <1>1, TxnFacts DEF AfterAcknowledged, AfterBound, AfterPolicy
<1>3. CASE proc' = NoProc /\ UNCHANGED state
  BY <1>1, <1>3, EndSound DEF states
<1>4. CASE state.seq = t.state + 1 /\ UNCHANGED state /\ proc' = [proc EXCEPT !.at = "consume"]
  <2>1. "consume" \in AfterAcknowledged
    BY DEF AfterAcknowledged, AfterBound, AfterPolicy, AfterGeneric
  <2>. QED
    BY <1>1, <1>2, <1>4, <2>1, TxnGoSound DEF states
<1>5. CASE /\ state.seq = t.state /\ proc' = [proc EXCEPT !.at = "consume"]
           /\ Save([state EXCEPT !.day = t.day, !.marker = t.marker])
  <2>1. /\ proc = [op |-> op, nonce |-> u, plan |-> m, at |-> "generic", write |-> x]
        /\ IsTxn(m) /\ IsMarker(m.marker)
    BY <1>1, TxnIsRecord
  <2> DEFINE d == t.day
             marker == t.marker
             seq == state.seq
             mode == state.mode
             known == state.known
  <2>2. /\ state'.seq = state.seq + 1 /\ state'.mode = state.mode /\ state'.day = t.day
        /\ state'.known = state.known /\ state'.marker = t.marker
        /\ IsState(state)' /\ IsMarker(state.marker)'
    <3>1. /\ state = [seq |-> seq, mode |-> mode, day |-> state.day, known |-> known,
                      marker |-> state.marker]
          /\ seq \in Nat
      BY StateIsRecord
    <3>2. d \in Nat /\ IsMarker(marker)
      BY TypedFacts DEF IsTxn
    <3>3. Save([state EXCEPT !.day = d, !.marker = marker])
      BY <1>5
    <3> HIDE DEF d, marker, mode, known
    <3>4. [state EXCEPT !.day = d, !.marker = marker] =
            [seq |-> state.seq, mode |-> mode, day |-> d, known |-> known, marker |-> marker]
      <4> DEFINE s == [state EXCEPT !.day = d]
                 r == [s EXCEPT !.marker = marker]
      <4>1. s = [seq |-> seq, mode |-> mode, day |-> d, known |-> known, marker |-> state.marker]
        BY <3>1
      <4>2. r = [state EXCEPT !.day = d, !.marker = marker]
        OBVIOUS
      <4> HIDE DEF s
      <4>3. r = [seq |-> state.seq, mode |-> mode, day |-> d, known |-> known, marker |-> marker]
        BY <4>1
      <4>. QED
        BY <4>2, <4>3
    <3>5. /\ state'.seq = state.seq + 1 /\ state'.mode = mode /\ state'.day = d
          /\ state'.known = known /\ state'.marker = marker
          /\ IsState(state)' /\ IsMarker(state.marker)'
      BY <3>1, <3>2, <3>3, <3>4, StateSaved
    <3>. QED
      BY <3>5 DEF d, marker, mode, known
  <2> HIDE DEF op, u, x, m
  <2>3. proc' = [op |-> op, nonce |-> u, plan |-> m, at |-> "consume", write |-> x]
    BY <1>5, <2>1
  <2>4. /\ proc'.op = op /\ proc'.plan = m /\ proc'.at = "consume" /\ Place' = "consume"
        /\ ~Writing'
    BY <2>3 DEF Place, Writing, At
  <2>5. UNCHANGED <<Evidence, Receipt, Recovery, HasRecovery, Session, Revision, Last,
                    Prepared, IsBound, Acknowledges>>
    BY <1>1 DEF Evidence, Receipt, Recovery, HasRecovery, Session, Revision, Last,
                Prepared, IsBound, Acknowledges
  <2>6. ProcTyped' /\ Placed'
    BY <1>1, <2>1, <2>3 DEF ProcTyped, IsProcess, LifecycleOps, Placed, AfterAcknowledged,
         AfterBound, AfterPolicy, AfterGeneric
  <2>7. Effects'
    BY <1>1, <1>2, <1>5, <2>2, <2>5 DEF Effects, InOrder, IsUsed
  <2>8. Runs'
    BY <1>1, <1>2, <1>5, <2>2, <2>4, <2>5 DEF Runs, WritesEvidence, TxnRuns, LifecycleOps,
         AfterAcknowledged, AfterBound, AfterPolicy, AfterGeneric, Writes
  <2>9. StoreRuns' /\ Marks' /\ (Commands("recover") => Retries)'
    BY <1>1, <2>4 DEF StoreRuns, Marks, TxnMarks, LifecycleOps, Commands
  <2>10. MarkerHasRecovery'
    <3>1. t.marker = TargetMarker(t.op, t.nonce)
      BY <1>2, <1>5 DEF Inv, MInv, TargetsMarker
    <3>2. t.marker # NoMarker =>
            /\ state.marker # NoMarker /\ t.marker.txn = state.marker.txn
            /\ t.marker.by = state.marker.by \/ t.marker.by = t.nonce
      <4>1. state.marker # NoMarker =>
              state.marker = [txn |-> state.marker.txn, by |-> state.marker.by]
        BY TypedFacts DEF IsMarker
      <4>. QED
        BY <3>1, <4>1 DEF TargetMarker
    <3>3. state.marker # NoMarker => HasRecovery /\ Recovery.plan.nonce = state.marker.txn
      BY <1>2 DEF Inv, MInv, MarkerHasRecovery, Unapplied
    <3>4. state.marker # NoMarker =>
            \/ state.marker.by = NoNonce \/ Recovery.by = state.marker.by
            \/ Recovery.status = "prepared"
            \/ (Prepared /\ state.marker.by = lifecycle.nonce)
      BY DEF Inv, MInv, MarkerHasRecovery
    <3>. QED
      BY <1>1, <1>2, <2>2, <2>5, <3>2, <3>3, <3>4 DEF MarkerHasRecovery
  <2>11. BetweenEpochs'
    BY <1>1, <1>2, <2>2, <2>4, <2>5 DEF Inv, MInv, BetweenEpochs, Commands, At, LifecycleOps,
       Adopted
  <2>12. DayIsDecided'
    BY <1>1, <1>2, <2>2, <2>4, <2>5 DEF Inv, RInv, DayIsDecided, At, Commands, LifecycleOps
  <2>. QED
    BY <1>1, <2>2, <2>4, <2>6, <2>7, <2>8, <2>9, <2>10, <2>11, <2>12, SaveSound
<1>. QED
  BY <1>1, <1>3, <1>4, <1>5 DEF SaveGeneric, Go, End

\* The transaction ends with all its effects in place.
LEMMA CommitLifecycleSound ==
    ASSUME Inv, CommitLifecycle
    PROVE  Inv'
<1> DEFINE t == lifecycle
<1>1. /\ proc # NoProc /\ proc.at = "finish" /\ Place = "finish" /\ proc.op \in LifecycleOps
      /\ UNCHANGED <<account, registry, files, lineage, state, policy>>
      /\ proc' = NoProc /\ lifecycle' = [lifecycle EXCEPT !.status = "committed"]
  <2>1. proc # NoProc /\ proc.at = "finish"
    BY DEF CommitLifecycle, At
  <2>. QED
    BY <2>1, TxnPlaces DEF CommitLifecycle, Place, End
<1> USE DEF account
<1>2. /\ Prepared /\ InOrder /\ Acknowledges /\ IsBound /\ policy.seq = t.policy + 1
  BY <1>1, TxnFacts DEF AfterAcknowledged, AfterBound, AfterPolicy, AfterGeneric
<1>3. /\ lifecycle'.status = "committed" /\ lifecycle'.marker = lifecycle.marker
      /\ IsTxn(lifecycle)'
  BY <1>1, TypedFacts DEF IsTxn
<1>4. ~Prepared' /\ ~Acknowledges' /\ ~Writing'
  BY <1>1, <1>3 DEF Prepared, Acknowledges, Writing, At
<1>5. UNCHANGED <<Evidence, Receipt, Recovery, HasRecovery, Session, Adopted, Revision, Last>>
  BY <1>1 DEF Evidence, Receipt, Recovery, HasRecovery, Session, Adopted, Revision, Last
<1>6. /\ Evidence.revision = Revision /\ Evidence.epoch = t.epoch /\ policy.epoch = t.epoch
      /\ registry.epoch = t.epoch
  <2>1. Evidence.revision = Revision
    BY <1>2 DEF Inv, EInv, EvidenceHolds, MissesOne, IsBound
  <2>2. registry.epoch = t.epoch /\ Evidence.epoch = t.epoch
    BY <1>2 DEF Acknowledges, InOrder, IsBound
  <2>3. policy.epoch = t.epoch
    BY <1>2, TypedFacts DEF InOrder, IsTxn
  <2>. QED
    BY <2>1, <2>2, <2>3
<1>7. Typed' /\ Placed'
  BY <1>1, <1>3, <1>5 DEF Inv, Typed, AccountTyped, RegistryTyped, FilesTyped, StatesTyped,
     ProcTyped,
     Placed, IsMarker
<1>8. EInv'
  BY <1>1, <1>4, <1>5, <1>6 DEF Inv, EInv, EvidenceHolds, NonceOnce, EvidenceHasReceipt,
     MissesOne,
     Before, OneEpoch, Effects, Runs
<1>9. SInv'
  BY <1>1, <1>5 DEF Inv, SInv, StoreShape, StoreRuns
<1>10. MInv'
  <2>1. MarkerHasRecovery'
    <3>1. TxnMarks
      BY <1>1, TxnIsRecord
    <3>. QED
      BY <1>1, <1>5, <3>1 DEF TxnMarks, Inv, MInv, MarkerHasRecovery, AtSource
  <2>2. TargetsMarker' /\ Marks'
    BY <1>1, <1>4 DEF TargetsMarker, Marks
  <2>3. ReceiptPast'
    BY <1>1, <1>4, ReceiptPastKept
  <2>4. BetweenEpochs' /\ Blocked'
    BY <1>1, <1>4, <1>5 DEF Inv, MInv, BetweenEpochs, Blocked, Unapplied, AtSource, At, Commands,
       InTxn
  <2>. QED
    BY <2>1, <2>2, <2>3, <2>4 DEF MInv
<1>11. RInv'
  BY <1>1, <1>5 DEF Inv, RInv, TradesArePast, DayIsDecided, LastRequest, EvidenceChained,
     RequestStands, Adoptable, Net, CheckpointStands, Commands, At
<1>. QED
  BY <1>7, <1>8, <1>9, <1>10, <1>11 DEF Inv

-------------------------------------------------------------------------------
(***************************************************************************)
(* The account, the clock and the other accounts.                          *)
(***************************************************************************)

\* Steps of the account.
LEMMA AccountSound ==
    ASSUME Inv, UNCHANGED <<registry, files, lineage, states, proc>>,
           AccountTyped', Effects', Runs', BetweenEpochs', TradesArePast', DayIsDecided',
           Last.kind = "recovery" => RequestStands(Last.request)',
           Last.kind = "recovery" => (Session' = Last.request.session => Session = Session'),
           Commands("recover") => UNCHANGED <<day, trades>>
    PROVE  Inv'
<1> USE DEF states
<1>1. UNCHANGED <<Evidence, Receipt, Recovery, HasRecovery, Revision, Last, Prepared, Writing, Place>>
  BY DEF Evidence, Receipt, Recovery, HasRecovery, Revision, Last, Prepared, Writing, At, Place
<1>2. Typed' /\ Placed'
  BY <1>1 DEF Inv, Typed, RegistryTyped, FilesTyped, StatesTyped, ProcTyped, Placed, Writes, At
<1>3. EInv'
  BY <1>1 DEF Inv, EInv, EvidenceHolds, NonceOnce, EvidenceHasReceipt, MissesOne,
     Before, Acknowledges, OneEpoch
<1>4. SInv'
  BY <1>1 DEF Inv, SInv, StoreShape, StoreRuns, RecoveryReadable, Chained, At
<1>5. MInv'
  BY <1>1 DEF Inv, MInv, MarkerHasRecovery, TargetsMarker, TargetMarker, Marks, RecoveryMarks,
     TxnMarks, Writes, AtTarget, AtSource, ReceiptPast, IsUsed, Blocked, Unapplied, At,
     Commands, InTxn
<1>6. RInv'
  <2>1. LastRequest' /\ EvidenceChained'
    BY <1>1 DEF Inv, RInv, LastRequest, EvidenceChained, At
  <2>2. \A c : CheckpointStands(c) => CheckpointStands(c)'
    <3>1. SUFFICES ASSUME NEW c, CheckpointStands(c) PROVE CheckpointStands(c)'
      OBVIOUS
    <3>2. c.revision = Revision => Last.kind = "recovery" /\ Last.request = c.request
      BY <3>1 DEF CheckpointStands, Last
    <3>. QED
      BY <1>1, <3>1, <3>2 DEF CheckpointStands
  <2>3. HasRecovery => CheckpointStands(Recovery.plan)'
    BY <1>1, <2>2 DEF Inv, RInv
  <2>4. (Commands("recover") => Retries)'
    <3>1. SUFFICES ASSUME Commands("recover")' PROVE Retries'
      OBVIOUS
    <3>2. Retries /\ UNCHANGED <<day, trades>>
      BY <3>1 DEF Inv, RInv, Commands
    <3>3. RequestStands(proc.plan.request) => RequestStands(proc.plan.request)'
      BY <1>1, <3>2 DEF RequestStands, Session, Adoptable, Adopted, Net
    <3>4. IsUsed(proc.nonce)' <=> IsUsed(proc.nonce)
      BY <1>1 DEF IsUsed
    <3>5. Session' = Session
      BY <3>2 DEF Session
    <3>. QED
      BY <1>1, <2>2, <3>2, <3>3, <3>4, <3>5 DEF Retries
  <2>. QED
    BY <1>1, <2>1, <2>3, <2>4 DEF RInv
<1>. QED
  BY <1>2, <1>3, <1>4, <1>5, <1>6 DEF Inv

\* What an active order rules out.
LEMMA TradingFacts ==
    ASSUME Inv, working \/ At("trading")
    PROVE  /\ ~Prepared /\ policy.target = day /\ Receipt.epoch = policy.epoch
           /\ ~Commands("recover") /\ ~Commands("prepare") /\ ~InTxn
<1>1. At("trading") => proc.op = "live" /\ ~Prepared /\ policy.target = day
  BY RunningFacts
<1>2. working => ~Prepared /\ policy.target = day
  BY DEF Inv, EInv, Effects, InOrder, RInv, DayIsDecided
<1>3. working => ~Commands("recover") /\ ~Commands("prepare") /\ ~InTxn
  BY <1>2 DEF Inv, EInv, Runs, RecoveryRuns, TxnRuns, RInv, DayIsDecided, Commands, InTxn
<1>. QED
  BY <1>1, <1>2, <1>3 DEF Inv, MInv, BetweenEpochs, Commands, InTxn, At, LifecycleOps

\* An order is sent.
LEMMA SendSound ==
    ASSUME Inv, Send
    PROVE  Inv'
<1>1. /\ At("trading") /\ state.mode = "RUNNING"
      /\ UNCHANGED <<day, trades, registry, files, lineage, states, proc>> /\ working' = TRUE
  BY DEF Send
<1> USE DEF states
<1>2. /\ ~Prepared /\ policy.target = day /\ Receipt.epoch = policy.epoch
      /\ ~Commands("recover") /\ ~Commands("prepare") /\ ~InTxn /\ proc # NoProc /\ proc.op = "live"
  BY <1>1, TradingFacts, RunningFacts DEF At
<1>3. UNCHANGED <<Evidence, Receipt, Session, Revision, Prepared, Writing, Last>>
      /\ ~Commands("rebase")
  BY <1>1, <1>2 DEF Evidence, Receipt, Session, Revision, Prepared, Writing, At, Last, Commands
<1>4. AccountTyped'
  BY <1>1 DEF Inv, Typed, AccountTyped
<1>5. Effects' /\ Runs'
  BY <1>1, <1>2, <1>3 DEF Inv, EInv, Effects, Runs, WritesEvidence, EvidenceWrite, ObserverRuns,
     LifecycleOps, InTxn
<1>6. BetweenEpochs'
  BY <1>1, <1>2, <1>3 DEF BetweenEpochs, Commands
<1>7. TradesArePast' /\ DayIsDecided'
  BY <1>1, <1>2, <1>3 DEF Inv, RInv, TradesArePast, DayIsDecided, At, Commands
<1>8. Last.kind = "recovery" => RequestStands(Last.request)'
  BY <1>1, <1>3 DEF Inv, RInv, LastRequest, RequestStands, Adoptable, Adopted, Net
<1>. QED
  BY <1>1, <1>3, <1>4, <1>5, <1>6, <1>7, <1>8, AccountSound

\* An order ends.
LEMMA DoneSound ==
    ASSUME Inv, Done
    PROVE  Inv'
<1>1. /\ working /\ ~working'
      /\ UNCHANGED <<day, trades, registry, files, lineage, states, proc>> /\ working' \in BOOLEAN
  BY DEF Done
<1> USE DEF states
<1>2. ~Prepared /\ ~Commands("recover") /\ ~Commands("prepare") /\ ~InTxn
  BY <1>1, TradingFacts
<1>3. UNCHANGED <<Evidence, Receipt, Session, Revision, Prepared, Writing, Last, Adopted>>
  BY <1>1, <1>2 DEF Evidence, Receipt, Session, Revision, Prepared, Writing, At, Last, Adopted
<1>4. AccountTyped'
  BY <1>1 DEF Inv, Typed, AccountTyped
<1>5. Effects' /\ Runs'
  BY <1>1, <1>2, <1>3 DEF Inv, EInv, Effects, Runs, WritesEvidence, EvidenceWrite, ObserverRuns,
     LifecycleOps, InTxn, Commands
<1>6. BetweenEpochs'
  BY <1>1, <1>3 DEF Inv, MInv, BetweenEpochs, Commands, At
<1>7. TradesArePast' /\ DayIsDecided'
  BY <1>1, <1>3 DEF Inv, RInv, TradesArePast, DayIsDecided, At, Commands
<1>8. Last.kind = "recovery" => RequestStands(Last.request)'
  BY <1>1, <1>3 DEF Inv, RInv, LastRequest, RequestStands, Adoptable, Adopted, Net
<1>. QED
  BY <1>1, <1>3, <1>4, <1>5, <1>6, <1>7, <1>8, AccountSound

\* A fill is of the running session.
LEMMA AppendTrade ==
    ASSUME Inv, trades' = Append(trades, day), UNCHANGED day
    PROVE  /\ trades' \in Seq(Nat) /\ DOMAIN trades \subseteq DOMAIN trades'
           /\ \A i \in DOMAIN trades : trades'[i] = trades[i]
           /\ \A i \in DOMAIN trades' : i \in DOMAIN trades \/ trades'[i] = day
           /\ \E i \in Session' : i \notin DOMAIN trades
<1>1. trades \in Seq(Nat) /\ day \in Nat /\ Len(trades) \in Nat /\ DOMAIN trades = 1..Len(trades)
  BY DEF Inv, Typed, AccountTyped
<1>2. /\ trades' \in Seq(Nat) /\ Len(trades') = Len(trades) + 1
      /\ DOMAIN trades' = 1..Len(trades) + 1
      /\ \A i \in 1..Len(trades) : trades'[i] = trades[i]
      /\ trades'[Len(trades) + 1] = day
  BY <1>1
<1>3. Len(trades) + 1 \in Session' /\ Len(trades) + 1 \notin DOMAIN trades
  BY <1>1, <1>2 DEF Session
<1>4. \A i \in DOMAIN trades' : i \in DOMAIN trades \/ i = Len(trades) + 1
  BY <1>1, <1>2
<1>. QED
  BY <1>1, <1>2, <1>3, <1>4

\* An order fills: no request of this session stands any more.
LEMMA FillSound ==
    ASSUME Inv, Fill
    PROVE  Inv'
<1>1. /\ working /\ trades' = Append(trades, day) /\ working' \in BOOLEAN
      /\ UNCHANGED <<day, registry, files, lineage, states, proc>>
  BY DEF Fill
<1> USE DEF states
<1>2. /\ ~Prepared /\ policy.target = day /\ Receipt.epoch = policy.epoch
      /\ ~Commands("recover") /\ ~Commands("prepare") /\ ~InTxn
  BY <1>1, TradingFacts
<1>3. UNCHANGED <<Evidence, Receipt, Revision, Prepared, Writing, Last>>
      /\ ~Commands("rebase")
  BY <1>1, <1>2 DEF Evidence, Receipt, Revision, Prepared, Writing, At, Last, Commands, InTxn,
     LifecycleOps
<1>4. /\ trades' \in Seq(Nat) /\ DOMAIN trades \subseteq DOMAIN trades'
      /\ \A i \in DOMAIN trades : trades'[i] = trades[i]
      /\ \A i \in DOMAIN trades' : i \in DOMAIN trades \/ trades'[i] = day
      /\ \E i \in Session' : i \notin DOMAIN trades
  BY <1>1, AppendTrade
<1>5. AccountTyped'
  BY <1>1, <1>4 DEF Inv, Typed, AccountTyped
<1>6. Effects' /\ Runs'
  BY <1>1, <1>2, <1>3 DEF Inv, EInv, Effects, Runs, WritesEvidence, EvidenceWrite, ObserverRuns,
     LifecycleOps, InTxn, Commands
<1>7. BetweenEpochs'
  BY <1>1, <1>2, <1>3 DEF BetweenEpochs, Commands
<1>8. TradesArePast'
  BY <1>1, <1>4, TypedFacts DEF Inv, RInv, TradesArePast
<1>9. DayIsDecided'
  BY <1>1, <1>2 DEF Inv, RInv, DayIsDecided, At, Commands
<1>10. Last.kind = "recovery" => Last.request.session \subseteq DOMAIN trades
  BY DEF Inv, RInv, LastRequest, RequestStands
<1>11. Last.kind = "recovery" => Session' # Last.request.session
  BY <1>4, <1>10
<1>12. Last.kind = "recovery" => RequestStands(Last.request)'
  BY <1>1, <1>3, <1>4, <1>11 DEF Inv, RInv, LastRequest, RequestStands
<1>. QED
  BY <1>1, <1>2, <1>5, <1>6, <1>7, <1>8, <1>9, <1>11, <1>12, AccountSound

\* The day turns, and the session of every request is over.
LEMMA NextDaySound ==
    ASSUME Inv, NextDay
    PROVE  Inv'
<1>1. /\ proc = NoProc /\ day' = day + 1 /\ working' = FALSE
      /\ UNCHANGED <<trades, registry, files, lineage, states, proc>>
  BY DEF NextDay
<1> USE DEF states
<1>2. day \in Nat /\ trades \in Seq(Nat) /\ policy.target \in Nat
  BY DEF Inv, Typed, AccountTyped, StatesTyped
<1>3. \A i \in DOMAIN trades : trades[i] \in Nat /\ trades[i] <= day
  BY <1>2 DEF Inv, RInv, TradesArePast
<1>4. Session' = {}
  BY <1>1, <1>2, <1>3 DEF Session
<1>5. UNCHANGED <<Evidence, Receipt, Revision, Prepared, Last>> /\ Adopted' = {}
  BY <1>1, <1>4 DEF Evidence, Receipt, Revision, Prepared, Last, Adopted
<1>6. AccountTyped' /\ TradesArePast'
  <2>1. \A i \in DOMAIN trades : trades[i] <= day + 1
    BY <1>2, <1>3
  <2>2. AccountTyped'
    <3>1. day' \in Nat /\ trades' \in Seq(Nat)
      BY <1>1, <1>2
    <3>2. working' \in BOOLEAN
      BY <1>1
    <3>. QED
      BY <3>1, <3>2 DEF AccountTyped
  <2>. QED
    BY <1>1, <2>1, <2>2 DEF TradesArePast
<1>7. Effects' /\ Runs'
  BY <1>1, <1>5 DEF Inv, EInv, Effects, InOrder, Runs, IsBound, Acknowledges, IsUsed
<1>8. BetweenEpochs'
  BY <1>1, <1>5 DEF Inv, MInv, BetweenEpochs, Commands, At
<1>9. DayIsDecided'
  BY <1>1, <1>2, <1>4 DEF Inv, RInv, DayIsDecided, At, Commands
<1>10. Last.kind = "recovery" => Session' # Last.request.session
  BY <1>4 DEF Inv, RInv, LastRequest, RequestStands
<1>11. Last.kind = "recovery" => RequestStands(Last.request)'
  BY <1>1, <1>5, <1>10 DEF Inv, RInv, LastRequest, RequestStands
<1>. QED
  BY <1>1, <1>6, <1>7, <1>8, <1>9, <1>10, <1>11, AccountSound DEF Commands

\* Another account changes the registry file.
LEMMA OtherAccountSound ==
    ASSUME Inv, OtherAccount
    PROVE  Inv'
<1>1. /\ registry' = [registry EXCEPT !.others = @ + 1]
      /\ UNCHANGED <<account, files, lineage, states, proc>>
  BY DEF OtherAccount
<1> USE DEF account, states
<1>2. /\ registry'.log = registry.log /\ registry'.epoch = registry.epoch
      /\ registry' = [log |-> registry'.log, epoch |-> registry'.epoch, others |-> registry'.others]
  BY <1>1 DEF Inv, Typed, RegistryTyped
<1>3. UNCHANGED <<Evidence, Receipt, Recovery, HasRecovery, Session, Adopted, Revision, Last,
                  Prepared, Writing, Place>>
  BY <1>1, <1>2 DEF Evidence, Receipt, Recovery, HasRecovery, Session, Adopted, Revision, Last,
     Prepared, Writing, At, Place
<1>4. Typed' /\ Placed'
  BY <1>1, <1>2, <1>3 DEF Inv, Typed, AccountTyped, RegistryTyped, FilesTyped, StatesTyped,
     ProcTyped,
     Placed, Writes, At
<1>5. EInv'
  <2>1. EvidenceHolds' /\ OneEpoch' /\ Effects'
    BY <1>1, <1>2, <1>3 DEF Inv, EInv, EvidenceHolds, NonceOnce, EvidenceHasReceipt, MissesOne,
       Before, Acknowledges, OneEpoch, Effects, InOrder, IsBound, IsUsed
  <2>2. Runs'
    BY <1>1, <1>2, <1>3 DEF Inv, EInv, Runs, WritesEvidence, EvidenceWrite, InTxn, TxnRuns,
       PlanFresh,
       RecoveryRuns, ObserverRuns, IsUsed, TargetMarker, Acknowledges, IsBound, Writes
  <2>. QED
    BY <2>1, <2>2 DEF EInv
<1>6. SInv'
  BY <1>1, <1>3 DEF Inv, SInv, StoreShape, StoreRuns, RecoveryReadable, Chained, At
<1>7. MInv'
  BY <1>1, <1>2, <1>3 DEF Inv, MInv, MarkerHasRecovery, TargetsMarker, TargetMarker, Marks,
     RecoveryMarks, TxnMarks, Writes, AtTarget, AtSource, ReceiptPast, BetweenEpochs, IsUsed,
     Blocked, Unapplied, At, Commands, InTxn
<1>8. RInv'
  <2>1. (TradesArePast /\ DayIsDecided /\ LastRequest /\ EvidenceChained)'
    BY <1>1, <1>2, <1>3 DEF Inv, RInv, TradesArePast, DayIsDecided, LastRequest, EvidenceChained,
       RequestStands, Adoptable, Net, At, Commands
  <2>2. (Commands("recover") => Retries)'
    <3>1. Commands("recover")' <=> Commands("recover")
      BY <1>1 DEF Commands
    <3>2. Commands("recover") => Retries
      BY DEF Inv, RInv
    <3>3. Retries => Retries'
      <4>1. RequestStands(proc.plan.request)' <=> RequestStands(proc.plan.request)
        BY <1>1, <1>3 DEF RequestStands, Adoptable, Net
      <4>2. CheckpointStands(proc.write.record.plan)' <=> CheckpointStands(proc.write.record.plan)
        BY <1>1, <1>2, <1>3 DEF CheckpointStands
      <4>3. IsUsed(proc.nonce)' <=> IsUsed(proc.nonce)
        BY <1>1, <1>2 DEF IsUsed
      <4>. QED
        BY <1>1, <1>3, <4>1, <4>2, <4>3 DEF Retries
    <3>. QED
      BY <3>1, <3>2, <3>3
  <2>3. HasRecovery => CheckpointStands(Recovery.plan)'
    BY <1>1, <1>2, <1>3 DEF Inv, RInv, CheckpointStands
  <2>. QED
    BY <1>3, <2>1, <2>2, <2>3 DEF RInv
<1>. QED
  BY <1>4, <1>5, <1>6, <1>7, <1>8 DEF Inv

\* The day's decision is prepared.
LEMMA PrepareDecisionSound ==
    ASSUME Inv, PrepareDecision
    PROVE  Inv'
<1>1. /\ proc # NoProc /\ proc.at = "prepare" /\ proc' = NoProc
      /\ UNCHANGED <<account, registry, files, lineage, state, lifecycle>>
      /\ policy' = [policy EXCEPT !.seq = @ + 1, !.target = day]
  BY DEF PrepareDecision, At, End
<1> USE DEF account
<1>2. proc.op = "prepare"
  BY <1>1 DEF Inv, Placed, LifecycleOps, Writes, Writing, At, AfterAcknowledged, AfterBound,
              AfterPolicy, AfterGeneric
<1>3. /\ ~Prepared /\ state.mode = "HALTED" /\ Session = {} /\ ~working
  BY <1>1, <1>2 DEF Inv, EInv, Runs, ObserverRuns, RInv, DayIsDecided, Commands
<1>4. /\ policy'.epoch = policy.epoch /\ policy'.target = day
      /\ policy' = [seq |-> policy'.seq, epoch |-> policy'.epoch, target |-> policy'.target]
      /\ policy'.seq \in Nat /\ policy'.target \in Nat
  <2> DEFINE a == policy.seq
             b == policy.epoch
             p == [policy EXCEPT !.seq = @ + 1]
             q == [p EXCEPT !.target = day]
  <2>1. policy = [seq |-> a, epoch |-> b, target |-> policy.target] /\ a \in Nat /\ day \in Nat
    BY DEF Inv, Typed, StatesTyped, AccountTyped
  <2>2. p = [seq |-> a + 1, epoch |-> b, target |-> policy.target]
    BY <2>1
  <2>3. policy' = q
    BY <1>1
  <2> HIDE DEF p
  <2>4. q = [seq |-> a + 1, epoch |-> b, target |-> day]
    BY <2>2
  <2> HIDE DEF q, a, b
  <2>5. policy' = [seq |-> a + 1, epoch |-> b, target |-> day]
    BY <2>3, <2>4
  <2>6. policy'.epoch = b /\ policy'.target = day /\ policy'.seq = a + 1
    BY <2>5
  <2>. QED
    BY <2>1, <2>5, <2>6 DEF b
<1>5. UNCHANGED <<Evidence, Receipt, Recovery, HasRecovery, Session, Adopted, Revision, Last,
                  Prepared>> /\ ~Writing'
  BY <1>1 DEF Evidence, Receipt, Recovery, HasRecovery, Session, Adopted, Revision, Last,
     Prepared, Writing, At
<1>6. Typed' /\ Placed'
  BY <1>1, <1>4, <1>5 DEF Inv, Typed, AccountTyped, RegistryTyped, FilesTyped, StatesTyped,
     ProcTyped,
     Placed
<1>7. EInv'
  BY <1>1, <1>3, <1>4, <1>5 DEF Inv, EInv, EvidenceHolds, NonceOnce, EvidenceHasReceipt,
     MissesOne,
     Before, Acknowledges, OneEpoch, Effects, Runs
<1>8. SInv'
  BY <1>1, <1>5 DEF Inv, SInv, StoreShape, StoreRuns
<1>9. MInv'
  <2>1. MarkerHasRecovery' /\ TargetsMarker' /\ Marks'
    BY <1>1, <1>3, <1>5 DEF Inv, MInv, MarkerHasRecovery, TargetsMarker, Marks, AtSource
  <2>2. ReceiptPast'
    BY <1>1, <1>5, ReceiptPastKept
  <2>3. BetweenEpochs' /\ Blocked'
    BY <1>1, <1>3, <1>4, <1>5 DEF Inv, MInv, BetweenEpochs, Blocked, Unapplied, AtSource, At,
       Commands, InTxn
  <2>. QED
    BY <2>1, <2>2, <2>3 DEF MInv
<1>10. RInv'
  <2>1. TradesArePast' /\ DayIsDecided' /\ EvidenceChained'
    BY <1>1, <1>3, <1>4, <1>5, TypedFacts DEF Inv, RInv, TradesArePast, DayIsDecided,
       EvidenceChained, At, Commands
  <2>2. LastRequest'
    BY <1>1, <1>5 DEF Inv, RInv, LastRequest, RequestStands, Adoptable, Net
  <2>3. HasRecovery => CheckpointStands(Recovery.plan)'
    <3>1. SUFFICES ASSUME HasRecovery PROVE CheckpointStands(Recovery.plan)'
      OBVIOUS
    <3> DEFINE c == Recovery.plan
    <3>2. CheckpointStands(c)
      BY <3>1 DEF Inv, RInv
    <3>3. c.revision = Revision => Session # c.request.session
      BY <1>3, <3>2 DEF CheckpointStands, Inv, RInv, LastRequest, RequestStands, Last
    <3>. QED
      BY <1>1, <1>5, <3>2, <3>3 DEF CheckpointStands
  <2>. QED
    BY <1>1, <1>5, <2>1, <2>2, <2>3 DEF RInv, Commands
<1>. QED
  BY <1>6, <1>7, <1>8, <1>9, <1>10 DEF Inv

\* A command dies; the first recovery record may be torn.
LEMMA CrashSound ==
    ASSUME Inv, NEW torn \in BOOLEAN, Crash(torn)
    PROVE  Inv'
<1>1. CASE ~torn
  BY <1>1, EndSound DEF Crash, End
<1>2. CASE torn
  <2>1. /\ proc # NoProc /\ proc.at = "create" /\ Place = "create" /\ proc' = NoProc
        /\ UNCHANGED <<account, registry, lineage, states>>
        /\ files' = [files EXCEPT !.recovery.current = Torn]
    BY <1>2 DEF Crash, At, Place, End
  <2> USE DEF account, states
  <2>2. proc.op = "recover"
    BY <2>1 DEF Inv, Placed, LifecycleOps, Writes, Writing, At, AfterAcknowledged, AfterBound,
                AfterPolicy, AfterGeneric
  <2>3. Recovery = NoFile /\ lineage /\ ~HasRecovery
    BY <2>1, <2>2 DEF Inv, SInv, StoreRuns, HasRecovery
  <2>4. /\ files = [evidence |-> files.evidence, recovery |-> files.recovery,
                    receipts |-> files.receipts]
        /\ files.recovery = [current |-> NoFile, previous |-> NoFile]
        /\ state.marker = NoMarker
    BY <2>3, NoFileIsNothingElse DEF Inv, Typed, FilesTyped, IsStore, Recovery, SInv, StoreShape,
       MInv, MarkerHasRecovery, HasRecovery
  <2>5. /\ files'.evidence = files.evidence /\ files'.receipts = files.receipts
        /\ files'.recovery = [current |-> Torn, previous |-> NoFile]
        /\ files' = [evidence |-> files'.evidence, recovery |-> files'.recovery,
                     receipts |-> files'.receipts]
    BY <2>1, <2>4
  <2>6. /\ UNCHANGED <<Evidence, Receipt, Session, Adopted, Revision, Last, Prepared>>
        /\ ~HasRecovery' /\ ~Writing' /\ Recovery' = Torn
    BY <2>1, <2>5 DEF Evidence, Receipt, Recovery, HasRecovery, Session, Adopted, Revision, Last,
       Prepared, Writing, At
  <2>7. Typed' /\ Placed'
    BY <2>1, <2>5, <2>6 DEF Inv, Typed, AccountTyped, RegistryTyped, FilesTyped, StatesTyped,
       ProcTyped, Placed, IsStore
  <2>8. EInv'
    BY <2>1, <2>6 DEF Inv, EInv, EvidenceHolds, NonceOnce, EvidenceHasReceipt, MissesOne,
       Before, Acknowledges, OneEpoch, Effects, InOrder, IsBound, IsUsed, Runs
  <2>9. SInv'
    BY <2>1, <2>3, <2>5 DEF SInv, StoreShape, StoreRuns
  <2>10. MInv'
    <3>1. ReceiptPast'
      BY <2>1, <2>6 DEF Inv, MInv, ReceiptPast, IsUsed
    <3>. QED
      BY <2>1, <2>4, <2>6, <3>1 DEF Inv, MInv, MarkerHasRecovery, TargetsMarker, TargetMarker,
         Marks,
         BetweenEpochs, Blocked, Unapplied, At, Commands
  <2>11. RInv'
    BY <2>1, <2>5, <2>6 DEF Inv, RInv, TradesArePast, DayIsDecided, LastRequest, EvidenceChained,
       RequestStands, Adoptable, Net, At, Commands
  <2>. QED
    BY <2>7, <2>8, <2>9, <2>10, <2>11 DEF Inv
<1>. QED
  BY <1>1, <1>2

-------------------------------------------------------------------------------
(***************************************************************************)
(* The two writes that replace a store's record.                           *)
(***************************************************************************)

\* What a process that writes is about to write, and where.
LEMMA WriterIs ==
    ASSUME Inv, Writing
    PROVE  /\ proc # NoProc
           /\ proc = [op |-> proc.op, nonce |-> proc.nonce, plan |-> proc.plan, at |-> proc.at,
                      write |-> proc.write]
           /\ IsWrite(proc.write)
           /\ \/ proc.op = "doctor" /\ proc.write.store = "evidence" /\ proc.write.then = "end"
              \/ proc.op = "prepare" /\ proc.write.store = "evidence" /\ proc.write.then = "prepare"
              \/ proc.op = "recover" /\ proc.write.store = "evidence" /\ proc.write.then = "begin"
              \/ proc.op = "recover" /\ proc.write.store = "recovery" /\ proc.write.then = "apply"
              \/ proc.op = "recover" /\ proc.write.store = "recovery" /\ proc.write.then = "end"
              \/ /\ proc.op \in LifecycleOps
                 /\ \/ proc.write.store = "evidence" /\ proc.write.then = "receipt"
                    \/ proc.write.store = "evidence" /\ proc.write.then = "policy"
                    \/ proc.write.store = "receipts" /\ proc.write.then = "policy"
                    \/ proc.write.store = "recovery" /\ proc.write.then = "acknowledge"
                    \/ proc.write.store = "recovery" /\ proc.write.then = "finish"
<1>1. proc # NoProc /\ proc.at \in {"previous", "current"}
  BY DEF Writing, At
<1>2. proc = [op |-> proc.op, nonce |-> proc.nonce, plan |-> proc.plan, at |-> proc.at,
              write |-> proc.write]
      /\ IsWrite(proc.write)
  BY <1>1 DEF Inv, Typed, ProcTyped, IsProcess
<1>. QED
  BY <1>1, <1>2 DEF Inv, Placed, Writes, AfterAcknowledged, AfterBound, AfterPolicy, AfterGeneric

\* The three stores as records.
LEMMA FilesAreRecords ==
    ASSUME Inv
    PROVE  /\ files = [evidence |-> files.evidence, recovery |-> files.recovery,
                       receipts |-> files.receipts]
           /\ files.evidence = [current |-> Evidence, previous |-> files.evidence.previous]
           /\ files.recovery = [current |-> Recovery, previous |-> files.recovery.previous]
           /\ files.receipts = [current |-> Receipt, previous |-> files.receipts.previous]
BY DEF Inv, Typed, FilesTyped, IsStore, Evidence, Recovery, Receipt

\* The current record is kept as the previous one.
LEMMA KeepPreviousSound ==
    ASSUME Inv, KeepPrevious
    PROVE  Inv'
<1> DEFINE op == proc.op
           u == proc.nonce
           m == proc.plan
           w == proc.write
<1>1. /\ proc # NoProc /\ proc.at = "previous" /\ Writing
      /\ proc' = [proc EXCEPT !.at = "current"]
      /\ files' = [files EXCEPT ![w.store].previous = files[w.store].current]
      /\ UNCHANGED <<account, registry, lineage, states>>
  BY DEF KeepPrevious, Go, At, Writing
<1> USE DEF account, states
<1>2. /\ proc = [op |-> op, nonce |-> u, plan |-> m, at |-> "previous", write |-> w]
      /\ IsWrite(w) /\ w.store \in {"evidence", "recovery", "receipts"}
  BY <1>1, WriterIs
<1>3. /\ files' = [evidence |-> files'.evidence, recovery |-> files'.recovery,
                   receipts |-> files'.receipts]
      /\ files'.evidence =
           IF w.store = "evidence" THEN [current |-> Evidence, previous |-> Evidence]
           ELSE files.evidence
      /\ files'.recovery =
           IF w.store = "recovery" THEN [current |-> Recovery, previous |-> Recovery]
           ELSE files.recovery
      /\ files'.receipts =
           IF w.store = "receipts" THEN [current |-> Receipt, previous |-> Receipt]
           ELSE files.receipts
  <2> DEFINE a == files.evidence
             b == files.recovery
             c == files.receipts
             d == [a EXCEPT !.previous = a.current]
             e == [b EXCEPT !.previous = b.current]
             f == [c EXCEPT !.previous = c.current]
  <2>1. /\ files = [evidence |-> a, recovery |-> b, receipts |-> c]
        /\ d = [current |-> Evidence, previous |-> Evidence]
        /\ e = [current |-> Recovery, previous |-> Recovery]
        /\ f = [current |-> Receipt, previous |-> Receipt]
    BY FilesAreRecords DEF Evidence, Recovery, Receipt
  <2>2. /\ w.store = "evidence" => files' = [files EXCEPT !.evidence = d]
        /\ w.store = "recovery" => files' = [files EXCEPT !.recovery = e]
        /\ w.store = "receipts" => files' = [files EXCEPT !.receipts = f]
    BY <1>1, Zenon
  <2> HIDE DEF a, b, c, d, e, f
  <2>3. /\ w.store = "evidence" => files' = [evidence |-> d, recovery |-> b, receipts |-> c]
        /\ w.store = "recovery" => files' = [evidence |-> a, recovery |-> e, receipts |-> c]
        /\ w.store = "receipts" => files' = [evidence |-> a, recovery |-> b, receipts |-> f]
    BY <2>1, <2>2
  <2>4. CASE w.store = "evidence"
    BY <2>1, <2>3, <2>4 DEF b, c
  <2>5. CASE w.store = "recovery"
    BY <2>1, <2>3, <2>5 DEF a, c
  <2>6. CASE w.store = "receipts"
    BY <2>1, <2>3, <2>6 DEF a, b
  <2>. QED
    BY <1>2, <2>4, <2>5, <2>6
<1>4. UNCHANGED <<Evidence, Recovery, Receipt>>
  BY <1>3, FilesAreRecords DEF Evidence, Recovery, Receipt
<1>5. UNCHANGED <<HasRecovery, Session, Adopted, Revision, Last, Prepared>>
  BY <1>1, <1>4 DEF HasRecovery, Session, Adopted, Revision, Last, Prepared
<1> HIDE DEF op, u, m, w
<1>6. proc' = [op |-> op, nonce |-> u, plan |-> m, at |-> "current", write |-> w]
  BY <1>1, <1>2
<1>7. /\ proc'.op = op /\ proc'.nonce = u /\ proc'.plan = m /\ proc'.at = "current"
      /\ proc'.write = w /\ UNCHANGED Place
  BY <1>1, <1>2, <1>6 DEF Place, w
<1>8. proc.op = op /\ proc.nonce = u /\ proc.plan = m /\ proc.write = w
  BY DEF op, u, m, w
<1>9. w.store = "recovery" => HasRecovery /\ Recovery \in Recoveries
  BY <1>1, <1>8 DEF Inv, SInv, StoreRuns, Typed, FilesTyped, HasRecovery
<1>10. Typed' /\ Placed'
  <2>1. FilesTyped'
    BY <1>1, <1>2, <1>3, <1>4, <1>9 DEF Inv, Typed, FilesTyped, IsStore
  <2>2. ProcTyped'
    BY <1>1, <1>6, <1>7, <1>8 DEF Inv, Typed, ProcTyped, IsProcess
  <2>3. Placed'
    BY <1>1, <1>7, <1>8, WriterIs DEF Placed, Writes, Writing, At
  <2>. QED
    BY <1>1, <1>5, <2>1, <2>2, <2>3 DEF Inv, Typed, AccountTyped, RegistryTyped, StatesTyped
<1>11. EInv'
  <2>1. EvidenceHolds' /\ OneEpoch' /\ Effects'
    BY <1>1, <1>4, <1>5 DEF Inv, EInv, EvidenceHolds, NonceOnce, EvidenceHasReceipt, MissesOne,
       Before, Acknowledges, OneEpoch, Effects, InOrder, IsBound, IsUsed
  <2>2. Runs'
    BY <1>1, <1>4, <1>5, <1>7, <1>8 DEF Inv, EInv, Runs, WritesEvidence, EvidenceWrite, Writing,
       At,
       InTxn, TxnRuns, Acknowledges, IsBound, Writes, RecoveryRuns, ObserverRuns
  <2>. QED
    BY <2>1, <2>2 DEF EInv
<1>12. SInv'
  <2>1. StoreShape'
    BY <1>1, <1>3, <1>9, NoFileIsNothingElse DEF Inv, SInv, StoreShape, Recovery, HasRecovery
  <2>2. Place \in {"bind", "begin"} /\ op = "recover" => w.store = "evidence"
    BY <1>1, <1>8, WriterIs DEF Place, LifecycleOps
  <2>3. Place # "acknowledge" \/ op # "recover"
    BY <1>1, <1>8, WriterIs DEF Place, LifecycleOps
  <2>4. w.store = "evidence" => (RecoveryReadable <=> RecoveryReadable')
    BY <1>1, <1>3 DEF RecoveryReadable, Chained
  <2>5. StoreRuns'
    BY <1>1, <1>3, <1>4, <1>5, <1>7, <1>8, <2>2, <2>3, <2>4 DEF Inv, SInv, StoreRuns, Writing, At
  <2>. QED
    BY <2>1, <2>5 DEF SInv
<1>13. MInv'
  <2>1. (MarkerHasRecovery /\ TargetsMarker)'
    BY <1>1, <1>4, <1>5 DEF Inv, MInv, MarkerHasRecovery, TargetsMarker, TargetMarker, AtSource
  <2>2. Marks'
    BY <1>1, <1>4, <1>5, <1>7, <1>8 DEF Inv, MInv, Marks, RecoveryMarks, TxnMarks, Writes,
       Writing,
       At, AtSource, AtTarget
  <2>3. (ReceiptPast /\ BetweenEpochs /\ Blocked)'
    BY <1>1, <1>4, <1>5, <1>7, <1>8 DEF Inv, MInv, ReceiptPast, IsUsed, BetweenEpochs, Blocked,
       Unapplied, Writes, Writing, At, Commands, InTxn, AtSource
  <2>. QED
    BY <2>1, <2>2, <2>3 DEF MInv
<1>14. RInv'
  <2>1. (TradesArePast /\ DayIsDecided /\ LastRequest)'
    BY <1>1, <1>4, <1>5, <1>7, <1>8 DEF Inv, RInv, TradesArePast, DayIsDecided, LastRequest,
       RequestStands, Adoptable, Net, At, Commands
  <2>2. EvidenceChained'
    BY <1>1, <1>3, <1>4, <1>7, <1>8 DEF Inv, RInv, EvidenceChained, At
  <2>3. (Commands("recover") => Retries)'
    BY <1>1, <1>4, <1>5, <1>7, <1>8 DEF Inv, RInv, Retries, RequestStands, Adoptable, Net,
       CheckpointStands, IsUsed, Commands, Writing, At
  <2>4. HasRecovery => CheckpointStands(Recovery.plan)'
    BY <1>1, <1>4, <1>5 DEF Inv, RInv, CheckpointStands
  <2>. QED
    BY <1>5, <2>1, <2>2, <2>3, <2>4 DEF RInv
<1>. QED
  BY <1>10, <1>11, <1>12, <1>13, <1>14 DEF Inv

\* What replacing a record changes.
LEMMA ReplaceCurrentIs ==
    ASSUME Inv, ReplaceCurrent
    PROVE  /\ proc # NoProc /\ proc.at = "current" /\ Writing
           /\ UNCHANGED <<account, registry, lineage, states>>
           /\ IF proc.write.then = "end" THEN proc' = NoProc
              ELSE proc' = [op |-> proc.op, nonce |-> proc.nonce, plan |-> proc.plan,
                            at |-> proc.write.then, write |-> proc.write]
           /\ files' = [evidence |-> files'.evidence, recovery |-> files'.recovery,
                        receipts |-> files'.receipts]
           /\ files'.evidence =
                IF proc.write.store = "evidence"
                THEN [current |-> proc.write.record, previous |-> files.evidence.previous]
                ELSE files.evidence
           /\ files'.recovery =
                IF proc.write.store = "recovery"
                THEN [current |-> proc.write.record, previous |-> files.recovery.previous]
                ELSE files.recovery
           /\ files'.receipts =
                IF proc.write.store = "receipts"
                THEN [current |-> proc.write.record, previous |-> files.receipts.previous]
                ELSE files.receipts
<1> DEFINE op == proc.op
           u == proc.nonce
           m == proc.plan
           w == proc.write
           r == proc.write.record
<1>1. /\ proc # NoProc /\ proc.at = "current" /\ Writing
      /\ IF w.then = "end" THEN proc' = NoProc ELSE proc' = [proc EXCEPT !.at = w.then]
      /\ files' = [files EXCEPT ![w.store].current = r]
      /\ UNCHANGED <<account, registry, lineage, states>>
  BY DEF ReplaceCurrent, Go, End, At, Writing
<1>2. /\ proc = [op |-> op, nonce |-> u, plan |-> m, at |-> "current", write |-> w]
      /\ w.store \in {"evidence", "recovery", "receipts"}
  BY <1>1, WriterIs
<1> DEFINE a == files.evidence
           b == files.recovery
           c == files.receipts
           d == [a EXCEPT !.current = r]
           e == [b EXCEPT !.current = r]
           f == [c EXCEPT !.current = r]
<1>3. /\ files = [evidence |-> a, recovery |-> b, receipts |-> c]
      /\ d = [current |-> r, previous |-> a.previous]
      /\ e = [current |-> r, previous |-> b.previous]
      /\ f = [current |-> r, previous |-> c.previous]
  <2> HIDE DEF r
  <2>. QED
    BY FilesAreRecords
<1>4. /\ w.store = "evidence" => files' = [files EXCEPT !.evidence = d]
      /\ w.store = "recovery" => files' = [files EXCEPT !.recovery = e]
      /\ w.store = "receipts" => files' = [files EXCEPT !.receipts = f]
  BY <1>1, Zenon
<1> HIDE DEF op, u, m, w, r
<1>5. w.then # "end" =>
        proc' = [op |-> op, nonce |-> u, plan |-> m, at |-> w.then, write |-> w]
  BY <1>1, <1>2
<1>6. /\ files' = [evidence |-> files'.evidence, recovery |-> files'.recovery,
                   receipts |-> files'.receipts]
      /\ files'.evidence =
           IF w.store = "evidence" THEN [current |-> r, previous |-> a.previous] ELSE a
      /\ files'.recovery =
           IF w.store = "recovery" THEN [current |-> r, previous |-> b.previous] ELSE b
      /\ files'.receipts =
           IF w.store = "receipts" THEN [current |-> r, previous |-> c.previous] ELSE c
  <2> HIDE DEF a, b, c, d, e, f
  <2>1. /\ w.store = "evidence" => files' = [evidence |-> d, recovery |-> b, receipts |-> c]
        /\ w.store = "recovery" => files' = [evidence |-> a, recovery |-> e, receipts |-> c]
        /\ w.store = "receipts" => files' = [evidence |-> a, recovery |-> b, receipts |-> f]
    BY <1>3, <1>4
  <2>. QED
    BY <1>2, <1>3, <2>1
<1>. QED
  BY <1>1, <1>5, <1>6 DEF op, u, m, w, r

\* The evidence of the last operation replaces the older one.
LEMMA ReplaceEvidenceSound ==
    ASSUME Inv, ReplaceCurrent, proc.write.store = "evidence"
    PROVE  Inv'
<1> DEFINE op == proc.op
           u == proc.nonce
           m == proc.plan
           w == proc.write
           r == proc.write.record
           then == proc.write.then
<1>1. /\ proc # NoProc /\ proc.at = "current" /\ Writing /\ Place = "bind"
      /\ UNCHANGED <<account, registry, lineage, states>>
      /\ IF then = "end" THEN proc' = NoProc
         ELSE proc' = [op |-> op, nonce |-> u, plan |-> m, at |-> then, write |-> w]
      /\ files' = [evidence |-> files'.evidence, recovery |-> files'.recovery,
                   receipts |-> files'.receipts]
      /\ files'.evidence = [current |-> r, previous |-> files.evidence.previous]
      /\ files'.recovery = files.recovery /\ files'.receipts = files.receipts
  BY ReplaceCurrentIs DEF Place
<1> USE DEF account, states
<1>2. /\ IsEvidence(r) /\ EvidenceWrite(r) /\ files.evidence.previous = Evidence
      /\ Evidence.seq \in Nat
  BY <1>1, WriterIs, TypedFacts DEF IsWrite, Inv, EInv, Runs, WritesEvidence, RInv,
     EvidenceChained,
     At
<1>3. /\ r.seq = Evidence.seq + 1 /\ r.revision = Revision /\ r.rebind = Last.nonce
      /\ InTxn => r.epoch = lifecycle.epoch /\ r.day = lifecycle.day
      /\ ~InTxn => r.epoch = Evidence.epoch
  BY <1>2 DEF EvidenceWrite
<1>4. \/ op = "doctor" /\ then = "end" /\ ~Prepared
      \/ op = "prepare" /\ then = "prepare" /\ ~Prepared /\ state.mode = "HALTED"
      \/ /\ op = "recover" /\ then = "begin" /\ RecoveryRuns /\ RecoveryMarks /\ Retries
         /\ ~Prepared
      \/ /\ op \in LifecycleOps /\ Prepared /\ Acknowledges /\ lifecycle.op = op
         /\ then = IF op = "rollforward" THEN "receipt" ELSE "policy"
  <2>1. op = "doctor" => then = "end" /\ ~Prepared
    BY <1>1, WriterIs DEF LifecycleOps, Inv, EInv, Runs, ObserverRuns
  <2>2. op = "prepare" => then = "prepare" /\ ~Prepared /\ state.mode = "HALTED"
    BY <1>1, WriterIs DEF LifecycleOps, Inv, EInv, Runs, ObserverRuns
  <2>3. op = "recover" =>
          then = "begin" /\ RecoveryRuns /\ RecoveryMarks /\ Retries /\ ~Prepared
    BY <1>1, WriterIs, RecoverIsRecord DEF LifecycleOps, RecoveryRuns
  <2>4. op \in LifecycleOps =>
          /\ Prepared /\ Acknowledges /\ lifecycle.op = op
          /\ then = IF op = "rollforward" THEN "receipt" ELSE "policy"
    <3>1. SUFFICES ASSUME op \in LifecycleOps
                   PROVE  /\ Prepared /\ Acknowledges /\ lifecycle.op = op
                          /\ then = IF op = "rollforward" THEN "receipt" ELSE "policy"
      OBVIOUS
    <3>2. TxnRuns /\ "bind" \in AfterAcknowledged
      BY <1>1, <3>1, TxnIsRecord DEF AfterAcknowledged
    <3>3. then = "receipt" \/ then = "policy"
      BY <1>1, <3>1, WriterIs DEF LifecycleOps
    <3>4. then = "receipt" => op = "rollforward"
      BY <1>1, <3>2 DEF TxnRuns, Writes
    <3>5. then = "policy" => op = "rebase"
      BY <1>1, <3>2 DEF TxnRuns, Writes
    <3>. QED
      BY <1>1, <3>2, <3>3, <3>4, <3>5 DEF TxnRuns
  <2>. QED
    BY <1>1, <2>1, <2>2, <2>3, <2>4, WriterIs
<1>5. op = "recover" =>
        /\ u \in Nonces /\ IsEvidence(m.semantic) /\ m.request \in Requests
        /\ m.resumed \in BOOLEAN
        /\ m = [request |-> m.request, resumed |-> m.resumed, semantic |-> m.semantic]
  BY <1>1, RecoverIsRecord
<1>6. op \in LifecycleOps => IsTxn(m) /\ IsMarker(m.marker)
  BY <1>1, TxnIsRecord
<1>7. op = "recover" =>
        /\ ~Prepared /\ state.mode = "HALTED" /\ ~working
        /\ Last.nonce = u /\ Last.kind = "recovery" /\ RecoveryReadable
        /\ m.resumed => HasRecovery /\ Recovery.plan.nonce = u /\ IsUsed(u)
        /\ m.semantic = Evidence
        /\ ~m.resumed =>
             /\ m.request.state = state.seq /\ m.request.session = Session
             /\ Last = [kind |-> "recovery", nonce |-> u, request |-> m.request]
             /\ m.request.evidence = m.semantic.seq
  BY <1>1, <1>4 DEF RecoveryRuns, RecoveryMarks, Retries, Inv, SInv, StoreRuns, LifecycleOps
<1> HIDE DEF op, u, m, w, r, then
<1>8. Evidence' = r /\ UNCHANGED <<Recovery, Receipt, HasRecovery>>
  BY <1>1 DEF Evidence, Recovery, Receipt, HasRecovery
<1>9. UNCHANGED <<Session, Adopted, Revision, Last, Prepared, Acknowledges>>
  BY <1>1 DEF Session, Adopted, Revision, Last, Prepared, Acknowledges
<1>10. /\ then # "end" =>
            /\ proc'.op = op /\ proc'.nonce = u /\ proc'.plan = m /\ proc'.at = then
            /\ Place' = then
       /\ then = "end" => proc' = NoProc
       /\ proc' # NoProc => then # "end"
       /\ ~Writing' /\ ~At("trading")'
  BY <1>1, <1>4 DEF Place, Writing, At
<1>11. Prepared => IsBound'
  BY <1>1, <1>3, <1>4, <1>8, <1>9 DEF IsBound, InTxn, Acknowledges, LifecycleOps, op
<1>12. Typed' /\ Placed'
  <2>1. FilesTyped'
    BY <1>1, <1>2, <1>8 DEF Inv, Typed, FilesTyped, IsStore
  <2>2. ProcTyped'
    BY <1>1, <1>4, <1>5, <1>6 DEF ProcTyped, IsProcess, LifecycleOps
  <2>3. Placed'
    BY <1>4, <1>10 DEF Placed, LifecycleOps, AfterAcknowledged, AfterBound
  <2>. QED
    BY <1>1, <1>9, <2>1, <2>2, <2>3 DEF Inv, Typed, AccountTyped, RegistryTyped, StatesTyped
<1>13. EInv'
  <2>1. EvidenceHolds'
    <3>1. NonceOnce' /\ Revision \in Nat /\ Revision > 0
      BY <1>1, <1>9 DEF Inv, EInv, EvidenceHolds, NonceOnce, Typed, RegistryTyped, Revision
    <3>2. EvidenceHasReceipt'
      BY <1>1, <1>3, <1>8, <1>9, <3>1 DEF EvidenceHasReceipt, Last
    <3>3. MissesOne'
      BY <1>1, <1>3, <1>8, <1>9, <3>1 DEF MissesOne, Before, Acknowledges
    <3>. QED
      BY <3>1, <3>2, <3>3 DEF EvidenceHolds
  <2>2. OneEpoch'
    BY <1>1, <1>3, <1>4, <1>8, <1>9 DEF Inv, EInv, OneEpoch, InTxn, op, LifecycleOps
  <2>3. Effects'
    <3>1. SUFFICES ASSUME Prepared PROVE InOrder'
      BY <1>9 DEF Effects
    <3>2. InOrder /\ Acknowledges /\ IsBound'
      BY <1>4, <1>11, <3>1 DEF Inv, EInv, Effects
    <3>3. IsUsed(lifecycle.nonce) <=> IsUsed(lifecycle.nonce)'
      BY <1>1 DEF IsUsed
    <3>4. Evidence'.rebind = lifecycle'.nonce
      BY <3>2 DEF IsBound
    <3>. QED
      BY <1>1, <1>9, <3>2, <3>3, <3>4 DEF InOrder
  <2>4. Runs'
    <3>1. WritesEvidence'
      BY <1>10 DEF WritesEvidence
    <3>2. op = "recover" => RecoveryRuns'
      BY <1>1, <1>4, <1>7, <1>9, <1>10 DEF RecoveryRuns
    <3>3. op \in LifecycleOps => TxnRuns'
      BY <1>1, <1>4, <1>9, <1>10, <1>11 DEF TxnRuns, LifecycleOps, AfterAcknowledged, AfterBound,
         AfterPolicy, AfterGeneric, Writes
    <3>4. op \in {"doctor", "prepare"} => proc' = NoProc \/ ObserverRuns'
      BY <1>1, <1>4, <1>9, <1>10 DEF ObserverRuns, LifecycleOps
    <3>. QED
      BY <1>4, <1>10, <3>1, <3>2, <3>3, <3>4 DEF Runs, LifecycleOps
  <2>. QED
    BY <2>1, <2>2, <2>3, <2>4 DEF EInv
<1>14. SInv'
  <2>1. op = "recover" => RecoveryReadable'
    BY <1>1, <1>7 DEF RecoveryReadable, Chained
  <2>2. proc' # NoProc /\ proc'.op = "recover" => op = "recover" /\ then = "begin"
    BY <1>4, <1>10 DEF LifecycleOps
  <2>. QED
    BY <1>1, <1>7, <1>8, <1>10, <2>1, <2>2 DEF Inv, SInv, StoreShape, StoreRuns
<1>15. MInv'
  <2>1. (MarkerHasRecovery /\ TargetsMarker)'
    BY <1>1, <1>8, <1>9 DEF Inv, MInv, MarkerHasRecovery, TargetsMarker, TargetMarker, AtSource
  <2>2. Marks'
    <3>1. op = "recover" => RecoveryMarks'
      BY <1>1, <1>4, <1>7, <1>10 DEF RecoveryMarks, Writes, LifecycleOps
    <3>2. op \in LifecycleOps => TxnMarks'
      BY <1>4, <1>10 DEF TxnMarks, LifecycleOps
    <3>. QED
      BY <1>10, <3>1, <3>2 DEF Marks
  <2>3. ReceiptPast'
    <3>1. Receipt.evidence <= Evidence.seq /\ IsUsed(Receipt.nonce) /\ Receipt.evidence \in Nat
      BY DEF Inv, MInv, ReceiptPast, Typed, FilesTyped, IsReceipt
    <3>2. Receipt.evidence < r.seq
      BY <1>2, <1>3, <3>1
    <3>. QED
      BY <1>1, <1>2, <1>8, <1>10, <3>1, <3>2 DEF ReceiptPast, IsUsed, IsEvidence
  <2>4. BetweenEpochs'
    BY <1>1, <1>8, <1>9, <1>10 DEF Inv, MInv, BetweenEpochs, Commands, op
  <2>5. Blocked'
    <3>1. SUFFICES ASSUME Unapplied' PROVE Blocked'
      BY DEF Blocked
    <3>2. Unapplied
      BY <1>1, <1>8, <1>10, <3>1 DEF Unapplied, AtSource, Writes
    <3>3. /\ Receipt.evidence < Evidence.seq /\ Receipt.evidence \in Nat
          /\ op # "rebase"
      BY <1>1, <3>2 DEF Inv, MInv, Blocked, Typed, FilesTyped, IsReceipt, Commands, op
    <3>4. Receipt.evidence < r.seq
      BY <1>2, <1>3, <3>3
    <3>. QED
      BY <1>1, <1>4, <1>8, <1>9, <1>10, <3>2, <3>3, <3>4 DEF Inv, MInv, Blocked, Commands, InTxn,
         LifecycleOps
  <2>. QED
    BY <2>1, <2>2, <2>3, <2>4, <2>5 DEF MInv
<1>16. RInv'
  <2>1. TradesArePast' /\ DayIsDecided'
    BY <1>1, <1>9, <1>10 DEF Inv, RInv, TradesArePast, DayIsDecided, Commands, op
  <2>2. LastRequest'
    <3>1. SUFFICES ASSUME Last.kind = "recovery" PROVE LastRequest'
      BY <1>9 DEF LastRequest
    <3>2. RequestStands(Last.request)' /\ Last.request.evidence <= Evidence.seq
          /\ Last.request.evidence \in Nat
      <4>1. Revision \in 1..Revision /\ IsOperation(Last)
        BY DEF Inv, Typed, RegistryTyped, Revision, Last
      <4>2. Last.request.evidence \in Nat
        BY <3>1, <4>1 DEF IsOperation, Requests
      <4>3. RequestStands(Last.request)'
        BY <1>1, <1>9, <3>1 DEF Inv, RInv, LastRequest, RequestStands, Adoptable, Net
      <4>. QED
        BY <1>2, <3>1, <4>2, <4>3 DEF Inv, RInv, LastRequest
    <3>3. Last.request.evidence < r.seq
      BY <1>2, <1>3, <3>2
    <3>. QED
      BY <1>3, <1>8, <1>9, <3>2, <3>3 DEF LastRequest
  <2>3. EvidenceChained'
    BY <1>1, <1>2, <1>3, <1>8, <1>10 DEF EvidenceChained, Writing
  <2>4. op = "recover" => Retries'
    <3>1. SUFFICES ASSUME op = "recover" PROVE Retries'
      OBVIOUS
    <3>2. then = "begin"
      BY <1>4, <3>1 DEF LifecycleOps
    <3>3. /\ IsUsed(u) <=> IsUsed(proc.nonce)'
          /\ UNCHANGED <<Recovery, Session, Last>>
      BY <1>1, <1>8, <1>9, <1>10, <3>2 DEF IsUsed
    <3>4. Evidence'.revision = Revision' /\ Evidence'.seq = Evidence.seq + 1
      BY <1>3, <1>8, <1>9
    <3>. QED
      BY <1>7, <1>10, <3>1, <3>2, <3>3, <3>4 DEF Retries
  <2>5. HasRecovery => CheckpointStands(Recovery.plan)'
    <3>1. SUFFICES ASSUME HasRecovery PROVE CheckpointStands(Recovery.plan)'
      OBVIOUS
    <3>2. CheckpointStands(Recovery.plan) /\ Recovery.plan.bound \in Nat
      BY <3>1 DEF Inv, RInv, Typed, FilesTyped, HasRecovery, Recoveries, Checkpoints
    <3>. QED
      BY <1>1, <1>2, <1>3, <1>8, <1>9, <3>2 DEF CheckpointStands
  <2>. QED
    BY <1>8, <1>10, <2>1, <2>2, <2>3, <2>4, <2>5 DEF RInv, Commands
<1>. QED
  BY <1>12, <1>13, <1>14, <1>15, <1>16 DEF Inv

\* The next record of the recovery store replaces the older one.
LEMMA ReplaceRecoverySound ==
    ASSUME Inv, ReplaceCurrent, proc.write.store = "recovery"
    PROVE  Inv'
<1> DEFINE op == proc.op
           u == proc.nonce
           m == proc.plan
           w == proc.write
           r == proc.write.record
           then == proc.write.then
<1>1. /\ proc # NoProc /\ proc.at = "current" /\ Writing /\ Place = then
      /\ UNCHANGED <<account, registry, lineage, states>>
      /\ IF then = "end" THEN proc' = NoProc
         ELSE proc' = [op |-> op, nonce |-> u, plan |-> m, at |-> then, write |-> w]
      /\ files' = [evidence |-> files'.evidence, recovery |-> files'.recovery,
                   receipts |-> files'.receipts]
      /\ files'.recovery = [current |-> r, previous |-> files.recovery.previous]
      /\ files'.evidence = files.evidence /\ files'.receipts = files.receipts
  BY ReplaceCurrentIs DEF Place
<1> USE DEF account, states
<1>2. /\ HasRecovery /\ Recovery \in Recoveries /\ r \in Recoveries
      /\ r.seq = Recovery.seq + 1 /\ files.recovery.previous = Recovery
      /\ Recovery.seq \in Nat
  <2>1. /\ HasRecovery /\ r.seq = Recovery.seq + 1 /\ files.recovery.previous = Recovery
    BY <1>1 DEF Inv, SInv, StoreRuns, At
  <2>2. Recovery \in Recoveries /\ r \in Recoveries
    BY <1>1, <2>1, WriterIs DEF Inv, Typed, FilesTyped, HasRecovery, IsWrite
  <2>. QED
    BY <2>1, <2>2 DEF Recoveries
<1>3. \/ op = "recover" /\ then \in {"apply", "end"} /\ RecoveryRuns /\ RecoveryMarks /\ Retries
      \/ op \in LifecycleOps /\ then \in {"acknowledge", "finish"} /\ TxnRuns /\ TxnMarks
  <2>1. \/ op = "recover" /\ then \in {"apply", "end"}
        \/ op \in LifecycleOps /\ then \in {"acknowledge", "finish"}
    BY <1>1, WriterIs DEF LifecycleOps
  <2>. QED
    BY <1>1, <2>1, RecoverIsRecord, TxnIsRecord
<1>4. op = "recover" =>
        /\ u \in Nonces /\ IsEvidence(m.semantic) /\ m.request \in Requests
        /\ m.resumed \in BOOLEAN
        /\ m = [request |-> m.request, resumed |-> m.resumed, semantic |-> m.semantic]
        /\ ~Prepared /\ state.mode = "HALTED" /\ ~working
        /\ ~m.resumed => m.request.evidence = m.semantic.seq
        /\ CheckpointStands(r.plan)
  BY <1>1, RecoverIsRecord DEF RecoveryRuns, Retries
<1>5. op \in LifecycleOps =>
        /\ IsTxn(m) /\ IsMarker(m.marker) /\ Prepared /\ lifecycle.op = op
        /\ r.plan = Recovery.plan /\ r.by = lifecycle.nonce /\ r.status = "committed"
        /\ state.marker = [txn |-> Recovery.plan.nonce, by |-> lifecycle.nonce]
        /\ then = "finish" =>
             /\ Acknowledges /\ IsBound /\ policy.seq = lifecycle.policy + 1
             /\ state.seq = lifecycle.state + 1
  BY <1>1, TxnIsRecord, TxnFacts DEF TxnRuns, TxnMarks, AfterAcknowledged, AfterBound,
     AfterPolicy,
     AfterGeneric
<1>6. op = "recover" /\ then = "apply" => r.status = "prepared" /\ AtSource(r.plan)
  BY <1>1, <1>3 DEF RecoveryMarks, Writes, LifecycleOps
<1>7. op = "recover" /\ then = "end" =>
        /\ r.plan = Recovery.plan /\ r.status = "committed"
        /\ state.marker = [txn |-> r.plan.nonce, by |-> NoNonce]
  BY <1>1, <1>3 DEF RecoveryMarks, Writes, LifecycleOps, AtTarget
<1>8. CheckpointStands(r.plan)
  BY <1>2, <1>3, <1>4, <1>5 DEF Inv, RInv
<1> HIDE DEF op, u, m, w, r, then
<1>9. /\ Recovery' = r /\ UNCHANGED <<Evidence, Receipt>> /\ HasRecovery'
  BY <1>1, <1>2, NoFileIsNothingElse DEF Evidence, Recovery, Receipt, HasRecovery
<1>10. UNCHANGED <<Session, Adopted, Revision, Last, Prepared, Acknowledges, IsBound>>
  BY <1>1, <1>9 DEF Session, Adopted, Revision, Last, Prepared, Acknowledges, IsBound
<1>11. /\ then # "end" =>
            /\ proc'.op = op /\ proc'.nonce = u /\ proc'.plan = m /\ proc'.at = then
            /\ Place' = then
       /\ proc' # NoProc => then # "end"
       /\ ~Writing' /\ ~At("trading")'
  BY <1>1, <1>3 DEF Place, Writing, At
<1>12. Typed' /\ Placed'
  <2>1. FilesTyped'
    BY <1>1, <1>2, <1>9 DEF Inv, Typed, FilesTyped, IsStore
  <2>2. ProcTyped'
    BY <1>1, <1>3, <1>4, <1>5 DEF ProcTyped, IsProcess, LifecycleOps
  <2>3. Placed'
    BY <1>3, <1>11 DEF Placed, LifecycleOps, AfterAcknowledged, AfterBound, AfterPolicy,
       AfterGeneric
  <2>. QED
    BY <1>1, <1>10, <2>1, <2>2, <2>3 DEF Inv, Typed, AccountTyped, RegistryTyped, StatesTyped
<1>13. EInv'
  <2>1. EvidenceHolds' /\ OneEpoch'
    BY <1>1, <1>9, <1>10 DEF Inv, EInv, EvidenceHolds, NonceOnce, EvidenceHasReceipt, MissesOne,
       Before, OneEpoch
  <2>2. Effects'
    BY <1>1, <1>9, <1>10 DEF Inv, EInv, Effects, InOrder, IsUsed
  <2>3. Runs'
    <3>1. op = "recover" => proc' = NoProc \/ RecoveryRuns'
      BY <1>1, <1>3, <1>4, <1>10, <1>11 DEF RecoveryRuns, LifecycleOps
    <3>2. op \in LifecycleOps => TxnRuns'
      BY <1>1, <1>3, <1>5, <1>10, <1>11 DEF TxnRuns, LifecycleOps, AfterAcknowledged, AfterBound,
         AfterPolicy, AfterGeneric, Writes
    <3>. QED
      BY <1>3, <1>11, <3>1, <3>2 DEF Runs, LifecycleOps, WritesEvidence
  <2>. QED
    BY <2>1, <2>2, <2>3 DEF EInv
<1>14. SInv'
  <2>1. StoreShape'
    BY <1>1, <1>2, NoFileIsNothingElse DEF Inv, SInv, StoreShape, Recovery
  <2>2. StoreRuns'
    BY <1>3, <1>9, <1>11 DEF StoreRuns, LifecycleOps
  <2>. QED
    BY <2>1, <2>2 DEF SInv
<1>15. MInv'
  <2>1. MarkerHasRecovery'
    <3>1. CASE op = "recover" /\ then = "apply"
      BY <1>1, <1>6, <1>9, <3>1 DEF MarkerHasRecovery, AtSource
    <3>2. CASE op = "recover" /\ then = "end"
      BY <1>1, <1>7, <1>9, <3>2 DEF MarkerHasRecovery
    <3>3. CASE op \in LifecycleOps
      BY <1>1, <1>5, <1>9, <3>3 DEF MarkerHasRecovery
    <3>. QED
      BY <1>3, <3>1, <3>2, <3>3
  <2>2. TargetsMarker'
    BY <1>1, <1>10 DEF Inv, MInv, TargetsMarker, TargetMarker
  <2>3. Marks'
    <3>1. op = "recover" => proc' = NoProc \/ RecoveryMarks'
      BY <1>3, <1>11 DEF RecoveryMarks, Writes, LifecycleOps
    <3>2. op \in LifecycleOps => TxnMarks'
      BY <1>1, <1>3, <1>5, <1>9, <1>11 DEF TxnMarks, LifecycleOps
    <3>. QED
      BY <1>3, <1>11, <3>1, <3>2 DEF Marks, LifecycleOps
  <2>4. ReceiptPast'
    BY <1>1, <1>9, <1>11 DEF Inv, MInv, ReceiptPast, IsUsed
  <2>5. BetweenEpochs'
    BY <1>1, <1>9, <1>10, <1>11 DEF Inv, MInv, BetweenEpochs, Commands, op
  <2>6. Blocked'
    <3>1. SUFFICES ASSUME Unapplied' PROVE Blocked'
      BY DEF Blocked
    <3>2. /\ op = "recover" /\ then = "apply" /\ Unapplied
      <4>1. r.status = "prepared" /\ state.marker # NoMarker
        BY <1>1, <1>9, <1>11, <3>1 DEF Unapplied, Writes
      <4>2. op = "recover" /\ then = "apply"
        BY <1>3, <1>5, <1>7, <4>1
      <4>. QED
        BY <1>1, <4>1, <4>2, WriterIs DEF Unapplied, Commands, Writes, op, then
    <3>. QED
      BY <1>1, <1>4, <1>9, <1>10, <1>11, <3>2 DEF Inv, MInv, Blocked, Commands, InTxn,
         LifecycleOps
  <2>. QED
    BY <2>1, <2>2, <2>3, <2>4, <2>5, <2>6 DEF MInv
<1>16. RInv'
  <2>1. (TradesArePast /\ DayIsDecided /\ LastRequest /\ EvidenceChained)'
    BY <1>1, <1>3, <1>9, <1>10, <1>11 DEF Inv, RInv, TradesArePast, DayIsDecided, LastRequest,
       RequestStands, Adoptable, Net, Commands, EvidenceChained, Writing, LifecycleOps
  <2>2. op = "recover" => proc' = NoProc \/ Retries'
    BY <1>3, <1>4, <1>11 DEF Retries, LifecycleOps
  <2>3. CheckpointStands(Recovery.plan)'
    BY <1>1, <1>8, <1>9, <1>10 DEF CheckpointStands
  <2>. QED
    BY <1>3, <1>11, <2>1, <2>2, <2>3 DEF RInv, Commands, LifecycleOps
<1>. QED
  BY <1>12, <1>13, <1>14, <1>15, <1>16 DEF Inv

\* The receipt of a roll-forward replaces the older one.
LEMMA ReplaceReceiptSound ==
    ASSUME Inv, ReplaceCurrent, proc.write.store = "receipts"
    PROVE  Inv'
<1> DEFINE op == proc.op
           u == proc.nonce
           m == proc.plan
           w == proc.write
           r == proc.write.record
<1>1. /\ proc # NoProc /\ proc.at = "current" /\ Writing /\ Place = "policy"
      /\ op \in LifecycleOps
      /\ UNCHANGED <<account, registry, lineage, states>>
      /\ proc' = [op |-> op, nonce |-> u, plan |-> m, at |-> "policy", write |-> w]
      /\ files' = [evidence |-> files'.evidence, recovery |-> files'.recovery,
                   receipts |-> files'.receipts]
      /\ files'.receipts = [current |-> r, previous |-> files.receipts.previous]
      /\ files'.evidence = files.evidence /\ files'.recovery = files.recovery
  BY ReplaceCurrentIs, WriterIs DEF Place
<1> USE DEF account, states
<1>2. /\ IsReceipt(r) /\ r.evidence = Evidence.seq /\ r.epoch = lifecycle.epoch
      /\ r.nonce = lifecycle.nonce
  BY <1>1, WriterIs DEF IsWrite, Inv, MInv, ReceiptPast
<1>3. /\ Prepared /\ lifecycle.op = op /\ InOrder /\ state.mode = "HALTED" /\ ~working
      /\ Acknowledges /\ IsBound /\ ~Unapplied /\ op = "rollforward"
      /\ IsTxn(m) /\ IsMarker(m.marker)
  <2>1. /\ Prepared /\ lifecycle.op = op /\ InOrder /\ state.mode = "HALTED" /\ ~working
        /\ Acknowledges /\ IsBound
    BY <1>1, TxnFacts DEF AfterAcknowledged, AfterBound
  <2>2. ~Unapplied
    BY <1>1 DEF Inv, MInv, Blocked
  <2>3. TxnRuns /\ IsTxn(m) /\ IsMarker(m.marker)
    BY <1>1, TxnIsRecord
  <2>4. op = "rollforward"
    BY <1>1, <2>3, WriterIs DEF TxnRuns, Writes, LifecycleOps
  <2>. QED
    BY <2>1, <2>2, <2>3, <2>4
<1>4. Evidence.revision = Revision /\ Last.kind # "recovery" /\ IsUsed(lifecycle.nonce)
  <2>1. Evidence.revision = Revision
    BY <1>3 DEF Inv, EInv, EvidenceHolds, MissesOne, IsBound
  <2>2. Last.kind # "recovery" /\ Last.nonce = lifecycle.nonce
    BY <1>3 DEF InOrder, Acknowledges
  <2>3. Revision \in DOMAIN registry.log
    BY DEF Inv, Typed, RegistryTyped, Revision
  <2>. QED
    BY <2>1, <2>2, <2>3 DEF IsUsed, Last
<1>5. lifecycle.epoch = policy.epoch
  BY <1>3, TypedFacts DEF InOrder, IsTxn
<1> HIDE DEF op, u, m, w, r
<1>6. Receipt' = r /\ UNCHANGED <<Evidence, Recovery, HasRecovery>>
  BY <1>1 DEF Evidence, Recovery, Receipt, HasRecovery
<1>7. UNCHANGED <<Session, Adopted, Revision, Last, Prepared, Acknowledges, IsBound>>
  BY <1>1, <1>6 DEF Session, Adopted, Revision, Last, Prepared, Acknowledges, IsBound
<1>8. /\ proc'.op = op /\ proc'.plan = m /\ proc'.at = "policy" /\ Place' = "policy"
      /\ ~Writing' /\ ~At("trading")' /\ op \notin {"recover", "prepare"}
  BY <1>1, <1>3 DEF Place, Writing, At
<1>9. Typed' /\ Placed'
  <2>1. FilesTyped'
    BY <1>1, <1>2, <1>6 DEF Inv, Typed, FilesTyped, IsStore
  <2>2. ProcTyped' /\ Placed'
    BY <1>1, <1>3 DEF ProcTyped, IsProcess, LifecycleOps, Placed, AfterAcknowledged, AfterBound
  <2>. QED
    BY <1>1, <1>7, <2>1, <2>2 DEF Inv, Typed, AccountTyped, RegistryTyped, StatesTyped
<1>10. EInv'
  <2>1. EvidenceHolds' /\ OneEpoch'
    BY <1>1, <1>6, <1>7 DEF Inv, EInv, EvidenceHolds, NonceOnce, EvidenceHasReceipt, MissesOne,
       Before, OneEpoch
  <2>2. Effects'
    BY <1>1, <1>6, <1>7 DEF Inv, EInv, Effects, InOrder, IsUsed
  <2>3. Runs'
    BY <1>1, <1>3, <1>7, <1>8 DEF Runs, TxnRuns, LifecycleOps, WritesEvidence, AfterAcknowledged,
       AfterBound, AfterPolicy, AfterGeneric, Writes
  <2>. QED
    BY <2>1, <2>2, <2>3 DEF EInv
<1>11. SInv'
  BY <1>1, <1>6, <1>8 DEF Inv, SInv, StoreShape, StoreRuns
<1>12. MInv'
  <2>1. (MarkerHasRecovery /\ TargetsMarker)'
    BY <1>1, <1>6, <1>7 DEF Inv, MInv, MarkerHasRecovery, TargetsMarker, TargetMarker, AtSource
  <2>2. Marks'
    BY <1>8 DEF Marks, TxnMarks
  <2>3. ReceiptPast'
    <3>1. IsUsed(Receipt.nonce)' /\ (registry.log[Evidence.revision].kind # "recovery")'
      BY <1>1, <1>2, <1>4, <1>6 DEF IsUsed, Last
    <3>. QED
      BY <1>2, <1>6, <1>8, <3>1, TypedFacts DEF ReceiptPast
  <2>4. BetweenEpochs'
    BY <1>1, <1>2, <1>3, <1>5, <1>6, <1>7, <1>8 DEF BetweenEpochs, Commands
  <2>5. Blocked'
    BY <1>1, <1>3, <1>6, <1>8 DEF Blocked, Unapplied, AtSource, Commands, Writes
  <2>. QED
    BY <2>1, <2>2, <2>3, <2>4, <2>5 DEF MInv
<1>13. RInv'
  BY <1>1, <1>6, <1>7, <1>8 DEF Inv, RInv, TradesArePast, DayIsDecided, LastRequest,
     EvidenceChained,
     RequestStands, Adoptable, Net, CheckpointStands, Commands, Writing
<1>. QED
  BY <1>9, <1>10, <1>11, <1>12, <1>13 DEF Inv

-------------------------------------------------------------------------------
(***************************************************************************)
(* The invariant and what it says.                                         *)
(***************************************************************************)

\* Every step of the live process.
LEMMA LiveSound ==
    ASSUME Inv, Live
    PROVE  Inv'
<1>1. CASE Exit
  BY <1>1, EndSound DEF Exit, End
<1>. QED
  BY <1>1, StartLiveSound, RestartSound, SendSound, FillSound, DoneSound, SaveFillsSound,
     EmergencyStopSound DEF Live

\* Every step of a recovery.
LEMMA RecoverSound ==
    ASSUME Inv, Recover
    PROVE  Inv'
BY StartRecoverSound, AcknowledgeRecoverySound, BindRecoverySound, BeginRecoverySound,
   CreateRecoverySound, ApplyRecoverySound, CommitRecoverySound DEF Recover

\* Every step of a lifecycle command.
LEMMA LifecycleSound ==
    ASSUME Inv, Lifecycle
    PROVE  Inv'
BY StartRollForwardSound, StartRebaseSound, BeginLifecycleSound, AcknowledgeLifecycleSound,
   BindLifecycleSound, SaveReceiptSound, SavePolicySound, SaveGenericSound, ConsumeSound,
   CommitLifecycleSound DEF Lifecycle

\* A record is replaced, whichever it is.
LEMMA ReplaceCurrentSound ==
    ASSUME Inv, ReplaceCurrent
    PROVE  Inv'
<1>1. proc.write.store \in {"evidence", "recovery", "receipts"}
  BY ReplaceCurrentIs, WriterIs
<1>. QED
  BY <1>1, ReplaceEvidenceSound, ReplaceRecoverySound, ReplaceReceiptSound

\* Nothing happens.
LEMMA StutterSound ==
    ASSUME Inv, UNCHANGED vars
    PROVE  Inv'
<1>1. UNCHANGED <<account, registry, files, lineage, states, proc>>
  BY DEF vars
<1> USE DEF account, states
<1>2. Typed' /\ Placed'
  BY <1>1 DEF Inv, Typed, AccountTyped, RegistryTyped, FilesTyped, StatesTyped, ProcTyped, Placed,
     Writes, Writing, At, Revision, Evidence, Recovery, Receipt
<1>3. UNCHANGED <<Evidence, Receipt, Recovery, HasRecovery, Session, Adopted, Revision, Last,
                  Prepared, Writing, Place, Acknowledges, IsBound>>
  BY <1>1 DEF Evidence, Receipt, Recovery, HasRecovery, Session, Adopted, Revision, Last,
     Prepared, Writing, At, Place, Acknowledges, IsBound
<1>4. EInv'
  BY <1>1, <1>3 DEF Inv, EInv, EvidenceHolds, NonceOnce, EvidenceHasReceipt, MissesOne, Before,
     OneEpoch, Effects, InOrder, IsUsed, Runs, WritesEvidence, EvidenceWrite, InTxn, TxnRuns,
     PlanFresh, TargetMarker, Writes, RecoveryRuns, ObserverRuns
<1>5. SInv'
  BY <1>1, <1>3 DEF Inv, SInv, StoreShape, StoreRuns, RecoveryReadable, Chained, At
<1>6. MInv'
  BY <1>1, <1>3 DEF Inv, MInv, MarkerHasRecovery, TargetsMarker, TargetMarker, Marks,
     RecoveryMarks, TxnMarks, Writes, AtTarget, AtSource, ReceiptPast, BetweenEpochs, IsUsed,
     Blocked, Unapplied, At, Commands, InTxn
<1>7. RInv'
  <2>1. (TradesArePast /\ DayIsDecided /\ LastRequest /\ EvidenceChained)'
    BY <1>1, <1>3 DEF Inv, RInv, TradesArePast, DayIsDecided, LastRequest, EvidenceChained,
       RequestStands, Adoptable, Net, At, Commands
  <2>2. (HasRecovery => CheckpointStands(Recovery.plan))'
    BY <1>1, <1>3 DEF Inv, RInv, CheckpointStands
  <2>3. (Commands("recover") => Retries)'
    <3>1. Commands("recover")' <=> Commands("recover")
      BY <1>1 DEF Commands
    <3>2. Commands("recover") => Retries
      BY DEF Inv, RInv
    <3>3. Retries => Retries'
      <4>1. RequestStands(proc.plan.request)' <=> RequestStands(proc.plan.request)
        BY <1>1, <1>3 DEF RequestStands, Adoptable, Net
      <4>2. CheckpointStands(proc.write.record.plan)' <=> CheckpointStands(proc.write.record.plan)
        BY <1>1, <1>3 DEF CheckpointStands
      <4>3. IsUsed(proc.nonce)' <=> IsUsed(proc.nonce)
        BY <1>1 DEF IsUsed
      <4>. QED
        BY <1>1, <1>3, <4>1, <4>2, <4>3 DEF Retries
    <3>. QED
      BY <3>1, <3>2, <3>3
  <2>. QED
    BY <2>1, <2>2, <2>3 DEF RInv
<1>. QED
  BY <1>2, <1>4, <1>5, <1>6, <1>7 DEF Inv

\* The invariant holds in every behaviour: one step per action of the system.
THEOREM HaltedRecoveryInvariant == Spec => []Inv
<1>1. Init => Inv
  BY InitSound
<1>2. Inv /\ [Next]_vars => Inv'
  <2>1. SUFFICES ASSUME Inv, Next PROVE Inv'
    BY StutterSound
  <2>2. CASE Live
    BY <2>1, <2>2, LiveSound
  <2>3. CASE Environment
    BY <2>1, <2>3, NextDaySound, OtherAccountSound, CrashSound DEF Environment
  <2>4. CASE Decide
    BY <2>1, <2>4, DoctorSound, StartPrepareDecisionSound, PrepareDecisionSound DEF Decide
  <2>5. CASE KeepPrevious
    BY <2>1, <2>5, KeepPreviousSound
  <2>6. CASE ReplaceCurrent
    BY <2>1, <2>6, ReplaceCurrentSound
  <2>7. CASE Recover
    BY <2>1, <2>7, RecoverSound
  <2>8. CASE Lifecycle
    BY <2>1, <2>8, LifecycleSound
  <2>. QED
    BY <2>1, <2>2, <2>3, <2>4, <2>5, <2>6, <2>7, <2>8 DEF Next
<1>. QED
  BY <1>1, <1>2, PTL DEF Spec

\* A crash between two writes of the recovery store never leaves a generation that no
\* command can read, but for the first record; and a marker in the generic state names the
\* recovery in the store, or an older one that a recovery not yet applied has replaced
\* there (stress90_crash_fill_recovery.py: _load_unlocked, _save_unlocked, mark_consumed,
\* require_committed_stress90_crash_fill_recovery).
THEOREM MarkersAreProven == Spec => []MarkerIsProven
<1>1. Inv => MarkerIsProven
  <2> SUFFICES ASSUME Inv PROVE MarkerIsProven
    OBVIOUS
  <2>2. RecoveryReadable \/ FirstWriteCut
    BY NoFileIsNothingElse DEF Inv, SInv, StoreShape, RecoveryReadable, FirstWriteCut, Chained,
       Recovery, Typed, FilesTyped
  <2>. QED
    BY <2>2 DEF Inv, MInv, MarkerHasRecovery, MarkerIsProven
<1>. QED
  BY <1>1, HaltedRecoveryInvariant, PTL

\* No other command and no crash disturbs a prepared lifecycle transaction: its effects
\* are made in one order, registry, evidence, policy state, generic state, and nothing
\* moves a file past the transaction's target before it is committed
\* (stress90_lifecycle_transaction.py: begin, apply_stress90_lifecycle_transaction;
\* cli.py: the commands that refuse while a transaction is prepared).
THEOREM PreparedTransactionsAreUndisturbed == Spec => []PreparedIsUndisturbed
<1>1. Inv => PreparedIsUndisturbed
  <2>1. SUFFICES ASSUME Inv, Prepared PROVE PreparedIsUndisturbed
    BY DEF PreparedIsUndisturbed
  <2>2. InOrder /\ IsTxn(lifecycle)
    BY <2>1, TypedFacts DEF Inv, EInv, Effects
  <2>. QED
    BY <2>2 DEF InOrder, IsTxn, Acknowledges, IsBound, PreparedIsUndisturbed
<1>. QED
  BY <1>1, HaltedRecoveryInvariant, PTL

\* The operations the evidence has missed are at most one recovery and, after it, the
\* prepared transaction's: each has a command that can still bind it
\* (trading_day_evidence.py: roll_forward_stress90_recovery_binding, bind_for_lifecycle).
THEOREM EvidenceCatchesUp == Spec => []EvidenceCanCatchUp
<1>1. Inv => EvidenceCanCatchUp
  <2> SUFFICES ASSUME Inv PROVE EvidenceCanCatchUp
    OBVIOUS
  <2> DEFINE missed == Evidence.revision + 1..Revision
             mine == {i \in missed : Prepared /\ registry.log[i].nonce = lifecycle.nonce}
  <2>2. /\ NonceOnce /\ MissesOne /\ Evidence.revision \in 1..Revision
        /\ Revision \in Nat /\ Revision > 0
    BY DEF Inv, EInv, EvidenceHolds, EvidenceHasReceipt, Typed, RegistryTyped, Revision
  <2>3. Before \in {Revision - 1, Revision}
        /\ (Evidence.revision = Revision \/ Evidence.revision = Before
            \/ Evidence.revision = Before - 1)
    BY <2>2 DEF MissesOne, Before
  <2>4. Evidence.revision < Before => registry.log[Before].kind = "recovery"
    BY <2>2, <2>3 DEF MissesOne, Before
  <2>5. mine \subseteq {Revision}
    <3>1. SUFFICES ASSUME NEW i \in missed, Prepared, registry.log[i].nonce = lifecycle.nonce
                   PROVE  i = Revision
      OBVIOUS
    <3>2. InOrder /\ i \in 1..Revision /\ 1..Revision = DOMAIN registry.log
      BY <2>2, <3>1 DEF Inv, EInv, Effects, Typed, RegistryTyped, Revision
    <3>3. IsUsed(lifecycle.nonce)
      BY <3>1, <3>2 DEF IsUsed
    <3>4. Last.nonce = lifecycle.nonce
      BY <3>2, <3>3 DEF InOrder
    <3>. QED
      BY <2>2, <3>1, <3>2, <3>4 DEF NonceOnce, Last
  <2>6. missed \ mine \subseteq {Before}
    <3>1. SUFFICES ASSUME NEW i \in missed, i \notin mine PROVE i = Before
      OBVIOUS
    <3>2. i \in 1..Revision /\ i > Evidence.revision /\ ~(Prepared /\ registry.log[i].nonce = lifecycle.nonce)
      BY <2>2, <3>1
    <3>3. CASE Acknowledges
      <4>1. i # Revision /\ Before = Revision - 1
        BY <3>2, <3>3 DEF Acknowledges, Last, Before
      <4>. QED
        BY <2>2, <2>3, <3>2, <4>1
    <3>4. CASE ~Acknowledges
      BY <2>2, <2>3, <3>2, <3>4 DEF Before
    <3>. QED
      BY <3>3, <3>4
  <2>7. \A i \in missed \ mine : registry.log[i].kind = "recovery"
    BY <2>2, <2>3, <2>4, <2>6
  <2>8. Cardinality(missed \ mine) <= 1
    <3>1. Cardinality({Before}) = 1 /\ IsFiniteSet({Before})
      BY FS_Singleton
    <3>2. Cardinality(missed \ mine) <= Cardinality({Before})
      BY <2>6, <3>1, FS_Subset
    <3>. QED
      BY <3>1, <3>2
  <2>. QED
    BY <2>2, <2>5, <2>7, <2>8 DEF EvidenceCanCatchUp
<1>. QED
  BY <1>1, HaltedRecoveryInvariant, PTL

\* A recovery whose nonce the registry has can be retried with the same request on the
\* same day, whatever the crash interrupted, as long as nothing was traded or observed
\* since, no other recovery is prepared, and the first record was written whole (cli.py:
\* stress90-crash-fill-recover; stress90_crash_fill_recovery.py: begin, _require_exact).
THEOREM ExactRetriesConverge == Spec => []ExactRetryConverges
<1>1. Inv => ExactRetryConverges
  <2> SUFFICES ASSUME Inv, NEW n \in Nonces, Interrupted(n)
                 PROVE  /\ CanRecover(n)
                        /\ \/ HasRecovery /\ Recovery.plan.nonce = n
                           \/ RecoveryRequest(n) = Last.request
    BY DEF ExactRetryConverges
  <2> DEFINE q == Last.request
  <2>2. /\ ~Prepared /\ Quiet /\ Last.kind = "recovery" /\ Last.nonce = n
        /\ q.session = Session /\ Evidence.day = day /\ state.seq = q.state /\ RecoveryReadable
        /\ Evidence.rebind = n => files.evidence.previous.seq = q.evidence
    BY DEF Interrupted
  <2>3. /\ RequestStands(q) /\ Adoptable /\ Adopted = q.adopted /\ Adopted # {}
        /\ IF Evidence.revision = Revision THEN q.evidence < Evidence.seq
           ELSE q.evidence = Evidence.seq
    BY <2>2 DEF Inv, RInv, LastRequest, RequestStands
  <2>4. Evidence.epoch = policy.epoch /\ policy.epoch = registry.epoch
    BY <2>2 DEF Inv, EInv, OneEpoch
  <2>5. /\ Revision \in Nat /\ Revision > 0 /\ Evidence.revision \in 1..Revision
        /\ registry.log[Evidence.revision].nonce = Evidence.rebind /\ NonceOnce
        /\ Evidence.revision = Revision \/ Evidence.revision = Revision - 1
    BY <2>2 DEF Inv, EInv, EvidenceHolds, EvidenceHasReceipt, MissesOne, Before, Acknowledges,
       Typed, RegistryTyped, Revision
  <2>6. Authoritative \/ IsRecoverySource(n)
    BY <2>2, <2>4, <2>5 DEF Authoritative, IsRecoverySource
  <2>7. Evidence.revision = Revision <=> Evidence.rebind = n
    BY <2>2, <2>5 DEF NonceOnce, Last
  <2>8. SemanticEvidence(n).seq = q.evidence
    BY <2>2, <2>3, <2>4, <2>7 DEF SemanticEvidence, Authoritative
  <2>9. RecoveryRequest(n) = q
    <3>1. Revision \in 1..Revision /\ IsOperation(Last)
      BY <2>5 DEF Inv, Typed, RegistryTyped, Last
    <3>2. q = [evidence |-> q.evidence, session |-> q.session, state |-> q.state,
               adopted |-> q.adopted]
      BY <2>2, <3>1 DEF IsOperation, Requests
    <3>. QED
      BY <2>2, <2>3, <2>8, <3>2 DEF RecoveryRequest
  <2>10. ASSUME HasRecovery, Recovery.plan.nonce = n
         PROVE  SameCheckpoint(Recovery.plan)
    <3> DEFINE c == Recovery.plan
    <3>1. /\ CheckpointStands(c) /\ c.revision \in 1..Revision
          /\ registry.log[c.revision] = [kind |-> "recovery", nonce |-> c.nonce,
                                         request |-> c.request]
      BY <2>10 DEF Inv, RInv, CheckpointStands
    <3>2. c.revision = Revision
      BY <2>2, <2>5, <2>10, <3>1 DEF NonceOnce, Last
    <3>3. c.request = q
      BY <3>1, <3>2 DEF Last
    <3>4. Evidence.revision = Revision /\ c.policy = policy.seq /\ c.bound = q.evidence + 1
      BY <2>2, <3>1, <3>2, <3>3 DEF CheckpointStands
    <3>5. Evidence.seq = q.evidence + 1
      <4>1. files.evidence.previous.seq = q.evidence
        BY <2>2, <2>7, <3>4
      <4>2. files.evidence.previous = Evidence \/ files.evidence.previous.seq + 1 = Evidence.seq
        BY DEF Inv, RInv, EvidenceChained
      <4>. QED
        BY <2>3, <3>4, <4>1, <4>2, TypedFacts
    <3>. QED
      BY <2>2, <3>2, <3>3, <3>4, <3>5 DEF SameCheckpoint
  <2>11. CanRecover(n)
    BY <2>2, <2>3, <2>6, <2>10 DEF CanRecover
  <2>. QED
    BY <2>9, <2>11
<1>. QED
  BY <1>1, HaltedRecoveryInvariant, PTL

=============================================================================
