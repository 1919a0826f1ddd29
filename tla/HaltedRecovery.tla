--------------------------- MODULE HaltedRecovery ---------------------------
(***************************************************************************)
(* What an operator does to a halted Stress-90 runtime from one trading day  *)
(* to the next (cli.py): recover own fills the state does not know           *)
(* (stress90_crash_fill_recovery.py), roll the account day forward on his    *)
(* own word (stress90_operator_continuity.py), rebase the account path after *)
(* a cash flow, prepare the day's decision; and how these commands share the *)
(* registry, the trading-day evidence (trading_day_evidence.py), the two     *)
(* states and the lifecycle transaction.  A command may die between any two  *)
(* of its writes.                                                            *)
(*                                                                           *)
(* One account, one runtime, in the operator-managed continuity mode; the    *)
(* day's market evidence is there and the journal's orders are the account's *)
(* own.  Every file has a sequence number that nothing repeats: it stands    *)
(* for the file's checksum.  The registry and the coordinator change in one  *)
(* step here; Lifecycle has their parts.                                     *)
(***************************************************************************)
EXTENDS Integers, Sequences, FiniteSets, TLC

CONSTANTS Nonces,          \* operation ids the operator may give
          Activation,      \* the nonce that bound the account, and its first epoch
          First,           \* the nonce of the roll-forward into day 1
          NoProc, NoFile, NoNonce, NoRequest, NoMarker, Torn,
          MaxDay, MaxTrades, MaxSaves, MaxOthers, MaxFailures   \* bounds

ASSUME RecoveryAssumption ==
    /\ {Activation, First, NoNonce} \cap Nonces = {} /\ Activation # First
    /\ {MaxDay, MaxTrades, MaxSaves, MaxOthers, MaxFailures} \subseteq Nat

\* The recovery store's records: the request of a recovery, its checkpoint, and the
\* operation that consumed it.
Requests ==
    [evidence : Nat, session : SUBSET Nat, state : Nat, adopted : SUBSET Nat]
Checkpoints ==
    [nonce : Nonces, request : Requests, revision : Nat, policy : Nat, bound : Nat]
Recoveries ==
    [seq : Nat, status : {"prepared", "committed"}, plan : Checkpoints,
     by : Nonces \cup {NoNonce}]

ASSUME NoFileIsNothingElse ==
    NoFile # Torn /\ NoFile \notin Recoveries /\ Torn \notin Recoveries

VARIABLES day,        \* the CTP trading day
          trades,     \* the day of each own fill; odd ones open, even ones close
          working,    \* an own order is active
          registry,   \* [log, epoch, others]: this binding's operations, and the others'
          files,      \* [evidence, recovery, receipts], each [current, previous]
          lineage,    \* the recovery store's lineage marker
          state,      \* generic state: [seq, mode, day, known, marker]
          policy,     \* policy state: [seq, epoch, target]
          lifecycle,  \* the coordinator's transaction
          proc,       \* the process that has the account lease, or NoProc
          failures

account == <<day, trades, working>>
states == <<state, policy, lifecycle>>
vars == <<account, registry, files, lineage, states, proc, failures>>

-----------------------------------------------------------------------------
\* Positions and sessions.

Net(fills) == Cardinality({i \in fills : i % 2 = 1}) - Cardinality({i \in fills : i % 2 = 0})
Session == {i \in DOMAIN trades : trades[i] = day}
Matched == Net(state.known) = Net(DOMAIN trades)

\* reconcile_authorized_crash_fills: own fills of this session explain the drift.
Adoptable == Net(state.known \cup Session) = Net(DOMAIN trades)
Adopted == Session \ state.known

\* The two durable conditions every command starts from.
Halted == proc = NoProc /\ state.mode = "HALTED"
Quiet == ~working
Prepared == lifecycle.status = "prepared"
Mine(op, n) == Prepared /\ lifecycle.op = op /\ lifecycle.nonce = n

-----------------------------------------------------------------------------
\* The registry: acknowledge_*_operation, advance_epoch.

Revision == Len(registry.log)
Last == registry.log[Revision]
RegistrySequence == Revision + registry.others
IsUsed(n) == \E i \in DOMAIN registry.log : registry.log[i].nonce = n

\* A nonce is new, or it is the last operation and asks for the same.
Accepts(kind, n, request) ==
    IF IsUsed(n) THEN Last = [kind |-> kind, nonce |-> n, request |-> request]
    ELSE TRUE
Acknowledged(kind, n, request, epoch) ==
    IF IsUsed(n) THEN registry
    ELSE [registry EXCEPT !.log = Append(@, [kind |-> kind, nonce |-> n, request |-> request]),
                          !.epoch = epoch]

-----------------------------------------------------------------------------
\* The trading-day evidence.

Evidence == files.evidence.current

\* Mutant: a prepared lifecycle transaction is not looked at.
AuthoritativeInBetween ==
    /\ Evidence.epoch = policy.epoch /\ policy.epoch = registry.epoch
    /\ Evidence.revision = Revision

\* require_authoritative_trading_day_evidence.
Authoritative ==
    /\ ~Prepared
    /\ Evidence.epoch = policy.epoch /\ policy.epoch = registry.epoch
    /\ Evidence.revision = Revision

\* What an operation binds: the receipt the registry has given for it.
Rebound(e, d, epoch, n) ==
    [seq |-> Evidence.seq + 1, day |-> d, epoch |-> epoch, revision |-> Revision,
     registry |-> RegistrySequence, rebind |-> n]
SameBinding(e, f) ==
    /\ e.day = f.day /\ e.epoch = f.epoch
    /\ e.revision = f.revision /\ e.rebind = f.rebind

\* save_observation writes only what is new: another day, or another registry.
ObservedAnew == Evidence.day # day \/ Evidence.registry # RegistrySequence
Observation ==
    [Evidence EXCEPT !.seq = @ + 1, !.day = day, !.registry = RegistrySequence]
Observable ==
    /\ Authoritative
    /\ day >= Evidence.day /\ day >= state.day /\ day >= policy.target

-----------------------------------------------------------------------------
\* The recovery store and the operator's receipts.

Chained(s) ==
    /\ s.previous # NoFile
    /\ s.previous = s.current \/ s.previous.seq + 1 = s.current.seq

\* Stress90CrashFillRecoveryStore._load_unlocked.
RecoveryReadable ==
    LET s == files.recovery
    IN  IF s.current = NoFile THEN s.previous = NoFile /\ ~lineage
        ELSE /\ s.current # Torn /\ lineage
             /\ IF s.current.seq = 1 THEN s.previous \in {NoFile, s.current} ELSE Chained(s)

\* Stress90OperatorContinuityStore.load_record.
ReceiptsReadable ==
    LET s == files.receipts
    IN  IF s.current.seq = 1 THEN s.previous = NoFile ELSE Chained(s)

Recovery == files.recovery.current
HasRecovery == Recovery \notin {NoFile, Torn}
Receipt == files.receipts.current

\* _state_is_source, _state_is_target: a sequence number is one state's.
AtSource(c) == state.seq = c.request.state
AtTarget(c) == state.seq = c.request.state + 1 /\ state.marker = [txn |-> c.nonce, by |-> NoNonce]

\* require_committed_stress90_crash_fill_recovery.
IsProven ==
    /\ RecoveryReadable /\ HasRecovery /\ Recovery.status = "committed"
    /\ state.marker.txn = Recovery.plan.nonce
    /\ IF state.marker.by = NoNonce THEN AtTarget(Recovery.plan)
       ELSE state.marker.by = Recovery.by

\* require_stress90_operator_continuity_authority, for the current day.
ReceiptAuthorises ==
    /\ ReceiptsReadable
    /\ Receipt.day = day /\ Receipt.epoch = policy.epoch
    /\ Receipt.revision = Revision
    /\ Last.nonce = Receipt.nonce /\ Last.kind = "continuity"
    /\ Evidence.seq = Receipt.evidence /\ Evidence.day = day

-----------------------------------------------------------------------------
\* Processes.

NoWrite == [store |-> "evidence", record |-> NoFile, then |-> "end"]
Process(op, n, plan, at) ==
    [op |-> op, nonce |-> n, plan |-> plan, at |-> at, write |-> NoWrite]
At(step) == proc # NoProc /\ proc.at = step
Go(step) == proc' = [proc EXCEPT !.at = step]
End == proc' = NoProc

\* A store keeps its current record as the previous one and then replaces it.
Replacing(p, store, record, then) ==
    [p EXCEPT !.at = "previous",
              !.write = [store |-> store, record |-> record, then |-> then]]

KeepPrevious ==
    /\ At("previous") /\ Go("current")
    /\ files' = [files EXCEPT ![proc.write.store].previous = files[proc.write.store].current]
    /\ UNCHANGED <<account, registry, lineage, states, failures>>

ReplaceCurrent ==
    /\ At("current")
    /\ IF proc.write.then = "end" THEN End ELSE Go(proc.write.then)
    /\ files' = [files EXCEPT ![proc.write.store].current = proc.write.record]
    /\ UNCHANGED <<account, registry, lineage, states, failures>>

-----------------------------------------------------------------------------
\* The live process, as far as it makes fills that a halted state does not know.

Save(changed) == state' = [changed EXCEPT !.seq = state.seq + 1]

\* A permit and its consumption; the start would write an observation that is new.
StartLive ==
    /\ Halted /\ Quiet /\ Matched
    /\ state.day = day /\ policy.target = day /\ state.seq < MaxSaves
    /\ Authoritative /\ ReceiptAuthorises /\ ~ObservedAnew
    /\ Save([state EXCEPT !.mode = "RUNNING"])
    /\ proc' = Process("live", NoNonce, NoFile, "trading")
    /\ UNCHANGED <<account, registry, files, lineage, policy, lifecycle, failures>>

\* A running state is started again: it adopts the fills it can explain, or halts.
Restart ==
    /\ proc = NoProc /\ state.mode = "RUNNING" /\ state.seq < MaxSaves
    /\ \/ /\ Adoptable /\ state.day = day
          /\ Save([state EXCEPT !.known = @ \cup Session])
          /\ proc' = Process("live", NoNonce, NoFile, "trading")
       \/ Save([state EXCEPT !.mode = "HALTED"]) /\ UNCHANGED proc
    /\ UNCHANGED <<account, registry, files, lineage, policy, lifecycle, failures>>

Send ==
    /\ At("trading") /\ state.mode = "RUNNING" /\ Quiet /\ Len(trades) < MaxTrades
    /\ working' = TRUE
    /\ UNCHANGED <<day, trades, registry, files, lineage, states, proc, failures>>

\* An order fills or is cancelled, whether its process lives or not.
Fill ==
    /\ working /\ Len(trades) < MaxTrades
    /\ trades' = Append(trades, day) /\ working' \in BOOLEAN
    /\ UNCHANGED <<day, registry, files, lineage, states, proc, failures>>
Done ==
    /\ working /\ working' = FALSE
    /\ UNCHANGED <<day, trades, registry, files, lineage, states, proc, failures>>

SaveFills ==
    /\ At("trading") /\ Adopted # {}
    /\ Save([state EXCEPT !.known = @ \cup Session])
    /\ UNCHANGED <<account, registry, files, lineage, policy, lifecycle, proc, failures>>

EmergencyStop ==
    /\ At("trading") /\ state.mode = "RUNNING"
    /\ Save([state EXCEPT !.mode = "HALTED"])
    /\ UNCHANGED <<account, registry, files, lineage, policy, lifecycle, proc, failures>>

Exit ==
    /\ At("trading") /\ End
    /\ UNCHANGED <<account, registry, files, lineage, states, failures>>

\* Orders do not outlive their trading day.
NextDay ==
    /\ proc = NoProc /\ day < MaxDay
    /\ day' = day + 1 /\ working' = FALSE
    /\ UNCHANGED <<trades, registry, files, lineage, states, proc, failures>>

\* Another account of the machine changes its own binding.
OtherAccount ==
    /\ registry.others < MaxOthers
    /\ registry' = [registry EXCEPT !.others = @ + 1]
    /\ UNCHANGED <<account, files, lineage, states, proc, failures>>

-----------------------------------------------------------------------------
\* Observing the day: the doctor and every command that collects or prepares.

Doctor ==
    /\ Halted /\ Observable /\ ObservedAnew
    /\ proc' = Replacing(Process("doctor", NoNonce, NoFile, "end"), "evidence", Observation, "end")
    /\ UNCHANGED <<account, registry, files, lineage, states, failures>>

\* stress90-prepare-decision observes the day before it prepares its target.
StartPrepareDecision ==
    /\ Halted /\ Quiet /\ Matched /\ Observable
    /\ policy.target < day
    /\ LET p == Process("prepare", NoNonce, NoFile, "prepare")
       IN  proc' = IF ObservedAnew THEN Replacing(p, "evidence", Observation, "prepare") ELSE p
    /\ UNCHANGED <<account, registry, files, lineage, states, failures>>

PrepareDecision ==
    /\ At("prepare") /\ End
    /\ policy' = [policy EXCEPT !.seq = @ + 1, !.target = day]
    /\ UNCHANGED <<account, registry, files, lineage, state, lifecycle, failures>>

-----------------------------------------------------------------------------
\* stress90-crash-fill-recover.

\* Mutant: any recovery may go on from another one's operation.
AnyRecoverySource(n) ==
    /\ ~Prepared
    /\ Evidence.epoch = policy.epoch /\ policy.epoch = registry.epoch
    /\ Last.kind = "recovery"
    /\ Revision = Evidence.revision + 1

\* The registry may be one operation ahead of the evidence, and it is this one.
IsRecoverySource(n) ==
    /\ ~Prepared
    /\ Evidence.epoch = policy.epoch /\ policy.epoch = registry.epoch
    /\ Last.nonce = n /\ Last.kind = "recovery"
    /\ Revision = Evidence.revision + 1

\* Mutant: the evidence in place is the request's, bound or not.
CurrentEvidence(n) == Evidence

\* The evidence the request was made of: once it is bound, the one before it.
SemanticEvidence(n) ==
    IF Authoritative /\ Evidence.rebind = n /\ Last.nonce = n
    THEN files.evidence.previous ELSE Evidence

\* build_stress90_crash_fill_recovery_request_digest.
RecoveryRequest(n) ==
    [evidence |-> SemanticEvidence(n).seq, session |-> Session, state |-> state.seq,
     adopted |-> Adopted]

\* A retry must find its own checkpoint's authority, evidence and session.
SameCheckpoint(c) ==
    /\ c.revision = Revision /\ c.policy = policy.seq
    /\ c.bound = Evidence.seq
    /\ c.request.session = Session

CanRecover(n) ==
    /\ Quiet /\ Adoptable /\ day = Evidence.day
    /\ Authoritative \/ IsRecoverySource(n)
    /\ RecoveryReadable
    /\ IF HasRecovery /\ Recovery.plan.nonce = n THEN SameCheckpoint(Recovery.plan)
       ELSE Adopted # {}

StartRecover(n) ==
    /\ Halted /\ CanRecover(n)
    /\ LET resumed == HasRecovery /\ Recovery.plan.nonce = n
       IN  proc' = Process("recover", n,
                      [request |-> IF resumed THEN Recovery.plan.request ELSE RecoveryRequest(n),
                       resumed |-> resumed, semantic |-> SemanticEvidence(n)],
                      "acknowledge")
    /\ UNCHANGED <<account, registry, files, lineage, states, failures>>

AcknowledgeRecovery ==
    /\ At("acknowledge") /\ proc.op = "recover"
    /\ IF Accepts("recovery", proc.nonce, proc.plan.request)
       THEN /\ registry' = Acknowledged("recovery", proc.nonce, proc.plan.request, registry.epoch)
            /\ Go("bind")
       ELSE UNCHANGED registry /\ End
    /\ UNCHANGED <<account, files, lineage, states, failures>>

\* roll_forward_stress90_recovery_binding.
BindRecovery ==
    /\ At("bind") /\ proc.op = "recover"
    /\ LET source == proc.plan.semantic
           target == Rebound(source, source.day, source.epoch, proc.nonce)
       IN  IF SameBinding(Evidence, target)
           THEN IF files.evidence.previous = source THEN Go("begin") ELSE End
           ELSE IF Evidence = source
                THEN proc' = Replacing(proc, "evidence", target, "begin")
                ELSE End
    /\ UNCHANGED <<account, registry, files, lineage, states, failures>>

\* build_stress90_crash_fill_recovery_checkpoint.
NewCheckpoint ==
    [nonce |-> proc.nonce, request |-> proc.plan.request, revision |-> Revision,
     policy |-> policy.seq, bound |-> Evidence.seq]
RecoveryRecord(status, checkpoint, by) ==
    [seq |-> IF HasRecovery THEN Recovery.seq + 1 ELSE 1,
     status |-> status, plan |-> checkpoint, by |-> by]

\* begin refuses while another recovery is prepared.
MayBegin(c) == Recovery.status = "committed" /\ Recovery.plan.nonce # c.nonce

BeginRecovery ==
    /\ At("begin") /\ proc.op = "recover"
    /\ CASE ~HasRecovery -> lineage' = TRUE /\ Go("create")
         [] HasRecovery /\ proc.plan.resumed ->
              /\ UNCHANGED lineage
              /\ IF SameCheckpoint(Recovery.plan) THEN Go("apply") ELSE End
         [] OTHER ->
              /\ UNCHANGED lineage
              /\ IF MayBegin(NewCheckpoint)
                 THEN proc' = Replacing(proc, "recovery",
                                RecoveryRecord("prepared", NewCheckpoint, NoNonce), "apply")
                 ELSE End
    /\ UNCHANGED <<account, registry, files, states, failures>>

\* The first record is written in place.
CreateRecovery ==
    /\ At("create") /\ Go("apply")
    /\ files' = [files EXCEPT !.recovery.current =
                   RecoveryRecord("prepared", NewCheckpoint, NoNonce)]
    /\ UNCHANGED <<account, registry, lineage, states, failures>>

\* apply_stress90_crash_fill_recovery: a committed recovery only looks.
ApplyRecovery ==
    /\ At("apply") /\ proc.op = "recover"
    /\ LET c == Recovery.plan
       IN  IF Recovery.status = "prepared" /\ AtSource(c)
           THEN /\ Save([state EXCEPT !.known = @ \cup c.request.adopted,
                                      !.marker = [txn |-> c.nonce, by |-> NoNonce]])
                /\ Go("commit")
           ELSE /\ UNCHANGED state
                /\ IF Recovery.status = "prepared" /\ AtTarget(c) THEN Go("commit") ELSE End
    /\ UNCHANGED <<account, registry, files, lineage, policy, lifecycle, failures>>

CommitRecovery ==
    /\ At("commit") /\ proc.op = "recover"
    /\ proc' = Replacing(proc, "recovery", RecoveryRecord("committed", Recovery.plan, Recovery.by), "end")
    /\ UNCHANGED <<account, registry, files, lineage, states, failures>>

-----------------------------------------------------------------------------
\* The two lifecycle commands: stress90-operator-roll-forward, stress90-account-rebase.

\* build_stress90_crash_fill_recovery_consumed_state: only a rebase consumes.
TargetMarker(op, n) ==
    IF op = "rebase" /\ state.marker # NoMarker /\ state.marker.by = NoNonce
    THEN [state.marker EXCEPT !.by = n] ELSE state.marker

\* The operator gives a new command a new id: begin would prepare with a used one, and
\* the registry refuse it afterwards.
Fresh(n) == ~IsUsed(n) /\ lifecycle.nonce # n

NewTxn(op, n, source, epoch, request) ==
    [op |-> op, nonce |-> n, status |-> "prepared", source |-> source, day |-> day,
     from |-> policy.epoch, epoch |-> epoch, state |-> state.seq, policy |-> policy.seq,
     marker |-> TargetMarker(op, n), request |-> request]

\* The evidence a roll-forward starts from: its transaction may have moved it already.
SourceEvidence(n) ==
    IF Mine("rollforward", n) /\ Evidence.rebind = n /\ Evidence.day = lifecycle.day
    THEN files.evidence.previous ELSE Evidence
\* build_stress90_operator_roll_forward_plan: all sources are of one day, and so is the
\* receipt the source evidence has; a retry may have consumed its nonce.
CanPlan(n, source) ==
    LET e == SourceEvidence(n)
    IN  /\ state.day = source /\ policy.target = source /\ e.day = source
        /\ day = source + 1
        /\ IF Mine("rollforward", n) /\ Last.nonce = n
           THEN Last.kind = "continuity" /\ Revision = e.revision + 1
           ELSE e.revision = Revision /\ e.registry = RegistrySequence

RollForwardRequest(n, source) ==
    LET e == SourceEvidence(n)
    IN  [state |-> state.seq, policy |-> policy.seq, evidence |-> e.seq,
         revision |-> e.revision, from |-> source, day |-> day, session |-> Session,
         epoch |-> policy.epoch]

\* A receipt that is there already stands for the plan.
HasReceipt(n) == Receipt.nonce = n

StartRollForward(n) ==
    LET mine == Mine("rollforward", n)
        source == IF mine THEN lifecycle.source ELSE state.day
        request == IF HasReceipt(n) THEN Receipt.request ELSE RollForwardRequest(n, source)
    IN  /\ Halted /\ Quiet /\ Matched
        /\ ReceiptsReadable
        /\ mine \/ (Fresh(n) /\ ~Prepared)
        /\ IF HasReceipt(n)
           THEN /\ mine /\ Receipt.day = day /\ Receipt.epoch = policy.epoch
                /\ Receipt.request.session = Session
           ELSE /\ mine => state.seq = lifecycle.state /\ policy.seq = lifecycle.policy
                /\ mine \/ Authoritative
                /\ CanPlan(n, source)
        /\ mine => lifecycle.day = day /\ lifecycle.request = request
        /\ proc' = Process("rollforward", n,
                     IF mine THEN lifecycle
                     ELSE NewTxn("rollforward", n, source, policy.epoch, request),
                     IF mine THEN "acknowledge" ELSE "begin")
        /\ UNCHANGED <<account, registry, files, lineage, states, failures>>

\* The state is flat, has adopted all fills, and a marker in it is proven; a retry may
\* first write the consumption its own transaction has not written.
Consumable(n) ==
    /\ RecoveryReadable /\ HasRecovery /\ Recovery.status = "committed"
    /\ state.marker = [txn |-> Recovery.plan.nonce, by |-> n]
    /\ Recovery.by \in {NoNonce, n}

StartRebase(n) ==
    LET mine == Mine("rebase", n)
    IN  /\ Halted /\ Quiet
        /\ (mine /\ lifecycle.day = day) \/ (Fresh(n) /\ ~Prepared)
        /\ day \in {state.day, state.day + 1} \/ mine
        /\ day >= state.day /\ day >= policy.target
        /\ Adoptable /\ Adopted = {} /\ Matched /\ Net(state.known) = 0
        /\ state.marker = NoMarker \/ IsProven \/ (mine /\ Consumable(n))
        /\ LET p == Process("rebase", n,
                      IF mine THEN lifecycle
                      ELSE NewTxn("rebase", n, state.day, n, NoRequest),
                      IF mine THEN "acknowledge" ELSE "begin")
           IN  proc' = IF state.marker = NoMarker \/ IsProven THEN p
                       ELSE Replacing(p, "recovery",
                              RecoveryRecord("committed", Recovery.plan, n), "acknowledge")
        /\ UNCHANGED <<account, registry, files, lineage, states, failures>>

BeginLifecycle ==
    /\ At("begin") /\ proc.op \in {"rollforward", "rebase"}
    /\ lifecycle' = proc.plan /\ Go("acknowledge")
    /\ UNCHANGED <<account, registry, files, lineage, state, policy, failures>>

AcknowledgeLifecycle ==
    /\ At("acknowledge") /\ proc.op \in {"rollforward", "rebase"}
    /\ LET t == lifecycle
           kind == IF t.op = "rebase" THEN "advance" ELSE "continuity"
       IN  IF Accepts(kind, t.nonce, t.request) /\ registry.epoch \in {t.from, t.epoch}
           THEN /\ registry' = Acknowledged(kind, t.nonce, t.request, t.epoch)
                /\ Go("bind")
           ELSE UNCHANGED registry /\ End
    /\ UNCHANGED <<account, files, lineage, states, failures>>

\* bind_for_lifecycle.
BindLifecycle ==
    /\ At("bind") /\ proc.op \in {"rollforward", "rebase"}
    /\ LET t == lifecycle
           target == Rebound(Evidence, t.day, t.epoch, t.nonce)
           next == IF t.op = "rollforward" THEN "receipt" ELSE "policy"
       IN  IF SameBinding(Evidence, target) THEN Go(next)
           ELSE IF Last.nonce = t.nonce /\ t.day >= Evidence.day /\ Evidence.epoch = t.from
                THEN proc' = Replacing(proc, "evidence", target, next)
                ELSE End
    /\ UNCHANGED <<account, registry, files, lineage, states, failures>>

\* Stress90OperatorContinuityStore.save: a receipt starts where the one before it ended,
\* or after a rebase.
Follows(r) ==
    \/ /\ r.from = Receipt.day /\ r.evidence = Receipt.evidence
       /\ r.revision = Receipt.revision /\ r.epoch = Receipt.epoch
    \/ /\ r.epoch # Receipt.epoch /\ r.from >= Receipt.day
       /\ r.evidence > Receipt.evidence /\ r.revision # Receipt.revision
       /\ r.state > Receipt.request.state /\ r.policy > Receipt.request.policy

NewReceipt(t) ==
    [seq |-> Receipt.seq + 1, nonce |-> t.nonce, day |-> t.day, epoch |-> t.epoch,
     request |-> t.request, revision |-> Revision, evidence |-> Evidence.seq]

SaveReceipt ==
    /\ At("receipt")
    /\ LET r == NewReceipt(lifecycle)
       IN  CASE ~ReceiptsReadable -> End
             [] ReceiptsReadable /\ HasReceipt(lifecycle.nonce) ->
                  IF Receipt = [r EXCEPT !.seq = Receipt.seq] THEN Go("policy") ELSE End
             [] OTHER ->
                  IF Follows(r.request) THEN proc' = Replacing(proc, "receipts", r, "policy")
                  ELSE End
    /\ UNCHANGED <<account, registry, files, lineage, states, failures>>

\* apply_stress90_lifecycle_transaction: the policy state, the generic state, the commit.
SavePolicy ==
    /\ At("policy")
    /\ IF policy.seq = lifecycle.policy
       THEN policy' = [policy EXCEPT !.seq = @ + 1, !.epoch = lifecycle.epoch] /\ Go("generic")
       ELSE /\ UNCHANGED policy
            /\ IF policy.seq = lifecycle.policy + 1 THEN Go("generic") ELSE End
    /\ UNCHANGED <<account, registry, files, lineage, state, lifecycle, failures>>

SaveGeneric ==
    /\ At("generic")
    /\ IF state.seq = lifecycle.state
       THEN Save([state EXCEPT !.day = lifecycle.day, !.marker = lifecycle.marker]) /\ Go("consume")
       ELSE /\ UNCHANGED state
            /\ IF state.seq = lifecycle.state + 1 THEN Go("consume") ELSE End
    /\ UNCHANGED <<account, registry, files, lineage, policy, lifecycle, failures>>

\* Mutant: the coordinator commits without telling the recovery store.
SkipsReceipt ==
    /\ At("consume") /\ Go("finish")
    /\ UNCHANGED <<account, registry, files, lineage, states, failures>>

\* precommit_with_recovery_consumption: a consumed marker is receipted for this nonce.
Consume ==
    /\ At("consume")
    /\ IF state.marker = NoMarker THEN Go("finish")
       ELSE IF state.marker.by = NoNonce THEN Go("finish")
       ELSE IF ~Consumable(lifecycle.nonce) THEN End
       ELSE IF Recovery.by = lifecycle.nonce THEN Go("finish")
       ELSE proc' = Replacing(proc, "recovery",
                      RecoveryRecord("committed", Recovery.plan, lifecycle.nonce), "finish")
    /\ UNCHANGED <<account, registry, files, lineage, states, failures>>

CommitLifecycle ==
    /\ At("finish") /\ End
    /\ lifecycle' = [lifecycle EXCEPT !.status = "committed"]
    /\ UNCHANGED <<account, registry, files, lineage, state, policy, failures>>

-----------------------------------------------------------------------------
\* A command dies before its next write; the first recovery record may be half written.
Crash(torn) ==
    /\ proc # NoProc /\ ~At("trading") /\ failures < MaxFailures
    /\ failures' = failures + 1 /\ End
    /\ torn => At("create")
    /\ files' = IF torn THEN [files EXCEPT !.recovery.current = Torn] ELSE files
    /\ UNCHANGED <<account, registry, lineage, states>>

FirstRequest ==
    [state |-> 1, policy |-> 1, evidence |-> 1, revision |-> 1, from |-> 0, day |-> 1,
     session |-> {}, epoch |-> Activation]

\* The morning of day 1: the account was activated, rolled forward into day 1, and the
\* day's decision is prepared.
Init ==
    /\ day = 1 /\ trades = <<>> /\ working = FALSE
    /\ registry =
         [log |-> <<[kind |-> "activation", nonce |-> Activation, request |-> NoRequest],
                    [kind |-> "continuity", nonce |-> First, request |-> FirstRequest]>>,
          epoch |-> Activation, others |-> 0]
    /\ LET bound(s, n) == [seq |-> s, day |-> s - 1, epoch |-> Activation, revision |-> s,
                           registry |-> s, rebind |-> n]
       IN  files =
             [evidence |-> [current |-> bound(2, First), previous |-> bound(1, Activation)],
              recovery |-> [current |-> NoFile, previous |-> NoFile],
              receipts |-> [current |-> [seq |-> 1, nonce |-> First, day |-> 1,
                                         epoch |-> Activation, request |-> FirstRequest,
                                         revision |-> 2, evidence |-> 2],
                            previous |-> NoFile]]
    /\ lineage = FALSE
    /\ state = [seq |-> 2, mode |-> "HALTED", day |-> 1, known |-> {}, marker |-> NoMarker]
    /\ policy = [seq |-> 3, epoch |-> Activation, target |-> 1]
    /\ lifecycle = [op |-> "rollforward", nonce |-> First, status |-> "committed",
                    source |-> 0, day |-> 1, from |-> Activation, epoch |-> Activation,
                    state |-> 1, policy |-> 1, marker |-> NoMarker, request |-> FirstRequest]
    /\ proc = NoProc /\ failures = 0

Live == StartLive \/ Restart \/ Send \/ Fill \/ Done \/ SaveFills \/ EmergencyStop \/ Exit
Environment == NextDay \/ OtherAccount \/ \E torn \in BOOLEAN : Crash(torn)
Decide == Doctor \/ StartPrepareDecision \/ PrepareDecision
Recover ==
    \/ \E n \in Nonces : StartRecover(n)
    \/ AcknowledgeRecovery \/ BindRecovery \/ BeginRecovery \/ CreateRecovery
    \/ ApplyRecovery \/ CommitRecovery
Lifecycle ==
    \/ \E n \in Nonces : StartRollForward(n) \/ StartRebase(n)
    \/ BeginLifecycle \/ AcknowledgeLifecycle \/ BindLifecycle \/ SaveReceipt
    \/ SavePolicy \/ SaveGeneric \/ Consume \/ CommitLifecycle
Next == Live \/ Environment \/ Decide \/ KeepPrevious \/ ReplaceCurrent \/ Recover \/ Lifecycle

Spec == Init /\ [][Next]_vars

-----------------------------------------------------------------------------
\* The first record is created after its lineage marker, in place (_create_initial).
FirstWriteCut ==
    /\ lineage /\ files.recovery.previous = NoFile
    /\ Recovery \in {NoFile, Torn}

\* A crash between two writes of the recovery store never leaves a generation that no
\* command can read, but for the first record (_load_unlocked, _save_unlocked); and a
\* marker in the generic state names the recovery in the store, or an older one that a
\* recovery not yet applied has replaced there; who consumed it is in both, or in the
\* state of the lifecycle transaction that is about to tell the store
\* (require_committed_stress90_crash_fill_recovery, mark_consumed).
MarkerIsProven ==
    /\ RecoveryReadable \/ FirstWriteCut
    /\ LET marker == state.marker
       IN  marker # NoMarker =>
             /\ HasRecovery
             /\ \/ Recovery.plan.nonce = marker.txn
                \/ (Recovery.status = "prepared" /\ AtSource(Recovery.plan))
             /\ \/ marker.by = NoNonce
                \/ Recovery.by = marker.by
                \/ Recovery.status = "prepared"
                \/ (Prepared /\ marker.by = lifecycle.nonce)

\* No other command and no crash disturbs a prepared lifecycle transaction: its effects
\* are made in one order, registry, evidence, policy state, generic state, and nothing
\* moves a file past the transaction's target before it is committed.
PreparedIsUndisturbed ==
    Prepared =>
      LET t == lifecycle
          acknowledged == Last.nonce = t.nonce
          bound == Evidence.rebind = t.nonce /\ Evidence.epoch = t.epoch /\ Evidence.day = t.day
      IN  /\ policy.seq \in {t.policy, t.policy + 1} /\ state.seq \in {t.state, t.state + 1}
          /\ IF acknowledged THEN registry.epoch = t.epoch
             ELSE registry.epoch = t.from /\ ~IsUsed(t.nonce)
          /\ bound => acknowledged
          /\ policy.seq > t.policy => bound
          /\ state.seq > t.state => policy.seq > t.policy

\* The operations the evidence has missed are at most one recovery and, after it, the
\* prepared transaction's: each has a command that can still bind it.
EvidenceCanCatchUp ==
    LET missed == Evidence.revision + 1..Revision
        mine == {i \in missed : Prepared /\ registry.log[i].nonce = lifecycle.nonce}
    IN  /\ Evidence.revision <= Revision /\ mine \subseteq {Revision}
        /\ Cardinality(missed \ mine) <= 1
        /\ \A i \in missed \ mine : registry.log[i].kind = "recovery"

\* A recovery whose nonce the registry has can be retried with the same request on the
\* same day, whatever the crash interrupted, as long as nothing was traded or observed
\* since, no other recovery is prepared, and the first record was written whole.
Interrupted(n) ==
    /\ proc = NoProc /\ state.mode = "HALTED" /\ ~Prepared /\ Quiet
    /\ Last.kind = "recovery" /\ Last.nonce = n
    /\ Last.request.session = Session /\ Evidence.day = day
    /\ state.seq = Last.request.state
    /\ RecoveryReadable
    /\ Evidence.rebind = n => files.evidence.previous.seq = Last.request.evidence
    /\ HasRecovery => Recovery.status = "committed" \/ Recovery.plan.nonce = n
ExactRetryConverges ==
    \A n \in Nonces :
      Interrupted(n) =>
        /\ CanRecover(n)
        /\ (HasRecovery /\ Recovery.plan.nonce = n) \/ RecoveryRequest(n) = Last.request
=============================================================================
