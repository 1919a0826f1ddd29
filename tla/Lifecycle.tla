----------------------------- MODULE Lifecycle ------------------------------
(***************************************************************************)
(* The Stress-90 lifecycle of the runtimes of one machine: the commands that *)
(* activate a runtime, move it to another epoch or account and migrate it    *)
(* away (cli.py), the coordinator that makes their writes one transaction    *)
(* (stress90_lifecycle_transaction.py), the evidence and the permit a live   *)
(* process needs (trading_day_evidence.py, stress90_activation_permit.py),   *)
(* and the registry they share.  Any process may die before any write.       *)
(*                                                                           *)
(* All of it is within one trading day, with one account snapshot, one seed  *)
(* and one configured risk overlay; a command that finds the broker not flat *)
(* or not reconciled stops before it writes, like one that is not called.    *)
(***************************************************************************)
EXTENDS AccountRegistry

CONSTANTS NoAccount, NoEpoch, NoNonce,
          MaxBegun,       \* bound: transactions of all runtimes
          MaxRevision,    \* bound: revisions of a generic state
          MaxFailures,    \* bound: dying processes
          MaxTorn         \* bound: torn write-once files

ASSUME LifecycleAssumption ==
    /\ NoAccount \notin Accounts /\ NoNonce \notin Nonces
    /\ {MaxBegun, MaxRevision, MaxFailures, MaxTorn} \subseteq Nat

\* An epoch is derived from a nonce, an account and a revision of the policy state.
Epochs == Nonces \X Accounts \X Nat

\* What the registry consumes and keeps as a binding, and its records.
Requests == [kind : {"bind", "advance", "switch", "acknowledgement"}, nonce : Nonces,
             runtime : Runtimes, source : Accounts, from : {NoEpoch} \cup Epochs,
             account : Accounts, epoch : Epochs]
RegistryRecords == [bindings : [Accounts -> Requests \cup {NoBinding}], log : Seq(Requests)]

\* A transaction, and the coordinator's records of it.
Operations == {"activation", "reactivation", "rebase", "migration"}
Transactions == [op : Operations, nonce : Nonces, account : Accounts, source : Accounts,
                 from : {NoEpoch} \cup Epochs, epoch : Epochs, policy : Nat, generic : Nat]
CoordRecords == [sequence : Nat, status : {"prepared", "committed"}, txn : Transactions]

\* A missing or torn file holds nothing, and no binding is no request.
ASSUME FilesAssumption ==
    /\ {NoFile, NoBinding} \cap Requests = {}
    /\ {NoFile, Torn} \cap Seq(Requests) = {}
    /\ NoFile \notin RegistryRecords \cup CoordRecords

VARIABLES coord,       \* coordinator files: [marker, current, previous]
          policy,      \* policy state: [revision, account, epoch]
          generic,     \* generic state: [revision, mode, identity, account]
          evidence,    \* trading-day evidence: [phase, account, epoch, nonce]
          permit,      \* activation permit: [status, for]
          proc,        \* the process that has the lease of the runtime, or NoProc
          failures, tornFiles    \* counted for the bounds

runtimeFiles == <<coord, policy, generic, evidence, permit>>
vars == <<registry, runtimeFiles, proc, failures, tornFiles>>

NoGeneric == [revision |-> 0, mode |-> "HALTED", identity |-> "none", account |-> NoAccount]
NoPolicyAccount == [revision |-> 1, account |-> NoAccount, epoch |-> NoEpoch]
NoEvidence == [phase |-> "none", account |-> NoAccount, epoch |-> NoEpoch, nonce |-> NoNonce]
NoProc == [role |-> "none", account |-> NoAccount, at |-> "none", txn |-> NoFile, seen |-> NoFile]
NoPermit == [status |-> "none", for |-> NoFile]

-----------------------------------------------------------------------------
\* The coordinator.

\* _load_record: from the second record on the file before it must be in place.
CoordReadable(r) ==
    LET c == coord[r]
    IN  IF c.current = NoFile
        THEN c.previous = NoFile /\ ~c.marker
        ELSE /\ c.marker
             /\ c.current.sequence > 1 =>
                  /\ c.previous # NoFile
                  /\ c.current.sequence = c.previous.sequence + 1
                  /\ IF c.previous.txn = c.current.txn
                     THEN c.previous.status = "prepared" /\ c.current.status = "committed"
                     ELSE c.previous.status = "committed" /\ c.current.status = "prepared"

HasTxn(r) == coord[r].current # NoFile
Txn(r) == coord[r].current.txn
Prepared(r) == HasTxn(r) /\ coord[r].current.status = "prepared"

\* What a transaction does to the registry and to the two states.
Kind(t) ==
    CASE t.op = "activation" -> "bind"
      [] t.op = "migration" -> "acknowledgement"
      [] OTHER -> IF t.source = t.account THEN "advance" ELSE "switch"
RequestOf(r, t) ==
    [kind |-> Kind(t), nonce |-> t.nonce, runtime |-> r, source |-> t.source,
     from |-> t.from, account |-> t.account, epoch |-> t.epoch]

EvidenceOf(t) ==
    [phase |-> "bound", account |-> t.account, epoch |-> t.epoch, nonce |-> t.nonce]
PolicyTarget(t) ==
    [revision |-> t.policy + 1, account |-> t.account, epoch |-> t.epoch]
GenericTarget(t) ==
    [revision |-> t.generic + 1, mode |-> "HALTED", account |-> t.account,
     identity |-> IF t.op = "migration" THEN "migrated" ELSE "stress90"]

\* begin: the epoch is derived from the nonce, the account and the policy source.
NewTxn(r, op, nonce, account) ==
    [op |-> op, nonce |-> nonce, account |-> account,
     source |-> IF policy[r].account = NoAccount THEN account ELSE policy[r].account,
     from |-> policy[r].epoch,
     epoch |-> IF op = "migration" THEN policy[r].epoch
               ELSE <<nonce, account, policy[r].revision>>,
     policy |-> policy[r].revision, generic |-> generic[r].revision]

\* _validate_begin_source_invariants.
SourceAllows(r, t) ==
    CASE t.op = "activation" -> generic[r].identity = "none" /\ policy[r].account = NoAccount
      [] t.op = "reactivation" ->
           /\ generic[r].identity = "migrated"
           /\ generic[r].account = t.account /\ policy[r].account = t.account
      [] OTHER ->
           /\ generic[r].identity = "stress90"
           /\ policy[r].account # NoAccount /\ generic[r].account = policy[r].account
           /\ t.op = "migration" => t.account = policy[r].account

-----------------------------------------------------------------------------
\* The lease and the trading-day evidence.

LeaseFree(r, account) ==
    /\ proc[r] = NoProc
    /\ \A s \in Runtimes : proc[s] # NoProc => proc[s].account # account

Process(role, account, at) ==
    [role |-> role, account |-> account, at |-> at, txn |-> NoFile, seen |-> NoFile]
At(r, step) == proc[r] # NoProc /\ proc[r].at = step
Go(r, step) == proc' = [proc EXCEPT ![r].at = step]
End(r) == proc' = [proc EXCEPT ![r] = NoProc]

\* require_binding_evidence, under the registry's lock.
BoundHere(r, account, epoch) ==
    /\ call = NoCall /\ Readable
    /\ account \in Bound
    /\ Binding(account).runtime = r /\ Binding(account).epoch = epoch

\* The evidence of a bound runtime is what its last lifecycle change left.
Authoritative(r) ==
    /\ BoundHere(r, policy[r].account, policy[r].epoch)
    /\ evidence[r] = [phase |-> "bound", account |-> policy[r].account,
                      epoch |-> policy[r].epoch, nonce |-> Binding(policy[r].account).nonce]

\* _checkpoint_ctp_trading_day: before its activation a runtime notes that nobody owns
\* the account or the runtime; afterwards it looks for its own binding.
Checkpoint(r, account) ==
    IF policy[r].account = NoAccount
    THEN /\ call = NoCall /\ Readable
         /\ account \notin Bound /\ \A a \in Bound : Binding(a).runtime # r
         /\ evidence[r].account \in {NoAccount, account}
         /\ evidence' = [evidence EXCEPT ![r] =
                           [NoEvidence EXCEPT !.phase = "unbound", !.account = account]]
    ELSE /\ policy[r].account = account /\ Authoritative(r)
         /\ UNCHANGED evidence

-----------------------------------------------------------------------------
\* A lifecycle command, from its lease to its first write.

Commands == {"activate", "rebase", "migrate"}

\* stress90-activate decides by the identity it finds, or by its own transaction.
Operation(r, command, nonce) ==
    CASE command = "rebase" -> "rebase"
      [] command = "migrate" -> "migration"
      [] OTHER ->
           IF \/ generic[r].identity = "migrated"
              \/ HasTxn(r) /\ Txn(r).op = "reactivation" /\ Txn(r).nonce = nonce
           THEN "reactivation" ELSE "activation"

\* The transaction in place is the one the operator asks for.
Matches(r, op, nonce, account) ==
    HasTxn(r) /\ Txn(r).op = op /\ Txn(r).nonce = nonce /\ Txn(r).account = account

\* The coordinators number their records; every other one begins a transaction.
Begun == MapThenSumSet(LAMBDA r : IF HasTxn(r) THEN (coord[r].current.sequence + 1) \div 2
                                  ELSE 0, Runtimes)

StartCommand(r, command, nonce, account) ==
    LET op == Operation(r, command, nonce)
        resumed == Matches(r, op, nonce, account)
    IN  /\ LeaseFree(r, account)
        /\ CoordReadable(r)
        /\ Prepared(r) => resumed
        /\ resumed \/ Begun < MaxBegun
        /\ generic[r].mode = "HALTED"
        /\ command = "rebase" => generic[r].identity = "stress90"
        /\ command = "migrate" =>
             /\ policy[r].account = account
             /\ \/ generic[r].identity = "stress90"
                \/ HasTxn(r) /\ Txn(r).op = op /\ Txn(r).nonce = nonce
        /\ IF command = "rebase" \/ Prepared(r)
           THEN UNCHANGED evidence ELSE Checkpoint(r, account)
        /\ proc' = [proc EXCEPT ![r] =
                      [Process("lifecycle", account, "invalidate") EXCEPT
                         !.txn = IF resumed THEN Txn(r) ELSE NewTxn(r, op, nonce, account)]]
        /\ UNCHANGED <<registry, coord, policy, generic, permit, failures, tornFiles>>

InvalidatePermit(r) ==
    /\ At(r, "invalidate")
    /\ permit' = [permit EXCEPT ![r] = IF @ = NoPermit THEN @
                                       ELSE [@ EXCEPT !.status = "invalidated"]]
    /\ Go(r, IF HasTxn(r) /\ Txn(r) = proc[r].txn THEN "registry" ELSE "begin")
    /\ UNCHANGED <<registry, coord, policy, generic, evidence, failures, tornFiles>>

\* begin, with the lineage marker of the first transaction.
Begin(r) ==
    /\ At(r, "begin")
    /\ IF /\ SourceAllows(r, proc[r].txn)
          /\ HasTxn(r) => Txn(r).nonce # proc[r].txn.nonce
       THEN /\ coord' = [coord EXCEPT ![r].marker = TRUE]
            /\ proc' = [proc EXCEPT ![r].at = "prepare", ![r].seen = coord[r].current]
       ELSE UNCHANGED coord /\ End(r)
    /\ UNCHANGED <<registry, policy, generic, evidence, permit, failures, tornFiles>>

\* _save_record: the current file is replaced first, and then the previous one.
SaveTransaction(r) ==
    /\ \/ /\ At(r, "prepare") /\ Go(r, "prepare previous")
          /\ coord' = [coord EXCEPT ![r].current =
                         [sequence |-> IF @ = NoFile THEN 1 ELSE @.sequence + 1,
                          status |-> "prepared", txn |-> proc[r].txn]]
       \/ /\ At(r, "commit")
          /\ proc' = [proc EXCEPT ![r].at = "commit previous", ![r].seen = coord[r].current]
          /\ coord' = [coord EXCEPT ![r].current.sequence = @ + 1,
                                    ![r].current.status = "committed"]
    /\ UNCHANGED <<registry, policy, generic, evidence, permit, failures, tornFiles>>

SaveTransactionPrevious(r) ==
    /\ \/ At(r, "prepare previous") /\ Go(r, "registry")
       \/ At(r, "commit previous") /\ End(r)
    /\ coord' = [coord EXCEPT ![r].previous = proc[r].seen]
    /\ UNCHANGED <<registry, policy, generic, evidence, permit, failures, tornFiles>>

-----------------------------------------------------------------------------
\* The transaction's effects, in the order the command applies them.

CallRegistry(r) ==
    /\ At(r, "registry")
    /\ StartCall(RequestOf(r, proc[r].txn)) /\ Go(r, "calling")
    /\ UNCHANGED <<runtimeFiles, failures, tornFiles>>

ReturnFromRegistry(r) ==
    /\ At(r, "calling") /\ call # NoCall /\ call.request.runtime = r
    /\ \/ call.at = "done" /\ Go(r, "evidence")
       \/ call.at = "refused" /\ End(r)
    /\ call' = NoCall
    /\ UNCHANGED <<current, previous, pending, transitions, receipts, runtimeFiles,
                   failures, tornFiles>>

\* Mutant: evidence that is bound already is not accepted.
EvidenceIsOldSource(r, t) ==
    \/ evidence[r] = NoEvidence
    \/ t.op = "activation" /\ evidence[r].phase = "unbound"
    \/ /\ t.op # "activation" /\ evidence[r].phase = "bound"
       /\ evidence[r].account = t.source /\ evidence[r].epoch = t.from

\* bind_for_lifecycle: from exactly the transaction's source, for its own nonce.
EvidenceIsSource(r, t) ==
    \/ evidence[r] = EvidenceOf(t)
    \/ evidence[r] = NoEvidence
    \/ /\ t.op = "activation"
       /\ evidence[r].phase = "unbound" /\ evidence[r].account = t.account
    \/ /\ t.op # "activation"
       /\ evidence[r].phase = "bound"
       /\ evidence[r].account = t.source /\ evidence[r].epoch = t.from

BindEvidence(r) ==
    /\ At(r, "evidence") /\ call = NoCall
    /\ LET t == proc[r].txn
       IN  IF /\ BoundHere(r, t.account, t.epoch) /\ Binding(t.account).nonce = t.nonce
              /\ EvidenceIsSource(r, t)
           THEN evidence' = [evidence EXCEPT ![r] = EvidenceOf(t)] /\ Go(r, "policy")
           ELSE UNCHANGED evidence /\ End(r)
    /\ UNCHANGED <<registry, coord, policy, generic, permit, failures, tornFiles>>

\* apply_stress90_lifecycle_transaction: each state is at its source, and is written, or
\* at its target already.  A committed transaction only compares.
SavePolicy(r) ==
    /\ At(r, "policy")
    /\ LET t == proc[r].txn
       IN  IF Prepared(r) /\ policy[r].revision = t.policy
           THEN policy' = [policy EXCEPT ![r] = PolicyTarget(t)] /\ Go(r, "generic")
           ELSE /\ UNCHANGED policy
                /\ IF Prepared(r) /\ policy[r] = PolicyTarget(t)
                   THEN Go(r, "generic") ELSE End(r)
    /\ UNCHANGED <<registry, coord, generic, evidence, permit, failures, tornFiles>>

SaveGeneric(r) ==
    /\ At(r, "generic")
    /\ LET t == proc[r].txn
       IN  IF generic[r].revision = t.generic
           THEN generic' = [generic EXCEPT ![r] = GenericTarget(t)] /\ Go(r, "commit")
           ELSE /\ UNCHANGED generic
                /\ IF generic[r] = GenericTarget(t) THEN Go(r, "commit") ELSE End(r)
    /\ UNCHANGED <<registry, coord, policy, evidence, permit, failures, tornFiles>>

-----------------------------------------------------------------------------
\* The doctor and the live process.

\* collect_stress90_activation_evidence: a permit is for exactly these revisions.
ActivationEvidence(r) ==
    [generic |-> generic[r].revision, policy |-> policy[r].revision,
     account |-> policy[r].account, epoch |-> policy[r].epoch, log |-> current.log]

\* build_runtime_engine, the doctor's checks and the identity of the generic state.
Startable(r, account) ==
    /\ LeaseFree(r, account)
    /\ CoordReadable(r) /\ ~Prepared(r)
    /\ generic[r].identity = "stress90" /\ generic[r].account = account
    /\ policy[r].account = account

\* The doctor runs under the lease and writes one file.
IssuePermit(r, account) ==
    /\ Startable(r, account)
    /\ BoundHere(r, account, policy[r].epoch)
    /\ generic[r].mode = "HALTED" /\ generic[r].revision < MaxRevision
    /\ permit[r].status # "issued"
    /\ permit' = [permit EXCEPT ![r] = [status |-> "issued", for |-> ActivationEvidence(r)]]
    /\ UNCHANGED <<registry, coord, policy, generic, evidence, proc, failures, tornFiles>>

\* A halted runtime collects its evidence; one that was running trades again.
StartLive(r, account) ==
    /\ Startable(r, account) /\ Authoritative(r)
    /\ proc' = [proc EXCEPT ![r] =
                  IF generic[r].mode = "RUNNING"
                  THEN Process("live", account, "trading")
                  ELSE [Process("live", account, "permit") EXCEPT !.seen = ActivationEvidence(r)]]
    /\ UNCHANGED <<registry, runtimeFiles, failures, tornFiles>>

\* Mutant: the permit is compared and not consumed.
ComparePermit(r) ==
    /\ At(r, "permit")
    /\ IF permit[r] = [status |-> "issued", for |-> proc[r].seen]
       THEN Go(r, "run") ELSE End(r)
    /\ UNCHANGED <<registry, runtimeFiles, failures, tornFiles>>

\* activate_stress90_from_permit: consume first, then save the running state.
ConsumePermit(r) ==
    /\ At(r, "permit")
    /\ IF permit[r] = [status |-> "issued", for |-> proc[r].seen]
       THEN permit' = [permit EXCEPT ![r].status = "consumed"] /\ Go(r, "run")
       ELSE UNCHANGED permit /\ End(r)
    /\ UNCHANGED <<registry, coord, policy, generic, evidence, failures, tornFiles>>

SaveRunning(r) ==
    /\ At(r, "run") /\ Go(r, "trading")
    /\ generic' = [generic EXCEPT ![r].mode = "RUNNING", ![r].revision = @ + 1]
    /\ UNCHANGED <<registry, coord, policy, evidence, permit, failures, tornFiles>>

EmergencyStop(r) ==
    /\ At(r, "trading") /\ generic[r].mode = "RUNNING"
    /\ generic' = [generic EXCEPT ![r].mode = "HALTED", ![r].revision = @ + 1]
    /\ UNCHANGED <<registry, coord, policy, evidence, permit, proc, failures, tornFiles>>

\* The live process ends or dies.
Exit(r) ==
    /\ At(r, "trading") /\ End(r)
    /\ UNCHANGED <<registry, runtimeFiles, failures, tornFiles>>

-----------------------------------------------------------------------------
\* A command dies, or one of its operations fails; its lease and its lock are free.
Crash(r, torn) ==
    /\ proc[r] # NoProc /\ ~At(r, "trading")
    /\ failures < MaxFailures /\ failures' = failures + 1
    /\ End(r)
    /\ IF At(r, "calling") /\ call # NoCall /\ call.request.runtime = r
       THEN Abandon(torn) ELSE ~torn /\ UNCHANGED registry
    /\ tornFiles' = tornFiles + (IF torn THEN 1 ELSE 0) /\ tornFiles' <= MaxTorn
    /\ UNCHANGED runtimeFiles

RegistryNext ==
    /\ \/ CreateReceipt \/ CreatePending \/ CreateTransition
       \/ ReplacePrevious \/ ReplaceCurrent \/ UnlinkPending
    /\ UNCHANGED <<runtimeFiles, proc, failures, tornFiles>>

Init ==
    /\ RegistryInit
    /\ coord = [r \in Runtimes |-> [marker |-> FALSE, current |-> NoFile, previous |-> NoFile]]
    /\ policy = [r \in Runtimes |-> NoPolicyAccount]
    /\ generic = [r \in Runtimes |-> NoGeneric]
    /\ evidence = [r \in Runtimes |-> NoEvidence]
    /\ permit = [r \in Runtimes |-> NoPermit]
    /\ proc = [r \in Runtimes |-> NoProc]
    /\ failures = 0 /\ tornFiles = 0

Command(r) ==
    \/ \E command \in Commands, nonce \in Nonces, account \in Accounts :
          StartCommand(r, command, nonce, account)
    \/ InvalidatePermit(r) \/ Begin(r) \/ SaveTransaction(r) \/ SaveTransactionPrevious(r)
    \/ CallRegistry(r) \/ ReturnFromRegistry(r)
    \/ BindEvidence(r) \/ SavePolicy(r) \/ SaveGeneric(r)

Live(r) ==
    \/ \E account \in Accounts : IssuePermit(r, account) \/ StartLive(r, account)
    \/ ConsumePermit(r) \/ SaveRunning(r) \/ EmergencyStop(r) \/ Exit(r)

Next ==
    \/ RegistryNext
    \/ \E r \in Runtimes : Command(r) \/ Live(r) \/ \E torn \in BOOLEAN : Crash(r, torn)

Spec == Init /\ [][Next]_vars

-----------------------------------------------------------------------------
\* Type correctness of the files and the processes, and of the registry's call.
TypeOK ==
    /\ current.log \in Seq(Requests)
    /\ \A a \in Bound : Binding(a) \in Range(current.log)
    /\ \A r \in Runtimes :
         /\ generic[r].mode \in {"HALTED", "RUNNING"}
         /\ generic[r].identity \in {"none", "stress90", "migrated"}
         /\ permit[r].status \in {"none", "issued", "consumed", "invalidated"}
         /\ Prepared(r) <=> HasTxn(r) /\ coord[r].current.sequence % 2 = 1
    /\ call # NoCall => At(call.request.runtime, "calling")

\* Who sees the registry change sees whole requests, in spite of its five files.
Registry == INSTANCE AtomicRegistry WITH bindings <- current.bindings, log <- current.log
IsAtomicRegistry == Registry!Spec

Consumed(r) == RequestOf(r, Txn(r)) \in Range(current.log)

\* Wherever a command or a caller of the registry dies: the registry can be read and
\* changed again, unless a write-once file was torn; the files of a runtime under a
\* prepared transaction have changed in one order, registry, evidence, policy state,
\* generic state; and without a transaction under way they and the registry name one
\* account and one epoch, and no file has half of a command (_load_unlocked,
\* _reconcile_nonce_pending_unlocked, _commit_stress90_lifecycle_under_broker_fence).
FilesSurviveCrash ==
    /\ tornFiles = 0 => Readable /\ Reconcilable
    /\ \A r \in Runtimes : Prepared(r) =>
         LET t == Txn(r)
         IN  /\ generic[r] = GenericTarget(t) \/ generic[r].revision = t.generic
             /\ policy[r] = PolicyTarget(t) \/ policy[r].revision = t.policy
             /\ generic[r] = GenericTarget(t) => policy[r] = PolicyTarget(t)
             /\ policy[r] = PolicyTarget(t) => evidence[r] = EvidenceOf(t)
             /\ evidence[r] = EvidenceOf(t) => Consumed(r)
    /\ \A r \in Runtimes : CoordReadable(r) /\ ~Prepared(r) =>
         /\ HasTxn(r) => policy[r] = PolicyTarget(Txn(r)) /\ Consumed(r)
         /\ {a \in Bound : Binding(a).runtime = r} = {policy[r].account} \ {NoAccount}
         /\ generic[r].account = policy[r].account
         /\ policy[r].account # NoAccount =>
              /\ Binding(policy[r].account).epoch = policy[r].epoch
              /\ evidence[r] = EvidenceOf(Txn(r))

\* A running runtime has spent a permit for the policy state and the epoch that own its
\* account now, and no transaction is about to change them
\* (activate_stress90_from_permit, build_runtime_engine).
RunningIsAuthorised ==
    \A r \in Runtimes : generic[r].mode = "RUNNING" =>
      /\ ~Prepared(r)
      /\ permit[r].status = "consumed" /\ permit[r].for.generic < generic[r].revision
      /\ permit[r].for.policy = policy[r].revision
      /\ permit[r].for.account \in Bound
      /\ Binding(permit[r].for.account).runtime = r
      /\ Binding(permit[r].for.account).epoch = permit[r].for.epoch

\* Once its nonce is consumed, a transaction is never refused again: every run of its
\* command ends in the commit, or dies (apply_stress90_lifecycle_transaction is
\* "idempotently roll ... forward").
ConsumedIsNeverRefused ==
    [][\A r \in Runtimes :
          Prepared(r) /\ Consumed(r) /\ proc[r] # NoProc /\ proc'[r] = NoProc
             => failures' > failures \/ tornFiles > 0 \/ ~Prepared(r)']_vars
=============================================================================
