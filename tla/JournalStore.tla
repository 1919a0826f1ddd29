---------------------------- MODULE JournalStore ----------------------------
(***************************************************************************)
(* The order submission journal as files (broker/ctp_order_journal.py): one *)
(* file with the current generation and its parent, a previous file, write-  *)
(* once archive segments and runtime indexes, and sealed epochs listed in a  *)
(* manifest that is itself a current and a previous file.  A process that    *)
(* holds the runtime lease works on them; each file system operation is a    *)
(* step of its own and the process may die before any of them.               *)
(*                                                                           *)
(* The lock files make a transaction exclusive, so one `op` is enough.  The  *)
(* fill identities of two orders differ (they are the exchange's trades), so *)
(* an entry keeps the lots of its own order that were filled.  A segment     *)
(* stands for all segments one save appends.                                 *)
(***************************************************************************)
EXTENDS Naturals, Sequences, FiniteSets

CONSTANTS Orders, Accounts, Home, Lots, Transactions, NoEntry, NoFile, NoOp, NoIntent,
          MaxDay,         \* bound: trading days
          MaxHot,         \* _MAX_ENTRIES
          RecentDays,     \* _RUNTIME_RECENT_DAYS
          MaxRecent,      \* _RUNTIME_RECENT_MAX_ENTRIES
          MaxIdentities,  \* _ORDER_ID_BLOOM_MAX_ITEMS
          MaxSaves,       \* bound: generations written
          MaxFailures     \* bound: dying processes and failing file operations

VARIABLES day,
          current, previous,    \* NoFile or [gen, parent]; parent NoFile in the first
          files,                \* write-once files: path -> [content, whole]
          directories,          \* epoch directories, by transaction
          manifest, manifestPrevious,
          proc,                 \* who has the lease: "none", "runtime", "seal"
          op,                   \* the transaction under way, with its writes to do
          intent,               \* the epoch change the operator is about
          saves, failures       \* counted for the bounds

store == <<current, previous, files, directories, manifest, manifestPrevious>>
vars == <<day, store, proc, op, intent, saves, failures>>

Final == {"terminal", "aborted_before_send"}
Successors ==
    [prepared |-> {"prepared", "submitted", "terminal", "aborted_before_send"},
     submitted |-> {"submitted", "terminal"},
     terminal |-> {"terminal"},
     aborted_before_send |-> {"aborted_before_send"}]
Entry == [day : Nat, status : DOMAIN Successors, fills : SUBSET Lots]

\* What the files hold, and what a transaction and an operator keep in memory.
Maps == [Orders -> Entry \cup {NoEntry}]
Generations == [sequence : Nat, hot : Maps, chain : Seq(Maps), recent : Maps]
Envelopes == [gen : Generations, parent : Generations \cup {NoFile}]
Epochs == [transaction : Transactions, source : Accounts, target : Accounts, day : Nat,
           entries : Maps]
Manifests == [sequence : Nat, account : Accounts, sealed : Seq(Epochs),
              pending : BOOLEAN]
Writes == {"segment", "segment rest", "index", "index rest", "previous", "current",
           "directory", "copy", "copy rest", "seal", "seal rest",
           "manifest previous", "manifest", "unlink current", "unlink segments",
           "unlink previous", "unlink indexes", "ready previous", "ready", "end"}
Operations == [next : Envelopes \cup {NoFile}, epoch : Epochs \cup {NoFile},
               at : Writes]
Intents == [kind : {"rollover", "switch"}, transaction : Transactions,
            source : Accounts, target : Accounts]

\* An absent value is none of these; the fields of an identity are bounded, so there are
\* finitely many.
ASSUME JournalStoreAssumption ==
    /\ Home \in Accounts /\ IsFiniteSet(Orders)
    /\ NoEntry \notin Entry /\ NoFile \notin Generations \cup Envelopes \cup Manifests
    /\ NoOp \notin Operations /\ NoIntent \notin Intents
    /\ {MaxDay, MaxHot, RecentDays, MaxRecent, MaxIdentities, MaxSaves, MaxFailures}
         \subseteq Nat

-----------------------------------------------------------------------------
\* Maps from identities to entries.

Empty == [id \in Orders |-> NoEntry]
Ids(map) == {id \in Orders : map[id] # NoEntry}
FinalIds(map) == {id \in Ids(map) : map[id].status \in Final}
Only(map, ids) == [id \in Orders |-> IF id \in ids THEN map[id] ELSE NoEntry]
Over(new, old) == [id \in Orders |-> IF new[id] # NoEntry THEN new[id] ELSE old[id]]

\* The archive is a chain of segments; a segment's name is the digest of the chain up
\* to it.  Here the chain is the sequence of what the archive holds after each segment.
Archived(gen) == IF gen.chain = <<>> THEN Empty ELSE gen.chain[Len(gen.chain)]
AllEntries(gen) == Over(gen.hot, Archived(gen))
RuntimeEntries(gen) == Over(gen.hot, gen.recent)

NoGeneration == [sequence |-> 0, hot |-> Empty, chain |-> <<>>, recent |-> Empty]
Loaded == IF current = NoFile THEN NoGeneration ELSE current.gen

-----------------------------------------------------------------------------
\* Reading.

Whole(path) == path \in DOMAIN files /\ files[path].whole
SegmentPath(chain) == <<"segment", chain>>
IndexPath(gen) == <<"index", gen.chain, gen.recent>>

Revises(old, new) ==
    /\ new.day = old.day /\ new.status \in Successors[old.status]
    /\ old.fills \subseteq new.fills

\* _validate_generation_transition and its runtime form: nothing is lost but final
\* entries to the archive, at most one entry is new, and that one is "prepared".
Follows(old, new) ==
    LET before == AllEntries(old)
        after == AllEntries(new)
        fresh == Ids(after) \ Ids(before)
    IN  /\ new.sequence = old.sequence + 1
        /\ \A id \in Ids(before) : id \in Ids(after) /\ Revises(before[id], after[id])
        /\ Cardinality(fresh) <= 1
        /\ \A id \in fresh : new.hot[id] # NoEntry /\ new.hot[id].status = "prepared"

\* _validate_snapshot and its runtime form.
SnapshotValid(gen) ==
    /\ Cardinality(Ids(gen.hot)) <= MaxHot
    /\ Ids(gen.hot) \cap Ids(Archived(gen)) = {}
    /\ Cardinality(Ids(AllEntries(gen))) <= MaxIdentities
    /\ FinalIds(Archived(gen)) = Ids(Archived(gen))
    /\ Cardinality(Ids(gen.recent)) <= MaxRecent
    /\ \A id \in Ids(gen.recent) : gen.recent[id] = Archived(gen)[id]

GenerationReadable(gen) ==
    /\ SnapshotValid(gen)
    /\ gen.chain # <<>> =>
         /\ \A n \in DOMAIN gen.chain : Whole(SegmentPath(SubSeq(gen.chain, 1, n)))
         /\ Whole(IndexPath(gen))

EnvelopeReadable(env) ==
    /\ GenerationReadable(env.gen)
    /\ env.parent # NoFile =>
         GenerationReadable(env.parent) /\ Follows(env.parent, env.gen)

\* _load_state_unlocked: the previous file holds the current one's parent, or the same
\* as the current one when the process died between the two replacements.
StateReadable ==
    IF current = NoFile
    THEN previous = NoFile /\ ~\E path \in DOMAIN files : path[1] \in {"segment", "index"}
    ELSE /\ EnvelopeReadable(current)
         /\ IF previous = NoFile
            THEN current.gen.sequence = 1
            ELSE /\ EnvelopeReadable(previous)
                 /\ previous = current \/ current.parent = previous.gen

Sealed == IF manifest = NoFile THEN <<>> ELSE manifest.sealed
Pending == manifest # NoFile /\ manifest.pending
EpochAccount == IF manifest = NoFile THEN Home ELSE manifest.account
SealedBy(txn) == \E n \in DOMAIN Sealed : Sealed[n].transaction = txn

\* _load_epoch_manifest_unlocked; `allowed` are transactions whose directory may exist
\* without being listed.
ManifestReadable(allowed) ==
    /\ IF manifest = NoFile
       THEN manifestPrevious = NoFile
       ELSE IF manifestPrevious = NoFile
            THEN manifest.sequence = 1
            ELSE \/ manifestPrevious = manifest
                 \/ /\ manifest.sequence = manifestPrevious.sequence + 1
                    /\ Len(manifestPrevious.sealed) <= Len(Sealed)
                    /\ SubSeq(Sealed, 1, Len(manifestPrevious.sealed))
                         = manifestPrevious.sealed
    /\ {Sealed[n].transaction : n \in DOMAIN Sealed} \subseteq directories
    /\ directories \ {Sealed[n].transaction : n \in DOMAIN Sealed} \subseteq allowed

\* Mutant: an unlisted epoch directory and an unfinished clean-up are not noticed.
ReadyAnyway == ManifestReadable(directories) /\ StateReadable

\* load_runtime, load and audit_epochs need all of this.
Ready == ManifestReadable({}) /\ ~Pending /\ StateReadable

\* A sealed epoch's directory has the copies and the seal that its record names.
EpochWhole(epoch) ==
    /\ Whole(<<"copy", epoch.transaction>>) /\ Whole(<<"seal", epoch.transaction>>)
    /\ files[<<"seal", epoch.transaction>>].content = epoch
    /\ LET source == files[<<"copy", epoch.transaction>>].content.current
       IN  epoch.entries = (IF source = NoFile THEN Empty ELSE AllEntries(source.gen))

-----------------------------------------------------------------------------
\* Starting a transaction: everything is read and decided, nothing is written yet.

\* _bounded_recent_archive: the latest days of what is archived, and this save's own.
Recent(gen, versions) ==
    LET all == Over(versions, gen.recent)
        days == {all[id].day : id \in Ids(all)}
        recentDays == {d \in days : Cardinality({e \in days : e > d}) < RecentDays}
    IN  Only(all, {id \in Ids(all) : all[id].day \in recentDays} \cup Ids(versions))

\* Mutant: the archive is rebuilt from the hot part only.
NextGenerationForgetting(gen, hot, versions) ==
    [sequence |-> gen.sequence + 1, hot |-> hot,
     chain |-> IF Ids(versions) = {} THEN gen.chain ELSE Append(gen.chain, versions),
     recent |-> IF Ids(versions) = {} THEN gen.recent ELSE Recent(gen, versions)]

\* The generation a save writes: entries it archives, what stays hot.
NextGeneration(gen, hot, versions) ==
    [sequence |-> gen.sequence + 1, hot |-> hot,
     chain |-> IF Ids(versions) = {} THEN gen.chain
               ELSE Append(gen.chain, Over(versions, Archived(gen))),
     recent |-> IF Ids(versions) = {} THEN gen.recent ELSE Recent(gen, versions)]

\* _save_locked writes segment and index, if there is something to archive, then the
\* old file over the previous one, then the new one.
FirstWrite(versions) ==
    IF Ids(versions) # {} THEN "segment" ELSE IF current # NoFile THEN "previous"
    ELSE "current"

Save(hot, versions) ==
    /\ saves < MaxSaves /\ saves' = saves + 1
    /\ Cardinality(Ids(Recent(Loaded, versions))) <= MaxRecent
    /\ op' = [next |-> [gen |-> NextGeneration(Loaded, hot, versions),
                        parent |-> IF current = NoFile THEN NoFile ELSE Loaded],
              epoch |-> NoFile, at |-> FirstWrite(versions)]
    /\ UNCHANGED <<day, store, proc, intent, failures>>

CanTransact == proc = "runtime" /\ op = NoOp

\* prepare: a full hot part is compacted in the same save.
Prepare(id) ==
    LET full == Cardinality(Ids(Loaded.hot)) >= MaxHot
        archive == IF full THEN FinalIds(Loaded.hot) ELSE {}
        kept == Only(Loaded.hot, Ids(Loaded.hot) \ archive)
        new == [day |-> day, status |-> "prepared", fills |-> {}]
    IN  /\ CanTransact /\ Ready
        /\ Cardinality(Ids(AllEntries(Loaded))) + 1 <= MaxIdentities
        /\ Cardinality(Ids(kept)) < MaxHot
        /\ id \notin Ids(AllEntries(Loaded))
        /\ ~\E n \in DOMAIN Sealed :
              Sealed[n].source = EpochAccount /\ id \in Ids(Sealed[n].entries)
        /\ Save([kept EXCEPT ![id] = new], Only(Loaded.hot, archive))

\* apply_updates: statuses and fills of a batch of orders.  An archived entry that is
\* still recent gets a new version in the archive.
Update(statuses, fills) ==
    LET touched == DOMAIN statuses
        known == RuntimeEntries(Loaded)
        revised == [id \in Orders |->
                      IF id \in touched
                      THEN [known[id] EXCEPT !.status = statuses[id],
                                             !.fills = @ \cup fills[id]]
                      ELSE known[id]]
        hot == Only(revised, Ids(Loaded.hot))
        full == Cardinality(Ids(hot)) >= MaxHot
        archive == (IF full THEN FinalIds(hot) ELSE {})
                     \cup {id \in touched : id \notin Ids(hot) /\ revised[id] # known[id]}
    IN  /\ touched \subseteq Ids(known)
        /\ \A id \in touched :
             /\ statuses[id] \in Successors[known[id].status]
             /\ fills[id] \cap known[id].fills = {}
             /\ statuses[id] = "aborted_before_send" => revised[id].fills = {}
        /\ revised # known \/ archive # {}
        /\ Save(Only(hot, Ids(hot) \ archive), Only(revised, archive))

UpdateSome ==
    /\ CanTransact /\ Ready
    /\ \E ids \in SUBSET Ids(RuntimeEntries(Loaded)) \ {{}} :
         \E statuses \in [ids -> DOMAIN Successors], fills \in [ids -> SUBSET Lots] :
            Update(statuses, fills)

\* compact_terminal, after every completed batch; it does not look at the manifest.
CompactTerminal ==
    /\ CanTransact /\ StateReadable
    /\ FinalIds(Loaded.hot) # {}
    /\ Save(Only(Loaded.hot, Ids(Loaded.hot) \ FinalIds(Loaded.hot)),
            Only(Loaded.hot, FinalIds(Loaded.hot)))

-----------------------------------------------------------------------------
\* Epochs.

\* The operator decides for a rollover, or for a change to another account, which the
\* lifecycle transaction records before the seal and only on an audited journal.
Decide(kind, txn, target) ==
    /\ intent = NoIntent /\ proc = "none" /\ op = NoOp
    /\ txn \notin directories /\ ~SealedBy(txn)
    /\ (kind = "rollover") <=> (target = EpochAccount)
    /\ kind = "switch" => Ready
    /\ intent' = [kind |-> kind, transaction |-> txn, source |-> EpochAccount,
                  target |-> target]
    /\ UNCHANGED <<day, store, proc, op, saves, failures>>

\* What the commands demand before they call seal_epoch.  The rollover configures its
\* broker with the journal and compares the days of its entries; a switch that is
\* resumed goes straight to seal_epoch.
CommandGate ==
    intent.kind = "rollover" =>
        Ready /\ \A id \in Ids(AllEntries(Loaded)) : AllEntries(Loaded)[id].day < day

\* seal_epoch for an epoch not sealed before.
SealEpoch ==
    LET epoch == [transaction |-> intent.transaction, source |-> intent.source,
                  target |-> intent.target, day |-> day, entries |-> AllEntries(Loaded)]
    IN  /\ intent # NoIntent /\ proc = "none" /\ op = NoOp
        /\ CommandGate
        /\ ManifestReadable({intent.transaction}) /\ ~Pending
        /\ ~SealedBy(intent.transaction)
        /\ EpochAccount = intent.source
        /\ StateReadable
        /\ \A n \in DOMAIN Sealed : EpochWhole(Sealed[n])
        /\ FinalIds(AllEntries(Loaded)) = Ids(AllEntries(Loaded))
        /\ proc' = "seal"
        /\ op' = [next |-> NoFile, epoch |-> epoch, at |-> "directory"]
        /\ UNCHANGED <<day, store, intent, saves, failures>>

\* seal_epoch for an epoch already in the manifest: the same call again, on the same
\* day, finishes the clean-up.
ResumeSeal ==
    /\ intent # NoIntent /\ proc = "none" /\ op = NoOp
    /\ CommandGate
    /\ ManifestReadable({intent.transaction})
    /\ SealedBy(intent.transaction)
    /\ \E epoch \in {Sealed[Len(Sealed)]} :
         /\ epoch.transaction = intent.transaction
         /\ epoch.source = intent.source /\ epoch.target = intent.target
         /\ epoch.day = day
    /\ \A n \in DOMAIN Sealed : EpochWhole(Sealed[n])
    /\ proc' = "seal"
    /\ op' = [next |-> NoFile, epoch |-> Sealed[Len(Sealed)],
              at |-> IF Pending THEN "unlink current" ELSE "end"]
    /\ UNCHANGED <<day, store, intent, saves, failures>>

-----------------------------------------------------------------------------
\* The writes, each with the one after it.

Doing(write) == op # NoOp /\ op.at = write
Then(write) == op' = [op EXCEPT !.at = write]

\* The write-once files of this transaction: where they are and what they say.
Path(kind) ==
    CASE kind = "segment" -> SegmentPath(op.next.gen.chain)
      [] kind = "index" -> IndexPath(op.next.gen)
      [] kind = "copy" -> <<"copy", op.epoch.transaction>>
      [] kind = "seal" -> <<"seal", op.epoch.transaction>>
Content(kind) ==
    CASE kind = "copy" -> [current |-> current, previous |-> previous]
      [] kind = "seal" -> op.epoch
      [] OTHER -> Path(kind)

Put(path, content, whole) ==
    files' = [p \in DOMAIN files \cup {path} |->
                IF p = path THEN [content |-> content, whole |-> whole] ELSE files[p]]

Rest == [segment |-> "segment rest", index |-> "index rest", copy |-> "copy rest",
         seal |-> "seal rest"]
AfterFile == [segment |-> "index", index |-> "previous", copy |-> "seal",
              seal |-> "manifest previous"]

Without(kind) == [p \in {q \in DOMAIN files : q[1] # kind} |-> files[p]]

\* _write_immutable: an existing file must be what would be written.
CreateImmutable(kind) ==
    /\ Doing(kind)
    /\ \/ /\ Path(kind) \notin DOMAIN files
          /\ Put(Path(kind), Content(kind), FALSE) /\ Then(Rest[kind])
       \/ /\ Whole(Path(kind)) /\ files[Path(kind)].content = Content(kind)
          /\ Then(AfterFile[kind]) /\ UNCHANGED files
    /\ UNCHANGED <<day, current, previous, directories, manifest, manifestPrevious,
                   proc, intent, saves, failures>>

FinishImmutable(kind) ==
    /\ Doing(Rest[kind])
    /\ Put(Path(kind), Content(kind), TRUE) /\ Then(AfterFile[kind])
    /\ UNCHANGED <<day, current, previous, directories, manifest, manifestPrevious,
                   proc, intent, saves, failures>>

\* _save_locked replaces the previous file and then the current one.
ReplacePrevious ==
    /\ Doing("previous") /\ previous' = current /\ Then("current")
    /\ UNCHANGED <<day, current, files, directories, manifest, manifestPrevious, proc,
                   intent, saves, failures>>

ReplaceCurrent ==
    /\ Doing("current") /\ current' = op.next /\ op' = NoOp
    /\ UNCHANGED <<day, previous, files, directories, manifest, manifestPrevious, proc,
                   intent, saves, failures>>

MakeDirectory ==
    /\ Doing("directory") /\ Then("copy")
    /\ directories' = directories \cup {op.epoch.transaction}
    /\ UNCHANGED <<day, current, previous, files, manifest, manifestPrevious, proc, intent, saves, failures>>

\* _save_epoch_manifest_locked; there is no previous file before the first manifest.
ReplaceManifestPrevious ==
    /\ \/ Doing("manifest previous") /\ Then("manifest")
       \/ Doing("ready previous") /\ Then("ready")
    /\ manifestPrevious' = manifest
    /\ UNCHANGED <<day, current, previous, files, directories, manifest, proc, intent, saves, failures>>

\* First the epoch is listed, with its clean-up pending, and then the clean-up is done.
ReplaceManifest ==
    /\ \/ /\ Doing("manifest") /\ Then("unlink current")
          /\ manifest' = [sequence |-> IF manifest = NoFile THEN 1 ELSE manifest.sequence + 1,
                          account |-> op.epoch.target,
                          sealed |-> Append(Sealed, op.epoch),
                          pending |-> TRUE]
       \/ /\ Doing("ready") /\ Then("end")
          /\ manifest' = [manifest EXCEPT !.sequence = @ + 1, !.pending = FALSE]
    /\ UNCHANGED <<day, current, previous, files, directories, manifestPrevious, proc,
                   intent, saves, failures>>

\* _cleanup_sealed_epoch_sources, in the order of the files' names.
Unlink ==
    /\ \/ /\ Doing("unlink current") /\ Then("unlink segments")
          /\ current' = NoFile /\ UNCHANGED <<previous, files>>
       \/ /\ Doing("unlink segments") /\ Then("unlink previous")
          /\ files' = Without("segment") /\ UNCHANGED <<current, previous>>
       \/ /\ Doing("unlink previous") /\ Then("unlink indexes")
          /\ previous' = NoFile /\ UNCHANGED <<current, files>>
       \/ /\ Doing("unlink indexes") /\ Then("ready previous")
          /\ files' = Without("index") /\ UNCHANGED <<current, previous>>
    /\ UNCHANGED <<day, directories, manifest, manifestPrevious, proc, intent, saves,
                   failures>>

\* The command ends; its operation id is not used again.
EndSeal ==
    /\ Doing("end")
    /\ current = NoFile
    /\ proc' = "none" /\ op' = NoOp /\ intent' = NoIntent
    /\ UNCHANGED <<day, store, saves, failures>>

\* A process dies, or an operation of the file system fails: what is written stays.
Interrupt ==
    /\ proc # "none" /\ failures < MaxFailures
    /\ proc' = "none" /\ op' = NoOp /\ failures' = failures + 1
    /\ UNCHANGED <<day, store, intent, saves>>

\* The live process loads the journal when it starts (configure_order_submission_journal).
OpenRuntime ==
    /\ proc = "none" /\ Ready
    /\ proc' = "runtime"
    /\ UNCHANGED <<day, store, op, intent, saves, failures>>

\* It stops between two transactions.
CloseRuntime ==
    /\ proc = "runtime" /\ op = NoOp
    /\ proc' = "none"
    /\ UNCHANGED <<day, store, op, intent, saves, failures>>

\* A transaction reads the day once, at its start.
NextDay ==
    /\ day < MaxDay /\ op = NoOp /\ day' = day + 1
    /\ UNCHANGED <<store, proc, op, intent, saves, failures>>

-----------------------------------------------------------------------------
Init ==
    /\ day = 1 /\ current = NoFile /\ previous = NoFile /\ files = <<>>
    /\ directories = {} /\ manifest = NoFile /\ manifestPrevious = NoFile
    /\ proc = "none" /\ op = NoOp /\ intent = NoIntent /\ saves = 0 /\ failures = 0

Write ==
    \/ \E kind \in {"segment", "index", "copy", "seal"} :
          CreateImmutable(kind) \/ FinishImmutable(kind)
    \/ ReplacePrevious \/ ReplaceCurrent \/ MakeDirectory
    \/ ReplaceManifestPrevious \/ ReplaceManifest \/ Unlink

Next ==
    \/ OpenRuntime \/ CloseRuntime \/ NextDay \/ Interrupt
    \/ \E id \in Orders : Prepare(id)
    \/ UpdateSome
    \/ CompactTerminal
    \/ \E kind \in {"rollover", "switch"}, txn \in Transactions, target \in Accounts :
         Decide(kind, txn, target)
    \/ SealEpoch \/ ResumeSeal \/ EndSeal
    \/ Write

Spec == Init /\ [][Next]_vars

-----------------------------------------------------------------------------
(***************************************************************************)
(* Properties.                                                             *)
(***************************************************************************)

\* What a reader of the files takes the journal to be.
CurrentEntries == IF Pending THEN Empty ELSE AllEntries(Loaded)
SealedEntries ==
    [n \in DOMAIN Sealed |-> [account |-> Sealed[n].source, entries |-> Sealed[n].entries]]

Atomic == INSTANCE AtomicJournal
    WITH entries <- CurrentEntries, epochs <- SealedEntries, account <- EpochAccount

\* The files implement the atomic journal: replacing two files, moving entries to the
\* archive, sealing an epoch in a dozen steps and dying in between is all invisible,
\* each operation takes place at one step (_save_locked, seal_epoch).
IsAtomicJournal == Atomic!Spec

\* Types.
TypeOK ==
    /\ day \in 1..MaxDay
    /\ CurrentEntries \in [Orders -> Entry \cup {NoEntry}]
    /\ directories \subseteq Transactions
    /\ proc \in {"none", "runtime", "seal"}
    /\ op # NoOp => proc # "none"

\* At any moment, were the process to die there, the evidence reads as whole: the
\* journal through its two files and the epochs through their manifest.  Only the
\* transaction of an epoch change may find its own directory unlisted, and only its
\* clean-up may find the journal partly removed (_load_state_unlocked,
\* _load_epoch_manifest_unlocked, _validate_sealed_epoch_unlocked).  While the change is
\* half done no live process works with the journal (_require_epoch_ready,
\* _require_epoch_namespace_unlocked, the runtime lease).
JournalSurvivesCrash ==
    /\ ManifestReadable(IF intent = NoIntent THEN {} ELSE {intent.transaction})
    /\ ~Pending => StateReadable
    /\ \A n \in DOMAIN Sealed : EpochWhole(Sealed[n])
    /\ (Pending \/ \E txn \in directories : ~SealedBy(txn)) => proc # "runtime"
=============================================================================
