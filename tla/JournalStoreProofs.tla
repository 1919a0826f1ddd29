------------------------- MODULE JournalStoreProofs -------------------------
(***************************************************************************)
(* The journal's files survive the death of a process before any file        *)
(* operation (JournalSurvivesCrash), and they implement the atomic journal   *)
(* (IsAtomicJournal): for any number of orders, accounts, epochs, days,      *)
(* saves and deaths.                                                         *)
(*                                                                           *)
(* What is on disk says too little: that the next replacement keeps the      *)
(* files readable depends on what the transaction has decided and on the     *)
(* writes it has done.  So the invariant (JInv) has a part for each kind of  *)
(* transaction.  A save holds a generation that follows the one on disk      *)
(* (SaveFits) and has made what that generation points to before it is put   *)
(* in the current file (SaveStage).  A seal changes nothing that is read     *)
(* until its epoch is listed with whole copies, and from then on the source  *)
(* is removed in an order in which nobody reads it (SealStage).              *)
(*                                                                           *)
(* The refinement needs one more fact of a save, about entries and not       *)
(* files: it enters one identity that neither the current nor a sealed epoch *)
(* of the account has (Enters), or it revises what is there and keeps an     *)
(* order that was never sent without fills (Revised, Clean).  Hence the      *)
(* replacement of the current file is the atomic Prepare or Update, the      *)
(* replacement of the manifest that lists the epoch is Seal, and every other *)
(* step leaves what is read as it is.                                        *)
(***************************************************************************)
EXTENDS JournalStore, FiniteSetTheorems, SequenceTheorems, TLAPS

\* An order aborted before its send has no fills.
Clean(map) == \A id \in Ids(map) : map[id].status = "aborted_before_send" => map[id].fills = {}

\* What a save makes of the entries, as its readers see it.
Enters(before, after) ==
    \E id \in Orders :
      /\ before[id] = NoEntry
      /\ \A n \in DOMAIN Sealed :
           Sealed[n].source = EpochAccount => Sealed[n].entries[id] = NoEntry
      /\ after[id] # NoEntry /\ after[id].status = "prepared" /\ after[id].fills = {}
      /\ \A other \in Orders \ {id} : after[other] = before[other]

\* Or it revises what there is.
Revised(before, after) ==
    /\ Ids(after) = Ids(before)
    /\ \A id \in Ids(before) : Revises(before[id], after[id])
    /\ Clean(after)

\* What the variables hold.
Typed ==
    /\ day \in Nat
    /\ current \in Envelopes \cup {NoFile} /\ previous \in Envelopes \cup {NoFile}
    /\ manifest \in Manifests \cup {NoFile} /\ manifestPrevious \in Manifests \cup {NoFile}
    /\ op \in Operations \cup {NoOp} /\ intent \in Intents \cup {NoIntent}

\* The sequence, parent and archive of what a save writes are those of what it has read.
SaveFits(e) ==
    /\ e \in Envelopes
    /\ e.parent = (IF current = NoFile THEN NoFile ELSE current.gen)
    /\ Follows(Loaded, e.gen) /\ SnapshotValid(e.gen)
    /\ \/ Enters(AllEntries(Loaded), AllEntries(e.gen))
       \/ Revised(AllEntries(Loaded), AllEntries(e.gen))

\* A save has made what it archives before it puts its generation in the current file.
Archiving == {"segment", "segment rest", "index", "index rest"}

SaveStage(e) ==
    /\ op.at \in Archiving \cup {"previous", "current"}
    /\ op.at \in Archiving =>
         /\ current # NoFile
         /\ e.gen.chain = Append(current.gen.chain, Archived(e.gen))
    /\ op.at \in {"index", "index rest"} => Whole(SegmentPath(e.gen.chain))
    /\ op.at \in {"previous", "current"} => GenerationReadable(e.gen)
    /\ op.at = "previous" => current # NoFile
    /\ op.at = "current" => previous = current

Saving == proc = "runtime" /\ op # NoOp => SaveFits(op.next) /\ SaveStage(op.next)

Listing == {"directory", "copy", "copy rest", "seal", "seal rest", "manifest previous",
            "manifest"}
Cleaning == {"unlink current", "unlink segments", "unlink previous", "unlink indexes",
             "ready previous", "ready"}
NoPath(kind) == \A path \in DOMAIN files : path[1] # kind

\* Until the epoch is listed nothing but its directory changes; then its source goes.
SealStage(e) ==
    /\ e \in Epochs /\ intent # NoIntent /\ e.transaction = intent.transaction
    /\ op.at \in Listing \cup Cleaning \cup {"end"}
    /\ op.at \in Listing =>
         /\ ~Pending /\ ~SealedBy(e.transaction) /\ e.source = EpochAccount
         /\ e.entries = AllEntries(Loaded) /\ FinalIds(e.entries) = Ids(e.entries)
    /\ op.at \in Listing \ {"directory"} => e.transaction \in directories
    /\ op.at \in {"seal", "seal rest", "manifest previous", "manifest"} =>
         /\ Whole(<<"copy", e.transaction>>)
         /\ files[<<"copy", e.transaction>>].content.current = current
    /\ op.at \in {"manifest previous", "manifest"} =>
         /\ Whole(<<"seal", e.transaction>>)
         /\ files[<<"seal", e.transaction>>].content = e
    /\ op.at \in {"manifest", "ready"} => manifestPrevious = manifest
    /\ op.at \in Cleaning => Pending
    /\ op.at \in Cleaning \cup {"end"} => SealedBy(e.transaction)
    /\ op.at \in Cleaning \ {"unlink current"} => current = NoFile
    /\ op.at \in Cleaning \ {"unlink current", "unlink segments"} => NoPath("segment")
    /\ op.at \in {"unlink indexes", "ready previous", "ready"} => previous = NoFile
    /\ op.at \in {"ready previous", "ready"} => NoPath("index")
    /\ op.at = "end" => ~Pending

Sealing == proc = "seal" => op # NoOp /\ SealStage(op.epoch)

\* The inductive invariant.
JInv ==
    /\ Typed
    /\ proc \in {"none", "runtime", "seal"} /\ (proc = "none" => op = NoOp)
    /\ current # NoFile => Clean(AllEntries(current.gen))
    /\ Saving /\ Sealing
    /\ JournalSurvivesCrash

-----------------------------------------------------------------------------
(* Maps from identities to entries.                                          *)

\* Absent values are told from present ones.
LEMMA Absent ==
    /\ NoEntry \notin Entry /\ NoFile \notin Generations /\ NoFile \notin Envelopes
    /\ NoFile \notin Manifests /\ NoOp \notin Operations /\ NoIntent \notin Intents
    /\ IsFiniteSet(Orders) /\ Home \in Accounts
BY JournalStoreAssumption

\* The identities of a map are finitely many.
LEMMA IdsFinite ==
    ASSUME NEW map
    PROVE  /\ Ids(map) \subseteq Orders /\ IsFiniteSet(Ids(map))
           /\ Cardinality(Ids(map)) \in Nat
BY Absent, FS_Subset, FS_CardinalityType DEF Ids

\* What a map has is an entry.
LEMMA EntryOf ==
    ASSUME NEW map \in Maps, NEW id \in Ids(map)
    PROVE  map[id] \in Entry
BY DEF Maps, Ids

\* Nothing is in the empty map.
LEMMA EmptyIs == Empty \in Maps /\ Ids(Empty) = {} /\ Cardinality(Ids(Empty)) = 0
<1>1. Empty \in Maps /\ Ids(Empty) = {}
  BY DEF Empty, Maps, Ids
<1>. QED
  BY <1>1, FS_EmptySet

\* A part of a map.
LEMMA OnlyIs ==
    ASSUME NEW map \in Maps, NEW ids
    PROVE  /\ Only(map, ids) \in Maps /\ Ids(Only(map, ids)) = Ids(map) \cap ids
           /\ \A id \in ids \cap Orders : Only(map, ids)[id] = map[id]
BY DEF Only, Maps, Ids

\* One map laid over another.
LEMMA OverIs ==
    ASSUME NEW new \in Maps, NEW old \in Maps
    PROVE  /\ Over(new, old) \in Maps /\ Ids(Over(new, old)) = Ids(new) \cup Ids(old)
           /\ \A id \in Ids(new) : Over(new, old)[id] = new[id]
           /\ \A id \in Orders \ Ids(new) : Over(new, old)[id] = old[id]
BY DEF Over, Maps, Ids

\* Two maps with the same entries are the same.
LEMMA SameMap ==
    ASSUME NEW a \in Maps, NEW b \in Maps, \A id \in Orders : a[id] = b[id]
    PROVE  a = b
BY DEF Maps

\* Nothing laid over a map is the map.
LEMMA OverNothing ==
    ASSUME NEW new \in Maps, NEW old \in Maps, Ids(new) = {}
    PROVE  Over(new, old) = old
<1>1. \A id \in Orders : Over(new, old)[id] = old[id]
  BY OverIs
<1>. QED
  BY <1>1, OverIs, SameMap

\* An entry revises itself, and a revision of a final one is final.
LEMMA RevisesItself ==
    /\ \A e \in Entry : Revises(e, e)
    /\ \A e, f \in Entry : Revises(e, f) /\ e.status \in Final => f.status \in Final
BY DEF Entry, Revises, Successors, Final

\* What a generation holds.
LEMMA GenerationIs ==
    ASSUME NEW gen \in Generations
    PROVE  /\ Archived(gen) \in Maps /\ AllEntries(gen) \in Maps
           /\ RuntimeEntries(gen) \in Maps
           /\ Ids(AllEntries(gen)) = Ids(gen.hot) \cup Ids(Archived(gen))
           /\ Ids(RuntimeEntries(gen)) = Ids(gen.hot) \cup Ids(gen.recent)
           /\ gen.hot \in Maps /\ gen.recent \in Maps /\ gen.chain \in Seq(Maps)
           /\ gen.sequence \in Nat
<1>1. /\ gen.hot \in Maps /\ gen.recent \in Maps /\ gen.chain \in Seq(Maps)
      /\ gen.sequence \in Nat
  BY DEF Generations
<1>2. Archived(gen) \in Maps
  <2>1. gen.chain # <<>> => Len(gen.chain) \in 1..Len(gen.chain)
    BY <1>1, EmptySeq
  <2>. QED
    BY <1>1, <2>1, EmptyIs, ElementOfSeq DEF Archived
<1>. QED
  BY <1>1, <1>2, OverIs DEF AllEntries, RuntimeEntries

\* Before the first save there is nothing.
LEMMA NothingYet ==
    /\ NoGeneration \in Generations /\ AllEntries(NoGeneration) = Empty
    /\ SnapshotValid(NoGeneration)
<1>1. NoGeneration \in Generations
  BY EmptyIs DEF NoGeneration, Generations
<1>2. Archived(NoGeneration) = Empty
  BY DEF NoGeneration, Archived
<1>3. AllEntries(NoGeneration) = Empty
  BY <1>2, EmptyIs, OverNothing DEF AllEntries, NoGeneration
<1>4. FinalIds(Empty) = Ids(Empty)
  BY EmptyIs DEF FinalIds
<1>5. NoGeneration.hot = Empty /\ NoGeneration.recent = Empty
  BY DEF NoGeneration
<1>6. MaxHot \in Nat /\ MaxRecent \in Nat /\ MaxIdentities \in Nat
  BY JournalStoreAssumption
<1>7. SnapshotValid(NoGeneration)
  BY <1>2, <1>3, <1>4, <1>5, <1>6, EmptyIs DEF SnapshotValid
<1>. QED
  BY <1>1, <1>3, <1>7

-----------------------------------------------------------------------------
(* What a save writes.                                                       *)

\* The recent part of the archive is a part of it, with this save's versions.
LEMMA RecentIs ==
    ASSUME NEW gen \in Generations, NEW versions \in Maps
    PROVE  /\ Recent(gen, versions) \in Maps
           /\ Ids(Recent(gen, versions)) \subseteq Ids(versions) \cup Ids(gen.recent)
           /\ \A id \in Ids(Recent(gen, versions)) :
                Recent(gen, versions)[id] = Over(versions, gen.recent)[id]
<1> DEFINE all == Over(versions, gen.recent)
<1>1. all \in Maps /\ Ids(all) = Ids(versions) \cup Ids(gen.recent)
  BY GenerationIs, OverIs
<1>2. PICK ids : Recent(gen, versions) = Only(all, ids)
  BY DEF Recent
<1> HIDE DEF all
<1>3. /\ Only(all, ids) \in Maps /\ Ids(Only(all, ids)) = Ids(all) \cap ids
      /\ \A id \in ids \cap Orders : Only(all, ids)[id] = all[id]
  BY <1>1, OnlyIs
<1>4. Ids(all) \subseteq Orders
  BY DEF Ids
<1>. QED
  BY <1>1, <1>2, <1>3, <1>4 DEF all

\* The next generation is one, and archives the versions.
LEMMA NextIs ==
    ASSUME NEW gen \in Generations, NEW hot \in Maps, NEW versions \in Maps,
           NEW next, next = NextGeneration(gen, hot, versions)
    PROVE  /\ next \in Generations /\ next.sequence = gen.sequence + 1 /\ next.hot = hot
           /\ Archived(next) = Over(versions, Archived(gen))
           /\ Ids(versions) = {} => next.chain = gen.chain /\ next.recent = gen.recent
           /\ Ids(versions) # {} => /\ next.chain = Append(gen.chain, Archived(next))
                                    /\ next.recent = Recent(gen, versions)
<1> DEFINE A == Over(versions, Archived(gen))
<1>1. A \in Maps /\ gen.chain \in Seq(Maps) /\ gen.recent \in Maps /\ gen.sequence \in Nat
  BY GenerationIs, OverIs
<1>2. /\ next.sequence = gen.sequence + 1 /\ next.hot = hot
      /\ Ids(versions) = {} => next.chain = gen.chain /\ next.recent = gen.recent
      /\ Ids(versions) # {} => /\ next.chain = Append(gen.chain, A)
                               /\ next.recent = Recent(gen, versions)
  BY DEF NextGeneration
<1>3. next \in Generations
  <2>1. next = [sequence |-> next.sequence, hot |-> next.hot, chain |-> next.chain,
                recent |-> next.recent]
    BY DEF NextGeneration
  <2> HIDE DEF A
  <2>2. next.chain \in Seq(Maps) /\ next.recent \in Maps /\ next.sequence \in Nat
    <3>1. Append(gen.chain, A) \in Seq(Maps)
      BY <1>1, AppendProperties
    <3>2. Recent(gen, versions) \in Maps
      BY RecentIs
    <3>3. next.sequence \in Nat
      BY <1>1, <1>2
    <3>4. next.chain \in Seq(Maps) /\ next.recent \in Maps
      <4>1. CASE Ids(versions) = {}
        BY <1>1, <1>2, <4>1
      <4>2. CASE Ids(versions) # {}
        BY <1>2, <3>1, <3>2, <4>2
      <4>. QED
        BY <4>1, <4>2
    <3>. QED
      BY <3>3, <3>4
  <2>. QED
    BY <1>2, <2>1, <2>2 DEF Generations
<1>4. Archived(next) = A
  <2>1. CASE Ids(versions) = {}
    BY <1>2, <2>1, GenerationIs, OverNothing DEF Archived
  <2>2. CASE Ids(versions) # {}
    <3> HIDE DEF A
    <3>1. /\ Append(gen.chain, A) # <<>> /\ Len(Append(gen.chain, A)) = Len(gen.chain) + 1
          /\ Append(gen.chain, A)[Len(gen.chain) + 1] = A
      BY <1>1, AppendProperties
    <3>. QED
      BY <1>2, <2>2, <3>1 DEF Archived
  <2>. QED
    BY <2>1, <2>2
<1>. QED
  BY <1>2, <1>3, <1>4

\* A save that moves final entries to the archive, within the limits, writes a valid
\* snapshot.
LEMMA NextValid ==
    ASSUME NEW gen \in Generations, SnapshotValid(gen), NEW hot \in Maps,
           NEW versions \in Maps, NEW next, next = NextGeneration(gen, hot, versions),
           Cardinality(Ids(hot)) <= MaxHot,
           Ids(hot) \cap (Ids(versions) \cup Ids(Archived(gen))) = {},
           Ids(versions) = FinalIds(versions),
           Cardinality(Ids(AllEntries(next))) <= MaxIdentities,
           Cardinality(Ids(Recent(gen, versions))) <= MaxRecent
    PROVE  SnapshotValid(next)
<1>1. /\ next.hot = hot /\ Archived(next) = Over(versions, Archived(gen))
      /\ Ids(versions) = {} => next.recent = gen.recent
      /\ Ids(versions) # {} => next.recent = Recent(gen, versions)
  BY NextIs
<1>2. /\ Archived(gen) \in Maps /\ gen.recent \in Maps
      /\ Ids(Archived(next)) = Ids(versions) \cup Ids(Archived(gen))
      /\ \A id \in Ids(versions) : Archived(next)[id] = versions[id]
      /\ \A id \in Orders \ Ids(versions) : Archived(next)[id] = Archived(gen)[id]
  BY <1>1, GenerationIs, OverIs
<1>3. /\ FinalIds(Archived(gen)) = Ids(Archived(gen))
      /\ Cardinality(Ids(gen.recent)) <= MaxRecent
      /\ \A id \in Ids(gen.recent) : gen.recent[id] = Archived(gen)[id]
  BY DEF SnapshotValid
<1>4. FinalIds(Archived(next)) = Ids(Archived(next))
  BY <1>2, <1>3 DEF FinalIds, Ids
<1>5. ASSUME NEW id \in Ids(next.recent) PROVE next.recent[id] = Archived(next)[id]
  <2>0. id \in Orders
    BY DEF Ids
  <2>1. CASE Ids(versions) = {}
    BY <1>1, <1>2, <1>3, <1>5, <2>0, <2>1
  <2>2. CASE Ids(versions) # {}
    <3>1. next.recent[id] = Over(versions, gen.recent)[id]
          /\ id \in Ids(versions) \cup Ids(gen.recent)
      BY <1>1, <1>5, <2>2, RecentIs
    <3>2. /\ id \in Ids(versions) => Over(versions, gen.recent)[id] = versions[id]
          /\ id \notin Ids(versions) => Over(versions, gen.recent)[id] = gen.recent[id]
      BY <1>2, <2>0, OverIs
    <3>. QED
      BY <1>2, <1>3, <2>0, <3>1, <3>2
  <2>. QED
    BY <2>1, <2>2
<1>6. Cardinality(Ids(next.recent)) <= MaxRecent
  BY <1>1, <1>3
<1>. QED
  BY <1>1, <1>2, <1>4, <1>5, <1>6 DEF SnapshotValid

\* What a reader finds afterwards, entry by entry.
LEMMA NextEntries ==
    ASSUME NEW gen \in Generations, NEW hot \in Maps, NEW versions \in Maps, NEW next,
           next = NextGeneration(gen, hot, versions)
    PROVE  /\ AllEntries(next) \in Maps
           /\ Ids(AllEntries(next)) = Ids(hot) \cup Ids(versions) \cup Ids(Archived(gen))
           /\ \A id \in Ids(hot) : AllEntries(next)[id] = hot[id]
           /\ \A id \in Ids(versions) \ Ids(hot) : AllEntries(next)[id] = versions[id]
           /\ \A id \in Orders \ (Ids(hot) \cup Ids(versions)) :
                AllEntries(next)[id] = Archived(gen)[id]
<1>1. /\ next.hot = hot /\ Archived(next) = Over(versions, Archived(gen))
      /\ next \in Generations
  BY NextIs
<1>2. /\ Archived(next) \in Maps /\ Ids(Archived(next)) = Ids(versions) \cup Ids(Archived(gen))
      /\ \A id \in Ids(versions) : Archived(next)[id] = versions[id]
      /\ \A id \in Orders \ Ids(versions) : Archived(next)[id] = Archived(gen)[id]
  BY <1>1, GenerationIs, OverIs
<1>3. Ids(hot) \subseteq Orders /\ Ids(versions) \subseteq Orders
  BY DEF Ids
<1>. QED
  BY <1>1, <1>2, <1>3, OverIs DEF AllEntries

\* What a reader has found so far.
LEMMA EntriesAre ==
    ASSUME NEW gen \in Generations
    PROVE  /\ \A id \in Ids(gen.hot) : AllEntries(gen)[id] = gen.hot[id]
           /\ \A id \in Orders \ Ids(gen.hot) : AllEntries(gen)[id] = Archived(gen)[id]
BY GenerationIs, OverIs DEF AllEntries

-----------------------------------------------------------------------------
(* The three saves: what each writes follows what it has read.               *)

\* A process that writes has read a journal that is in order.
Found(gen) == gen \in Generations /\ SnapshotValid(gen) /\ Clean(AllEntries(gen))

\* What prepare decides.
Prepares(gen, id, archive, new, kept, versions, hot, next) ==
    /\ Found(gen) /\ day \in Nat /\ archive \subseteq FinalIds(gen.hot)
    /\ new = [day |-> day, status |-> "prepared", fills |-> {}]
    /\ kept = Only(gen.hot, Ids(gen.hot) \ archive) /\ versions = Only(gen.hot, archive)
    /\ hot = [kept EXCEPT ![id] = new] /\ next = NextGeneration(gen, hot, versions)
    /\ Cardinality(Ids(AllEntries(gen))) + 1 <= MaxIdentities
    /\ Cardinality(Ids(kept)) < MaxHot
    /\ id \notin Ids(AllEntries(gen))
    /\ Cardinality(Ids(Recent(gen, versions))) <= MaxRecent
    /\ \A n \in DOMAIN Sealed :
         Sealed[n].source = EpochAccount => Sealed[n].entries[id] = NoEntry

\* prepare adds one identity that no epoch of the account has, as "prepared".
LEMMA PrepareFits ==
    ASSUME NEW gen, NEW id \in Orders, NEW archive, NEW new, NEW kept, NEW versions,
           NEW hot, NEW next, Prepares(gen, id, archive, new, kept, versions, hot, next)
    PROVE  /\ hot \in Maps /\ versions \in Maps
           /\ SnapshotValid(next) /\ Follows(gen, next)
           /\ Enters(AllEntries(gen), AllEntries(next))
<1> DEFINE before == AllEntries(gen)
           after == AllEntries(next)
<1>0. Found(gen) /\ day \in Nat /\ archive \subseteq FinalIds(gen.hot)
  BY DEF Prepares
<1>a. versions = Only(gen.hot, archive) /\ next = NextGeneration(gen, hot, versions)
  BY DEF Prepares
<1>1. /\ gen \in Generations /\ gen.hot \in Maps /\ before \in Maps /\ Archived(gen) \in Maps
      /\ Ids(before) = Ids(gen.hot) \cup Ids(Archived(gen))
  BY <1>0, GenerationIs DEF Found
<1>2. new \in Entry /\ new.status = "prepared" /\ new.fills = {} /\ new # NoEntry
  BY <1>0, Absent DEF Entry, Successors, Prepares
<1>3. /\ kept \in Maps /\ Ids(kept) = Ids(gen.hot) \ archive
      /\ \A other \in Ids(kept) : kept[other] = gen.hot[other]
  BY <1>1, OnlyIs DEF Ids, Prepares
<1>4. /\ versions \in Maps /\ Ids(versions) = archive
      /\ \A other \in archive : versions[other] = gen.hot[other]
  <2>1. archive \subseteq Ids(gen.hot) /\ archive \subseteq Orders
    BY <1>0 DEF FinalIds, Ids
  <2>2. /\ versions \in Maps /\ Ids(versions) = Ids(gen.hot) \cap archive
        /\ \A other \in archive \cap Orders : versions[other] = gen.hot[other]
    BY <1>a, <1>1, OnlyIs
  <2>. QED
    BY <2>1, <2>2
<1>5. hot \in Maps
  BY <1>2, <1>3 DEF Maps, Prepares
<1>6. hot[id] = new /\ \A other \in Orders \ {id} : hot[other] = kept[other]
  BY <1>3 DEF Maps, Prepares
<1>7. Ids(hot) = Ids(kept) \cup {id}
  BY <1>2, <1>6 DEF Ids
<1>8. Ids(gen.hot) \cap Ids(Archived(gen)) = {}
  BY <1>0 DEF Found, SnapshotValid
<1>9. archive \subseteq Ids(gen.hot)
  BY <1>0 DEF FinalIds
<1>10. id \notin Ids(gen.hot) /\ id \notin Ids(Archived(gen)) /\ id \notin Ids(before)
  BY <1>1 DEF Prepares
<1>11. /\ after \in Maps /\ Ids(after) = Ids(hot) \cup Ids(versions) \cup Ids(Archived(gen))
       /\ \A other \in Ids(hot) : after[other] = hot[other]
       /\ \A other \in Ids(versions) \ Ids(hot) : after[other] = versions[other]
       /\ \A other \in Orders \ (Ids(hot) \cup Ids(versions)) :
            after[other] = Archived(gen)[other]
  BY <1>1, <1>4, <1>5, <1>a, NextEntries
<1>12. /\ \A other \in Ids(gen.hot) : before[other] = gen.hot[other]
       /\ \A other \in Orders \ Ids(gen.hot) : before[other] = Archived(gen)[other]
  BY <1>1, EntriesAre
<1> HIDE DEF before, after
<1>13. Ids(after) = Ids(before) \cup {id}
  BY <1>1, <1>3, <1>4, <1>7, <1>9, <1>11
<1>14. after[id] = new
  BY <1>6, <1>7, <1>11
<1>15. ASSUME NEW other \in Orders \ {id} PROVE after[other] = before[other]
  <2>1. CASE other \in Ids(kept)
    BY <1>3, <1>6, <1>7, <1>11, <1>12, <2>1
  <2>2. CASE other \in archive
    BY <1>3, <1>4, <1>7, <1>9, <1>11, <1>12, <2>2
  <2>3. CASE other \notin Ids(kept) /\ other \notin archive
    BY <1>3, <1>4, <1>7, <1>11, <1>12, <2>3
  <2>. QED
    BY <2>1, <2>2, <2>3
<1>16. before[id] = NoEntry
  BY <1>10 DEF Ids
<1>17. Enters(before, after)
  BY <1>2, <1>14, <1>15, <1>16 DEF Enters, Prepares
<1>18. Follows(gen, next)
  <2>1. next.sequence = gen.sequence + 1 /\ next.hot = hot
    BY <1>a DEF NextGeneration
  <2>2. ASSUME NEW other \in Ids(before)
        PROVE  other \in Ids(after) /\ Revises(before[other], after[other])
    <3>1. other # id /\ other \in Orders /\ before[other] \in Entry
      BY <1>1, <1>16, EntryOf DEF Ids
    <3>. QED
      BY <1>13, <1>15, <3>1, RevisesItself
  <2>3. Ids(after) \ Ids(before) = {id}
    BY <1>13, <1>16 DEF Ids
  <2>4. Cardinality({id}) = 1
    BY FS_Singleton
  <2>5. hot[id] # NoEntry /\ hot[id].status = "prepared"
    BY <1>2, <1>6
  <2>. QED
    BY <2>1, <2>2, <2>3, <2>4, <2>5 DEF Follows, before, after
<1>19. SnapshotValid(next)
  <2>1. Cardinality(Ids(hot)) <= MaxHot
    <3>1. id \notin Ids(kept) /\ IsFiniteSet(Ids(kept)) /\ Cardinality(Ids(kept)) \in Nat
      BY <1>3, <1>10, IdsFinite
    <3>2. Cardinality(Ids(hot)) = Cardinality(Ids(kept)) + 1
      BY <1>7, <3>1, FS_AddElement
    <3>3. MaxHot \in Nat
      BY JournalStoreAssumption
    <3>4. Cardinality(Ids(kept)) < MaxHot
      BY DEF Prepares
    <3>. QED
      BY <3>1, <3>2, <3>3, <3>4
  <2>2. Cardinality(Ids(after)) <= MaxIdentities
    <3>1. id \notin Ids(before) /\ IsFiniteSet(Ids(before))
      BY <1>16, IdsFinite DEF Ids
    <3>2. Cardinality(Ids(after)) = Cardinality(Ids(before)) + 1
      BY <1>13, <3>1, FS_AddElement
    <3>. QED
      BY <3>2 DEF before, Prepares
  <2>3. Ids(hot) \cap (Ids(versions) \cup Ids(Archived(gen))) = {}
    BY <1>3, <1>4, <1>7, <1>8, <1>9, <1>10
  <2>4. Ids(versions) = FinalIds(versions)
    <3>1. \A other \in archive : gen.hot[other].status \in Final
      BY <1>0 DEF FinalIds
    <3>. QED
      BY <1>4, <3>1 DEF FinalIds
  <2>. QED
    BY <1>0, <1>1, <1>4, <1>5, <2>1, <2>2, <2>3, <2>4, NextValid DEF Found, after, Prepares
<1>. QED
  BY <1>4, <1>5, <1>17, <1>18, <1>19 DEF before, after

\* An entry may be replaced by a revision of it that is clean.
Becomes(old, new) ==
    /\ Revises(old, new)
    /\ new.status = "aborted_before_send" => new.fills = {}

\* What a save decides that adds no identity.
Revisal(gen, hot, versions, next) ==
    /\ Found(gen) /\ hot \in Maps /\ versions \in Maps
    /\ next = NextGeneration(gen, hot, versions)
    /\ Ids(hot) \cap Ids(versions) = {}
    /\ Ids(hot) \subseteq Ids(gen.hot)
    /\ Ids(gen.hot) \subseteq Ids(hot) \cup Ids(versions)
    /\ Ids(versions) \subseteq Ids(AllEntries(gen)) /\ Ids(versions) = FinalIds(versions)
    /\ \A id \in Ids(hot) : Becomes(AllEntries(gen)[id], hot[id])
    /\ \A id \in Ids(versions) : Becomes(AllEntries(gen)[id], versions[id])
    /\ Cardinality(Ids(Recent(gen, versions))) <= MaxRecent

\* Such a save keeps the identities and revises their entries.
LEMMA RevisalFits ==
    ASSUME NEW gen, NEW hot, NEW versions, NEW next, Revisal(gen, hot, versions, next)
    PROVE  /\ SnapshotValid(next) /\ Follows(gen, next)
           /\ Revised(AllEntries(gen), AllEntries(next))
<1> DEFINE before == AllEntries(gen)
           after == AllEntries(next)
<1>1. /\ Found(gen) /\ hot \in Maps /\ versions \in Maps
      /\ next = NextGeneration(gen, hot, versions)
      /\ Cardinality(Ids(Recent(gen, versions))) <= MaxRecent
  BY DEF Revisal
<1>2. /\ Ids(hot) \cap Ids(versions) = {}
      /\ Ids(hot) \subseteq Ids(gen.hot) /\ Ids(gen.hot) \subseteq Ids(hot) \cup Ids(versions)
      /\ Ids(versions) \subseteq Ids(before) /\ Ids(versions) = FinalIds(versions)
  BY DEF Revisal
<1>3. /\ \A id \in Ids(hot) : Becomes(before[id], hot[id])
      /\ \A id \in Ids(versions) : Becomes(before[id], versions[id])
  BY DEF Revisal
<1>4. /\ gen \in Generations /\ gen.hot \in Maps /\ before \in Maps /\ Archived(gen) \in Maps
      /\ Ids(before) = Ids(gen.hot) \cup Ids(Archived(gen))
  BY <1>1, GenerationIs DEF Found
<1>5. /\ after \in Maps /\ Ids(after) = Ids(hot) \cup Ids(versions) \cup Ids(Archived(gen))
      /\ \A id \in Ids(hot) : after[id] = hot[id]
      /\ \A id \in Ids(versions) \ Ids(hot) : after[id] = versions[id]
      /\ \A id \in Orders \ (Ids(hot) \cup Ids(versions)) : after[id] = Archived(gen)[id]
  BY <1>1, <1>4, NextEntries
<1>6. /\ \A id \in Ids(gen.hot) : before[id] = gen.hot[id]
      /\ \A id \in Orders \ Ids(gen.hot) : before[id] = Archived(gen)[id]
  BY <1>4, EntriesAre
<1>7. /\ Ids(gen.hot) \cap Ids(Archived(gen)) = {} /\ Cardinality(Ids(gen.hot)) <= MaxHot
      /\ Cardinality(Ids(before)) <= MaxIdentities /\ SnapshotValid(gen) /\ Clean(before)
  BY <1>1 DEF Found, SnapshotValid
<1> HIDE DEF before, after
<1>8. Ids(after) = Ids(before)
  BY <1>2, <1>4, <1>5
<1>9. ASSUME NEW id \in Ids(before) PROVE Becomes(before[id], after[id])
  <2>1. id \in Orders
    BY DEF Ids
  <2>2. CASE id \in Ids(hot)
    BY <1>3, <1>5, <2>2
  <2>3. CASE id \in Ids(versions) \ Ids(hot)
    BY <1>3, <1>5, <2>3
  <2>4. CASE id \notin Ids(hot) /\ id \notin Ids(versions)
    <3>1. after[id] = before[id]
      BY <1>2, <1>5, <1>6, <2>1, <2>4
    <3>2. before[id] \in Entry
      BY <1>4, <1>9, EntryOf
    <3>. QED
      BY <1>7, <1>9, <3>1, <3>2, RevisesItself DEF Becomes, Clean
  <2>. QED
    BY <2>2, <2>3, <2>4
<1>10. Revised(before, after)
  BY <1>8, <1>9 DEF Revised, Becomes, Clean
<1>11. Follows(gen, next)
  <2>1. next.sequence = gen.sequence + 1
    BY <1>1 DEF NextGeneration
  <2>2. \A id \in Ids(before) : id \in Ids(after) /\ Revises(before[id], after[id])
    BY <1>8, <1>9 DEF Becomes
  <2>3. Ids(after) \ Ids(before) = {} /\ Cardinality({}) = 0
    BY <1>8, FS_EmptySet
  <2>. QED
    BY <2>1, <2>2, <2>3 DEF Follows, before, after
<1>12. SnapshotValid(next)
  <2>1. Cardinality(Ids(hot)) <= MaxHot
    <3>1. Cardinality(Ids(hot)) <= Cardinality(Ids(gen.hot))
      BY <1>2, IdsFinite, FS_Subset
    <3>2. Cardinality(Ids(hot)) \in Nat /\ Cardinality(Ids(gen.hot)) \in Nat /\ MaxHot \in Nat
      BY IdsFinite, JournalStoreAssumption
    <3>. QED
      BY <1>7, <3>1, <3>2
  <2>2. Ids(hot) \cap (Ids(versions) \cup Ids(Archived(gen))) = {}
    BY <1>2, <1>7
  <2>3. Cardinality(Ids(after)) <= MaxIdentities
    BY <1>7, <1>8
  <2>. QED
    BY <1>1, <1>2, <1>4, <1>7, <2>1, <2>2, <2>3, NextValid DEF after
<1>. QED
  BY <1>10, <1>11, <1>12 DEF before, after

\* compact_terminal only moves entries.
LEMMA CompactFits ==
    ASSUME NEW gen, Found(gen), NEW hot, NEW versions, NEW next,
           hot = Only(gen.hot, Ids(gen.hot) \ FinalIds(gen.hot)),
           versions = Only(gen.hot, FinalIds(gen.hot)),
           next = NextGeneration(gen, hot, versions),
           Cardinality(Ids(Recent(gen, versions))) <= MaxRecent
    PROVE  Revisal(gen, hot, versions, next)
<1>1. /\ gen.hot \in Maps /\ AllEntries(gen) \in Maps
      /\ Ids(AllEntries(gen)) = Ids(gen.hot) \cup Ids(Archived(gen))
  BY GenerationIs DEF Found
<1>2. FinalIds(gen.hot) \subseteq Ids(gen.hot) /\ Ids(gen.hot) \subseteq Orders
  BY DEF FinalIds, Ids
<1>3. /\ hot \in Maps /\ Ids(hot) = Ids(gen.hot) \ FinalIds(gen.hot)
      /\ \A id \in Ids(hot) : hot[id] = gen.hot[id]
  <2>1. /\ hot \in Maps
        /\ Ids(hot) = Ids(gen.hot) \cap (Ids(gen.hot) \ FinalIds(gen.hot))
        /\ \A id \in (Ids(gen.hot) \ FinalIds(gen.hot)) \cap Orders : hot[id] = gen.hot[id]
    BY <1>1, OnlyIs
  <2>. QED
    BY <1>2, <2>1
<1>4. /\ versions \in Maps /\ Ids(versions) = FinalIds(gen.hot)
      /\ \A id \in Ids(versions) : versions[id] = gen.hot[id]
  <2>1. /\ versions \in Maps
        /\ Ids(versions) = Ids(gen.hot) \cap FinalIds(gen.hot)
        /\ \A id \in FinalIds(gen.hot) \cap Orders : versions[id] = gen.hot[id]
    BY <1>1, OnlyIs
  <2>. QED
    BY <1>2, <2>1
<1>5. \A id \in Ids(gen.hot) : AllEntries(gen)[id] = gen.hot[id]
  BY EntriesAre DEF Found
<1>6. \A id \in Ids(gen.hot) : Becomes(AllEntries(gen)[id], gen.hot[id])
  <2> SUFFICES ASSUME NEW id \in Ids(gen.hot)
               PROVE  Becomes(AllEntries(gen)[id], gen.hot[id])
    OBVIOUS
  <2>1. id \in Ids(AllEntries(gen)) /\ AllEntries(gen)[id] \in Entry
    BY <1>1, EntryOf
  <2>. QED
    BY <1>5, <2>1, RevisesItself DEF Becomes, Found, Clean
<1>7. FinalIds(versions) = Ids(versions)
  BY <1>4 DEF FinalIds
<1>. QED
  BY <1>1, <1>2, <1>3, <1>4, <1>5, <1>6, <1>7 DEF Revisal

\* A live process finds in the recent part of the archive what a reader of all finds.
LEMMA KnownIs ==
    ASSUME NEW gen, Found(gen)
    PROVE  /\ RuntimeEntries(gen) \in Maps
           /\ Ids(RuntimeEntries(gen)) = Ids(gen.hot) \cup Ids(gen.recent)
           /\ Ids(RuntimeEntries(gen)) \subseteq Ids(AllEntries(gen))
           /\ \A id \in Ids(RuntimeEntries(gen)) :
                RuntimeEntries(gen)[id] = AllEntries(gen)[id]
           /\ \A id \in Ids(RuntimeEntries(gen)) \ Ids(gen.hot) :
                AllEntries(gen)[id].status \in Final
<1>1. /\ gen \in Generations /\ SnapshotValid(gen) /\ gen.hot \in Maps /\ gen.recent \in Maps
      /\ Archived(gen) \in Maps /\ RuntimeEntries(gen) \in Maps
      /\ Ids(RuntimeEntries(gen)) = Ids(gen.hot) \cup Ids(gen.recent)
      /\ Ids(AllEntries(gen)) = Ids(gen.hot) \cup Ids(Archived(gen))
  BY GenerationIs DEF Found
<1>2. /\ \A id \in Ids(gen.hot) : RuntimeEntries(gen)[id] = gen.hot[id]
      /\ \A id \in Orders \ Ids(gen.hot) : RuntimeEntries(gen)[id] = gen.recent[id]
  BY <1>1, OverIs DEF RuntimeEntries
<1>3. /\ \A id \in Ids(gen.hot) : AllEntries(gen)[id] = gen.hot[id]
      /\ \A id \in Orders \ Ids(gen.hot) : AllEntries(gen)[id] = Archived(gen)[id]
  BY <1>1, EntriesAre
<1>4. /\ FinalIds(Archived(gen)) = Ids(Archived(gen))
      /\ \A id \in Ids(gen.recent) : gen.recent[id] = Archived(gen)[id]
  BY <1>1 DEF SnapshotValid
<1>5. ASSUME NEW id \in Ids(gen.recent)
      PROVE  id \in Orders /\ id \in Ids(Archived(gen)) /\ Archived(gen)[id].status \in Final
  <2>1. id \in Orders /\ id \in Ids(Archived(gen))
    BY <1>4 DEF Ids
  <2>. QED
    BY <1>4, <2>1 DEF FinalIds
<1>. QED
  BY <1>1, <1>2, <1>3, <1>4, <1>5 DEF Ids

\* The revised entry of one order.
UpdatedEntry(e, status, fills) == [e EXCEPT !.status = status, !.fills = @ \cup fills]

\* It is an entry that revises the other.
LEMMA UpdatedIs ==
    ASSUME NEW e \in Entry, NEW status \in Successors[e.status], NEW fills \in SUBSET Lots
    PROVE  /\ UpdatedEntry(e, status, fills) \in Entry
           /\ UpdatedEntry(e, status, fills).status = status
           /\ Revises(e, UpdatedEntry(e, status, fills))
<1>1. status \in DOMAIN Successors
  BY DEF Entry, Successors
<1>2. /\ UpdatedEntry(e, status, fills).day = e.day
      /\ UpdatedEntry(e, status, fills).status = status
      /\ UpdatedEntry(e, status, fills).fills = e.fills \cup fills
  BY DEF UpdatedEntry, Entry
<1>3. UpdatedEntry(e, status, fills) \in Entry
  BY <1>1 DEF UpdatedEntry, Entry
<1>. QED
  BY <1>2, <1>3 DEF Revises

\* What apply_updates decides.
Updates(gen, statuses, fills, known, revised, hot, archive) ==
    /\ Found(gen) /\ known = RuntimeEntries(gen)
    /\ revised = [id \in Orders |->
                    IF id \in DOMAIN statuses
                    THEN UpdatedEntry(known[id], statuses[id], fills[id]) ELSE known[id]]
    /\ hot = Only(revised, Ids(gen.hot))
    /\ archive \in {{}, FinalIds(hot)}
    /\ DOMAIN statuses \subseteq Ids(known)
    /\ \A id \in DOMAIN statuses :
         /\ statuses[id] \in Successors[known[id].status] /\ fills[id] \subseteq Lots
         /\ statuses[id] = "aborted_before_send" => revised[id].fills = {}

\* The revised entries, before some are archived.
LEMMA RevisedIs ==
    ASSUME NEW gen, NEW statuses, NEW fills, NEW known, NEW revised, NEW hot, NEW archive,
           Updates(gen, statuses, fills, known, revised, hot, archive)
    PROVE  /\ revised \in Maps /\ Ids(revised) = Ids(known) /\ Ids(gen.hot) \subseteq Ids(known)
           /\ \A id \in Ids(known) : Becomes(AllEntries(gen)[id], revised[id])
           /\ \A id \in Ids(known) \ Ids(gen.hot) : revised[id].status \in Final
           /\ Ids(known) \subseteq Ids(AllEntries(gen))
<1>1. Found(gen) /\ known = RuntimeEntries(gen) /\ DOMAIN statuses \subseteq Ids(known)
  BY DEF Updates
<1>2. revised = [id \in Orders |->
                   IF id \in DOMAIN statuses
                   THEN UpdatedEntry(known[id], statuses[id], fills[id]) ELSE known[id]]
  BY DEF Updates
<1>3. \A id \in DOMAIN statuses :
        /\ statuses[id] \in Successors[known[id].status] /\ fills[id] \subseteq Lots
        /\ statuses[id] = "aborted_before_send" => revised[id].fills = {}
  BY DEF Updates
<1>4. /\ known \in Maps /\ Ids(known) = Ids(gen.hot) \cup Ids(gen.recent)
      /\ Ids(known) \subseteq Ids(AllEntries(gen)) /\ Ids(known) \subseteq Orders
      /\ \A id \in Ids(known) : known[id] = AllEntries(gen)[id]
      /\ \A id \in Ids(known) \ Ids(gen.hot) : AllEntries(gen)[id].status \in Final
  BY <1>1, KnownIs DEF Ids
<1>5. ASSUME NEW id \in Ids(known)
      PROVE  /\ revised[id] \in Entry /\ Becomes(known[id], revised[id])
  <2>1. known[id] \in Entry /\ id \in Orders
    BY <1>4, EntryOf
  <2>2. CASE id \in DOMAIN statuses
    <3>1. revised[id] = UpdatedEntry(known[id], statuses[id], fills[id])
      BY <1>2, <2>1, <2>2
    <3>2. /\ revised[id] \in Entry /\ revised[id].status = statuses[id]
          /\ Revises(known[id], revised[id])
      BY <1>3, <2>1, <2>2, <3>1, UpdatedIs
    <3>. QED
      BY <1>3, <2>2, <3>2 DEF Becomes
  <2>3. CASE id \notin DOMAIN statuses
    <3>1. revised[id] = known[id]
      BY <1>2, <2>1, <2>3
    <3>2. Clean(AllEntries(gen)) /\ id \in Ids(AllEntries(gen))
      BY <1>1, <1>4, <1>5 DEF Found
    <3>. QED
      BY <1>4, <1>5, <2>1, <3>1, <3>2, RevisesItself DEF Becomes, Clean
  <2>. QED
    BY <2>2, <2>3
<1>6. ASSUME NEW id \in Orders \ Ids(known) PROVE revised[id] = NoEntry
  BY <1>1, <1>2, <1>6 DEF Ids
<1>7. revised \in Maps /\ Ids(revised) = Ids(known)
  <2>1. \A id \in Orders : revised[id] \in Entry \cup {NoEntry}
    BY <1>5, <1>6
  <2>2. revised \in Maps
    BY <1>2, <2>1 DEF Maps
  <2>3. Ids(revised) = Ids(known)
    BY <1>4, <1>5, <1>6, Absent DEF Ids
  <2>. QED
    BY <2>2, <2>3
<1>8. ASSUME NEW id \in Ids(known) \ Ids(gen.hot) PROVE revised[id].status \in Final
  <2>1. known[id] \in Entry /\ revised[id] \in Entry /\ Revises(known[id], revised[id])
        /\ known[id].status \in Final
    BY <1>4, <1>5, EntryOf DEF Becomes
  <2>. QED
    BY <2>1, RevisesItself
<1>. QED
  BY <1>4, <1>5, <1>7, <1>8

\* apply_updates revises what is touched, in the hot part or in the recent archive.
LEMMA UpdateFits ==
    ASSUME NEW gen, NEW statuses, NEW fills, NEW known, NEW revised, NEW hot, NEW full,
           Updates(gen, statuses, fills, known, revised, hot, full),
           NEW archive, archive = full \cup {id \in DOMAIN statuses :
                                    id \notin Ids(hot) /\ revised[id] # known[id]},
           NEW kept, kept = Only(hot, Ids(hot) \ archive),
           NEW versions, versions = Only(revised, archive),
           NEW next, next = NextGeneration(gen, kept, versions),
           Cardinality(Ids(Recent(gen, versions))) <= MaxRecent
    PROVE  Revisal(gen, kept, versions, next)
<1>1. /\ Found(gen) /\ hot = Only(revised, Ids(gen.hot)) /\ full \in {{}, FinalIds(hot)}
      /\ DOMAIN statuses \subseteq Ids(known)
  BY DEF Updates
<1>2. /\ revised \in Maps /\ Ids(revised) = Ids(known) /\ Ids(gen.hot) \subseteq Ids(known)
      /\ \A id \in Ids(known) : Becomes(AllEntries(gen)[id], revised[id])
      /\ \A id \in Ids(known) \ Ids(gen.hot) : revised[id].status \in Final
      /\ Ids(known) \subseteq Ids(AllEntries(gen)) /\ Ids(known) \subseteq Orders
  BY RevisedIs DEF Ids
<1>3. /\ hot \in Maps /\ Ids(hot) = Ids(gen.hot)
      /\ \A id \in Ids(gen.hot) : hot[id] = revised[id]
  <2>1. /\ hot \in Maps /\ Ids(hot) = Ids(revised) \cap Ids(gen.hot)
        /\ \A id \in Ids(gen.hot) \cap Orders : hot[id] = revised[id]
    BY <1>1, <1>2, OnlyIs
  <2>. QED
    BY <1>2, <2>1
<1>4. archive \subseteq Ids(known) /\ \A id \in archive : revised[id].status \in Final
  <2>1. \A id \in FinalIds(hot) : id \in Ids(hot) /\ hot[id].status \in Final
    BY DEF FinalIds
  <2>. QED
    BY <1>1, <1>2, <1>3, <2>1
<1>5. /\ kept \in Maps /\ Ids(kept) = Ids(gen.hot) \ archive
      /\ \A id \in Ids(kept) : kept[id] = revised[id]
  <2>1. /\ kept \in Maps /\ Ids(kept) = Ids(hot) \cap (Ids(hot) \ archive)
        /\ \A id \in (Ids(hot) \ archive) \cap Orders : kept[id] = hot[id]
    BY <1>3, OnlyIs
  <2>. QED
    BY <1>2, <1>3, <2>1
<1>6. /\ versions \in Maps /\ Ids(versions) = archive
      /\ \A id \in archive : versions[id] = revised[id]
  <2>1. /\ versions \in Maps /\ Ids(versions) = Ids(revised) \cap archive
        /\ \A id \in archive \cap Orders : versions[id] = revised[id]
    BY <1>2, OnlyIs
  <2>. QED
    BY <1>2, <1>4, <2>1
<1>7. FinalIds(versions) = Ids(versions)
  BY <1>4, <1>6 DEF FinalIds
<1>. QED
  BY <1>1, <1>2, <1>4, <1>5, <1>6, <1>7 DEF Revisal

-----------------------------------------------------------------------------
(* Steps that write no file.                                                 *)

\* Without a write a reader finds what it found before.
LEMMA SameStore ==
    ASSUME UNCHANGED store
    PROVE  /\ Sealed' = Sealed /\ (Pending' <=> Pending) /\ EpochAccount' = EpochAccount
           /\ Loaded' = Loaded /\ (StateReadable' <=> StateReadable)
           /\ CurrentEntries' = CurrentEntries /\ SealedEntries' = SealedEntries
           /\ \A allowed : ManifestReadable(allowed)' <=> ManifestReadable(allowed)
           /\ \A e : EpochWhole(e)' <=> EpochWhole(e)
           /\ \A txn : SealedBy(txn)' <=> SealedBy(txn)
           /\ \A path : Whole(path)' <=> Whole(path)
           /\ \A gen : GenerationReadable(gen)' <=> GenerationReadable(gen)
           /\ \A kind : NoPath(kind)' <=> NoPath(kind)
           /\ \A before, after : Enters(before, after)' <=> Enters(before, after)
<1>1. /\ current' = current /\ previous' = previous /\ files' = files
      /\ directories' = directories /\ manifest' = manifest
      /\ manifestPrevious' = manifestPrevious
  BY DEF store
<1>2. Sealed' = Sealed /\ (Pending' <=> Pending) /\ EpochAccount' = EpochAccount
      /\ Loaded' = Loaded
  BY <1>1 DEF Sealed, Pending, EpochAccount, Loaded
<1>3. \A path : Whole(path)' <=> Whole(path)
  BY <1>1 DEF Whole
<1>4. \A gen : GenerationReadable(gen)' <=> GenerationReadable(gen)
  BY <1>3 DEF GenerationReadable
<1>5. \A e : EnvelopeReadable(e)' <=> EnvelopeReadable(e)
  BY <1>4 DEF EnvelopeReadable
<1>6. StateReadable' <=> StateReadable
  BY <1>1, <1>5 DEF StateReadable
<1>7. CurrentEntries' = CurrentEntries /\ SealedEntries' = SealedEntries
  BY <1>2 DEF CurrentEntries, SealedEntries
<1>8. \A txn : SealedBy(txn)' <=> SealedBy(txn)
  BY <1>2 DEF SealedBy
<1>9. \A allowed : ManifestReadable(allowed)' <=> ManifestReadable(allowed)
  BY <1>1, <1>2 DEF ManifestReadable
<1>10. \A e : EpochWhole(e)' <=> EpochWhole(e)
  BY <1>1, <1>3 DEF EpochWhole
<1>11. \A kind : NoPath(kind)' <=> NoPath(kind)
  BY <1>1 DEF NoPath
<1>12. \A before, after : Enters(before, after)' <=> Enters(before, after)
  BY <1>2 DEF Enters
<1>. QED
  BY <1>2, <1>3, <1>4, <1>6, <1>7, <1>8, <1>9, <1>10, <1>11, <1>12

\* A journal in order is found in order.
LEMMA LoadedFound ==
    ASSUME JInv, StateReadable
    PROVE  Found(Loaded)
<1>1. CASE current = NoFile
  <2>1. Loaded = NoGeneration
    BY <1>1 DEF Loaded
  <2>2. Clean(Empty)
    BY EmptyIs DEF Clean
  <2>. QED
    BY <2>1, <2>2, NothingYet DEF Found
<1>2. CASE current # NoFile
  <2>1. Loaded = current.gen /\ current.gen \in Generations /\ Clean(AllEntries(current.gen))
    BY <1>2 DEF Loaded, JInv, Typed, Envelopes
  <2>2. SnapshotValid(current.gen)
    BY <1>2 DEF StateReadable, EnvelopeReadable, GenerationReadable
  <2>. QED
    BY <2>1, <2>2 DEF Found
<1>. QED
  BY <1>1, <1>2

\* What survives a crash, part by part.
LEMMA SurvivalKept ==
    ASSUME JInv, UNCHANGED <<store, intent>>, proc' # "runtime" \/ proc = "runtime"
    PROVE  JournalSurvivesCrash'
<1>1. UNCHANGED store /\ intent' = intent /\ directories' = directories
  BY DEF store
<1>. QED
  BY <1>1, SameStore DEF JInv, JournalSurvivesCrash

\* Between two transactions, with the journal as it was.
LEMMA IdleSound ==
    ASSUME JInv, UNCHANGED store, op' = NoOp, proc' \in {"none", "runtime"},
           intent' \in Intents \cup {NoIntent}, day' \in Nat, JournalSurvivesCrash'
    PROVE  JInv'
<1>1. Typed'
  BY DEF JInv, Typed, store
<1>2. (current # NoFile => Clean(AllEntries(current.gen)))'
  <2>1. current' = current
    BY DEF store
  <2>. QED
    BY <2>1 DEF JInv
<1>3. Saving' /\ Sealing'
  BY DEF Saving, Sealing
<1>. QED
  BY <1>1, <1>2, <1>3 DEF JInv

\* A process that loads the journal finds it in order, with no epoch change half done.
LEMMA OpenSound == ASSUME JInv, OpenRuntime PROVE JInv'
<1>1. /\ UNCHANGED store /\ proc' = "runtime" /\ Ready /\ op' = NoOp
      /\ day' = day /\ intent' = intent
  BY DEF OpenRuntime, JInv
<1>2. JournalSurvivesCrash'
  <2>1. ~Pending /\ directories \subseteq {Sealed[n].transaction : n \in DOMAIN Sealed}
    BY <1>1 DEF Ready, ManifestReadable
  <2>2. \A txn \in directories : SealedBy(txn)
    BY <2>1 DEF SealedBy
  <2>3. directories' = directories
    BY <1>1 DEF store
  <2>. QED
    BY <1>1, <2>1, <2>2, <2>3, SameStore DEF JInv, JournalSurvivesCrash
<1>. QED
  BY <1>1, <1>2, IdleSound DEF JInv, Typed

\* The live process stops.
LEMMA CloseSound == ASSUME JInv, CloseRuntime PROVE JInv'
<1>1. /\ UNCHANGED <<store, intent>> /\ UNCHANGED store /\ proc' = "none" /\ op' = NoOp
      /\ day' = day /\ intent' = intent
  BY DEF CloseRuntime
<1>2. JournalSurvivesCrash'
  BY <1>1, SurvivalKept
<1>. QED
  BY <1>1, <1>2, IdleSound DEF JInv, Typed

\* A day ends.
LEMMA NextDaySound == ASSUME JInv, NextDay PROVE JInv'
<1>1. /\ UNCHANGED <<store, intent>> /\ UNCHANGED store /\ proc' = proc /\ op' = NoOp
      /\ day' = day + 1 /\ intent' = intent /\ op = NoOp
  BY DEF NextDay
<1>2. JournalSurvivesCrash'
  BY <1>1, SurvivalKept
<1>3. proc' \in {"none", "runtime"} /\ day' \in Nat
  BY <1>1 DEF JInv, Typed, Sealing
<1>. QED
  BY <1>1, <1>2, <1>3, IdleSound DEF JInv, Typed

\* A death leaves the files as they are.
LEMMA InterruptSound == ASSUME JInv, Interrupt PROVE JInv'
<1>1. /\ UNCHANGED <<store, intent>> /\ UNCHANGED store /\ proc' = "none" /\ op' = NoOp
      /\ day' = day /\ intent' = intent
  BY DEF Interrupt
<1>2. JournalSurvivesCrash'
  BY <1>1, SurvivalKept
<1>. QED
  BY <1>1, <1>2, IdleSound DEF JInv, Typed

\* An operation id whose directory may appear next has none yet.
LEMMA DecideSound ==
    ASSUME JInv, NEW kind \in {"rollover", "switch"}, NEW txn \in Transactions,
           NEW target \in Accounts, Decide(kind, txn, target)
    PROVE  JInv'
<1>1. /\ UNCHANGED store /\ proc' = "none" /\ op' = NoOp /\ day' = day /\ proc = "none"
      /\ intent = NoIntent
      /\ intent' = [kind |-> kind, transaction |-> txn, source |-> EpochAccount,
                    target |-> target]
  BY DEF Decide
<1>2. EpochAccount \in Accounts
  BY Absent DEF EpochAccount, JInv, Typed, Manifests
<1>3. intent' \in Intents /\ intent'.transaction = txn
  BY <1>1, <1>2 DEF Intents
<1>4. JournalSurvivesCrash'
  <2>1. ManifestReadable({})
    BY <1>1 DEF JInv, JournalSurvivesCrash
  <2>2. ManifestReadable({txn})
    BY <2>1 DEF ManifestReadable
  <2>3. ManifestReadable({txn})'
    BY <1>1, <2>2, SameStore
  <2>4. ManifestReadable(IF intent = NoIntent THEN {} ELSE {intent.transaction})'
    BY <1>3, <2>3, Absent
  <2>. QED
    BY <1>1, <2>4, SameStore DEF JInv, JournalSurvivesCrash
<1>. QED
  BY <1>1, <1>3, <1>4, IdleSound DEF JInv, Typed

-----------------------------------------------------------------------------
(* A transaction starts: everything is read and decided.                     *)

\* The save that is started fits the journal it has read.
LEMMA SaveSound ==
    ASSUME JInv, CanTransact, StateReadable, NEW hot \in Maps, NEW versions \in Maps,
           Save(hot, versions), Ids(versions) \subseteq Ids(AllEntries(Loaded)),
           NEW next, next = NextGeneration(Loaded, hot, versions),
           SnapshotValid(next), Follows(Loaded, next),
           Enters(AllEntries(Loaded), AllEntries(next))
             \/ Revised(AllEntries(Loaded), AllEntries(next))
    PROVE  JInv'
<1>0. PICK e : e = [gen |-> next, parent |-> IF current = NoFile THEN NoFile ELSE Loaded]
  OBVIOUS
<1>1. /\ UNCHANGED <<store, intent>> /\ UNCHANGED store /\ intent' = intent
      /\ proc' = "runtime" /\ proc = "runtime" /\ day' = day
      /\ op' = [next |-> e, epoch |-> NoFile, at |-> FirstWrite(versions)]
  BY <1>0 DEF Save, CanTransact
<1>2. current' = current /\ previous' = previous
  BY <1>1 DEF store
<1>3. Found(Loaded) /\ Loaded \in Generations
  BY LoadedFound DEF Found
<1>4. /\ next \in Generations
      /\ Ids(versions) = {} => next.chain = Loaded.chain /\ next.recent = Loaded.recent
      /\ Ids(versions) # {} => next.chain = Append(Loaded.chain, Archived(next))
  BY <1>3, NextIs
<1>5. e \in Envelopes /\ e.gen = next
  BY <1>0, <1>3, <1>4 DEF Envelopes
<1>6. e.parent = (IF current = NoFile THEN NoFile ELSE current.gen)
  BY <1>0 DEF Loaded
<1>7. op' \in Operations /\ op' # NoOp /\ op'.next = e /\ op'.at = FirstWrite(versions)
  <2>1. FirstWrite(versions) \in Writes
    BY DEF FirstWrite, Writes
  <2>2. [next |-> e, epoch |-> NoFile, at |-> FirstWrite(versions)] \in Operations
    BY <1>5, <2>1 DEF Operations
  <2>. QED
    BY <1>1, <2>2, Absent
<1>8. SaveFits(e)'
  BY <1>2, <1>5, <1>6, <1>1, SameStore DEF SaveFits
<1>9. SaveStage(e)'
  <2>1. CASE Ids(versions) # {}
    <3>1. op'.at = "segment"
      BY <1>7, <2>1 DEF FirstWrite
    <3>2. current # NoFile
      <4>1. SUFFICES ASSUME current = NoFile PROVE FALSE
        OBVIOUS
      <4>2. Loaded = NoGeneration
        BY <4>1 DEF Loaded
      <4>. QED
        BY <2>1, <4>2, NothingYet, EmptyIs
    <3>3. e.gen.chain = Append(current.gen.chain, Archived(e.gen))
      BY <1>4, <1>5, <2>1, <3>2 DEF Loaded
    <3>. QED
      BY <1>2, <3>1, <3>2, <3>3 DEF SaveStage, Archiving
  <2>2. CASE Ids(versions) = {} /\ current # NoFile
    <3>1. op'.at = "previous"
      BY <1>7, <2>2 DEF FirstWrite
    <3>2. GenerationReadable(current.gen) /\ Loaded = current.gen
      BY <2>2 DEF StateReadable, EnvelopeReadable, Loaded
    <3>3. GenerationReadable(next)
      BY <1>4, <2>2, <3>2 DEF GenerationReadable, IndexPath
    <3>4. GenerationReadable(e.gen)'
      BY <1>1, <1>5, <3>3, SameStore
    <3>. QED
      BY <1>2, <2>2, <3>1, <3>4 DEF SaveStage, Archiving
  <2>3. CASE Ids(versions) = {} /\ current = NoFile
    <3>1. op'.at = "current"
      BY <1>7, <2>3 DEF FirstWrite
    <3>2. next.chain = <<>>
      BY <1>4, <2>3 DEF Loaded, NoGeneration
    <3>3. GenerationReadable(next)
      BY <3>2 DEF GenerationReadable
    <3>4. GenerationReadable(e.gen)'
      BY <1>1, <1>5, <3>3, SameStore
    <3>5. previous = NoFile
      BY <2>3 DEF StateReadable
    <3>. QED
      BY <1>2, <2>3, <3>1, <3>4, <3>5 DEF SaveStage, Archiving
  <2>. QED
    BY <2>1, <2>2, <2>3
<1>10. Saving' /\ Sealing'
  <2>1. op'.next = e /\ proc' = "runtime"
    BY <1>1, <1>7
  <2>2. Saving'
    BY <1>8, <1>9, <2>1 DEF Saving
  <2>. QED
    BY <2>1, <2>2 DEF Sealing
<1>11. Typed'
  BY <1>1, <1>7 DEF JInv, Typed, store
<1>12. JournalSurvivesCrash'
  BY <1>1, SurvivalKept
<1>13. (current # NoFile => Clean(AllEntries(current.gen)))'
  BY <1>2 DEF JInv
<1>. QED
  BY <1>1, <1>10, <1>11, <1>12, <1>13 DEF JInv

\* prepare.
LEMMA PrepareSound == ASSUME JInv, NEW id \in Orders, Prepare(id) PROVE JInv'
<1> DEFINE full == Cardinality(Ids(Loaded.hot)) >= MaxHot
           archive == IF full THEN FinalIds(Loaded.hot) ELSE {}
           kept == Only(Loaded.hot, Ids(Loaded.hot) \ archive)
           new == [day |-> day, status |-> "prepared", fills |-> {}]
           hot == [kept EXCEPT ![id] = new]
           versions == Only(Loaded.hot, archive)
           next == NextGeneration(Loaded, hot, versions)
<1>1. /\ CanTransact /\ Ready
      /\ Cardinality(Ids(AllEntries(Loaded))) + 1 <= MaxIdentities
      /\ Cardinality(Ids(kept)) < MaxHot
      /\ id \notin Ids(AllEntries(Loaded))
      /\ ~\E n \in DOMAIN Sealed :
            Sealed[n].source = EpochAccount /\ id \in Ids(Sealed[n].entries)
      /\ Save(hot, versions)
  BY DEF Prepare
<1>2. Found(Loaded) /\ StateReadable
  BY <1>1, LoadedFound DEF Ready
<1>3. archive \subseteq FinalIds(Loaded.hot)
  OBVIOUS
<1>4. Cardinality(Ids(Recent(Loaded, versions))) <= MaxRecent
  BY <1>1 DEF Save
<1>5. \A n \in DOMAIN Sealed :
        Sealed[n].source = EpochAccount => Sealed[n].entries[id] = NoEntry
  BY <1>1 DEF Ids
<1>6. Prepares(Loaded, id, archive, new, kept, versions, hot, next)
  <2>1. day \in Nat
    BY DEF JInv, Typed
  <2> HIDE DEF archive
  <2>. QED
    BY <1>1, <1>2, <1>3, <1>4, <1>5, <2>1 DEF Prepares
<1> HIDE DEF archive, kept, new, hot, next
<1>7. /\ hot \in Maps /\ versions \in Maps
      /\ SnapshotValid(next) /\ Follows(Loaded, next)
      /\ Enters(AllEntries(Loaded), AllEntries(next))
  BY <1>6, PrepareFits
<1>8. Ids(versions) \subseteq Ids(AllEntries(Loaded))
  <2>1. /\ Loaded.hot \in Maps
        /\ Ids(AllEntries(Loaded)) = Ids(Loaded.hot) \cup Ids(Archived(Loaded))
    BY <1>2, GenerationIs DEF Found
  <2>2. Ids(versions) = Ids(Loaded.hot) \cap archive
    BY <2>1, OnlyIs
  <2>. QED
    BY <2>1, <2>2
<1> HIDE DEF versions
<1>. QED
  BY <1>1, <1>2, <1>7, <1>8, SaveSound DEF next

\* A save that adds no identity.
LEMMA RevisalSound ==
    ASSUME JInv, CanTransact, StateReadable, NEW hot, NEW versions, Save(hot, versions),
           Revisal(Loaded, hot, versions, NextGeneration(Loaded, hot, versions))
    PROVE  JInv'
<1>1. /\ hot \in Maps /\ versions \in Maps
      /\ Ids(versions) \subseteq Ids(AllEntries(Loaded))
  BY DEF Revisal
<1>2. PICK next : next = NextGeneration(Loaded, hot, versions)
  OBVIOUS
<1>3. /\ SnapshotValid(next) /\ Follows(Loaded, next)
      /\ Revised(AllEntries(Loaded), AllEntries(next))
  BY <1>2, RevisalFits
<1>. QED
  BY <1>1, <1>2, <1>3, SaveSound

\* compact_terminal.
LEMMA CompactSound == ASSUME JInv, CompactTerminal PROVE JInv'
<1>1. PICK hot, versions : /\ hot = Only(Loaded.hot, Ids(Loaded.hot) \ FinalIds(Loaded.hot))
                           /\ versions = Only(Loaded.hot, FinalIds(Loaded.hot))
  OBVIOUS
<1>2. CanTransact /\ StateReadable /\ Save(hot, versions)
  BY <1>1 DEF CompactTerminal
<1>3. Cardinality(Ids(Recent(Loaded, versions))) <= MaxRecent
  BY <1>2 DEF Save
<1>4. Found(Loaded)
  BY <1>2, LoadedFound
<1>5. Revisal(Loaded, hot, versions, NextGeneration(Loaded, hot, versions))
  BY <1>1, <1>3, <1>4, CompactFits
<1>. QED
  BY <1>2, <1>5, RevisalSound

\* apply_updates.
LEMMA UpdateSound == ASSUME JInv, UpdateSome PROVE JInv'
<1>1. PICK ids \in SUBSET Ids(RuntimeEntries(Loaded)) \ {{}} :
        \E statuses \in [ids -> DOMAIN Successors], fills \in [ids -> SUBSET Lots] :
           Update(statuses, fills)
  BY DEF UpdateSome
<1>2. PICK statuses \in [ids -> DOMAIN Successors], fills \in [ids -> SUBSET Lots] :
        Update(statuses, fills)
  BY <1>1
<1> DEFINE known == RuntimeEntries(Loaded)
           revised == [id \in Orders |->
                         IF id \in DOMAIN statuses
                         THEN [known[id] EXCEPT !.status = statuses[id],
                                                !.fills = @ \cup fills[id]]
                         ELSE known[id]]
           hot == Only(revised, Ids(Loaded.hot))
           full == IF Cardinality(Ids(hot)) >= MaxHot THEN FinalIds(hot) ELSE {}
           archive == full \cup {id \in DOMAIN statuses :
                                   id \notin Ids(hot) /\ revised[id] # known[id]}
           kept == Only(hot, Ids(hot) \ archive)
           versions == Only(revised, archive)
<1>3. /\ DOMAIN statuses \subseteq Ids(known)
      /\ \A id \in DOMAIN statuses :
           /\ statuses[id] \in Successors[known[id].status]
           /\ statuses[id] = "aborted_before_send" => revised[id].fills = {}
      /\ Save(kept, versions)
  BY <1>2 DEF Update
<1>4. CanTransact /\ StateReadable
  BY DEF UpdateSome, Ready
<1>5. Found(Loaded)
  BY <1>4, LoadedFound
<1>6. \A id \in DOMAIN statuses : fills[id] \subseteq Lots
  OBVIOUS
<1>7. full \in {{}, FinalIds(hot)}
  OBVIOUS
<1>8. revised = [id \in Orders |->
                   IF id \in DOMAIN statuses
                   THEN UpdatedEntry(known[id], statuses[id], fills[id]) ELSE known[id]]
  BY DEF UpdatedEntry
<1>9. Cardinality(Ids(Recent(Loaded, versions))) <= MaxRecent
  BY <1>3 DEF Save
<1> HIDE DEF known, revised
<1>10. Updates(Loaded, statuses, fills, known, revised, hot, full)
  <2> HIDE DEF full
  <2>. QED
    BY <1>3, <1>5, <1>6, <1>7, <1>8 DEF Updates, known
<1> HIDE DEF hot, full
<1>11. Revisal(Loaded, kept, versions, NextGeneration(Loaded, kept, versions))
  BY <1>9, <1>10, UpdateFits
<1> HIDE DEF archive, kept, versions
<1>. QED
  BY <1>3, <1>4, <1>11, RevisalSound

\* A seal that starts, or starts again.
LEMMA SealStarts ==
    ASSUME JInv, UNCHANGED store, intent' = intent, day' = day, proc' = "seal",
           NEW e \in Epochs, NEW at \in Writes,
           op' = [next |-> NoFile, epoch |-> e, at |-> at], SealStage(e)'
    PROVE  JInv'
<1>1. op' \in Operations /\ op' # NoOp /\ op'.epoch = e /\ op'.at = at
  <2>1. [next |-> NoFile, epoch |-> e, at |-> at] \in Operations
    BY DEF Operations
  <2>. QED
    BY <2>1, Absent
<1>2. Saving' /\ Sealing'
  BY <1>1 DEF Saving, Sealing
<1>3. Typed'
  BY <1>1 DEF JInv, Typed, store
<1>4. JournalSurvivesCrash'
  BY SurvivalKept
<1>5. (current # NoFile => Clean(AllEntries(current.gen)))'
  BY DEF JInv, store
<1>. QED
  BY <1>2, <1>3, <1>4, <1>5 DEF JInv

\* seal_epoch for a new epoch.
LEMMA SealEpochSound == ASSUME JInv, SealEpoch PROVE JInv'
<1>1. PICK e : e = [transaction |-> intent.transaction, source |-> intent.source,
                    target |-> intent.target, day |-> day, entries |-> AllEntries(Loaded)]
  OBVIOUS
<1>2. /\ UNCHANGED store /\ intent' = intent /\ day' = day /\ proc' = "seal"
      /\ op' = [next |-> NoFile, epoch |-> e, at |-> "directory"]
      /\ intent # NoIntent /\ ~Pending /\ ~SealedBy(intent.transaction)
      /\ EpochAccount = intent.source /\ StateReadable
      /\ FinalIds(AllEntries(Loaded)) = Ids(AllEntries(Loaded))
  BY <1>1 DEF SealEpoch
<1>3. Loaded \in Generations
  BY <1>2, LoadedFound DEF Found
<1>4. AllEntries(Loaded) \in Maps
  BY <1>3, GenerationIs
<1>5. intent \in Intents /\ day \in Nat
  BY <1>2 DEF JInv, Typed
<1>6. e \in Epochs
  BY <1>1, <1>4, <1>5 DEF Epochs, Intents
<1>7. /\ e.transaction = intent.transaction /\ e.source = EpochAccount
      /\ e.entries = AllEntries(Loaded)
  BY <1>1, <1>2
<1>8. op'.at = "directory" /\ "directory" \in Writes
  BY <1>2 DEF Writes
<1>9. SealStage(e)'
  <2>1. "directory" \in Listing /\ "directory" \notin Cleaning
    BY DEF Listing, Cleaning
  <2>2. /\ ~Pending' /\ ~SealedBy(e.transaction)' /\ EpochAccount' = e.source
        /\ Loaded' = Loaded
    BY <1>2, <1>7, SameStore
  <2>. QED
    BY <1>2, <1>6, <1>7, <1>8, <2>1, <2>2 DEF SealStage
<1>. QED
  BY <1>2, <1>6, <1>8, <1>9, SealStarts

\* seal_epoch for an epoch already listed.
LEMMA ResumeSealSound == ASSUME JInv, ResumeSeal PROVE JInv'
<1>1. PICK e : e = Sealed[Len(Sealed)]
  OBVIOUS
<1>2. PICK at : at = IF Pending THEN "unlink current" ELSE "end"
  OBVIOUS
<1>3. /\ UNCHANGED store /\ intent' = intent /\ day' = day /\ proc' = "seal"
      /\ op' = [next |-> NoFile, epoch |-> e, at |-> at]
      /\ intent # NoIntent /\ SealedBy(intent.transaction)
      /\ e.transaction = intent.transaction
  BY <1>1, <1>2 DEF ResumeSeal
<1>4. e \in Epochs
  <2>1. manifest # NoFile
    BY <1>3 DEF SealedBy, Sealed
  <2>2. Sealed \in Seq(Epochs) /\ Sealed # <<>>
    BY <1>3, <2>1 DEF SealedBy, Sealed, JInv, Typed, Manifests
  <2>3. Len(Sealed) \in 1..Len(Sealed)
    BY <2>2, EmptySeq
  <2>. QED
    BY <1>1, <2>2, <2>3, ElementOfSeq
<1>5. SealStage(e)'
  <2>1. op'.at = at /\ at \in {"unlink current", "end"} /\ (at = "unlink current" <=> Pending)
    BY <1>2, <1>3
  <2>2. SealedBy(e.transaction)' /\ (Pending' <=> Pending)
    BY <1>3, SameStore
  <2>3. at \notin Listing /\ (at \in Cleaning <=> at = "unlink current")
    BY <2>1 DEF Listing, Cleaning
  <2>. QED
    BY <1>3, <1>4, <2>1, <2>2, <2>3 DEF SealStage
<1>6. at \in Writes
  BY <1>2 DEF Writes
<1>. QED
  BY <1>3, <1>4, <1>5, <1>6, SealStarts

\* When the command ends its epoch is listed and nothing of it is left.
LEMMA EndSealSound == ASSUME JInv, EndSeal PROVE JInv'
<1>1. /\ UNCHANGED store /\ proc' = "none" /\ op' = NoOp /\ intent' = NoIntent /\ day' = day
      /\ op # NoOp /\ op.at = "end"
  BY DEF EndSeal, Doing
<1>2. proc = "seal"
  BY <1>1 DEF JInv, Saving, SaveStage, Archiving
<1>3. SealStage(op.epoch)
  BY <1>2 DEF JInv, Sealing
<1>4. ~Pending /\ SealedBy(intent.transaction)
  BY <1>1, <1>3 DEF SealStage
<1>5. ManifestReadable({})
  <2>1. ManifestReadable({intent.transaction})
    BY <1>3 DEF JInv, JournalSurvivesCrash, SealStage
  <2>2. intent.transaction \in {Sealed[n].transaction : n \in DOMAIN Sealed}
    BY <1>4 DEF SealedBy
  <2>. QED
    BY <2>1, <2>2 DEF ManifestReadable
<1>6. JournalSurvivesCrash'
  <2>1. ManifestReadable(IF intent = NoIntent THEN {} ELSE {intent.transaction})'
    BY <1>1, <1>5, SameStore
  <2>. QED
    BY <1>1, <2>1, SameStore DEF JInv, JournalSurvivesCrash
<1>. QED
  BY <1>1, <1>6, IdleSound DEF JInv, Typed

-----------------------------------------------------------------------------
(* Write-once files.                                                         *)

\* A write of a save is the live process's, in a journal that is in order.
LEMMA InSave ==
    ASSUME JInv, op # NoOp, op.at \in Archiving \cup {"previous", "current"}
    PROVE  /\ proc = "runtime" /\ SaveFits(op.next) /\ SaveStage(op.next)
           /\ ~Pending /\ StateReadable
<1>1. op.at \notin Listing \cup Cleaning \cup {"end"}
  BY DEF Archiving, Listing, Cleaning
<1>2. proc = "runtime"
  BY <1>1 DEF JInv, Sealing, SealStage
<1>. QED
  BY <1>2 DEF JInv, Saving, JournalSurvivesCrash

\* The others are the seal's.
LEMMA InSeal ==
    ASSUME JInv, op # NoOp, op.at \in Listing \cup Cleaning \cup {"end"}
    PROVE  proc = "seal" /\ SealStage(op.epoch)
<1>1. op.at \notin Archiving \cup {"previous", "current"}
  BY DEF Archiving, Listing, Cleaning
<1>. QED
  BY <1>1 DEF JInv, Sealing, Saving, SaveStage

\* The transaction goes on to its next write.
LEMMA ThenIs ==
    ASSUME JInv, op # NoOp, NEW write \in Writes, Then(write)
    PROVE  /\ op' \in Operations /\ op' # NoOp /\ op'.at = write
           /\ op'.next = op.next /\ op'.epoch = op.epoch
<1>1. op \in Operations
  BY DEF JInv, Typed
<1>. QED
  BY <1>1, Absent DEF Then, Operations

\* One file is made, or finished, and it belongs to no sealed epoch.
Grows(path) ==
    /\ UNCHANGED <<current, previous, directories, manifest, manifestPrevious>>
    /\ DOMAIN files \subseteq DOMAIN files' /\ DOMAIN files' \subseteq DOMAIN files \cup {path}
    /\ \A p \in DOMAIN files \ {path} : files'[p] = files[p]
    /\ Whole(path) => Whole(path)'
    /\ \A n \in DOMAIN Sealed :
         path # <<"copy", Sealed[n].transaction>> /\ path # <<"seal", Sealed[n].transaction>>
    /\ current = NoFile => path[1] \notin {"segment", "index"}

\* Then everything that could be read still can.
LEMMA GrowsKeeps ==
    ASSUME NEW path, Grows(path)
    PROVE  /\ Sealed' = Sealed /\ (Pending' <=> Pending) /\ EpochAccount' = EpochAccount
           /\ Loaded' = Loaded /\ (StateReadable => StateReadable')
           /\ CurrentEntries' = CurrentEntries /\ SealedEntries' = SealedEntries
           /\ \A allowed : ManifestReadable(allowed)' <=> ManifestReadable(allowed)
           /\ \A n \in DOMAIN Sealed : EpochWhole(Sealed[n]) => EpochWhole(Sealed[n])'
           /\ \A txn : SealedBy(txn)' <=> SealedBy(txn)
           /\ \A p : Whole(p) => Whole(p)'
           /\ \A gen : GenerationReadable(gen) => GenerationReadable(gen)'
<1>1. /\ current' = current /\ previous' = previous /\ directories' = directories
      /\ manifest' = manifest /\ manifestPrevious' = manifestPrevious
  BY DEF Grows
<1>2. Sealed' = Sealed /\ (Pending' <=> Pending) /\ EpochAccount' = EpochAccount
      /\ Loaded' = Loaded
  BY <1>1 DEF Sealed, Pending, EpochAccount, Loaded
<1>3. \A p : Whole(p) => Whole(p)'
  <2> SUFFICES ASSUME NEW p, Whole(p) PROVE Whole(p)'
    OBVIOUS
  <2>1. CASE p = path
    BY <2>1 DEF Grows
  <2>2. CASE p # path
    BY <2>2 DEF Grows, Whole
  <2>. QED
    BY <2>1, <2>2
<1>4. \A gen : GenerationReadable(gen) => GenerationReadable(gen)'
  BY <1>3 DEF GenerationReadable
<1>5. \A e : EnvelopeReadable(e) => EnvelopeReadable(e)'
  BY <1>4 DEF EnvelopeReadable
<1>6. StateReadable => StateReadable'
  <2> SUFFICES ASSUME StateReadable PROVE StateReadable'
    OBVIOUS
  <2>1. CASE current = NoFile
    <3>1. previous = NoFile /\ \A p \in DOMAIN files : p[1] \notin {"segment", "index"}
      BY <2>1 DEF StateReadable
    <3>2. \A p \in DOMAIN files' : p[1] \notin {"segment", "index"}
      BY <2>1, <3>1 DEF Grows
    <3>. QED
      BY <1>1, <2>1, <3>1, <3>2 DEF StateReadable
  <2>2. CASE current # NoFile
    BY <1>1, <1>5, <2>2 DEF StateReadable
  <2>. QED
    BY <2>1, <2>2
<1>7. CurrentEntries' = CurrentEntries /\ SealedEntries' = SealedEntries
  BY <1>2 DEF CurrentEntries, SealedEntries
<1>8. \A txn : SealedBy(txn)' <=> SealedBy(txn)
  BY <1>2 DEF SealedBy
<1>9. \A allowed : ManifestReadable(allowed)' <=> ManifestReadable(allowed)
  BY <1>1, <1>2 DEF ManifestReadable
<1>10. ASSUME NEW n \in DOMAIN Sealed, EpochWhole(Sealed[n]) PROVE EpochWhole(Sealed[n])'
  <2>1. PICK e : e = Sealed[n]
    OBVIOUS
  <2>2. /\ <<"copy", e.transaction>> \in DOMAIN files
        /\ <<"seal", e.transaction>> \in DOMAIN files
        /\ <<"copy", e.transaction>> # path /\ <<"seal", e.transaction>> # path
    BY <1>10, <2>1 DEF EpochWhole, Whole, Grows
  <2>3. /\ files'[<<"copy", e.transaction>>] = files[<<"copy", e.transaction>>]
        /\ files'[<<"seal", e.transaction>>] = files[<<"seal", e.transaction>>]
    BY <2>2 DEF Grows
  <2>4. EpochWhole(e)'
    BY <1>3, <1>10, <2>1, <2>3 DEF EpochWhole
  <2>. QED
    BY <1>2, <2>1, <2>4
<1>. QED
  BY <1>2, <1>3, <1>4, <1>6, <1>7, <1>8, <1>9, <1>10

\* And it survives a crash.
LEMMA GrowsSurvives ==
    ASSUME JInv, NEW path, Grows(path), UNCHANGED <<proc, intent>>
    PROVE  JournalSurvivesCrash'
<1>1. /\ ManifestReadable(IF intent = NoIntent THEN {} ELSE {intent.transaction})
      /\ ~Pending => StateReadable
      /\ \A n \in DOMAIN Sealed : EpochWhole(Sealed[n])
      /\ (Pending \/ \E txn \in directories : ~SealedBy(txn)) => proc # "runtime"
  BY DEF JInv, JournalSurvivesCrash
<1>2. Sealed' = Sealed /\ directories' = directories /\ proc' = proc /\ intent' = intent
  BY GrowsKeeps DEF Grows
<1>3. \A n \in DOMAIN Sealed' : EpochWhole(Sealed[n])'
  BY <1>1, <1>2, GrowsKeeps
<1>. QED
  BY <1>1, <1>2, <1>3, GrowsKeeps DEF JournalSurvivesCrash

\* A file that is put where none is, or put as a whole.
LEMMA PutIs ==
    ASSUME NEW path, NEW content, NEW whole \in BOOLEAN, Put(path, content, whole),
           path \notin DOMAIN files \/ whole
    PROVE  /\ DOMAIN files' = DOMAIN files \cup {path}
           /\ \A p \in DOMAIN files \ {path} : files'[p] = files[p]
           /\ files'[path].content = content /\ files'[path].whole = whole
           /\ Whole(path) => Whole(path)'
BY DEF Put, Whole

\* What a step of a write-once file does, whatever the file: it is made in part, or it
\* is whole and says what was to be written.
MakesPart(path, content) ==
    /\ path \notin DOMAIN files /\ Put(path, content, FALSE)
Makes(path, content) ==
    \/ Whole(path) /\ files[path].content = content /\ UNCHANGED files
    \/ Put(path, content, TRUE)

\* A file that belongs to no epoch listed, and to no journal before its first save.
Own(path) ==
    /\ \A n \in DOMAIN Sealed :
         path # <<"copy", Sealed[n].transaction>> /\ path # <<"seal", Sealed[n].transaction>>
    /\ current = NoFile => path[1] \notin {"segment", "index"}

\* Either way the files grow.
LEMMA MakesGrows ==
    ASSUME NEW path, NEW content, Own(path), MakesPart(path, content) \/ Makes(path, content),
           UNCHANGED <<current, previous, directories, manifest, manifestPrevious>>
    PROVE  /\ Grows(path)
           /\ Makes(path, content) => Whole(path)' /\ files'[path].content = content
<1>1. CASE MakesPart(path, content)
  <2>1. /\ DOMAIN files' = DOMAIN files \cup {path}
        /\ \A p \in DOMAIN files \ {path} : files'[p] = files[p]
        /\ Whole(path) => Whole(path)'
    BY <1>1, PutIs DEF MakesPart
  <2>2. ~Makes(path, content)
    <3>1. ~Whole(path)
      BY <1>1 DEF MakesPart, Whole
    <3>2. files'[path].whole = FALSE
      BY <1>1, PutIs DEF MakesPart
    <3>3. ASSUME Put(path, content, TRUE) PROVE FALSE
      <4>1. files'[path].whole = TRUE
        BY <3>3, PutIs
      <4>. QED
        BY <3>2, <4>1
    <3>. QED
      BY <3>1, <3>3 DEF Makes
  <2>. QED
    BY <2>1, <2>2 DEF Grows, Own
<1>2. CASE Whole(path) /\ files[path].content = content /\ UNCHANGED files
  BY <1>2 DEF Grows, Own, Whole
<1>3. CASE Put(path, content, TRUE)
  <2>1. /\ DOMAIN files' = DOMAIN files \cup {path}
        /\ \A p \in DOMAIN files \ {path} : files'[p] = files[p]
        /\ files'[path].content = content /\ files'[path].whole = TRUE
    BY <1>3, PutIs
  <2>2. Whole(path)'
    BY <2>1 DEF Whole
  <2>. QED
    BY <2>1, <2>2 DEF Grows, Own
<1>. QED
  BY <1>1, <1>2, <1>3 DEF Makes

\* What stays of the invariant when a file is made.
LEMMA GrowsTyped ==
    ASSUME JInv, NEW path, Grows(path), UNCHANGED <<day, proc, intent>>, op # NoOp,
           NEW write \in Writes, Then(write)
    PROVE  /\ Typed' /\ (proc \in {"none", "runtime", "seal"} /\ (proc = "none" => op = NoOp))'
           /\ (current # NoFile => Clean(AllEntries(current.gen)))'
           /\ JournalSurvivesCrash'
<1>1. /\ current' = current /\ previous' = previous /\ manifest' = manifest
      /\ manifestPrevious' = manifestPrevious /\ day' = day /\ proc' = proc /\ intent' = intent
  BY DEF Grows
<1>2. op' \in Operations
  BY ThenIs
<1>3. Typed'
  BY <1>1, <1>2 DEF JInv, Typed
<1>4. proc # "none"
  BY DEF JInv
<1>. QED
  BY <1>1, <1>3, <1>4, GrowsSurvives DEF JInv

\* A save goes on with the same generation.
LEMMA SaveGoesOn ==
    ASSUME JInv, NEW path, Grows(path), UNCHANGED <<day, proc, intent>>, op # NoOp,
           op.at \in Archiving \cup {"previous", "current"}, NEW write \in Writes, Then(write),
           \A e \in {op.next} : SaveStage(e)'
    PROVE  JInv'
<1>1. proc = "runtime" /\ SaveFits(op.next)
  BY InSave
<1>2. PICK e : e = op.next
  OBVIOUS
<1>3. op'.next = e /\ op' # NoOp
  BY <1>2, ThenIs
<1>4. current' = current
  BY DEF Grows
<1>5. Loaded' = Loaded /\ Sealed' = Sealed /\ EpochAccount' = EpochAccount
  BY GrowsKeeps
<1>6. SaveFits(e)'
  BY <1>1, <1>2, <1>4, <1>5 DEF SaveFits, Enters
<1>7. Saving' /\ Sealing'
  BY <1>1, <1>2, <1>3, <1>6 DEF Saving, Sealing
<1>. QED
  BY <1>7, GrowsTyped DEF JInv

\* The chain of segments can be read once the last one is whole.
LEMMA ChainReadableNext ==
    ASSUME NEW old \in Generations, GenerationReadable(old)', NEW new \in Generations,
           new.chain = Append(old.chain, Archived(new)), SnapshotValid(new),
           Whole(SegmentPath(new.chain))', Whole(IndexPath(new))'
    PROVE  GenerationReadable(new)'
<1>1. old.chain \in Seq(Maps) /\ new.chain \in Seq(Maps) /\ Archived(new) \in Maps
  BY GenerationIs
<1>2. /\ Len(new.chain) = Len(old.chain) + 1 /\ Len(old.chain) \in Nat
      /\ \A i \in 1..Len(old.chain) : new.chain[i] = old.chain[i]
  BY <1>1, AppendProperties
<1>3. ASSUME NEW n \in DOMAIN new.chain PROVE Whole(SegmentPath(SubSeq(new.chain, 1, n)))'
  <2>1. n \in 1..Len(new.chain)
    BY <1>1, <1>3
  <2>2. CASE n = Len(new.chain)
    <3>1. SubSeq(new.chain, 1, n) = new.chain
      BY <1>1, <2>2, SubSeqFull
    <3>. QED
      BY <3>1
  <2>3. CASE n # Len(new.chain)
    <3>1. n \in 1..Len(old.chain) /\ n \in DOMAIN old.chain /\ old.chain # <<>>
      BY <1>1, <1>2, <2>1, <2>3
    <3>2. SubSeq(new.chain, 1, n) = SubSeq(old.chain, 1, n)
      BY <1>1, <1>2, <2>1, <3>1
    <3>. QED
      BY <3>1, <3>2 DEF GenerationReadable
  <2>. QED
    BY <2>2, <2>3
<1>. QED
  BY <1>3 DEF GenerationReadable

\* The files of a save: which, and after which step.
LEMMA FilePaths ==
    /\ Path("segment") = SegmentPath(op.next.gen.chain) /\ Path("index") = IndexPath(op.next.gen)
    /\ Path("copy") = <<"copy", op.epoch.transaction>>
    /\ Path("seal") = <<"seal", op.epoch.transaction>>
    /\ Content("copy") = [current |-> current, previous |-> previous]
    /\ Content("seal") = op.epoch
    /\ Content("segment") = Path("segment") /\ Content("index") = Path("index")
    /\ Rest["segment"] = "segment rest" /\ Rest["index"] = "index rest"
    /\ Rest["copy"] = "copy rest" /\ Rest["seal"] = "seal rest"
    /\ AfterFile["segment"] = "index" /\ AfterFile["index"] = "previous"
    /\ AfterFile["copy"] = "seal" /\ AfterFile["seal"] = "manifest previous"
BY DEF Path, Content, Rest, AfterFile

\* A step of a write-once file, by what it does.
FileStep(kind, first, rest, after) ==
    /\ op # NoOp /\ UNCHANGED <<current, previous, directories, manifest, manifestPrevious>>
    /\ UNCHANGED <<day, proc, intent>>
    /\ \/ op.at = first /\ MakesPart(Path(kind), Content(kind)) /\ Then(rest)
       \/ op.at \in {first, rest} /\ Makes(Path(kind), Content(kind)) /\ Then(after)

\* The steps of the model are such steps.
LEMMA FileStepIs ==
    ASSUME NEW kind \in {"segment", "index", "copy", "seal"},
           CreateImmutable(kind) \/ FinishImmutable(kind)
    PROVE  FileStep(kind, kind, Rest[kind], AfterFile[kind])
<1>1. CASE CreateImmutable(kind)
  BY <1>1 DEF CreateImmutable, FileStep, Doing, MakesPart, Makes
<1>2. CASE FinishImmutable(kind)
  BY <1>2 DEF FinishImmutable, FileStep, Doing, MakesPart, Makes
<1>. QED
  BY <1>1, <1>2

\* Segments and indexes are no epoch's.
LEMMA SaveOwns ==
    ASSUME JInv, current # NoFile
    PROVE  Own(Path("segment")) /\ Own(Path("index"))
<1>1. \A t : SegmentPath(op.next.gen.chain) # <<"copy", t>>
             /\ SegmentPath(op.next.gen.chain) # <<"seal", t>>
             /\ IndexPath(op.next.gen) # <<"copy", t>> /\ IndexPath(op.next.gen) # <<"seal", t>>
  BY DEF SegmentPath, IndexPath
<1>. QED
  BY <1>1, FilePaths DEF Own

\* A segment.
LEMMA SegmentSound ==
    ASSUME JInv, CreateImmutable("segment") \/ FinishImmutable("segment")
    PROVE  JInv'
<1>1. PICK e : e = op.next
  OBVIOUS
<1>2. PICK path : path = SegmentPath(e.gen.chain)
  OBVIOUS
<1>3. /\ op # NoOp /\ op.at \in {"segment", "segment rest"}
      /\ UNCHANGED <<current, previous, directories, manifest, manifestPrevious>>
      /\ UNCHANGED <<day, proc, intent>>
      /\ \/ MakesPart(path, Content("segment")) /\ Then("segment rest")
         \/ Makes(path, Content("segment")) /\ Then("index")
  BY <1>1, <1>2, FileStepIs, FilePaths DEF FileStep
<1>4. op.at \in Archiving /\ op.at \in Archiving \cup {"previous", "current"}
  BY <1>3 DEF Archiving
<1>5. current # NoFile /\ e.gen.chain = Append(current.gen.chain, Archived(e.gen))
  BY <1>1, <1>3, <1>4, InSave DEF SaveStage
<1>6. Own(path)
  BY <1>1, <1>2, <1>5, SaveOwns, FilePaths
<1>7. /\ Grows(path)
      /\ Makes(path, Content("segment")) => Whole(path)'
  BY <1>3, <1>6, MakesGrows
<1>8. {"segment rest", "index"} \subseteq Archiving /\ {"segment rest", "index"} \subseteq Writes
  BY DEF Archiving, Writes
<1>9. PICK write \in {"segment rest", "index"} :
        Then(write) /\ (write = "index" => Whole(path)')
  BY <1>3, <1>7
<1>10. SaveStage(e)'
  <2>1. op'.at = write
    BY <1>3, <1>8, <1>9, ThenIs
  <2>2. current' = current
    BY <1>3
  <2>. QED
    BY <1>2, <1>5, <1>8, <1>9, <2>1, <2>2 DEF SaveStage, Archiving
<1>. QED
  BY <1>1, <1>3, <1>4, <1>7, <1>8, <1>9, <1>10, SaveGoesOn

\* An index.
LEMMA IndexSound ==
    ASSUME JInv, CreateImmutable("index") \/ FinishImmutable("index")
    PROVE  JInv'
<1>1. PICK e : e = op.next
  OBVIOUS
<1>2. PICK path : path = IndexPath(e.gen)
  OBVIOUS
<1>3. /\ op # NoOp /\ op.at \in {"index", "index rest"}
      /\ UNCHANGED <<current, previous, directories, manifest, manifestPrevious>>
      /\ UNCHANGED <<day, proc, intent>>
      /\ \/ MakesPart(path, Content("index")) /\ Then("index rest")
         \/ Makes(path, Content("index")) /\ Then("previous")
  BY <1>1, <1>2, FileStepIs, FilePaths DEF FileStep
<1>4. op.at \in Archiving /\ op.at \in Archiving \cup {"previous", "current"}
  BY <1>3 DEF Archiving
<1>5. /\ current # NoFile /\ e.gen.chain = Append(current.gen.chain, Archived(e.gen))
      /\ Whole(SegmentPath(e.gen.chain)) /\ StateReadable
      /\ e \in Envelopes /\ SnapshotValid(e.gen)
  BY <1>1, <1>3, <1>4, InSave DEF SaveStage, SaveFits
<1>6. Own(path)
  BY <1>1, <1>2, <1>5, SaveOwns, FilePaths
<1>7. /\ Grows(path)
      /\ Makes(path, Content("index")) => Whole(path)'
  BY <1>3, <1>6, MakesGrows
<1>8. "index rest" \in Archiving /\ {"index rest", "previous"} \subseteq Writes
  BY DEF Archiving, Writes
<1>9. PICK write \in {"index rest", "previous"} :
        Then(write) /\ (write = "previous" => Whole(path)')
  BY <1>3, <1>7
<1>10. SaveStage(e)'
  <2>1. op'.at = write
    BY <1>3, <1>8, <1>9, ThenIs
  <2>2. current' = current
    BY <1>3
  <2>3. Whole(SegmentPath(e.gen.chain))'
    BY <1>5, <1>7, GrowsKeeps
  <2>4. CASE write = "index rest"
    BY <1>5, <1>8, <2>1, <2>2, <2>3, <2>4 DEF SaveStage
  <2>5. CASE write = "previous"
    <3>1. PICK old : old = current.gen
      OBVIOUS
    <3>2. old \in Generations /\ e.gen \in Generations
      BY <1>5, <3>1 DEF JInv, Typed, Envelopes
    <3>3. GenerationReadable(old)
      BY <1>5, <3>1 DEF StateReadable, EnvelopeReadable
    <3>4. GenerationReadable(old)'
      BY <1>7, <3>3, GrowsKeeps
    <3>5. Whole(IndexPath(e.gen))'
      BY <1>2, <1>9, <2>5
    <3>6. GenerationReadable(e.gen)'
      BY <1>5, <2>3, <3>1, <3>2, <3>4, <3>5, ChainReadableNext
    <3>. QED
      BY <1>5, <2>1, <2>2, <2>5, <3>6 DEF SaveStage, Archiving
  <2>. QED
    BY <2>4, <2>5
<1>. QED
  BY <1>1, <1>3, <1>4, <1>7, <1>8, <1>9, <1>10, SaveGoesOn

\* A seal that has not listed its epoch goes on to the next file.
LEMMA SealGoesOn ==
    ASSUME JInv, NEW path, Grows(path), UNCHANGED <<day, proc, intent>>, op # NoOp,
           op.at \in Listing \ {"directory"}, NEW write \in Listing \ {"directory", "manifest"},
           Then(write),
           \A e \in {op.epoch} :
             /\ write \in {"seal", "seal rest", "manifest previous"} =>
                  /\ Whole(<<"copy", e.transaction>>)'
                  /\ files'[<<"copy", e.transaction>>].content.current = current
             /\ write = "manifest previous" =>
                  /\ Whole(<<"seal", e.transaction>>)'
                  /\ files'[<<"seal", e.transaction>>].content = e
    PROVE  JInv'
<1>1. proc = "seal" /\ SealStage(op.epoch)
  BY InSeal
<1>2. PICK e : e = op.epoch
  OBVIOUS
<1>3. write \in Writes /\ write \notin Cleaning /\ write # "end" /\ write \in Listing
  BY DEF Listing, Writes, Cleaning
<1>4. op'.epoch = e /\ op' # NoOp /\ op'.at = write
  BY <1>2, <1>3, ThenIs
<1>5. /\ current' = current /\ directories' = directories /\ intent' = intent /\ proc' = proc
  BY DEF Grows
<1>6. /\ Loaded' = Loaded /\ (Pending' <=> Pending) /\ EpochAccount' = EpochAccount
      /\ (SealedBy(e.transaction)' <=> SealedBy(e.transaction))
  BY GrowsKeeps
<1>7. SealStage(e)'
  <2>1. /\ e \in Epochs /\ intent # NoIntent /\ e.transaction = intent.transaction
        /\ ~Pending /\ ~SealedBy(e.transaction) /\ e.source = EpochAccount
        /\ e.entries = AllEntries(Loaded) /\ FinalIds(e.entries) = Ids(e.entries)
        /\ e.transaction \in directories
    BY <1>1, <1>2 DEF SealStage
  <2>2. write \notin {"ready", "manifest", "unlink indexes", "ready previous"}
    BY <1>3 DEF Cleaning
  <2>. QED
    BY <1>2, <1>3, <1>4, <1>5, <1>6, <2>1, <2>2 DEF SealStage
<1>8. Saving' /\ Sealing'
  BY <1>1, <1>4, <1>5, <1>7 DEF Saving, Sealing
<1>. QED
  BY <1>3, <1>8, GrowsTyped DEF JInv

\* The files of an epoch that is not listed are of no epoch listed.
LEMMA SealOwns ==
    ASSUME NEW e, ~SealedBy(e.transaction)
    PROVE  Own(<<"copy", e.transaction>>) /\ Own(<<"seal", e.transaction>>)
<1>1. \A n \in DOMAIN Sealed : Sealed[n].transaction # e.transaction
  BY DEF SealedBy
<1>. QED
  BY <1>1 DEF Own

\* The copy of the journal.
LEMMA CopySound ==
    ASSUME JInv, CreateImmutable("copy") \/ FinishImmutable("copy")
    PROVE  JInv'
<1>1. PICK e : e = op.epoch
  OBVIOUS
<1>2. PICK path : path = <<"copy", e.transaction>>
  OBVIOUS
<1>3. /\ op # NoOp /\ op.at \in {"copy", "copy rest"}
      /\ UNCHANGED <<current, previous, directories, manifest, manifestPrevious>>
      /\ UNCHANGED <<day, proc, intent>>
      /\ \/ MakesPart(path, Content("copy")) /\ Then("copy rest")
         \/ Makes(path, Content("copy")) /\ Then("seal")
  BY <1>1, <1>2, FileStepIs, FilePaths DEF FileStep
<1>4. op.at \in Listing \ {"directory"} /\ op.at \in Listing \cup Cleaning \cup {"end"}
  BY <1>3 DEF Listing
<1>5. ~SealedBy(e.transaction)
  BY <1>1, <1>3, <1>4, InSeal DEF SealStage
<1>6. Own(path)
  BY <1>2, <1>5, SealOwns
<1>7. /\ Grows(path)
      /\ Makes(path, Content("copy")) => Whole(path)' /\ files'[path].content.current = current
  <2>0. Content("copy") = [current |-> current, previous |-> previous]
    BY FilePaths
  <2>1. Content("copy").current = current
    BY <2>0
  <2>. QED
    BY <1>3, <1>6, <2>1, MakesGrows
<1>8. PICK write \in {"copy rest", "seal"} :
        /\ Then(write)
        /\ write = "seal" => Whole(path)' /\ files'[path].content.current = current
  BY <1>3, <1>7
<1>9. write \in Listing \ {"directory", "manifest"}
  BY <1>8 DEF Listing
<1>. QED
  BY <1>1, <1>2, <1>3, <1>4, <1>7, <1>8, <1>9, SealGoesOn

\* The seal itself, which names what it seals.
LEMMA SealFileSound ==
    ASSUME JInv, CreateImmutable("seal") \/ FinishImmutable("seal")
    PROVE  JInv'
<1>1. PICK e : e = op.epoch
  OBVIOUS
<1>2. PICK path, copy : path = <<"seal", e.transaction>> /\ copy = <<"copy", e.transaction>>
  OBVIOUS
<1>3. /\ op # NoOp /\ op.at \in {"seal", "seal rest"}
      /\ UNCHANGED <<current, previous, directories, manifest, manifestPrevious>>
      /\ UNCHANGED <<day, proc, intent>>
      /\ \/ MakesPart(path, Content("seal")) /\ Then("seal rest")
         \/ Makes(path, Content("seal")) /\ Then("manifest previous")
  BY <1>1, <1>2, FileStepIs, FilePaths DEF FileStep
<1>4. op.at \in Listing \ {"directory"} /\ op.at \in Listing \cup Cleaning \cup {"end"}
  BY <1>3 DEF Listing
<1>5. /\ ~SealedBy(e.transaction)
      /\ Whole(copy) /\ files[copy].content.current = current
  BY <1>1, <1>2, <1>3, <1>4, InSeal DEF SealStage
<1>6. Own(path)
  BY <1>2, <1>5, SealOwns
<1>7. /\ Grows(path)
      /\ Makes(path, Content("seal")) => Whole(path)' /\ files'[path].content = e
  BY <1>1, <1>3, <1>6, FilePaths, MakesGrows
<1>8. Whole(copy)' /\ files'[copy].content.current = current
  <2>1. copy # path
    BY <1>2
  <2>2. copy \in DOMAIN files
    BY <1>5 DEF Whole
  <2>3. files'[copy] = files[copy]
    BY <1>7, <2>1, <2>2 DEF Grows
  <2>. QED
    BY <1>5, <1>7, <2>3, GrowsKeeps
<1>9. PICK write \in {"seal rest", "manifest previous"} :
        /\ Then(write)
        /\ write = "manifest previous" => Whole(path)' /\ files'[path].content = e
  BY <1>3, <1>7
<1>10. write \in Listing \ {"directory", "manifest"}
  BY <1>9 DEF Listing
<1>. QED
  BY <1>1, <1>2, <1>3, <1>4, <1>7, <1>8, <1>9, <1>10, SealGoesOn

-----------------------------------------------------------------------------
(* The files that are replaced.                                              *)

\* The previous file becomes a copy of the current one.
LEMMA ReplacePreviousSound == ASSUME JInv, ReplacePrevious PROVE JInv'
<1>1. /\ op # NoOp /\ op.at = "previous" /\ previous' = current /\ Then("current")
      /\ current' = current /\ files' = files /\ directories' = directories
      /\ manifest' = manifest /\ manifestPrevious' = manifestPrevious
      /\ day' = day /\ proc' = proc /\ intent' = intent
  BY DEF ReplacePrevious, Doing
<1>2. PICK e : e = op.next
  OBVIOUS
<1>3. /\ proc = "runtime" /\ SaveFits(e) /\ SaveStage(e) /\ ~Pending /\ StateReadable
      /\ current # NoFile /\ GenerationReadable(e.gen)
  <2>1. op.at \in Archiving \cup {"previous", "current"}
    BY <1>1
  <2>. QED
    BY <1>1, <1>2, <2>1, InSave DEF SaveStage
<1>4. "current" \in Writes
  BY DEF Writes
<1>5. op' \in Operations /\ op' # NoOp /\ op'.at = "current" /\ op'.next = e
  BY <1>1, <1>2, <1>4, ThenIs
<1>6. /\ Sealed' = Sealed /\ (Pending' <=> Pending) /\ EpochAccount' = EpochAccount
      /\ Loaded' = Loaded /\ \A path : Whole(path)' <=> Whole(path)
  BY <1>1 DEF Sealed, Pending, EpochAccount, Loaded, Whole
<1>7. \A gen : GenerationReadable(gen)' <=> GenerationReadable(gen)
  BY <1>6 DEF GenerationReadable
<1>8. \A env : EnvelopeReadable(env)' <=> EnvelopeReadable(env)
  BY <1>7 DEF EnvelopeReadable
<1>9. StateReadable'
  <2>1. EnvelopeReadable(current)
    BY <1>3 DEF StateReadable
  <2>2. EnvelopeReadable(current)' /\ EnvelopeReadable(previous)'
    BY <1>1, <1>8, <2>1
  <2>. QED
    BY <1>1, <1>3, <2>2 DEF StateReadable
<1>10. JournalSurvivesCrash'
  <2>1. /\ ManifestReadable(IF intent = NoIntent THEN {} ELSE {intent.transaction})
        /\ \A n \in DOMAIN Sealed : EpochWhole(Sealed[n])
        /\ (Pending \/ \E txn \in directories : ~SealedBy(txn)) => proc # "runtime"
    BY DEF JInv, JournalSurvivesCrash
  <2>2. \A allowed : ManifestReadable(allowed)' <=> ManifestReadable(allowed)
    BY <1>1, <1>6 DEF ManifestReadable
  <2>3. \A epoch : EpochWhole(epoch)' <=> EpochWhole(epoch)
    BY <1>1, <1>6 DEF EpochWhole
  <2>4. \A txn : SealedBy(txn)' <=> SealedBy(txn)
    BY <1>6 DEF SealedBy
  <2>. QED
    BY <1>1, <1>6, <1>9, <2>1, <2>2, <2>3, <2>4 DEF JournalSurvivesCrash
<1>11. SaveFits(e)'
  BY <1>1, <1>3, <1>6 DEF SaveFits, Enters
<1>12. SaveStage(e)'
  BY <1>1, <1>3, <1>5, <1>7 DEF SaveStage, Archiving
<1>13. Saving' /\ Sealing'
  BY <1>1, <1>3, <1>5, <1>11, <1>12 DEF Saving, Sealing
<1>14. Typed'
  BY <1>1, <1>5 DEF JInv, Typed
<1>15. (current # NoFile => Clean(AllEntries(current.gen)))'
  BY <1>1 DEF JInv
<1>. QED
  BY <1>1, <1>3, <1>10, <1>13, <1>14, <1>15 DEF JInv

\* What is recorded is clean when what is read was.
LEMMA RecordedClean ==
    ASSUME NEW before, NEW after, before \in Maps, Clean(before),
           Enters(before, after) \/ Revised(before, after)
    PROVE  Clean(after)
<1>1. CASE Enters(before, after)
  <2>1. PICK id \in Orders :
          /\ after[id].status = "prepared"
          /\ \A other \in Orders \ {id} : after[other] = before[other]
    BY <1>1 DEF Enters
  <2>. QED
    BY <2>1 DEF Clean, Ids
<1>2. CASE Revised(before, after)
  BY <1>2 DEF Revised
<1>. QED
  BY <1>1, <1>2

\* The new generation takes the place of the one read, which is now the previous.
LEMMA ReplaceCurrentSound == ASSUME JInv, ReplaceCurrent PROVE JInv'
<1>1. /\ op # NoOp /\ op.at = "current" /\ current' = op.next /\ op' = NoOp
      /\ previous' = previous /\ files' = files /\ directories' = directories
      /\ manifest' = manifest /\ manifestPrevious' = manifestPrevious
      /\ day' = day /\ proc' = proc /\ intent' = intent
  BY DEF ReplaceCurrent, Doing
<1>2. PICK e : e = op.next
  OBVIOUS
<1>3. /\ proc = "runtime" /\ SaveFits(e) /\ ~Pending /\ StateReadable
      /\ GenerationReadable(e.gen) /\ previous = current
  <2>1. op.at \in Archiving \cup {"previous", "current"}
    BY <1>1
  <2>. QED
    BY <1>1, <1>2, <2>1, InSave DEF SaveStage
<1>4. /\ e \in Envelopes /\ e # NoFile /\ current' = e
      /\ e.parent = (IF current = NoFile THEN NoFile ELSE current.gen)
      /\ Follows(Loaded, e.gen)
      /\ Enters(AllEntries(Loaded), AllEntries(e.gen))
           \/ Revised(AllEntries(Loaded), AllEntries(e.gen))
  BY <1>1, <1>2, <1>3, Absent DEF SaveFits
<1>5. /\ Sealed' = Sealed /\ (Pending' <=> Pending) /\ EpochAccount' = EpochAccount
      /\ \A path : Whole(path)' <=> Whole(path)
  BY <1>1 DEF Sealed, Pending, EpochAccount, Whole
<1>6. \A gen : GenerationReadable(gen)' <=> GenerationReadable(gen)
  BY <1>5 DEF GenerationReadable
<1>7. \A env : EnvelopeReadable(env)' <=> EnvelopeReadable(env)
  BY <1>6 DEF EnvelopeReadable
<1>8. EnvelopeReadable(e)'
  <2>1. CASE current = NoFile
    BY <1>3, <1>4, <1>6, <2>1 DEF EnvelopeReadable
  <2>2. CASE current # NoFile
    <3>1. GenerationReadable(current.gen) /\ Loaded = current.gen
      BY <2>2, <1>3 DEF StateReadable, EnvelopeReadable, Loaded
    <3>2. e.parent = Loaded /\ GenerationReadable(e.parent)
      BY <1>4, <2>2, <3>1
    <3>3. Follows(e.parent, e.gen)
      BY <1>4, <3>2
    <3>. QED
      BY <1>3, <1>6, <3>2, <3>3 DEF EnvelopeReadable
  <2>. QED
    BY <2>1, <2>2
<1>9. StateReadable'
  <2>1. CASE current = NoFile
    <3>1. Loaded = NoGeneration
      BY <2>1 DEF Loaded
    <3>2. e.gen.sequence = 1
      BY <1>4, <3>1 DEF Follows, NoGeneration
    <3>. QED
      BY <1>1, <1>3, <1>4, <1>8, <2>1, <3>2 DEF StateReadable
  <2>2. CASE current # NoFile
    <3>1. EnvelopeReadable(previous)'
      BY <1>1, <1>3, <1>7, <2>2 DEF StateReadable
    <3>2. e.parent = previous.gen /\ previous' = previous /\ previous # NoFile
      BY <1>1, <1>3, <1>4, <2>2
    <3>. QED
      BY <1>4, <1>8, <3>1, <3>2 DEF StateReadable
  <2>. QED
    BY <2>1, <2>2
<1>10. JournalSurvivesCrash'
  <2>1. /\ ManifestReadable(IF intent = NoIntent THEN {} ELSE {intent.transaction})
        /\ \A n \in DOMAIN Sealed : EpochWhole(Sealed[n])
        /\ (Pending \/ \E txn \in directories : ~SealedBy(txn)) => proc # "runtime"
    BY DEF JInv, JournalSurvivesCrash
  <2>2. \A allowed : ManifestReadable(allowed)' <=> ManifestReadable(allowed)
    BY <1>1, <1>5 DEF ManifestReadable
  <2>3. \A epoch : EpochWhole(epoch)' <=> EpochWhole(epoch)
    BY <1>1, <1>5 DEF EpochWhole
  <2>4. \A txn : SealedBy(txn)' <=> SealedBy(txn)
    BY <1>5 DEF SealedBy
  <2>. QED
    BY <1>1, <1>5, <1>9, <2>1, <2>2, <2>3, <2>4 DEF JournalSurvivesCrash
<1>11. Clean(AllEntries(e.gen))
  <2>1. Found(Loaded)
    BY <1>3, LoadedFound
  <2>2. AllEntries(Loaded) \in Maps /\ Clean(AllEntries(Loaded))
    BY <2>1, GenerationIs DEF Found
  <2>. QED
    BY <1>4, <2>2, RecordedClean
<1>12. (current # NoFile => Clean(AllEntries(current.gen)))'
  BY <1>4, <1>11
<1>13. Saving' /\ Sealing'
  BY <1>1, <1>3 DEF Saving, Sealing
<1>14. Typed'
  BY <1>1, <1>4 DEF JInv, Typed
<1>. QED
  BY <1>1, <1>3, <1>10, <1>12, <1>13, <1>14 DEF JInv

-----------------------------------------------------------------------------
(* Listing an epoch.                                                         *)

\* A write of the seal, with what it needs to go on.
LEMMA SealWrite ==
    ASSUME JInv, op # NoOp, op.at \in Listing \cup Cleaning, NEW write \in Writes, Then(write),
           UNCHANGED <<day, proc, intent>>,
           current' \in Envelopes \cup {NoFile}, previous' \in Envelopes \cup {NoFile},
           manifest' \in Manifests \cup {NoFile}, manifestPrevious' \in Manifests \cup {NoFile},
           current' \in {current, NoFile},
           \A e \in {op.epoch} : SealStage(e)', JournalSurvivesCrash'
    PROVE  JInv'
<1>1. op.at \in Listing \cup Cleaning \cup {"end"}
  OBVIOUS
<1>2. proc = "seal"
  BY <1>1, InSeal
<1>3. op' \in Operations /\ op' # NoOp /\ op'.epoch = op.epoch
  BY ThenIs
<1>4. Saving' /\ Sealing'
  BY <1>2, <1>3 DEF Saving, Sealing
<1>5. Typed'
  BY <1>3 DEF JInv, Typed
<1>6. (current # NoFile => Clean(AllEntries(current.gen)))'
  BY DEF JInv
<1>. QED
  BY <1>2, <1>4, <1>5, <1>6 DEF JInv

\* With the journal's files as they are.
LEMMA SameJournal ==
    ASSUME UNCHANGED <<current, previous, files>>
    PROVE  /\ Loaded' = Loaded /\ (StateReadable' <=> StateReadable)
           /\ \A path : Whole(path)' <=> Whole(path)
           /\ \A e : EpochWhole(e)' <=> EpochWhole(e)
           /\ \A kind : NoPath(kind)' <=> NoPath(kind)
<1>1. \A path : Whole(path)' <=> Whole(path)
  BY DEF Whole
<1>2. \A gen : GenerationReadable(gen)' <=> GenerationReadable(gen)
  BY <1>1 DEF GenerationReadable
<1>3. \A e : EnvelopeReadable(e)' <=> EnvelopeReadable(e)
  BY <1>2 DEF EnvelopeReadable
<1>4. StateReadable' <=> StateReadable
  BY <1>3 DEF StateReadable
<1>. QED
  BY <1>1, <1>4 DEF Loaded, EpochWhole, NoPath

\* The epoch's directory.
LEMMA MakeDirectorySound == ASSUME JInv, MakeDirectory PROVE JInv'
<1>1. /\ op # NoOp /\ op.at = "directory" /\ Then("copy")
      /\ directories' = directories \cup {op.epoch.transaction}
      /\ UNCHANGED <<current, previous, files>> /\ UNCHANGED <<day, proc, intent>>
      /\ manifest' = manifest /\ manifestPrevious' = manifestPrevious
  BY DEF MakeDirectory, Doing
<1>2. PICK e : e = op.epoch
  OBVIOUS
<1>3. op.at \in Listing /\ op.at \notin Cleaning
  BY <1>1 DEF Listing, Cleaning
<1>4. proc = "seal" /\ SealStage(e)
  BY <1>1, <1>2, <1>3, InSeal
<1>5. /\ e \in Epochs /\ intent # NoIntent /\ e.transaction = intent.transaction
      /\ ~Pending /\ ~SealedBy(e.transaction) /\ e.source = EpochAccount
      /\ e.entries = AllEntries(Loaded) /\ FinalIds(e.entries) = Ids(e.entries)
  BY <1>1, <1>3, <1>4 DEF SealStage
<1>6. "copy" \in Writes /\ "copy" \in Listing /\ "copy" \notin Cleaning
  BY DEF Writes, Listing, Cleaning
<1>7. op'.at = "copy"
  BY <1>1, <1>6, ThenIs
<1>8. /\ Sealed' = Sealed /\ (Pending' <=> Pending) /\ EpochAccount' = EpochAccount
      /\ (SealedBy(e.transaction)' <=> SealedBy(e.transaction))
  BY <1>1 DEF Sealed, Pending, EpochAccount, SealedBy
<1>9. SealStage(e)'
  BY <1>1, <1>2, <1>5, <1>6, <1>7, <1>8, SameJournal DEF SealStage
<1>10. JournalSurvivesCrash'
  <2>1. ManifestReadable({intent.transaction}) /\ \A n \in DOMAIN Sealed : EpochWhole(Sealed[n])
    BY <1>5 DEF JInv, JournalSurvivesCrash
  <2>2. StateReadable
    BY <1>5 DEF JInv, JournalSurvivesCrash
  <2>3. ManifestReadable({intent.transaction})'
    BY <1>1, <1>2, <1>5, <1>8, <2>1 DEF ManifestReadable
  <2>. QED
    BY <1>1, <1>4, <1>5, <1>8, <2>1, <2>2, <2>3, SameJournal DEF JournalSurvivesCrash
<1>11. \A x \in {op.epoch} : SealStage(x)'
  BY <1>2, <1>9
<1>. QED
  BY <1>1, <1>3, <1>6, <1>10, <1>11, SealWrite DEF JInv, Typed

\* The manifest is copied, before it is replaced.
LEMMA ManifestPreviousSound == ASSUME JInv, ReplaceManifestPrevious PROVE JInv'
<1>1. PICK write \in {"manifest", "ready"} :
         /\ Then(write)
         /\ op.at = (IF write = "manifest" THEN "manifest previous" ELSE "ready previous")
  BY DEF ReplaceManifestPrevious, Doing
<1>2. /\ op # NoOp /\ manifestPrevious' = manifest /\ manifest' = manifest
      /\ UNCHANGED <<current, previous, files>> /\ UNCHANGED <<day, proc, intent>>
      /\ directories' = directories
  BY DEF ReplaceManifestPrevious, Doing
<1>3. PICK e : e = op.epoch
  OBVIOUS
<1>4. op.at \in Listing \cup Cleaning
  BY <1>1 DEF Listing, Cleaning
<1>5. proc = "seal" /\ SealStage(e)
  BY <1>2, <1>3, <1>4, InSeal
<1>6. /\ Sealed' = Sealed /\ (Pending' <=> Pending) /\ EpochAccount' = EpochAccount
      /\ (SealedBy(e.transaction)' <=> SealedBy(e.transaction))
  BY <1>2 DEF Sealed, Pending, EpochAccount, SealedBy
<1>7. write \in Writes
  BY <1>1 DEF Writes
<1>8. op'.at = write
  BY <1>1, <1>2, <1>7, ThenIs
<1>9. SealStage(e)'
  <2>1. CASE write = "manifest"
    <3>1. /\ e \in Epochs /\ intent # NoIntent /\ e.transaction = intent.transaction
          /\ ~Pending /\ ~SealedBy(e.transaction) /\ e.source = EpochAccount
          /\ e.entries = AllEntries(Loaded) /\ FinalIds(e.entries) = Ids(e.entries)
          /\ e.transaction \in directories
          /\ Whole(<<"copy", e.transaction>>) /\ Whole(<<"seal", e.transaction>>)
          /\ files[<<"copy", e.transaction>>].content.current = current
          /\ files[<<"seal", e.transaction>>].content = e
      BY <1>1, <1>5, <2>1 DEF SealStage, Listing
    <3>2. write \in Listing /\ write \notin Cleaning
      BY <2>1 DEF Listing, Cleaning
    <3>. QED
      BY <1>2, <1>6, <1>8, <2>1, <3>1, <3>2, SameJournal DEF SealStage
  <2>2. CASE write = "ready"
    <3>1. /\ e \in Epochs /\ intent # NoIntent /\ e.transaction = intent.transaction
          /\ Pending /\ SealedBy(e.transaction)
          /\ current = NoFile /\ previous = NoFile /\ NoPath("segment") /\ NoPath("index")
      BY <1>1, <1>5, <2>2 DEF SealStage, Cleaning
    <3>2. write \notin Listing /\ write \in Cleaning
      BY <2>2 DEF Listing, Cleaning
    <3>. QED
      BY <1>2, <1>6, <1>8, <2>2, <3>1, <3>2, SameJournal DEF SealStage
  <2>. QED
    BY <2>1, <2>2
<1>10. JournalSurvivesCrash'
  <2>1. /\ ManifestReadable(IF intent = NoIntent THEN {} ELSE {intent.transaction})
        /\ ~Pending => StateReadable
        /\ \A n \in DOMAIN Sealed : EpochWhole(Sealed[n])
    BY DEF JInv, JournalSurvivesCrash
  <2>2. \A allowed : ManifestReadable(allowed) => ManifestReadable(allowed)'
    BY <1>2, <1>6 DEF ManifestReadable
  <2>3. ManifestReadable(IF intent = NoIntent THEN {} ELSE {intent.transaction})'
    BY <1>2, <2>1, <2>2
  <2>. QED
    BY <1>2, <1>5, <1>6, <2>1, <2>3, SameJournal DEF JournalSurvivesCrash
<1>11. \A x \in {op.epoch} : SealStage(x)'
  BY <1>3, <1>9
<1>. QED
  BY <1>1, <1>2, <1>4, <1>7, <1>10, <1>11, SealWrite DEF JInv, Typed

\* The manifest lists the epoch: from now on its entries are set aside.
LEMMA ListSound == ASSUME JInv, ReplaceManifest, op.at = "manifest" PROVE JInv'
<1>1. /\ op # NoOp /\ Then("unlink current")
      /\ manifest' = [sequence |-> IF manifest = NoFile THEN 1 ELSE manifest.sequence + 1,
                      account |-> op.epoch.target, sealed |-> Append(Sealed, op.epoch),
                      pending |-> TRUE]
      /\ UNCHANGED <<current, previous, files>> /\ UNCHANGED <<day, proc, intent>>
      /\ directories' = directories /\ manifestPrevious' = manifestPrevious
  BY DEF ReplaceManifest, Doing
<1>2. PICK e : e = op.epoch
  OBVIOUS
<1>3. op.at \in Listing /\ op.at \notin Cleaning
  BY DEF Listing, Cleaning
<1>4. proc = "seal" /\ SealStage(e)
  BY <1>1, <1>2, <1>3, InSeal
<1>5. /\ e \in Epochs /\ intent # NoIntent /\ e.transaction = intent.transaction
      /\ ~Pending /\ ~SealedBy(e.transaction) /\ e.entries = AllEntries(Loaded)
      /\ e.transaction \in directories
      /\ Whole(<<"copy", e.transaction>>) /\ Whole(<<"seal", e.transaction>>)
      /\ files[<<"copy", e.transaction>>].content.current = current
      /\ files[<<"seal", e.transaction>>].content = e
      /\ manifestPrevious = manifest
  BY <1>3, <1>4 DEF SealStage, Listing
<1>6. Sealed \in Seq(Epochs) /\ (manifest # NoFile => manifest.sequence \in Nat)
  BY DEF JInv, Typed, Manifests, Sealed
<1>7. /\ Append(Sealed, e) \in Seq(Epochs) /\ Len(Append(Sealed, e)) = Len(Sealed) + 1
      /\ Append(Sealed, e)[Len(Sealed) + 1] = e /\ Len(Sealed) \in Nat
      /\ \A n \in 1..Len(Sealed) : Append(Sealed, e)[n] = Sealed[n]
  BY <1>5, <1>6, AppendProperties, LenProperties
<1>8. DOMAIN Sealed = 1..Len(Sealed) /\ DOMAIN Append(Sealed, e) = 1..Len(Sealed) + 1
  BY <1>6, <1>7, LenProperties
<1>9. manifest' \in Manifests /\ manifest' # NoFile
  <2>1. e.target \in Accounts
    BY <1>5 DEF Epochs
  <2>2. [sequence |-> IF manifest = NoFile THEN 1 ELSE manifest.sequence + 1,
         account |-> e.target, sealed |-> Append(Sealed, e), pending |-> TRUE] \in Manifests
    BY <1>6, <1>7, <2>1 DEF Manifests
  <2>. QED
    BY <1>1, <1>2, <2>2, Absent
<1>10. /\ Sealed' = Append(Sealed, e) /\ Pending' /\ manifest'.pending = TRUE
       /\ manifest'.sequence = IF manifest = NoFile THEN 1 ELSE manifest.sequence + 1
  BY <1>1, <1>2, <1>9 DEF Sealed, Pending
<1>11. SealedBy(e.transaction)'
  BY <1>7, <1>8, <1>10 DEF SealedBy
<1>12. /\ "unlink current" \in Writes /\ "unlink current" \in Cleaning
       /\ "unlink current" \notin Listing
  BY DEF Writes, Listing, Cleaning
<1>13. op'.at = "unlink current"
  BY <1>1, <1>12, ThenIs
<1>14. SealStage(e)'
  BY <1>1, <1>5, <1>10, <1>11, <1>12, <1>13 DEF SealStage
<1>15. ManifestReadable({intent.transaction})'
  <2>1. ManifestReadable({intent.transaction})
    BY <1>5 DEF JInv, JournalSurvivesCrash
  <2>2. {Append(Sealed, e)[n].transaction : n \in 1..Len(Sealed) + 1}
          = {Sealed[n].transaction : n \in DOMAIN Sealed} \cup {e.transaction}
    BY <1>7, <1>8
  <2>3. SubSeq(Append(Sealed, e), 1, Len(Sealed)) = Sealed
    BY <1>6, <1>7, SubSeqProperties
  <2>4. manifest # NoFile => manifest.sealed = Sealed
    BY DEF Sealed
  <2>5. IF manifestPrevious' = NoFile THEN manifest'.sequence = 1
        ELSE /\ manifest'.sequence = manifestPrevious'.sequence + 1
             /\ Len(manifestPrevious'.sealed) <= Len(Sealed')
             /\ SubSeq(Sealed', 1, Len(manifestPrevious'.sealed)) = manifestPrevious'.sealed
    <3>1. manifestPrevious' = manifest /\ Sealed' = Append(Sealed, e)
      BY <1>1, <1>5, <1>10
    <3>2. CASE manifest = NoFile
      BY <1>10, <3>1, <3>2
    <3>3. CASE manifest # NoFile
      <4>1. manifest'.sequence = manifest.sequence + 1 /\ manifest.sealed = Sealed
        BY <1>10, <2>4, <3>3
      <4>2. Len(Sealed) <= Len(Append(Sealed, e))
        BY <1>7
      <4>. QED
        BY <2>3, <3>1, <3>3, <4>1, <4>2
    <3>. QED
      BY <3>2, <3>3
  <2>6. {Sealed'[n].transaction : n \in DOMAIN Sealed'}
          = {Sealed[n].transaction : n \in DOMAIN Sealed} \cup {e.transaction}
    BY <1>8, <1>10, <2>2
  <2>7. {Sealed'[n].transaction : n \in DOMAIN Sealed'} \subseteq directories'
        /\ directories' \ {Sealed'[n].transaction : n \in DOMAIN Sealed'}
             \subseteq {intent.transaction}
    BY <1>1, <1>5, <2>1, <2>6 DEF ManifestReadable
  <2>. QED
    BY <1>1, <1>9, <2>5, <2>7 DEF ManifestReadable
<1>16. \A n \in DOMAIN Sealed' : EpochWhole(Sealed[n])'
  <2> SUFFICES ASSUME NEW n \in DOMAIN Sealed' PROVE EpochWhole(Sealed[n])'
    OBVIOUS
  <2>1. \A x : EpochWhole(x) <=> EpochWhole(x)'
    BY <1>1, SameJournal
  <2>2. CASE n = Len(Sealed) + 1
    <3>1. Sealed'[n] = e
      BY <1>7, <1>10, <2>2
    <3>2. e.entries = (IF current = NoFile THEN Empty ELSE AllEntries(current.gen))
      BY <1>5, NothingYet DEF Loaded
    <3>3. EpochWhole(e)
      BY <1>5, <3>2 DEF EpochWhole
    <3>. QED
      BY <2>1, <3>1, <3>3
  <2>3. CASE n # Len(Sealed) + 1
    <3>1. n \in DOMAIN Sealed /\ Sealed'[n] = Sealed[n]
      BY <1>7, <1>8, <1>10, <2>3
    <3>2. EpochWhole(Sealed[n])
      BY <3>1 DEF JInv, JournalSurvivesCrash
    <3>. QED
      BY <2>1, <3>1, <3>2
  <2>. QED
    BY <2>2, <2>3
<1>17. JournalSurvivesCrash'
  BY <1>1, <1>4, <1>5, <1>10, <1>15, <1>16 DEF JournalSurvivesCrash
<1>18. \A x \in {op.epoch} : SealStage(x)'
  BY <1>2, <1>14
<1>. QED
  BY <1>1, <1>3, <1>9, <1>12, <1>17, <1>18, SealWrite DEF JInv, Typed

\* The manifest says that the clean-up is done, and the next epoch starts empty.
LEMMA ReadySound == ASSUME JInv, ReplaceManifest, op.at = "ready" PROVE JInv'
<1>1. /\ op # NoOp /\ Then("end")
      /\ manifest' = [manifest EXCEPT !.sequence = @ + 1, !.pending = FALSE]
      /\ UNCHANGED <<current, previous, files>> /\ UNCHANGED <<day, proc, intent>>
      /\ directories' = directories /\ manifestPrevious' = manifestPrevious
  BY DEF ReplaceManifest, Doing
<1>2. PICK e : e = op.epoch
  OBVIOUS
<1>3. op.at \in Cleaning /\ op.at \notin Listing
  BY DEF Listing, Cleaning
<1>4. proc = "seal" /\ SealStage(e)
  BY <1>1, <1>2, <1>3, InSeal
<1>5. /\ e \in Epochs /\ intent # NoIntent /\ e.transaction = intent.transaction
      /\ Pending /\ SealedBy(e.transaction) /\ current = NoFile /\ previous = NoFile
      /\ NoPath("segment") /\ NoPath("index") /\ manifestPrevious = manifest
  BY <1>3, <1>4 DEF SealStage, Cleaning
<1>6. manifest \in Manifests /\ manifest # NoFile
  BY <1>5 DEF Pending, JInv, Typed
<1>7. /\ manifest' \in Manifests /\ manifest'.sequence = manifest.sequence + 1
      /\ manifest'.pending = FALSE /\ manifest'.sealed = manifest.sealed
      /\ manifest'.account = manifest.account
  <2>1. PICK m \in Manifests : m = manifest
    BY <1>6
  <2>2. manifest' = [m EXCEPT !.sequence = @ + 1, !.pending = FALSE]
    BY <1>1, <2>1
  <2>3. manifest' \in Manifests
    <3>1. m.sequence + 1 \in Nat /\ FALSE \in BOOLEAN
      BY DEF Manifests
    <3>2. PICK k \in Nat : k = m.sequence + 1
      BY <3>1
    <3>3. [m EXCEPT !.sequence = k, !.pending = FALSE] \in Manifests
      BY DEF Manifests
    <3>4. manifest' = [m EXCEPT !.sequence = k, !.pending = FALSE]
      BY <2>2, <3>2
    <3>. QED
      BY <3>3, <3>4
  <2>4. /\ manifest'.sequence = m.sequence + 1 /\ manifest'.pending = FALSE
        /\ manifest'.sealed = m.sealed /\ manifest'.account = m.account
    BY <2>2 DEF Manifests
  <2>. QED
    BY <2>1, <2>3, <2>4
<1>8. manifest' # NoFile
  BY <1>7, Absent
<1>9. /\ Sealed' = Sealed /\ ~Pending' /\ (SealedBy(e.transaction)' <=> SealedBy(e.transaction))
      /\ Sealed = manifest.sealed /\ Sealed \in Seq(Epochs)
  BY <1>6, <1>7, <1>8 DEF Sealed, Pending, SealedBy, Manifests
<1>10. "end" \in Writes /\ "end" \notin Cleaning /\ "end" \notin Listing
  BY DEF Writes, Listing, Cleaning
<1>11. op'.at = "end"
  BY <1>1, <1>10, ThenIs
<1>12. SealStage(e)'
  BY <1>1, <1>5, <1>9, <1>10, <1>11 DEF SealStage
<1>13. ManifestReadable({intent.transaction})'
  <2>1. ManifestReadable({intent.transaction})
    BY <1>5 DEF JInv, JournalSurvivesCrash
  <2>2. SubSeq(Sealed, 1, Len(Sealed)) = Sealed /\ Len(Sealed) \in Nat
    BY <1>9, SubSeqFull, LenProperties
  <2>3. /\ manifest'.sequence = manifestPrevious'.sequence + 1
        /\ Len(manifestPrevious'.sealed) <= Len(Sealed')
        /\ SubSeq(Sealed', 1, Len(manifestPrevious'.sealed)) = manifestPrevious'.sealed
    BY <1>1, <1>5, <1>7, <1>9, <2>2
  <2>. QED
    <3>1. manifestPrevious' # NoFile
      BY <1>1, <1>5, <1>6
    <3>2. {Sealed'[n].transaction : n \in DOMAIN Sealed'}
            = {Sealed[n].transaction : n \in DOMAIN Sealed}
      BY <1>9
    <3>3. /\ {Sealed'[n].transaction : n \in DOMAIN Sealed'} \subseteq directories'
          /\ directories' \ {Sealed'[n].transaction : n \in DOMAIN Sealed'}
               \subseteq {intent.transaction}
      BY <1>1, <2>1, <3>2 DEF ManifestReadable
    <3>. QED
      BY <1>1, <1>8, <2>3, <3>1, <3>3 DEF ManifestReadable
<1>14. StateReadable'
  BY <1>1, <1>5 DEF StateReadable, NoPath
<1>15. JournalSurvivesCrash'
  <2>1. \A n \in DOMAIN Sealed : EpochWhole(Sealed[n])
    BY DEF JInv, JournalSurvivesCrash
  <2>2. \A n \in DOMAIN Sealed' : EpochWhole(Sealed[n])'
    BY <1>1, <1>9, <2>1, SameJournal
  <2>. QED
    BY <1>1, <1>4, <1>5, <1>13, <1>14, <2>2 DEF JournalSurvivesCrash
<1>16. \A x \in {op.epoch} : SealStage(x)'
  BY <1>2, <1>12
<1>. QED
  BY <1>1, <1>3, <1>7, <1>10, <1>15, <1>16, SealWrite DEF JInv, Typed

\* Either way the manifest is replaced in order.
LEMMA ReplaceManifestSound == ASSUME JInv, ReplaceManifest PROVE JInv'
<1>1. op.at \in {"manifest", "ready"}
  BY DEF ReplaceManifest, Doing
<1>. QED
  BY <1>1, ListSound, ReadySound

-----------------------------------------------------------------------------
(* Removing what is sealed.                                                  *)

\* The files of the epochs stay when others are removed.
LEMMA EpochsStay ==
    ASSUME \/ UNCHANGED files
           \/ \E kind \in {"segment", "index"} : files' = Without(kind),
           NEW e, EpochWhole(e)
    PROVE  EpochWhole(e)'
<1>1. CASE UNCHANGED files
  BY <1>1 DEF EpochWhole, Whole
<1>2. ASSUME NEW kind \in {"segment", "index"}, files' = Without(kind) PROVE EpochWhole(e)'
  <2>1. PICK copy, seal : copy = <<"copy", e.transaction>> /\ seal = <<"seal", e.transaction>>
    OBVIOUS
  <2>2. copy[1] # kind /\ seal[1] # kind
    BY <2>1
  <2>3. copy \in DOMAIN files /\ seal \in DOMAIN files
    BY <2>1 DEF EpochWhole, Whole
  <2>4. /\ copy \in DOMAIN files' /\ seal \in DOMAIN files'
        /\ files'[copy] = files[copy] /\ files'[seal] = files[seal]
    BY <1>2, <2>2, <2>3 DEF Without
  <2>. QED
    BY <2>1, <2>4 DEF EpochWhole, Whole
<1>. QED
  BY <1>1, <1>2

\* What is removed is gone, and nothing comes.
LEMMA WithoutIs ==
    ASSUME NEW kind, files' = Without(kind)
    PROVE  NoPath(kind)' /\ \A other : NoPath(other) => NoPath(other)'
BY DEF Without, NoPath

\* _cleanup_sealed_epoch_sources.
LEMMA UnlinkSound == ASSUME JInv, Unlink PROVE JInv'
<1>1. /\ op # NoOp
      /\ op.at \in {"unlink current", "unlink segments", "unlink previous", "unlink indexes"}
      /\ UNCHANGED <<day, proc, intent>> /\ directories' = directories
      /\ manifest' = manifest /\ manifestPrevious' = manifestPrevious
      /\ current' \in {current, NoFile} /\ previous' \in {previous, NoFile}
      /\ \/ UNCHANGED files
         \/ \E kind \in {"segment", "index"} : files' = Without(kind)
  BY DEF Unlink, Doing
<1>2. PICK e : e = op.epoch
  OBVIOUS
<1>3. op.at \in Cleaning /\ op.at \notin Listing
  BY <1>1 DEF Listing, Cleaning
<1>4. proc = "seal" /\ SealStage(e)
  BY <1>1, <1>2, <1>3, InSeal
<1>5. /\ e \in Epochs /\ intent # NoIntent /\ e.transaction = intent.transaction
      /\ Pending /\ SealedBy(e.transaction)
  BY <1>3, <1>4 DEF SealStage
<1>6. /\ Sealed' = Sealed /\ Pending' /\ (SealedBy(e.transaction)' <=> SealedBy(e.transaction))
      /\ \A allowed : ManifestReadable(allowed)' <=> ManifestReadable(allowed)
  BY <1>1, <1>5 DEF Sealed, Pending, SealedBy, ManifestReadable
<1>7. JournalSurvivesCrash'
  <2>1. /\ ManifestReadable({intent.transaction})
        /\ \A n \in DOMAIN Sealed : EpochWhole(Sealed[n])
    BY <1>5 DEF JInv, JournalSurvivesCrash
  <2>2. \A n \in DOMAIN Sealed' : EpochWhole(Sealed[n])'
    <3> SUFFICES ASSUME NEW n \in DOMAIN Sealed PROVE EpochWhole(Sealed[n])'
      BY <1>6
    <3>1. PICK x : x = Sealed[n]
      OBVIOUS
    <3>2. EpochWhole(x)'
      BY <1>1, <2>1, <3>1, EpochsStay
    <3>. QED
      BY <1>6, <3>1, <3>2
  <2>. QED
    BY <1>1, <1>4, <1>5, <1>6, <2>1, <2>2 DEF JournalSurvivesCrash
<1>8. {"unlink segments", "unlink previous", "unlink indexes", "ready previous"}
        \subseteq Writes \cap Cleaning
      /\ {"unlink segments", "unlink previous", "unlink indexes", "ready previous"}
        \cap Listing = {}
  BY DEF Writes, Listing, Cleaning
<1>9. PICK write \in {"unlink segments", "unlink previous", "unlink indexes", "ready previous"} :
         Then(write) /\ SealStage(e)'
  <2>1. \A write \in {"unlink segments", "unlink previous", "unlink indexes", "ready previous"} :
          Then(write) => op'.at = write
    BY <1>1, <1>8, ThenIs
  <2>2. CASE Doing("unlink current")
    <3>1. Then("unlink segments") /\ current' = NoFile
      BY <2>2 DEF Unlink, Doing
    <3>2. op'.at = "unlink segments"
      BY <2>1, <3>1
    <3>3. SealStage(e)'
      BY <1>1, <1>5, <1>6, <1>8, <3>1, <3>2 DEF SealStage
    <3>. QED
      BY <3>1, <3>3
  <2>3. CASE Doing("unlink segments")
    <3>1. Then("unlink previous") /\ files' = Without("segment") /\ current' = current
      BY <2>3 DEF Unlink, Doing
    <3>2. op'.at = "unlink previous"
      BY <2>1, <3>1
    <3>3. current = NoFile
      BY <1>3, <1>4, <2>3 DEF SealStage, Doing
    <3>4. NoPath("segment")'
      BY <3>1, WithoutIs
    <3>5. SealStage(e)'
      BY <1>1, <1>5, <1>6, <1>8, <3>1, <3>2, <3>3, <3>4 DEF SealStage
    <3>. QED
      BY <3>1, <3>5
  <2>4. CASE Doing("unlink previous")
    <3>1. Then("unlink indexes") /\ previous' = NoFile /\ current' = current /\ files' = files
      BY <2>4 DEF Unlink, Doing
    <3>2. op'.at = "unlink indexes"
      BY <2>1, <3>1
    <3>3. current = NoFile /\ NoPath("segment")
      BY <1>3, <1>4, <2>4 DEF SealStage, Doing
    <3>4. NoPath("segment")'
      BY <3>1, <3>3 DEF NoPath
    <3>5. SealStage(e)'
      BY <1>1, <1>5, <1>6, <1>8, <3>1, <3>2, <3>3, <3>4 DEF SealStage
    <3>. QED
      BY <3>1, <3>5
  <2>5. CASE Doing("unlink indexes")
    <3>1. /\ Then("ready previous") /\ files' = Without("index")
          /\ current' = current /\ previous' = previous
      BY <2>5 DEF Unlink, Doing
    <3>2. op'.at = "ready previous"
      BY <2>1, <3>1
    <3>3. current = NoFile /\ NoPath("segment") /\ previous = NoFile
      BY <1>3, <1>4, <2>5 DEF SealStage, Doing
    <3>4. NoPath("segment")' /\ NoPath("index")'
      BY <3>1, <3>3, WithoutIs
    <3>5. SealStage(e)'
      BY <1>1, <1>5, <1>6, <1>8, <3>1, <3>2, <3>3, <3>4 DEF SealStage
    <3>. QED
      BY <3>1, <3>5
  <2>. QED
    BY <1>1, <2>2, <2>3, <2>4, <2>5 DEF Doing
<1>10. \A x \in {op.epoch} : SealStage(x)'
  BY <1>2, <1>9
<1>. QED
  BY <1>1, <1>3, <1>7, <1>8, <1>9, <1>10, SealWrite DEF JInv, Typed

-----------------------------------------------------------------------------
(* The files survive a crash.                                                *)

\* At first there are no files.
LEMMA InitJInv == ASSUME Init PROVE JInv
<1>1. Typed /\ proc = "none" /\ op = NoOp /\ current = NoFile
  BY DEF Init, Typed
<1>2. Saving /\ Sealing
  BY <1>1 DEF Saving, Sealing
<1>3. Sealed = <<>> /\ ~Pending
  BY DEF Init, Sealed, Pending
<1>4. StateReadable
  BY DEF Init, StateReadable
<1>5. ManifestReadable({}) /\ intent = NoIntent /\ directories = {}
  BY <1>3 DEF Init, ManifestReadable
<1>6. JournalSurvivesCrash
  BY <1>1, <1>3, <1>4, <1>5 DEF JournalSurvivesCrash
<1>. QED
  BY <1>1, <1>2, <1>6 DEF JInv

\* A step in which nothing changes.
LEMMA StutterSound == ASSUME JInv, UNCHANGED vars PROVE JInv'
<1>1. /\ UNCHANGED <<store, intent>> /\ UNCHANGED store /\ op' = op /\ proc' = proc
      /\ day' = day /\ intent' = intent
  BY DEF vars
<1>2. /\ current' = current /\ previous' = previous /\ manifestPrevious' = manifestPrevious
      /\ directories' = directories /\ files' = files /\ manifest' = manifest
  BY <1>1 DEF store
<1>3. JournalSurvivesCrash'
  BY <1>1, SurvivalKept
<1>4. Typed'
  BY <1>1, <1>2 DEF JInv, Typed
<1>5. Saving'
  <2>1. \A e : SaveFits(e)' <=> SaveFits(e)
    BY <1>1, <1>2, SameStore DEF SaveFits
  <2>2. \A e : SaveStage(e)' <=> SaveStage(e)
    BY <1>1, <1>2, SameStore DEF SaveStage
  <2>. QED
    BY <1>1, <2>1, <2>2 DEF JInv, Saving
<1>6. Sealing'
  <2>1. CASE proc # "seal"
    BY <1>1, <2>1 DEF Sealing
  <2>2. CASE proc = "seal"
    <3>1. PICK e : e = op.epoch
      OBVIOUS
    <3>2. op # NoOp /\ SealStage(e)
      BY <2>2, <3>1 DEF JInv, Sealing
    <3>3. /\ Loaded' = Loaded /\ (Pending' <=> Pending) /\ EpochAccount' = EpochAccount
          /\ (SealedBy(e.transaction)' <=> SealedBy(e.transaction))
          /\ (Whole(<<"copy", e.transaction>>)' <=> Whole(<<"copy", e.transaction>>))
          /\ (Whole(<<"seal", e.transaction>>)' <=> Whole(<<"seal", e.transaction>>))
          /\ (NoPath("segment")' <=> NoPath("segment"))
          /\ (NoPath("index")' <=> NoPath("index"))
      BY <1>1, SameStore
    <3>4. SealStage(e)'
      BY <1>1, <1>2, <3>2, <3>3 DEF SealStage
    <3>. QED
      BY <1>1, <3>1, <3>2, <3>4 DEF Sealing
  <2>. QED
    BY <2>1, <2>2
<1>. QED
  BY <1>1, <1>2, <1>3, <1>4, <1>5, <1>6 DEF JInv

\* Every write leaves the files in order.
LEMMA WriteSound == ASSUME JInv, Write PROVE JInv'
<1>1. ASSUME NEW kind \in {"segment", "index", "copy", "seal"},
             CreateImmutable(kind) \/ FinishImmutable(kind)
      PROVE  JInv'
  BY <1>1, SegmentSound, IndexSound, CopySound, SealFileSound
<1>. QED
  BY <1>1, ReplacePreviousSound, ReplaceCurrentSound, MakeDirectorySound,
     ManifestPreviousSound, ReplaceManifestSound, UnlinkSound DEF Write

\* And so does every step.
LEMMA NextSound == ASSUME JInv, [Next]_vars PROVE JInv'
<1>1. ASSUME NEW kind \in {"rollover", "switch"}, NEW txn \in Transactions,
             NEW target \in Accounts, Decide(kind, txn, target)
      PROVE  JInv'
  BY <1>1, DecideSound
<1>2. ASSUME NEW id \in Orders, Prepare(id) PROVE JInv'
  BY <1>2, PrepareSound
<1>3. CASE Next
  BY <1>1, <1>2, <1>3, OpenSound, CloseSound, NextDaySound, InterruptSound, UpdateSound,
     CompactSound, SealEpochSound, ResumeSealSound, EndSealSound, WriteSound DEF Next
<1>. QED
  BY <1>3, StutterSound

\* The files, and what a transaction is about to write, are always in order.
THEOREM AlwaysInOrder == Spec => []JInv
BY InitJInv, NextSound, PTL DEF Spec

\* JournalSurvivesCrash for every number of orders, accounts, epochs, saves and deaths:
\* wherever the process dies, journal and epochs read as whole (_save_locked, seal_epoch,
\* _load_state_unlocked, _load_epoch_manifest_unlocked).
THEOREM JournalSurvivesCrashHolds == Spec => []JournalSurvivesCrash
<1>1. JInv => JournalSurvivesCrash
  BY DEF JInv
<1>. QED
  BY <1>1, AlwaysInOrder, PTL

-----------------------------------------------------------------------------
(* The files implement the atomic journal.                                   *)

\* Only the current file and the manifest say what the journal holds.
LEMMA SameView ==
    ASSUME UNCHANGED <<current, manifest>>
    PROVE  UNCHANGED Atomic!vars
<1>1. Sealed' = Sealed /\ (Pending' <=> Pending) /\ EpochAccount' = EpochAccount
      /\ Loaded' = Loaded
  BY DEF Sealed, Pending, EpochAccount, Loaded
<1>2. CurrentEntries' = CurrentEntries /\ SealedEntries' = SealedEntries
  BY <1>1 DEF CurrentEntries, SealedEntries
<1>. QED
  BY <1>1, <1>2 DEF Atomic!vars

\* What is read is a map of all orders, and a sequence of epochs.
LEMMA ViewIs ==
    ASSUME JInv
    PROVE  /\ CurrentEntries \in Maps /\ DOMAIN CurrentEntries = Orders
           /\ SealedEntries \in Seq([account : Accounts, entries : Maps])
           /\ Sealed \in Seq(Epochs) /\ DOMAIN SealedEntries = DOMAIN Sealed
           /\ Len(SealedEntries) = Len(Sealed) /\ EpochAccount \in Accounts
<1>1. CurrentEntries \in Maps
  <2>1. CASE Pending
    BY <2>1, EmptyIs DEF CurrentEntries
  <2>2. CASE ~Pending
    <3>1. Found(Loaded)
      BY <2>2, LoadedFound DEF JInv, JournalSurvivesCrash
    <3>. QED
      BY <2>2, <3>1, GenerationIs DEF CurrentEntries, Found
  <2>. QED
    BY <2>1, <2>2
<1>2. Sealed \in Seq(Epochs) /\ EpochAccount \in Accounts
  BY Absent DEF JInv, Typed, Manifests, Sealed, EpochAccount
<1>3. DOMAIN Sealed = 1..Len(Sealed) /\ Len(Sealed) \in Nat
  BY <1>2, LenProperties
<1>4. SealedEntries \in [1..Len(Sealed) -> [account : Accounts, entries : Maps]]
  <2>1. \A n \in 1..Len(Sealed) : Sealed[n] \in Epochs
    BY <1>2, ElementOfSeq
  <2>2. \A n \in 1..Len(Sealed) :
          [account |-> Sealed[n].source, entries |-> Sealed[n].entries]
            \in [account : Accounts, entries : Maps]
    BY <2>1 DEF Epochs
  <2>. QED
    BY <1>3, <2>2 DEF SealedEntries
<1>5. SealedEntries \in Seq([account : Accounts, entries : Maps])
  <2>1. PICK S : S = [account : Accounts, entries : Maps]
    OBVIOUS
  <2>2. SealedEntries \in [1..Len(Sealed) -> S]
    BY <1>4, <2>1
  <2>3. SealedEntries \in Seq(S)
    BY <1>3, <2>2, SeqDef
  <2>. QED
    BY <2>1, <2>3
<1>6. DOMAIN SealedEntries = 1..Len(Sealed)
  BY <1>4
<1>7. Len(SealedEntries) = Len(Sealed)
  BY <1>3, <1>5, <1>6, LenProperties
<1>. QED
  BY <1>1, <1>2, <1>3, <1>5, <1>6, <1>7 DEF Maps

\* Nothing is sealed and nothing recorded at first.
LEMMA InitView == ASSUME Init PROVE Atomic!Init
<1>1. current = NoFile /\ manifest = NoFile
  BY DEF Init
<1>2. CurrentEntries = Empty /\ EpochAccount = Home /\ Sealed = <<>>
  BY <1>1, NothingYet DEF CurrentEntries, Pending, Loaded, EpochAccount, Sealed
<1>3. SealedEntries = <<>>
  <2>1. SealedEntries \in Seq([account : Accounts, entries : Maps])
        /\ Len(SealedEntries) = Len(Sealed)
    BY InitJInv, ViewIs
  <2>. QED
    BY <1>2, <2>1, EmptySeq
<1>4. Ids(Empty) = {} /\ DOMAIN Empty = Orders
  BY EmptyIs DEF Empty
<1>. QED
  BY <1>2, <1>3, <1>4, Absent DEF Atomic!Init, Atomic!Has, Ids

\* A save takes place when the current file is replaced: prepare has added an identity,
\* the others have revised entries.
LEMMA ReplaceCurrentView == ASSUME JInv, ReplaceCurrent PROVE Atomic!Next
<1>1. /\ op # NoOp /\ op.at = "current" /\ current' = op.next
      /\ manifest' = manifest /\ ReplaceCurrent
  BY DEF ReplaceCurrent, Doing
<1>2. PICK e : e = op.next
  OBVIOUS
<1>3. SaveFits(e) /\ ~Pending
  BY <1>1, <1>2, InSave
<1>4. /\ Sealed' = Sealed /\ ~Pending' /\ EpochAccount' = EpochAccount
  BY <1>1, <1>3 DEF Sealed, Pending, EpochAccount
<1>5. SealedEntries' = SealedEntries
  BY <1>4 DEF SealedEntries
<1>6. Loaded' = e.gen
  BY <1>1, <1>2, <1>3, Absent DEF SaveFits, Loaded
<1>7. PICK before, after : before = CurrentEntries /\ after = CurrentEntries'
  OBVIOUS
<1>8. before = AllEntries(Loaded) /\ after = AllEntries(e.gen)
  BY <1>3, <1>4, <1>6, <1>7 DEF CurrentEntries
<1>9. /\ before \in Maps /\ after \in Maps /\ DOMAIN before = Orders /\ DOMAIN after = Orders
      /\ DOMAIN SealedEntries = DOMAIN Sealed
  <2>1. JInv'
    BY ReplaceCurrentSound
  <2>2. e.gen \in Generations
    BY <1>3 DEF SaveFits, Envelopes
  <2>. QED
    BY <1>7, <1>8, <2>2, ViewIs, GenerationIs DEF Maps
<1>10. CASE Enters(before, after)
  <2>1. PICK id \in Orders :
          /\ before[id] = NoEntry
          /\ \A n \in DOMAIN Sealed :
               Sealed[n].source = EpochAccount => Sealed[n].entries[id] = NoEntry
          /\ after[id] # NoEntry /\ after[id].status = "prepared" /\ after[id].fills = {}
          /\ \A other \in Orders \ {id} : after[other] = before[other]
    BY <1>10 DEF Enters
  <2>2. after = [before EXCEPT ![id] = after[id]]
    BY <1>9, <2>1 DEF Maps
  <2>3. \A n \in DOMAIN SealedEntries :
          SealedEntries[n].account = EpochAccount => SealedEntries[n].entries[id] = NoEntry
    BY <2>1 DEF SealedEntries
  <2>4. Atomic!Prepare
    BY <1>4, <1>5, <1>7, <1>9, <2>1, <2>2, <2>3 DEF Atomic!Prepare, Atomic!Has
  <2>. QED
    BY <2>4 DEF Atomic!Next
<1>11. CASE Revised(before, after)
  <2>1. /\ Ids(after) = Ids(before) /\ Clean(after)
        /\ \A id \in Ids(before) : Revises(before[id], after[id])
    BY <1>11 DEF Revised
  <2>2. \A id \in Orders : after[id] # NoEntry <=> before[id] # NoEntry
    BY <2>1 DEF Ids
  <2>3. ASSUME NEW id \in Orders, before[id] # NoEntry
        PROVE  Atomic!Revises(before[id], after[id])
    <3>1. id \in Ids(before) /\ id \in Ids(after)
      BY <2>1, <2>3 DEF Ids
    <3>. QED
      BY <2>1, <3>1 DEF Revises, Clean, Successors, Atomic!Revises, Atomic!Successors
  <2>4. Atomic!Update
    BY <1>4, <1>5, <1>7, <1>9, <2>2, <2>3 DEF Atomic!Update, Atomic!Has
  <2>. QED
    BY <2>4 DEF Atomic!Next
<1>. QED
  BY <1>3, <1>8, <1>10, <1>11 DEF SaveFits

\* An epoch is set aside when the manifest lists it.
LEMMA ListView == ASSUME JInv, ReplaceManifest, op.at = "manifest" PROVE Atomic!Seal
<1>1. /\ op # NoOp /\ current' = current
      /\ manifest' = [sequence |-> IF manifest = NoFile THEN 1 ELSE manifest.sequence + 1,
                      account |-> op.epoch.target, sealed |-> Append(Sealed, op.epoch),
                      pending |-> TRUE]
  BY DEF ReplaceManifest, Doing
<1>2. PICK e : e = op.epoch
  OBVIOUS
<1>3. op.at \in Listing
  BY DEF Listing
<1>4. SealStage(e)
  BY <1>1, <1>2, <1>3, InSeal
<1>5. /\ e \in Epochs /\ ~Pending /\ e.source = EpochAccount
      /\ e.entries = AllEntries(Loaded) /\ FinalIds(e.entries) = Ids(e.entries)
  BY <1>3, <1>4 DEF SealStage
<1>6. /\ Sealed \in Seq(Epochs) /\ SealedEntries \in Seq([account : Accounts, entries : Maps])
      /\ DOMAIN SealedEntries = DOMAIN Sealed /\ Len(SealedEntries) = Len(Sealed)
      /\ CurrentEntries \in Maps
  BY ViewIs
<1>7. manifest' \in Manifests /\ manifest' # NoFile
  <2>1. e.target \in Accounts /\ Append(Sealed, e) \in Seq(Epochs)
    BY <1>5, <1>6, AppendProperties DEF Epochs
  <2>2. manifest # NoFile => manifest.sequence \in Nat
    BY DEF JInv, Typed, Manifests
  <2>3. [sequence |-> IF manifest = NoFile THEN 1 ELSE manifest.sequence + 1,
         account |-> e.target, sealed |-> Append(Sealed, e), pending |-> TRUE] \in Manifests
    BY <2>1, <2>2 DEF Manifests
  <2>. QED
    BY <1>1, <1>2, <2>3, Absent
<1>8. /\ Sealed' = Append(Sealed, e) /\ Pending' /\ EpochAccount' = e.target
  BY <1>1, <1>2, <1>7 DEF Sealed, Pending, EpochAccount
<1>9. CurrentEntries = e.entries /\ CurrentEntries' = Empty
  BY <1>5, <1>8 DEF CurrentEntries
<1>10. SealedEntries' = Append(SealedEntries, [account |-> EpochAccount,
                                               entries |-> CurrentEntries])
  <2>1. PICK record : record = [account |-> e.source, entries |-> e.entries]
    OBVIOUS
  <2>2. PICK longer : longer = Append(SealedEntries, record)
    OBVIOUS
  <2>3. record \in [account : Accounts, entries : Maps]
    BY <1>5, <2>1 DEF Epochs
  <2>4. /\ longer \in Seq([account : Accounts, entries : Maps])
        /\ Len(longer) = Len(Sealed) + 1 /\ longer[Len(Sealed) + 1] = record
        /\ \A n \in 1..Len(Sealed) : longer[n] = SealedEntries[n]
    BY <1>6, <2>2, <2>3, AppendProperties
  <2>5. /\ Len(Append(Sealed, e)) = Len(Sealed) + 1 /\ Len(Sealed) \in Nat
        /\ Append(Sealed, e)[Len(Sealed) + 1] = e
        /\ \A n \in 1..Len(Sealed) : Append(Sealed, e)[n] = Sealed[n]
        /\ DOMAIN Append(Sealed, e) = 1..Len(Sealed) + 1 /\ DOMAIN Sealed = 1..Len(Sealed)
    BY <1>5, <1>6, AppendProperties, LenProperties
  <2>6. ASSUME NEW n \in 1..Len(Sealed) + 1 PROVE SealedEntries'[n] = longer[n]
    <3>1. SealedEntries'[n] = [account |-> Append(Sealed, e)[n].source,
                               entries |-> Append(Sealed, e)[n].entries]
      BY <1>8, <2>5 DEF SealedEntries
    <3>2. CASE n \in 1..Len(Sealed)
      <4>1. SealedEntries[n] = [account |-> Sealed[n].source, entries |-> Sealed[n].entries]
        BY <2>5, <3>2 DEF SealedEntries
      <4>. QED
        BY <2>4, <2>5, <3>1, <3>2, <4>1
    <3>3. CASE n = Len(Sealed) + 1
      BY <2>1, <2>4, <2>5, <3>1, <3>3
    <3>. QED
      BY <2>5, <3>2, <3>3
  <2>7. SealedEntries' = longer
    <3>1. DOMAIN longer = 1..Len(Sealed) + 1
          /\ longer \in [1..Len(Sealed) + 1 -> [account : Accounts, entries : Maps]]
      BY <2>4, LenProperties
    <3>2. SealedEntries' = [n \in 1..Len(Sealed) + 1 |->
                              [account |-> Append(Sealed, e)[n].source,
                               entries |-> Append(Sealed, e)[n].entries]]
      BY <1>8, <2>5 DEF SealedEntries
    <3>. QED
      BY <2>6, <3>1, <3>2
  <2>. QED
    BY <1>5, <1>9, <2>1, <2>2, <2>7
<1>11. \A id \in Orders : CurrentEntries[id] # NoEntry => CurrentEntries[id].status \in Final
  BY <1>5, <1>9 DEF FinalIds, Ids
<1>12. DOMAIN CurrentEntries = Orders /\ CurrentEntries' = [id \in Orders |-> NoEntry]
       /\ EpochAccount' \in Accounts
  BY <1>5, <1>6, <1>8, <1>9 DEF Maps, Empty, Epochs
<1>. QED
  BY <1>10, <1>11, <1>12 DEF Atomic!Seal, Atomic!Has, Final, Atomic!Final

\* The manifest that says the clean-up is done shows the same: nothing in a new epoch.
LEMMA ReadyView ==
    ASSUME JInv, ReplaceManifest, op.at = "ready"
    PROVE  UNCHANGED Atomic!vars
<1>1. /\ op # NoOp /\ current' = current
      /\ manifest' = [manifest EXCEPT !.sequence = @ + 1, !.pending = FALSE]
  BY DEF ReplaceManifest, Doing
<1>2. op.at \in Cleaning
  BY DEF Cleaning
<1>3. Pending /\ current = NoFile
  BY <1>1, <1>2, InSeal DEF SealStage
<1>4. manifest \in Manifests /\ manifest # NoFile
  BY <1>3 DEF Pending, JInv, Typed
<1>5. /\ manifest' # NoFile /\ manifest'.pending = FALSE /\ manifest'.sealed = manifest.sealed
      /\ manifest'.account = manifest.account
  <2>1. manifest' \in Manifests
    <3>1. manifest.sequence + 1 \in Nat
      BY <1>4 DEF Manifests
    <3>2. PICK k \in Nat : k = manifest.sequence + 1
      BY <3>1
    <3>3. [manifest EXCEPT !.sequence = k, !.pending = FALSE] \in Manifests
      BY <1>4 DEF Manifests
    <3>. QED
      BY <1>1, <3>2, <3>3
  <2>. QED
    BY <1>1, <1>4, <2>1, Absent DEF Manifests
<1>6. Sealed' = Sealed /\ ~Pending' /\ EpochAccount' = EpochAccount
  BY <1>4, <1>5 DEF Sealed, Pending, EpochAccount
<1>7. SealedEntries' = SealedEntries
  BY <1>6 DEF SealedEntries
<1>8. Loaded' = NoGeneration
  BY <1>1, <1>3 DEF Loaded
<1>9. CurrentEntries' = CurrentEntries
  BY <1>3, <1>6, <1>8, NothingYet DEF CurrentEntries
<1>. QED
  BY <1>6, <1>7, <1>9 DEF Atomic!vars

\* While the source of an epoch is removed nobody reads it.
LEMMA UnlinkView == ASSUME JInv, Unlink PROVE UNCHANGED Atomic!vars
<1>1. /\ op # NoOp /\ manifest' = manifest /\ op.at \in Cleaning
  BY DEF Unlink, Doing, Cleaning
<1>2. Pending
  BY <1>1, InSeal DEF SealStage
<1>3. Sealed' = Sealed /\ Pending' /\ EpochAccount' = EpochAccount
  BY <1>1, <1>2 DEF Sealed, Pending, EpochAccount
<1>4. CurrentEntries' = CurrentEntries /\ SealedEntries' = SealedEntries
  BY <1>2, <1>3 DEF CurrentEntries, SealedEntries
<1>. QED
  BY <1>3, <1>4 DEF Atomic!vars

\* Every step is a step of the atomic journal, or one that nobody sees.
LEMMA StepView == ASSUME JInv, [Next]_vars PROVE [Atomic!Next]_Atomic!vars
<1>1. CASE UNCHANGED vars
  BY <1>1, SameView DEF vars, store
<1>2. CASE ReplaceCurrent
  BY <1>2, ReplaceCurrentView
<1>3. CASE ReplaceManifest
  <2>1. op.at \in {"manifest", "ready"}
    BY <1>3 DEF ReplaceManifest, Doing
  <2>2. CASE op.at = "manifest"
    BY <1>3, <2>2, ListView DEF Atomic!Next
  <2>. QED
    BY <1>3, <2>1, <2>2, ReadyView
<1>4. CASE Unlink
  BY <1>4, UnlinkView
<1>5. CASE \/ OpenRuntime \/ CloseRuntime \/ NextDay \/ Interrupt
           \/ SealEpoch \/ ResumeSeal \/ EndSeal
  <2>1. UNCHANGED store
    BY <1>5 DEF OpenRuntime, CloseRuntime, NextDay, Interrupt, SealEpoch, ResumeSeal, EndSeal
  <2>. QED
    BY <2>1, SameView DEF store
<1>6. CASE MakeDirectory \/ ReplacePrevious \/ ReplaceManifestPrevious
  BY <1>6, SameView DEF MakeDirectory, ReplacePrevious, ReplaceManifestPrevious
<1>7. ASSUME NEW kind \in {"segment", "index", "copy", "seal"},
             CreateImmutable(kind) \/ FinishImmutable(kind)
      PROVE  UNCHANGED Atomic!vars
  BY <1>7, SameView DEF CreateImmutable, FinishImmutable
<1>8. CASE Write
  BY <1>2, <1>3, <1>4, <1>6, <1>7, <1>8 DEF Write
<1>9. ASSUME NEW hot, NEW versions, Save(hot, versions) PROVE UNCHANGED Atomic!vars
  <2>1. UNCHANGED store
    BY <1>9 DEF Save
  <2>. QED
    BY <2>1, SameView DEF store
<1>10. ASSUME NEW id \in Orders, Prepare(id) PROVE UNCHANGED Atomic!vars
  BY <1>9, <1>10 DEF Prepare
<1>11. ASSUME NEW statuses, NEW fills, Update(statuses, fills) PROVE UNCHANGED Atomic!vars
  <2>1. PICK hot, versions : Save(hot, versions)
    BY <1>11 DEF Update
  <2>. QED
    BY <1>9, <2>1
<1>12. CASE CompactTerminal
  BY <1>9, <1>12 DEF CompactTerminal
<1>13. ASSUME NEW kind, NEW txn, NEW target, Decide(kind, txn, target)
       PROVE  UNCHANGED Atomic!vars
  <2>1. UNCHANGED store
    BY <1>13 DEF Decide
  <2>. QED
    BY <2>1, SameView DEF store
<1>. QED
  BY <1>1, <1>5, <1>8, <1>10, <1>11, <1>12, <1>13 DEF Next, UpdateSome

\* IsAtomicJournal for every number of orders, accounts, epochs, saves and deaths: two
\* replaced files, an archive and a sealing in a dozen steps are one atomic journal
\* (_save_locked, seal_epoch).
THEOREM JournalIsAtomic == Spec => IsAtomicJournal
<1>1. Init => Atomic!Init
  BY InitView
<1>2. JInv /\ [Next]_vars => [Atomic!Next]_Atomic!vars
  BY StepView
<1>. QED
  BY <1>1, <1>2, AlwaysInOrder, PTL DEF Spec, IsAtomicJournal, Atomic!Spec
=============================================================================
