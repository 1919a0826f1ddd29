------------------------------ MODULE Bootstrap ------------------------------
(* How a runtime directory gets its first Stress-90 files.                    *)
(* bootstrap_stress90 replays the fixed history and then creates four files,  *)
(* the OHLC cache, the activity snapshot, the seed and the policy state, and  *)
(* last the OI evidence, which is the commit point: a failure before it is    *)
(* rolled back file by file, a failure after it leaves everything in place.   *)
(* The daily OHLC refresh is another process that writes one of these files;  *)
(* it rewrites the file in place, under a witness beside it that makes every  *)
(* later reader refuse while the write may be half done.                      *)
(* A process may die between any two file operations.                         *)
EXTENDS Naturals, Sequences, FiniteSets

CONSTANTS MaxBoots,      \* bound: bootstraps started
          MaxRefreshes   \* bound: refreshes started while the directory is new

ASSUME BootBounds == MaxBoots \in Nat \ {0} /\ MaxRefreshes \in Nat

VARIABLES files,      \* the four prerequisites: absent, or who made the inode and its content
          guards,     \* the visible witnesses of the OHLC cache
          commit,     \* the commit of the OHLC cache under way, and who makes it
          oi,         \* the OI evidence: absent, only its lineage marker, or the bridge day
          boot,       \* the bootstrap process: where it is, and the creation tokens it holds
          booted, refreshed   \* bounds

bootVars == <<files, guards, commit, oi, boot, booted, refreshed>>

Prerequisites == <<"ohlc", "activity", "seed", "policy">>   \* in the order of creation
Absent == [by |-> "nobody", content |-> "none"]
Idle   == [who |-> "nobody", at |-> "none"]
AsCreated == [by |-> "boot", content |-> "first"]   \* the inode and the bytes of a token

Present(f) == files[f] # Absent
(* Every file but the OHLC cache is refused by its checksum when it is half written, and  *)
(* the cache by the same rule; the witness is what makes a whole file of doubtful standing *)
(* unreadable too.                                                                        *)
OhlcReadable == guards = {} /\ files["ohlc"].content # "half"

(* The OFD lock of the OHLC cache: held through a commit, and by the bootstrap from its     *)
(* last check to the end of the OI write.                                                  *)
OhlcLocked == commit # Idle \/ boot.at \in {"checking", "lineage", "bridge"}

BootInit ==
  /\ files = [f \in {"ohlc", "activity", "seed", "policy"} |-> Absent]
  /\ guards = {}
  /\ commit = Idle
  /\ oi = "absent"
  /\ boot = [at |-> "none", tokens |-> {}]
  /\ booted = 0
  /\ refreshed = 0

-----------------------------------------------------------------------------
(* commit_encoded_unlocked: witness, write, three renames of the witness      *)

CommitSteps == [pending |-> "mutated", mutated |-> "written", written |-> "linked",
                linked |-> "unpended", unpended |-> "terminal", terminal |-> "unlinked",
                unlinked |-> "done"]

GuardsAfter(step) ==
  CASE step = "linked"   -> guards \cup {"cleanup"}
    [] step = "unpended" -> guards \ {"pending"}
    [] step = "terminal" -> guards \cup {"terminal"}
    [] step = "unlinked" -> guards \ {"cleanup"}
    [] step = "done"     -> guards \ {"terminal"}
    [] OTHER             -> guards

(* A file that is created belongs to its creator; one that is rewritten keeps its inode. *)
FileAfter(step) ==
  LET old   == files["ohlc"]
      owner == IF old = Absent THEN commit.who ELSE old.by
  IN  CASE step = "mutated" -> [by |-> owner, content |-> "half"]
        [] step = "written" -> [by |-> owner,
                                content |-> IF commit.who = "boot" THEN "first" ELSE "later"]
        [] OTHER -> old

BeginCommit(who) ==
  /\ guards = {} /\ ~OhlcLocked
  /\ guards' = {"pending"}
  /\ commit' = [who |-> who, at |-> "pending"]

CommitStep ==
  /\ commit # Idle
  /\ LET next == CommitSteps[commit.at]
     IN  /\ guards' = GuardsAfter(next)
         /\ files' = [files EXCEPT !["ohlc"] = FileAfter(next)]
         /\ commit' = IF next = "done" THEN Idle ELSE [commit EXCEPT !.at = next]
         /\ boot' = IF next = "done" /\ commit.who = "boot"
                      THEN [at |-> "activity", tokens |-> {"ohlc"}] ELSE boot
  /\ UNCHANGED <<oi, booted, refreshed>>

(* An operation of the commit fails. Whatever was done stays, and where no witness is left *)
(* one is put back; only the process that failed goes on.                                  *)
CommitFails ==
  /\ commit # Idle
  /\ guards' = IF guards = {} THEN {"cleanup"} ELSE guards
  /\ commit' = Idle
  /\ boot' = IF commit.who = "boot" THEN [boot EXCEPT !.at = "rollback"] ELSE boot
  /\ UNCHANGED <<files, oi, booted, refreshed>>

(* The daily refresh reads the cache, or finds none, and writes the provider's history. *)
RefreshBegins ==
  /\ refreshed < MaxRefreshes
  /\ OhlcReadable
  /\ BeginCommit("refresh")
  /\ refreshed' = refreshed + 1
  /\ UNCHANGED <<files, oi, boot, booted>>

RefreshDies ==
  /\ commit.who = "refresh"
  /\ commit' = Idle
  /\ UNCHANGED <<files, guards, oi, boot, booted, refreshed>>

-----------------------------------------------------------------------------
(* The bootstrap: preflight, four creations, the check under every lock, the commit *)

(* Preflight refuses what is there already, readable or not. *)
BootstrapBegins ==
  /\ boot.at = "none" /\ booted < MaxBoots
  /\ oi = "absent" /\ guards = {} /\ commit = Idle
  /\ \A f \in DOMAIN files : ~Present(f)
  /\ boot' = [at |-> "ohlc", tokens |-> {}]
  /\ booted' = booted + 1
  /\ UNCHANGED <<files, guards, commit, oi, refreshed>>

(* save_new of the cache: what a refresh has put there since the preflight is refused. *)
CreateOhlc ==
  /\ boot.at = "ohlc" /\ commit.who # "boot"
  /\ \/ /\ ~Present("ohlc")
        /\ BeginCommit("boot")
        /\ UNCHANGED boot
     \/ /\ ~OhlcLocked
        /\ Present("ohlc") \/ guards # {}
        /\ boot' = [boot EXCEPT !.at = "rollback"]
        /\ UNCHANGED <<guards, commit>>
  /\ UNCHANGED <<files, oi, booted, refreshed>>

After == [activity |-> "seed", seed |-> "policy", policy |-> "checking"]

(* create_durable_file_exclusive: a new inode, the bytes, and a token for both. *)
OpenNew ==
  /\ boot.at \in DOMAIN After
  /\ ~Present(boot.at)
  /\ files' = [files EXCEPT ![boot.at] = [by |-> "boot", content |-> "half"]]
  /\ UNCHANGED <<guards, commit, oi, boot, booted, refreshed>>

WriteNew ==
  /\ boot.at \in DOMAIN After
  /\ files[boot.at].content = "half"
  /\ After[boot.at] = "checking" => ~OhlcLocked     \* the four locks are taken next
  /\ files' = [files EXCEPT ![boot.at] = AsCreated]
  /\ boot' = [at |-> After[boot.at], tokens |-> boot.tokens \cup {boot.at}]
  /\ UNCHANGED <<guards, commit, oi, booted, refreshed>>

(* A failed creation unlinks its own inode, or fails at that as well. *)
WriteNewFails ==
  /\ boot.at \in DOMAIN After
  /\ files[boot.at].content = "half"
  /\ \/ files' = [files EXCEPT ![boot.at] = Absent]
     \/ UNCHANGED files
  /\ boot' = [boot EXCEPT !.at = "rollback"]
  /\ UNCHANGED <<guards, commit, oi, booted, refreshed>>

TokenMatches(f) == files[f] = AsCreated

(* Under the four locks: every token still names its file, every file loads. From here on *)
(* the OI phase has started.                                                              *)
CheckPrerequisites ==
  /\ boot.at = "checking"
  /\ boot' = [boot EXCEPT !.at = IF (\A f \in boot.tokens : TokenMatches(f)) /\ OhlcReadable
                                   THEN "lineage" ELSE "rollback"]
  /\ UNCHANGED <<files, guards, commit, oi, booted, refreshed>>

(* The first save of the OI store: its lineage marker, then its current file. *)
MarkLineage ==
  /\ boot.at = "lineage"
  /\ oi' = "marked"
  /\ boot' = [boot EXCEPT !.at = "bridge"]
  /\ UNCHANGED <<files, guards, commit, booted, refreshed>>

WriteBridge ==
  /\ boot.at = "bridge"
  /\ oi' = "bridge"
  /\ boot' = [boot EXCEPT !.at = "done"]
  /\ UNCHANGED <<files, guards, commit, booted, refreshed>>

\* Mutant: the OI phase counts as started only when the save has returned.
OiSaveFailsRolledBack ==
  /\ boot.at \in {"lineage", "bridge"}
  /\ boot' = [boot EXCEPT !.at = "rollback"]
  /\ \/ UNCHANGED oi
     \/ boot.at = "bridge" /\ oi' = "bridge"
  /\ UNCHANGED <<files, guards, commit, booted, refreshed>>

(* A failure of the OI save leaves everything: nobody can tell how far it came. *)
OiSaveFails ==
  /\ boot.at \in {"lineage", "bridge"}
  /\ boot' = [boot EXCEPT !.at = "failed"]
  /\ \/ UNCHANGED oi
     \/ boot.at = "bridge" /\ oi' = "bridge"     \* replaced, and the directory sync failed
  /\ UNCHANGED <<files, guards, commit, booted, refreshed>>

(* The rollback: in reverse order, each file whose token still matches; a failing unlink *)
(* is noted and the next file is tried.                                                  *)
LastToken == CHOOSE f \in boot.tokens :
               \A g \in boot.tokens : \E i, j \in 1..4 :
                  i >= j /\ Prerequisites[i] = f /\ Prerequisites[j] = g

Removable(f) == TokenMatches(f)

RollBack ==
  /\ boot.at = "rollback"
  /\ IF boot.tokens = {}
       THEN /\ boot' = [boot EXCEPT !.at = "none"]
            /\ UNCHANGED files
       ELSE LET f == LastToken
            IN  /\ f = "ohlc" => ~OhlcLocked
                /\ boot' = [boot EXCEPT !.tokens = @ \ {f}]
                /\ \/ Removable(f) /\ files' = [files EXCEPT ![f] = Absent]
                   \/ UNCHANGED files
  /\ UNCHANGED <<guards, commit, oi, booted, refreshed>>

(* The bootstrap's process dies, and its locks with it. *)
BootstrapDies ==
  /\ boot.at \notin {"none", "done"}
  /\ boot' = [at |-> "none", tokens |-> {}]
  /\ commit' = IF commit.who = "boot" THEN Idle ELSE commit
  /\ UNCHANGED <<files, guards, oi, booted, refreshed>>

BootNext ==
  \/ CommitStep \/ CommitFails \/ RefreshBegins \/ RefreshDies
  \/ BootstrapBegins \/ CreateOhlc \/ OpenNew \/ WriteNew \/ WriteNewFails
  \/ CheckPrerequisites \/ MarkLineage \/ WriteBridge \/ OiSaveFails
  \/ RollBack \/ BootstrapDies

-----------------------------------------------------------------------------
(* Properties *)

(* The bootstrap is all or nothing. The OI evidence is its commit point: once it can be    *)
(* read, the four files under it are there, written to the end; only the OHLC cache may    *)
(* have been rewritten since. Until then the rollback removes what this bootstrap created   *)
(* and nobody has touched since: never the cache of a refresh, never one that a refresh has *)
(* rewritten or left under a witness. And as the cache is rewritten in place, a death in    *)
(* the middle loses the old bytes: from the first truncated byte to the end of the write,   *)
(* whoever may die, a witness stands beside the file, and outlives its own three renames.   *)
BootstrapIsAtomic ==
  /\ [](/\ oi = "bridge" => /\ \A f \in {"activity", "seed", "policy"} : files[f] = AsCreated
                            /\ files["ohlc"].by = "boot"
        /\ files["ohlc"].content = "half" \/ commit # Idle => guards # {})
  /\ [][\A f \in DOMAIN files :
          Present(f) /\ files'[f] = Absent => files[f].by = "boot" /\ files[f].content # "later"]_bootVars

==============================================================================
