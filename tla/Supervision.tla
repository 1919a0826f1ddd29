------------------------------ MODULE Supervision ------------------------------
(***************************************************************************)
(* What surrounds a live process: the seal of its deployment, the receipt  *)
(* it leaves of its run, the fence at its start, the lease, the activation *)
(* permit, its heartbeat and the watchdog that reads it, the backup of the *)
(* runtime directory and its restoration on an empty machine.  The engine  *)
(* is the state it holds in memory (TradingEngine has the rest); a file    *)
(* write is a step and a process may die before any of them.  Procs are    *)
(* the live processes that the service manager or a person may start, one  *)
(* operator gives the other commands one after another.                    *)
(***************************************************************************)
EXTENDS Integers

CONSTANTS Procs, Operator, None,
          MaxRuns,      \* bound: starts of a live process
          MaxCommands   \* bound: doctor, deployment-seal and backup-runtime commands

ASSUME OperatorIsNoProcess == Operator \notin Procs
ASSUME BoundsAreNatural == MaxRuns \in Nat /\ MaxCommands \in Nat

VARIABLES
    state,       \* state.json, or None when the runtime directory is missing
    receipts,    \* process_run.json and its .prev
    permit,      \* stress90_activation_permit.json and its .prev
    seal,        \* deployment_identity.json and its .prev
    heart,       \* heartbeat.json
    registry,    \* the files of the account registry that exist
    archive,     \* the verified backup
    stage,       \* the staged runtime directory of a restoration
    lease,       \* who holds the lease of account and runtime
    pc,          \* per actor: what it does next
    draft,       \* per actor: the record it is about to write
    memory,      \* per process: the state its engine holds
    run,         \* per process: the UUID that its receipt, or that of its fence, gets
    watch,       \* the watchdog's reading of the three files
    missed,      \* history: fills may have come with no process there to record them
    owed,        \* history: a run ended unclean, or a runtime was restored,
                 \* and no later permit has been used
    stale,       \* history: the same, or a new seal, since the permit was issued
    overlaps,    \* history: what ran beside a live process: "live", "seal", "restore"
    born, commands

recovery == <<registry, archive, stage>>
files == <<state, receipts, permit, seal, heart, recovery>>
local == <<pc, draft, memory, run>>
history == <<missed, owed, stale, overlaps>>
bounds == <<born, commands>>
vars == <<files, lease, local, watch, history, bounds>>

Op == Operator
Actors == Procs \union {Op}
Parts == {"ledger", "companions", "current"}  \* companions: .lineage, .prev, .lock

\* The records.
Modes == {"HALTED", "RUNNING", "REDUCE_ONLY"}
States == [seq : Nat, mode : Modes, reconciled : BOOLEAN, circuit : BOOLEAN]
Phases == {"run_marker_written", "broker_constructed", "shutdown_state_saved",
           "heartbeat_stopped_pending_receipt", "stopped", "restart_fenced"}
Receipts == [uuid : Nat, phase : Phases, clean : BOOLEAN]
Heartbeats == [uuid : Nat, status : {"running", "stopped"}, state : States]
Permits == [status : {"issued", "consumed", "invalidated"}, for : States]
Records(B) == [seq : Nat, parent : [seq : Nat, body : B] \union {None}, body : B]

\* None stands for no file, no record and no holder of the lease.
ASSUME NoneIsNothingElse ==
    /\ None \notin Actors /\ None \notin States /\ None \notin Heartbeats
    /\ None \notin Records(Receipts) \union Records(Permits) \union Records({"deployment"})

(***************************************************************************)
(* Files kept in two generations.  A record names its predecessor; .prev   *)
(* is replaced first and serves as evidence, never as a source.            *)
(***************************************************************************)
Empty == [cur |-> None, prev |-> None]
Sum(r) == [seq |-> r.seq, body |-> r.body]

\* load_record of the receipt, the permit and the seal.
Loads(f) ==
    IF f.cur = None THEN f.prev = None
    ELSE IF f.prev = None THEN f.cur.seq = 1
    ELSE \/ Sum(f.prev) = Sum(f.cur)
         \/ f.prev.seq + 1 = f.cur.seq /\ f.cur.parent = Sum(f.prev)

\* The record that follows what the file holds.
Following(f, body) ==
    IF f.cur = None THEN [seq |-> 1, parent |-> None, body |-> body]
    ELSE [seq |-> f.cur.seq + 1, parent |-> Sum(f.cur), body |-> body]

\* Both files once they are written.
Written(f, body) == [cur |-> Following(f, body), prev |-> f.cur]

\* Mutant of KeepPrevious: the current file is renamed, not copied.
RenameToPrevious(f) == [cur |-> None, prev |-> f.cur]

KeepPrevious(f) == [f EXCEPT !.prev = f.cur]

\* StateStore.save: its sequence continues the file's.  No comparison unless the
\* caller asks for one.
Saved(s) == [s EXCEPT !.seq = IF state = None THEN 1 ELSE state.seq + 1]
Loaded == [state EXCEPT !.seq = 0]

Has(f, status) == f.cur # None /\ f.cur.body.status = status

\* The receipt of a run that is under way.
Running(uuid, phase) == [uuid |-> uuid, phase |-> phase, clean |-> FALSE]

Clean == receipts.cur = None \/ receipts.cur.body.clean

\* A commissioned runtime, with its policy state; a directory that a late write has made
\* again after it was put aside has neither that nor a seal.
Whole == state # None /\ seal.cur # None

\* require_matching_deployment (what is installed is what was sealed).
Matches == Whole /\ Loads(seal)

\* The stages of a run between its receipt and its clean end.
Begun == {"construct", "constructed", "lease", "startup", "consumed", "activate",
          "trading", "stopping", "failing", "saved", "savedW", "silent", "silentW",
          "beat", "beatW", "finish", "finishW"}

Unwatched == [at |-> "idle", heart |-> None, down |-> FALSE]

Sealing == {"seal", "sealRevoked", "sealing", "sealW"}

Goes(a, where) == pc' = [pc EXCEPT ![a] = where]
Drafts(a, r) == draft' = [draft EXCEPT ![a] = r]

\* A commissioned runtime, which an activation left HALTED and reconciled; the same with a
\* permit, and backed up; or a runtime whose first process used the permit, then died.
Commissioned == [seq |-> 1, mode |-> "HALTED", reconciled |-> TRUE, circuit |-> FALSE]
Permitted == Written(Empty, [status |-> "issued", for |-> Commissioned])

Init ==
    /\ seal = Written(Empty, "deployment")
    /\ \/ /\ state = Commissioned /\ receipts = Empty
          /\ permit = Empty /\ archive = None
          /\ owed = FALSE /\ missed = FALSE
       \/ /\ state = Commissioned /\ receipts = Empty
          /\ permit = Permitted
          /\ archive = [state |-> state, seal |-> seal, permit |-> permit]
          /\ owed = FALSE /\ missed = FALSE
       \/ /\ state = [Commissioned EXCEPT !.seq = 2, !.mode = "RUNNING"]
          /\ receipts = Written(Written(Empty, Running(0, "run_marker_written")),
                                Running(0, "broker_constructed"))
          /\ permit = Written(Permitted, [status |-> "consumed", for |-> Commissioned])
          /\ archive = None
          /\ owed = TRUE /\ missed = TRUE
    /\ stale = owed /\ overlaps = {}
    /\ heart = None /\ registry = Parts /\ stage = None
    /\ lease = None
    /\ pc = [a \in Actors |-> "off"] /\ draft = [a \in Actors |-> None]
    /\ memory = [p \in Procs |-> None] /\ run = [p \in Procs |-> 0]
    /\ watch = Unwatched
    /\ born = 0 /\ commands = 0

--------------------------------------------------------------------------------
(***************************************************************************)
(* The start of a live process: preflight and fence.                       *)
(***************************************************************************)

\* _deployment_preflight and the first reads: a seal that matches what is
\* installed, a state, and the receipt of the run before.
Start(p) ==
    /\ pc[p] = "off" /\ born < MaxRuns
    /\ Matches
    /\ Goes(p, IF ~Loads(receipts) THEN "unknown" ELSE IF Clean THEN "begin" ELSE "fence")
    /\ overlaps' = overlaps \union (IF \E q \in Procs : pc[q] # "off" THEN {"live"} ELSE {})
                            \union (IF pc[Op] \in Sealing THEN {"seal"} ELSE {})
                            \union (IF pc[Op] = "publish" THEN {"restore"} ELSE {})
    /\ born' = born + 1
    /\ run' = [run EXCEPT ![p] = born + 1]
    /\ UNCHANGED <<files, lease, draft, memory, watch, missed, owed, stale, commands>>

\* What the fence makes of the state.  A daily circuit keeps its day.
\* Mutant: it leaves the mode alone.
UnreconciledState ==
    [seq |-> 0, mode |-> IF state = None THEN "HALTED" ELSE state.mode,
     reconciled |-> FALSE, circuit |-> state # None /\ state.circuit]

FencedState ==
    [seq |-> 0, mode |-> "HALTED", reconciled |-> FALSE,
     circuit |-> state # None /\ state.circuit]

\* _halt_state_exact and the first half of _halt_unknown_process_run, to which a fence
\* without a state comes and which makes one.
HaltState(p) ==
    /\ pc[p] \in {"fence", "unknown"}
    /\ state' = Saved(FencedState)
    /\ Goes(p, IF pc[p] = "fence" /\ state # None THEN "revoke" ELSE "revokeUnknown")
    /\ UNCHANGED <<receipts, permit, seal, heart, recovery, lease, draft, memory, run,
                   watch, history, bounds>>

\* invalidate: a permit that is not yet invalidated is followed by one that is.
Voided(f) == [f.cur.body EXCEPT !.status = "invalidated"]
ToInvalidate(f) == f.cur # None /\ f.cur.body.status # "invalidated"

\* _invalidate_permit: what cannot be read sends the fence to its last resort, and
\* ends that.
RevokeBegins(p) ==
    /\ pc[p] \in {"revoke", "revokeUnknown"}
    /\ IF Loads(permit) /\ ToInvalidate(permit)
       THEN /\ permit' = KeepPrevious(permit)
            /\ Drafts(p, Following(permit, Voided(permit)))
            /\ Goes(p, IF pc[p] = "revoke" THEN "revokeW" ELSE "revokeUnknownW")
       ELSE /\ Goes(p, IF pc[p] = "revokeUnknown" THEN "off"
                       ELSE IF Loads(permit) THEN "record" ELSE "unknown")
            /\ UNCHANGED <<permit, draft>>
    /\ UNCHANGED <<state, receipts, seal, heart, recovery, lease, memory, run, watch,
                   history, bounds>>

RevokeEnds(p) ==
    /\ pc[p] \in {"revokeW", "revokeUnknownW"}
    /\ permit' = [permit EXCEPT !.cur = draft[p]]
    /\ Goes(p, IF pc[p] = "revokeW" THEN "record" ELSE "off")
    /\ Drafts(p, None)
    /\ UNCHANGED <<state, receipts, seal, heart, recovery, lease, memory, run, watch,
                   history, bounds>>

\* record_restart_fence, which only an unclean receipt may precede.
FenceBegins(p) ==
    /\ pc[p] = "record"
    /\ IF Loads(receipts) /\ ~Clean
       THEN /\ receipts' = KeepPrevious(receipts)
            /\ Drafts(p, Following(receipts, [uuid |-> run[p], phase |-> "restart_fenced",
                                              clean |-> TRUE]))
            /\ Goes(p, "recordW")
       ELSE Goes(p, "unknown") /\ UNCHANGED <<receipts, draft>>
    /\ UNCHANGED <<state, permit, seal, heart, recovery, lease, memory, run, watch,
                   history, bounds>>

\* The new receipt is read back; a difference is an error of the fence.
FenceEnds(p) ==
    /\ pc[p] = "recordW"
    /\ receipts' = [receipts EXCEPT !.cur = draft[p]]
    /\ Goes(p, IF Loads(receipts') THEN "off" ELSE "unknown")
    /\ Drafts(p, None)
    /\ UNCHANGED <<state, permit, seal, heart, recovery, lease, memory, run, watch,
                   history, bounds>>

--------------------------------------------------------------------------------
(***************************************************************************)
(* The run of a live process.                                              *)
(***************************************************************************)

\* A run that has left its receipt ends without a clean one.
EndsUnclean(p) ==
    /\ owed' = (owed \/ pc[p] \in Begun)
    /\ stale' = (stale \/ pc[p] \in Begun)

\* begin, and later mark_phase and finish_clean: each reads the receipt, refuses one
\* that is not its own and unclean (begin: one that is unclean), keeps it as .prev
\* and writes the next.
Phase == [construct |-> "broker_constructed",
          saved |-> "shutdown_state_saved", silent |-> "shutdown_state_saved",
          beat |-> "heartbeat_stopped_pending_receipt", finish |-> "stopped"]
After == [beginW |-> "construct", constructed |-> "lease", savedW |-> "beat",
          silentW |-> "off", beatW |-> "finish", finishW |-> "off"]
Writing == [begin |-> "beginW", construct |-> "constructed", saved |-> "savedW",
            silent |-> "silentW", beat |-> "beatW", finish |-> "finishW"]

Begin(p) ==
    /\ pc[p] = "begin"
    /\ IF Loads(receipts) /\ Clean
       THEN /\ receipts' = KeepPrevious(receipts)
            /\ Drafts(p, Following(receipts, [uuid |-> run[p], clean |-> FALSE,
                                              phase |-> "run_marker_written"]))
            /\ Goes(p, "beginW")
       ELSE Goes(p, "off") /\ UNCHANGED <<receipts, draft>>
    /\ UNCHANGED <<state, permit, seal, heart, recovery, lease, memory, run, watch,
                   history, bounds>>

Mark(p) ==
    /\ pc[p] \in DOMAIN Phase
    /\ IF /\ Loads(receipts) /\ ~Clean /\ receipts.cur.body.uuid = run[p]
          /\ pc[p] \in {"saved", "silent"} => state # None
       THEN /\ receipts' = KeepPrevious(receipts)
            /\ Drafts(p, Following(receipts, [uuid |-> run[p], phase |-> Phase[pc[p]],
                                              clean |-> pc[p] = "finish"]))
            /\ Goes(p, Writing[pc[p]])
            /\ UNCHANGED <<owed, stale>>
       ELSE Goes(p, "off") /\ EndsUnclean(p) /\ UNCHANGED <<receipts, draft>>
    /\ UNCHANGED <<state, permit, seal, heart, recovery, lease, memory, run, watch,
                   missed, overlaps, bounds>>

\* _replace: the record is read back, and what does not follow .prev is an error.  A run
\* whose last heartbeat was not written goes no further.
WriteReceipt(p) ==
    /\ pc[p] \in DOMAIN After
    /\ receipts' = [receipts EXCEPT !.cur = draft[p]]
    /\ Drafts(p, None)
    /\ IF Loads(receipts') /\ pc[p] # "silentW"
       THEN Goes(p, After[pc[p]]) /\ UNCHANGED <<owed, stale>>
       ELSE Goes(p, "off") /\ EndsUnclean(p)
    /\ UNCHANGED <<state, permit, seal, heart, recovery, lease, memory, run, watch,
                   missed, overlaps, bounds>>

\* The two leases, then the engine with the state it loads.
TakeLease(p) ==
    /\ pc[p] = "lease"
    /\ IF lease = None /\ Whole /\ "current" \in registry
       THEN /\ lease' = p /\ Goes(p, "startup")
            /\ memory' = [memory EXCEPT ![p] = Loaded]
            /\ UNCHANGED <<owed, stale>>
       ELSE Goes(p, "off") /\ EndsUnclean(p) /\ UNCHANGED <<lease, memory>>
    /\ UNCHANGED <<files, draft, run, watch, missed, overlaps, bounds>>

\* _persist, which compares nothing.
Persists(p, m) ==
    /\ memory' = [memory EXCEPT ![p] = m]
    /\ state' = Saved(m)

Halt(m, reconciled, circuit) ==
    [m EXCEPT !.mode = "HALTED", !.reconciled = reconciled, !.circuit = circuit]

\* A startup that fails: not ready, active orders, a difference of positions.
StartupFails(p) ==
    /\ pc[p] = "startup"
    /\ \/ \E circuit \in BOOLEAN :
            /\ circuit => memory[p].mode = "RUNNING"
            /\ Persists(p, Halt(memory[p], FALSE, circuit))
       \/ memory[p].mode # "RUNNING" /\ UNCHANGED <<state, memory>>
    /\ Goes(p, "failing")
    /\ UNCHANGED <<receipts, permit, seal, heart, recovery, lease, draft, run, watch,
                   history, bounds>>

\* A runtime left RUNNING by a clean stop trades on once it is reconciled.
Resume(p) ==
    /\ pc[p] = "startup" /\ memory[p].mode = "RUNNING"
    /\ Persists(p, [memory[p] EXCEPT !.reconciled = TRUE])
    /\ Goes(p, "trading")
    /\ UNCHANGED <<receipts, permit, seal, heart, recovery, lease, draft, run, watch,
                   history, bounds>>

Recovered(m) == [m EXCEPT !.mode = "RUNNING", !.reconciled = TRUE, !.circuit = FALSE]

\* _try_daily_circuit_recovery, on a later day and without risk: the daily circuit
\* has an authority of its own and asks for no permit.
RecoverCircuit(p) ==
    /\ pc[p] = "startup" /\ memory[p].mode = "HALTED" /\ memory[p].circuit
    /\ Persists(p, Recovered(memory[p]))
    /\ owed' = FALSE
    /\ Goes(p, "trading")
    /\ UNCHANGED <<receipts, permit, seal, heart, recovery, lease, draft, run, watch,
                   missed, stale, overlaps, bounds>>

\* What a permit is given for: the state as it is, and where it may be given.
Grantable ==
    /\ state # None /\ state.mode = "HALTED" /\ state.reconciled /\ ~state.circuit
    /\ "current" \in registry

\* activate_stress90_from_permit: the permit is consumed first, in two writes ...
ConsumePermit(p) ==
    /\ pc[p] = "startup" /\ memory[p].mode = "HALTED" /\ ~memory[p].circuit
    /\ Grantable /\ Loads(permit) /\ Has(permit, "issued")
    /\ permit.cur.body.for = state
    /\ permit' = KeepPrevious(permit)
    /\ Drafts(p, Following(permit, [permit.cur.body EXCEPT !.status = "consumed"]))
    /\ Goes(p, "consumed")
    /\ owed' = stale
    /\ UNCHANGED <<state, receipts, seal, heart, recovery, lease, memory, run, watch,
                   missed, stale, overlaps, bounds>>

PermitConsumed(p) ==
    /\ pc[p] = "consumed"
    /\ permit' = [permit EXCEPT !.cur = draft[p]]
    /\ Goes(p, "activate")
    /\ UNCHANGED <<state, receipts, seal, heart, recovery, lease, draft, memory, run,
                   watch, history, bounds>>

\* ... then the state is saved RUNNING, if it is still the one the permit is for.
Activate(p) ==
    /\ pc[p] = "activate"
    /\ Drafts(p, None)
    /\ IF draft[p].body.for = state
       THEN Persists(p, [Loaded EXCEPT !.mode = "RUNNING"]) /\ Goes(p, "trading")
       ELSE Goes(p, "failing") /\ UNCHANGED <<state, memory>>
    /\ UNCHANGED <<receipts, permit, seal, heart, recovery, lease, run, watch, history,
                   bounds>>

\* The loop: the reductions and halts of the engine's own (its other saves change the
\* book, not what is told apart here).
Trade(p) ==
    /\ pc[p] = "trading" /\ memory[p].mode # "HALTED"
    /\ \/ \E circuit \in BOOLEAN :
            \/ /\ memory[p].mode = "RUNNING"
               /\ Persists(p, [memory[p] EXCEPT !.mode = "REDUCE_ONLY", !.circuit = circuit])
            \/ Persists(p, Halt(memory[p], FALSE, circuit))
       \/ /\ memory[p].mode = "REDUCE_ONLY"
          /\ Persists(p, Halt(memory[p], memory[p].reconciled, memory[p].circuit))
    /\ UNCHANGED <<receipts, permit, seal, heart, recovery, lease, pc, draft, run,
                   watch, history, bounds>>

\* after_cycle: a heartbeat names the run and the state on disk.  A halted loop ends
\* after the cycle that halted it.
Beat(p) ==
    /\ pc[p] = "trading" /\ state # None
    /\ heart' = [uuid |-> run[p], status |-> "running", state |-> state]
    /\ UNCHANGED <<state, receipts, permit, seal, recovery, lease, local, watch,
                   history, bounds>>

\* SIGTERM or Ctrl-C, and the exception of a halted loop.
LeaveLoop(p) ==
    /\ pc[p] = "trading"
    /\ \/ memory[p].mode # "HALTED" /\ Goes(p, "stopping")
       \/ memory[p].mode = "HALTED" /\ Goes(p, "failing")
    /\ UNCHANGED <<files, lease, draft, memory, run, watch, history, bounds>>

\* engine.stop with the heartbeat of a stop, which may fail to be written, and the
\* release of the lease.  Only an orderly stop goes on to its receipt.
Stop(p) ==
    /\ pc[p] \in {"stopping", "failing"}
    /\ state' = Saved(memory[p])
    /\ memory' = [memory EXCEPT ![p] = None]
    /\ lease' = None
    /\ heart' \in {heart, [uuid |-> run[p], status |-> "stopped", state |-> state']}
    /\ IF pc[p] = "stopping"
       THEN /\ Goes(p, IF heart' = heart THEN "silent" ELSE "saved")
            /\ UNCHANGED <<owed, stale>>
       ELSE Goes(p, "off") /\ EndsUnclean(p)
    /\ UNCHANGED <<receipts, permit, seal, recovery, draft, run, watch, missed,
                   overlaps, bounds>>

\* The process dies at any point; fills may come that nobody records.
Die(p) ==
    /\ pc[p] # "off"
    /\ Goes(p, "off") /\ EndsUnclean(p)
    /\ Drafts(p, None)
    /\ memory' = [memory EXCEPT ![p] = None]
    /\ lease' = IF lease = p THEN None ELSE lease
    /\ missed' = (missed \/ pc[p] \in {"trading", "stopping", "failing"})
    /\ UNCHANGED <<files, run, watch, overlaps, bounds>>

--------------------------------------------------------------------------------
(***************************************************************************)
(* The operator's commands.                                                *)
(***************************************************************************)

Commands(where) ==
    /\ pc[Op] = "off" /\ commands < MaxCommands
    /\ commands' = commands + 1
    /\ Goes(Op, where)

\* A command that meets an error, or dies, leaves what it has written; the kernel
\* releases its lease.
OpStops ==
    /\ pc[Op] \notin {"off", "publish"}
    /\ Goes(Op, "off") /\ Drafts(Op, None)
    /\ lease' = IF lease = Op THEN None ELSE lease
    /\ stage' = None
    /\ UNCHANGED <<state, receipts, permit, seal, heart, registry, archive, memory, run,
                   watch, history, bounds>>

\* doctor --issue-permit, which passes the same preflight as live: evidence, then the
\* permit in two writes, under the lease.
DoctorBegins ==
    /\ Commands("doctor")
    /\ Matches /\ lease = None
    /\ lease' = Op
    /\ UNCHANGED <<files, draft, memory, run, watch, history, born>>

DoctorGrants ==
    /\ pc[Op] = "doctor"
    /\ Grantable /\ Loads(permit) /\ ~Has(permit, "issued")
    /\ permit' = KeepPrevious(permit)
    /\ Drafts(Op, Following(permit, [status |-> "issued", for |-> state]))
    /\ Goes(Op, "doctorW")
    /\ stale' = FALSE
    /\ UNCHANGED <<state, receipts, seal, heart, recovery, lease, memory, run, watch,
                   missed, owed, overlaps, bounds>>

DoctorEnds ==
    /\ pc[Op] = "doctorW"
    /\ permit' = [permit EXCEPT !.cur = draft[Op]]
    /\ Goes(Op, "off") /\ Drafts(Op, None) /\ lease' = None
    /\ UNCHANGED <<state, receipts, seal, heart, recovery, memory, run, watch, history,
                   bounds>>

\* deployment-seal: an old permit is invalidated before the new seal is written.  It
\* takes no lease.
SealBegins ==
    /\ Commands("seal")
    /\ Whole
    /\ overlaps' = overlaps \union (IF \E p \in Procs : pc[p] # "off" THEN {"seal"} ELSE {})
    /\ UNCHANGED <<files, lease, draft, memory, run, watch, missed, owed, stale, born>>

SealRevokes ==
    /\ pc[Op] = "seal" /\ Loads(permit)
    /\ IF ToInvalidate(permit)
       THEN /\ permit' = KeepPrevious(permit)
            /\ Drafts(Op, Following(permit, Voided(permit))) /\ Goes(Op, "sealRevoked")
       ELSE Goes(Op, "sealing") /\ UNCHANGED <<permit, draft>>
    /\ UNCHANGED <<state, receipts, seal, heart, recovery, lease, memory, run, watch,
                   history, bounds>>

SealRevoked ==
    /\ pc[Op] = "sealRevoked"
    /\ permit' = [permit EXCEPT !.cur = draft[Op]]
    /\ Goes(Op, "sealing")
    /\ UNCHANGED <<state, receipts, seal, heart, recovery, lease, draft, memory, run,
                   watch, history, bounds>>

SealKeeps ==
    /\ pc[Op] = "sealing" /\ Loads(seal)
    /\ seal' = KeepPrevious(seal)
    /\ Drafts(Op, Following(seal, "deployment")) /\ Goes(Op, "sealW")
    /\ UNCHANGED <<state, receipts, permit, heart, recovery, lease, memory, run, watch,
                   history, bounds>>

SealEnds ==
    /\ pc[Op] = "sealW"
    /\ seal' = [seal EXCEPT !.cur = draft[Op]]
    /\ stale' = TRUE
    /\ Goes(Op, "off") /\ Drafts(Op, None)
    /\ UNCHANGED <<state, receipts, permit, heart, recovery, lease, memory, run, watch,
                   missed, owed, overlaps, bounds>>

\* The recovery of fills that no run recorded (HaltedRecovery has its steps): the
\* state stays HALTED and is reconciled.
RecoverFills ==
    /\ pc[Op] = "off" /\ lease = None /\ missed
    /\ state # None /\ state.mode = "HALTED"
    /\ state' = Saved([state EXCEPT !.reconciled = TRUE])
    /\ missed' = FALSE
    /\ UNCHANGED <<receipts, permit, seal, heart, recovery, lease, local, watch, owed,
                   stale, overlaps, bounds>>

\* backup-runtime, under the lease: the authority, the files one after another (each
\* current one before its .prev), the authority again, and the verified archive.
Authority == Matches /\ state.mode = "HALTED" /\ "current" \in registry /\ Loads(permit)

BackupBegins ==
    /\ Commands("backup")
    /\ lease = None /\ Authority
    /\ lease' = Op
    /\ Drafts(Op, [state |-> state, seal |-> seal, permit |-> Empty])
    /\ UNCHANGED <<files, memory, run, watch, history, born>>

BackupCopies ==
    /\ pc[Op] \in {"backup", "backup2"}
    /\ Drafts(Op, IF pc[Op] = "backup" THEN [draft[Op] EXCEPT !.permit.cur = permit.cur]
                  ELSE [draft[Op] EXCEPT !.permit.prev = permit.prev])
    /\ Goes(Op, IF pc[Op] = "backup" THEN "backup2" ELSE "backup3")
    /\ UNCHANGED <<files, lease, memory, run, watch, history, bounds>>

BackupEnds ==
    /\ pc[Op] = "backup3"
    /\ Authority /\ state = draft[Op].state /\ seal = draft[Op].seal
    /\ Loads(draft[Op].permit)
    /\ archive' = draft[Op]
    /\ Goes(Op, "off") /\ Drafts(Op, None) /\ lease' = None
    /\ UNCHANGED <<state, receipts, permit, seal, heart, registry, stage, memory, run,
                   watch, history, bounds>>

\* The machine is lost with everything on it but the archive.
Disaster ==
    /\ archive # None /\ \A a \in Actors : pc[a] = "off"
    /\ state' = None /\ receipts' = Empty /\ permit' = Empty /\ seal' = Empty
    /\ heart' = None /\ registry' = {}
    /\ watch' = Unwatched
    /\ UNCHANGED <<archive, stage, lease, local, history, bounds>>

\* restore-runtime: empty places are required, the archive is staged and its permit
\* invalidated there ...
RestoreBegins ==
    /\ pc[Op] = "off" /\ Goes(Op, "publish")
    /\ archive # None /\ registry = {}
    /\ state = None /\ receipts = Empty /\ permit = Empty /\ seal = Empty /\ heart = None
    /\ stage' = [archive EXCEPT !.permit =
           IF ToInvalidate(@) THEN Written(@, Voided(@)) ELSE @]
    /\ UNCHANGED <<state, receipts, permit, seal, heart, registry, archive, lease,
                   draft, memory, run, watch, history, bounds>>

\* ... the runtime directory is published by one rename ...
PublishRuntime ==
    /\ pc[Op] = "publish" /\ stage # None
    /\ state' = stage.state /\ permit' = stage.permit /\ seal' = stage.seal
    /\ stage' = None
    /\ owed' = TRUE /\ stale' = TRUE
    /\ UNCHANGED <<receipts, heart, registry, archive, lease, local, watch, missed,
                   overlaps, bounds>>

\* ... and the registry file by file, the current one last.
\* Mutant of PublishOrder: the current file first.
CurrentFirst == <<"current", "ledger", "companions">>

PublishOrder == <<"ledger", "companions", "current">>

Published == {i \in DOMAIN PublishOrder : PublishOrder[i] \in registry}

PublishRegistry ==
    /\ pc[Op] = "publish" /\ stage = None
    /\ \E i \in DOMAIN PublishOrder :
        /\ Published = 1 .. i - 1
        /\ registry' = registry \union {PublishOrder[i]}
    /\ UNCHANGED <<state, receipts, permit, seal, heart, archive, stage, lease, local,
                   watch, history, bounds>>

\* The restored runtime is looked at once more.
RestoreEnds ==
    /\ pc[Op] = "publish" /\ registry = Parts
    /\ state # None /\ state.mode = "HALTED" /\ Loads(permit) /\ ~Has(permit, "issued")
    /\ Goes(Op, "off")
    /\ UNCHANGED <<files, lease, draft, memory, run, watch, history, bounds>>

\* An error puts the runtime aside, a death leaves what is published.
RestoreFails ==
    /\ pc[Op] = "publish"
    /\ Goes(Op, "off") /\ stage' = None
    /\ \/ /\ stage = None
          /\ state' = None /\ receipts' = Empty /\ permit' = Empty /\ seal' = Empty
          /\ heart' = None
       \/ UNCHANGED <<state, receipts, permit, seal, heart>>
    /\ UNCHANGED <<registry, archive, lease, draft, memory, run, watch, history,
                   bounds>>

--------------------------------------------------------------------------------
(***************************************************************************)
(* The watchdog, which reads three files one after another and lets none   *)
(* of them pass that it finds wrong.  (Ages and the state of the broker    *)
(* that the heartbeat carries are facts of the outside.)                   *)
(***************************************************************************)

WatchHeartbeat ==
    /\ watch.at = "idle"
    /\ heart # None /\ heart.status = "running" /\ heart.state.mode # "HALTED"
    /\ watch' = [at |-> "receipt", heart |-> heart,
                 down |-> state = None \/ state.mode = "HALTED" \/ Clean]
    /\ UNCHANGED <<files, lease, local, history, bounds>>

WatchReceipt ==
    /\ watch.at = "receipt"
    /\ watch' = IF Loads(receipts) /\ ~Clean /\ receipts.cur.body.uuid = watch.heart.uuid
                THEN [watch EXCEPT !.at = "state"] ELSE Unwatched
    /\ UNCHANGED <<files, lease, local, history, bounds>>

\* Mutant of HeartbeatIsCurrent: the state is only loaded.
StateLoads == state # None

HeartbeatIsCurrent == state = watch.heart.state

WatchState ==
    /\ watch.at = "state"
    /\ watch' = IF HeartbeatIsCurrent THEN [watch EXCEPT !.at = "well"]
                ELSE Unwatched
    /\ UNCHANGED <<files, lease, local, history, bounds>>

--------------------------------------------------------------------------------
Live(p) ==
    \/ Start(p) \/ HaltState(p) \/ RevokeBegins(p) \/ RevokeEnds(p)
    \/ FenceBegins(p) \/ FenceEnds(p)
    \/ Begin(p) \/ Mark(p) \/ WriteReceipt(p) \/ TakeLease(p)
    \/ StartupFails(p) \/ Resume(p) \/ RecoverCircuit(p)
    \/ ConsumePermit(p) \/ PermitConsumed(p) \/ Activate(p)
    \/ Trade(p) \/ Beat(p) \/ LeaveLoop(p) \/ Stop(p) \/ Die(p)

Operate ==
    \/ OpStops \/ RecoverFills
    \/ DoctorBegins \/ DoctorGrants \/ DoctorEnds
    \/ SealBegins \/ SealRevokes \/ SealRevoked \/ SealKeeps \/ SealEnds
    \/ BackupBegins \/ BackupCopies \/ BackupEnds
    \/ Disaster \/ RestoreBegins \/ PublishRuntime \/ PublishRegistry
    \/ RestoreEnds \/ RestoreFails

Observe == WatchHeartbeat \/ WatchReceipt \/ WatchState

Next == (\E p \in Procs : Live(p)) \/ Operate \/ Observe

Spec == Init /\ [][Next]_vars

--------------------------------------------------------------------------------
\* A process that trades has been given the right to since the last run that ended
\* without a clean receipt and since the last restoration: by a permit issued after
\* both and after the last seal, or by the recovery of a daily circuit.  (A second live
\* process fences a first one that still runs; what the first saves then undoes it.)
TradingIsEarned ==
    \A p \in Procs :
        pc[p] = "trading" /\ memory[p].mode # "HALTED"
            => ~owed \/ {"live", "restore"} \intersect overlaps # {}

\* Wherever a process or a command dies, the next one can read the receipt, the permit
\* and the seal: no pair of writes passes through a pair of files that it refuses.
\* (deployment-seal takes no lease, and these files have no lock: beside a live process
\* it may leave a permit that nothing can read again, and so may two live processes and
\* a live process beside a restoration that fails and puts its directory aside.)
StoresStayReadable ==
    overlaps # {} \/ state = None \/ (Loads(receipts) /\ Loads(permit) /\ Loads(seal))

\* The watchdog never finds everything well in a runtime that was halted, or had no run
\* under way, when it began to read, whatever was written while it read.  (A process that
\* runs beside a restoration saves a state that counts from one again when the directory
\* is put aside, and may come back to the one of an older heartbeat.)
WatchdogIsRight ==
    watch.at = "well" /\ "restore" \notin overlaps => ~watch.down

\* A restoration that died half way grants nothing: a permit issued since the last one
\* was issued with the whole registry in place.
HalfRestoredGrantsNothing ==
    Has(permit, "issued") /\ ~stale => registry = Parts
================================================================================
