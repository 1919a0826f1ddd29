---------------------------- MODULE LifecycleProofs ----------------------------
(***************************************************************************)
(* Proofs about Lifecycle, for any number of runtimes, accounts and nonces    *)
(* and for every bound: a runtime that trades has spent a permit for what is  *)
(* in place now; the registry, seen by its readers, is the atomic one; and    *)
(* wherever a process dies, the files of a runtime are at one point of their  *)
(* transaction, whose command is not refused once its nonce is consumed.      *)
(*                                                                           *)
(* RInv says why.  A transaction names accounts that fit its kind (TxnsOf); a *)
(* call that writes is still admissible, because nothing else has replaced    *)
(* the current record since it was looked at (CallSound); and what a permit   *)
(* covers stays in place under a live process, since a command needs the      *)
(* lease that the process holds and the halted state that it has left         *)
(* (LiveOf).  A change of the registry on behalf of one runtime leaves every  *)
(* binding of the others alone (BindingsKept).                                *)
(*                                                                           *)
(* FInv has the files.  Chain says what those of the registry are between any *)
(* two writes of a call, PreparedFor how far a prepared transaction has come, *)
(* SettledOf what the last one has left.  What has to be kept from the past   *)
(* is that every request in the log is of an earlier revision of the policy   *)
(* state, but for the one in place: so a consumed request is in place, and a  *)
(* new one is not refused as a repetition of another.                         *)
(***************************************************************************)
EXTENDS Lifecycle, TLAPS

\* Every runtime has its files and, while a command or a live process holds the lease, a
\* process with the fields the steps read.
ShapeOf(r) ==
    /\ DOMAIN proc[r] = {"role", "account", "at", "txn", "seen"}
    /\ DOMAIN coord[r] = {"marker", "current", "previous"}
    /\ HasTxn(r) => DOMAIN coord[r].current = {"sequence", "status", "txn"}
    /\ DOMAIN generic[r] = {"revision", "mode", "identity", "account"}
    /\ generic[r].revision \in Nat
    /\ DOMAIN permit[r] = {"status", "for"}

Shape ==
    /\ DOMAIN proc = Runtimes /\ DOMAIN coord = Runtimes /\ DOMAIN policy = Runtimes
    /\ DOMAIN generic = Runtimes /\ DOMAIN permit = Runtimes
    /\ DOMAIN call = {"request", "at"}
    /\ DOMAIN current = {"bindings", "log"} /\ DOMAIN current.bindings = Accounts
    /\ \E S : current.log \in Seq(S)

\* A first owner has no account to leave, and a migration keeps account and epoch.
TxnSound(t) ==
    /\ t.op \in Operations /\ t.account \in Accounts
    /\ t.op = "activation" => t.source = t.account
    /\ t.op = "migration" => t.source = t.account /\ t.epoch = t.from

\* A transaction that is not begun yet: who it is for is compared when it begins.
TxnAsked(r, t) ==
    /\ t.op \in Operations /\ t.account \in Accounts
    /\ t.op = "activation" /\ policy[r].account = NoAccount => t.source = t.account
    /\ t.op = "migration" => t.source = t.account /\ t.epoch = t.from

TxnsOf(r) ==
    /\ HasTxn(r) => TxnSound(Txn(r))
    /\ proc[r].at \in {"invalidate", "begin"} => TxnAsked(r, proc[r].txn)
    /\ proc[r].at \in {"prepare", "prepare previous", "registry", "calling"} =>
         TxnSound(proc[r].txn)
    /\ proc[r].at \in {"generic", "commit"} => HasTxn(r)

\* The account's binding is the one a permit is for.
Covers(r, e) ==
    /\ ~Prepared(r)
    /\ e.policy = policy[r].revision
    /\ e.account \in Bound
    /\ Binding(e.account).runtime = r /\ Binding(e.account).epoch = e.epoch

\* A live process finds what it looked at still in place when it consumes the permit and
\* when it saves the running state.
LiveOf(r) ==
    /\ generic[r].mode = "RUNNING" =>
         /\ proc[r].at \in {"none", "trading"}
         /\ permit[r].status = "consumed" /\ permit[r].for.generic < generic[r].revision
         /\ Covers(r, permit[r].for)
    /\ proc[r].at \in {"permit", "run"} =>
         Covers(r, proc[r].seen) /\ proc[r].seen.generic = generic[r].revision
    /\ proc[r].at = "run" => permit[r].status = "consumed" /\ permit[r].for = proc[r].seen

Sound(r) == ShapeOf(r) /\ TxnsOf(r) /\ LiveOf(r)

Writing == call.at \in {"receipt", "pending", "transition", "previous", "current"}

\* The registry writes a request of the process that waits for it, and nothing has made
\* the request inadmissible since it was looked at.
CallSound ==
    call # NoCall =>
      LET q == call.request
      IN  /\ q.runtime \in Runtimes /\ proc[q.runtime].at = "calling"
          /\ q = RequestOf(q.runtime, proc[q.runtime].txn)
          /\ Writing => Admissible(q)

RInv == Shape /\ CallSound /\ \A r \in Runtimes : Sound(r)

\* The initial files satisfy the invariant: no transaction, no call, nothing running.
LEMMA InitSound == Init => RInv
<1> SUFFICES ASSUME Init PROVE RInv
  OBVIOUS
<1>1. Shape
  BY DEF Init, RegistryInit, Shape, NoCall
<1>2. CallSound
  BY DEF Init, RegistryInit, CallSound
<1>3. ASSUME NEW r \in Runtimes PROVE Sound(r)
  <2>1. /\ coord[r] = [marker |-> FALSE, current |-> NoFile, previous |-> NoFile]
        /\ generic[r] = NoGeneric /\ permit[r] = NoPermit /\ proc[r] = NoProc
    BY DEF Init
  <2>2. ~HasTxn(r)
    BY <2>1 DEF HasTxn
  <2>. QED
    BY <2>1, <2>2 DEF Sound, ShapeOf, TxnsOf, LiveOf, NoGeneric, NoPermit, NoProc
<1>. QED
  BY <1>1, <1>2, <1>3 DEF RInv

-----------------------------------------------------------------------------
(* Steps of one runtime.                                                     *)

Same(s) ==
    /\ proc'[s] = proc[s] /\ coord'[s] = coord[s] /\ policy'[s] = policy[s]
    /\ generic'[s] = generic[s] /\ permit'[s] = permit[s]

\* A runtime that a step leaves alone stays sound, as long as the registry's record does.
LEMMA SameSound ==
    ASSUME NEW s \in Runtimes, Sound(s), UNCHANGED current, Same(s)
    PROVE  Sound(s)'
<1>1. (HasTxn(s)' <=> HasTxn(s)) /\ Txn(s)' = Txn(s) /\ (Prepared(s)' <=> Prepared(s))
      /\ Bound' = Bound
  BY DEF Same, HasTxn, Txn, Prepared, Bound
<1>2. ShapeOf(s)'
  BY <1>1 DEF Sound, ShapeOf, Same
<1>3. TxnsOf(s)'
  BY <1>1 DEF Sound, TxnsOf, TxnAsked, Same
<1>4. LiveOf(s)'
  BY <1>1 DEF Sound, LiveOf, Covers, Binding, Same
<1>. QED
  BY <1>2, <1>3, <1>4 DEF Sound

\* A step of one runtime that keeps the registry's record.
StepOf(r) ==
    /\ UNCHANGED current
    /\ DOMAIN proc' = DOMAIN proc /\ DOMAIN coord' = DOMAIN coord
    /\ DOMAIN policy' = DOMAIN policy /\ DOMAIN generic' = DOMAIN generic
    /\ DOMAIN permit' = DOMAIN permit
    /\ \A s \in Runtimes \ {r} : Same(s)

\* A step of one runtime has to be looked at for that runtime and for the call only.
LEMMA StepSound ==
    ASSUME RInv, NEW r \in Runtimes, StepOf(r), Sound(r)', CallSound',
           DOMAIN call' = {"request", "at"}
    PROVE  RInv'
<1>1. Shape'
  BY DEF RInv, Shape, StepOf
<1>2. \A s \in Runtimes : Sound(s)'
  BY SameSound DEF RInv, StepOf
<1>. QED
  BY <1>1, <1>2 DEF RInv

\* A call stays sound in a step of a process that is not waiting for it.
LEMMA CallKept ==
    ASSUME RInv, NEW r \in Runtimes, StepOf(r), UNCHANGED call,
           proc[r].at # "calling" \/ call = NoCall \/ call.request.runtime # r
    PROVE  CallSound' /\ DOMAIN call' = {"request", "at"}
<1>1. CASE call = NoCall
  BY <1>1 DEF CallSound, RInv, Shape
<1>2. CASE call # NoCall
  <2>1. call.request.runtime \in Runtimes \ {r}
    BY <1>2 DEF RInv, CallSound
  <2>2. proc'[call.request.runtime] = proc[call.request.runtime]
    BY <2>1 DEF StepOf, Same
  <2>3. (Admissible(call.request) => Admissible(call.request)') /\ (Writing' <=> Writing)
    BY DEF StepOf, Admissible, Unused, Unowned, Owner, Bound, Binding, Retired, Writing
  <2>. QED
    BY <1>2, <2>1, <2>2, <2>3 DEF RInv, CallSound, Shape, RequestOf
<1>. QED
  BY <1>1, <1>2

-----------------------------------------------------------------------------
(* The commands.                                                             *)

\* What a process is after it goes on to its next step.
LEMMA GoIs ==
    ASSUME RInv, NEW r \in Runtimes, NEW step, Go(r, step)
    PROVE  /\ DOMAIN proc' = DOMAIN proc
           /\ DOMAIN proc'[r] = {"role", "account", "at", "txn", "seen"}
           /\ proc'[r].at = step /\ proc'[r].txn = proc[r].txn /\ proc'[r].seen = proc[r].seen
           /\ \A s \in Runtimes \ {r} : proc'[s] = proc[s]
BY DEF RInv, Shape, Sound, ShapeOf, Go

\* What a process is after it has ended.
LEMMA EndIs ==
    ASSUME RInv, NEW r \in Runtimes, End(r)
    PROVE  /\ DOMAIN proc' = DOMAIN proc
           /\ DOMAIN proc'[r] = {"role", "account", "at", "txn", "seen"}
           /\ proc'[r].at = "none"
           /\ \A s \in Runtimes \ {r} : proc'[s] = proc[s]
BY DEF RInv, Shape, End, NoProc

\* Nothing is required of a halted runtime without a live process before its start.
LEMMA HaltedLive ==
    ASSUME NEW r \in Runtimes, generic'[r].mode # "RUNNING", proc'[r].at \notin {"permit", "run"}
    PROVE  LiveOf(r)'
BY DEF LiveOf

\* A command runs on a halted runtime only, and so does a live process before it trades.
LEMMA CommandHalted ==
    ASSUME RInv, NEW r \in Runtimes, proc[r].at \notin {"none", "trading"}
    PROVE  generic[r].mode # "RUNNING"
BY DEF RInv, Sound, LiveOf

\* A command takes the lease of a halted runtime and asks for a transaction, or goes on
\* with the one in place.
LEMMA StartCommandSound ==
    ASSUME RInv, NEW r \in Runtimes, NEW command \in Commands, NEW nonce \in Nonces,
           NEW account \in Accounts, StartCommand(r, command, nonce, account)
    PROVE  RInv'
<1> DEFINE op == Operation(r, command, nonce)
           resumed == Matches(r, op, nonce, account)
           t == IF resumed THEN Txn(r) ELSE NewTxn(r, op, nonce, account)
<1>1. /\ UNCHANGED <<current, call, coord, policy, generic, permit>>
      /\ proc[r] = NoProc /\ generic[r].mode = "HALTED"
      /\ command = "migrate" => policy[r].account = account
      /\ proc' = [proc EXCEPT ![r] = [Process("lifecycle", account, "invalidate") EXCEPT !.txn = t]]
  BY DEF StartCommand, LeaseFree, registry
<1>2. TxnAsked(r, t)
  <2>1. CASE resumed
    BY <2>1 DEF RInv, Sound, TxnsOf, Matches, TxnSound, TxnAsked
  <2>2. CASE ~resumed
    <3>1. op \in Operations /\ (op = "migration" => command = "migrate")
      BY DEF Operation, Operations, Commands
    <3>2. /\ t.op = op /\ t.account = account
          /\ t.source = IF policy[r].account = NoAccount THEN account ELSE policy[r].account
          /\ t.from = policy[r].epoch /\ (op = "migration" => t.epoch = policy[r].epoch)
      BY <2>2 DEF NewTxn
    <3> HIDE DEF t, op
    <3>. QED
      BY <1>1, <3>1, <3>2 DEF TxnAsked
  <2>. QED
    BY <2>1, <2>2
<1> HIDE DEF t
<1>3. /\ DOMAIN proc' = DOMAIN proc
      /\ DOMAIN proc'[r] = {"role", "account", "at", "txn", "seen"}
      /\ proc'[r].at = "invalidate" /\ proc'[r].txn = t
      /\ \A s \in Runtimes \ {r} : proc'[s] = proc[s]
  BY <1>1 DEF RInv, Shape, Process
<1>4. StepOf(r)
  BY <1>1, <1>3 DEF StepOf, Same
<1>5. Sound(r)'
  <2>1. ShapeOf(r)' /\ (HasTxn(r) => TxnSound(Txn(r)))'
    BY <1>1, <1>3 DEF RInv, Sound, ShapeOf, TxnsOf, HasTxn, Txn
  <2>2. TxnsOf(r)'
    BY <1>1, <1>2, <1>3, <2>1 DEF TxnsOf, TxnAsked
  <2>3. LiveOf(r)'
    BY <1>1, <1>3, HaltedLive
  <2>. QED
    BY <2>1, <2>2, <2>3 DEF Sound
<1>6. CallSound' /\ DOMAIN call' = {"request", "at"}
  BY <1>1, <1>4, CallKept DEF NoProc
<1>. QED
  BY <1>4, <1>5, <1>6, StepSound

\* A command invalidates the permit of a runtime that is not running.
LEMMA InvalidatePermitSound ==
    ASSUME RInv, NEW r \in Runtimes, InvalidatePermit(r)
    PROVE  RInv'
<1>1. /\ UNCHANGED <<current, call, coord, policy, generic>>
      /\ proc[r].at = "invalidate"
      /\ permit' = [permit EXCEPT ![r] = IF @ = NoPermit THEN @
                                         ELSE [@ EXCEPT !.status = "invalidated"]]
      /\ Go(r, IF HasTxn(r) /\ Txn(r) = proc[r].txn THEN "registry" ELSE "begin")
  BY DEF InvalidatePermit, At, registry
<1>2. proc'[r].at = IF HasTxn(r) /\ Txn(r) = proc[r].txn THEN "registry" ELSE "begin"
  BY <1>1, GoIs
<1>3. /\ DOMAIN proc' = DOMAIN proc
      /\ DOMAIN proc'[r] = {"role", "account", "at", "txn", "seen"}
      /\ proc'[r].txn = proc[r].txn
      /\ \A s \in Runtimes \ {r} : proc'[s] = proc[s]
  BY <1>1, GoIs
<1>4. DOMAIN permit' = DOMAIN permit /\ DOMAIN permit'[r] = {"status", "for"}
      /\ \A s \in Runtimes \ {r} : permit'[s] = permit[s]
  BY <1>1 DEF RInv, Shape, Sound, ShapeOf
<1>5. StepOf(r)
  BY <1>1, <1>3, <1>4 DEF StepOf, Same
<1>6. Sound(r)'
  <2>1. ShapeOf(r)' /\ (HasTxn(r) => TxnSound(Txn(r)))'
    BY <1>1, <1>3, <1>4 DEF RInv, Sound, ShapeOf, TxnsOf, HasTxn, Txn
  <2>2. TxnsOf(r)'
    BY <1>1, <1>2, <1>3, <2>1 DEF RInv, Sound, TxnsOf, TxnAsked, HasTxn, Txn
  <2>3. LiveOf(r)'
    BY <1>1, <1>2, CommandHalted, HaltedLive
  <2>. QED
    BY <2>1, <2>2, <2>3 DEF Sound
<1>7. CallSound' /\ DOMAIN call' = {"request", "at"}
  BY <1>1, <1>5, CallKept
<1>. QED
  BY <1>5, <1>6, <1>7, StepSound

\* A transaction that begins has a source that fits it.
LEMMA BeginSound ==
    ASSUME RInv, NEW r \in Runtimes, Begin(r)
    PROVE  RInv'
<1>1. /\ UNCHANGED <<current, call, policy, generic, permit>>
      /\ proc[r].at = "begin"
  BY DEF Begin, At, registry
<1>2. \/ /\ SourceAllows(r, proc[r].txn)
         /\ coord' = [coord EXCEPT ![r].marker = TRUE]
         /\ proc' = [proc EXCEPT ![r].at = "prepare", ![r].seen = coord[r].current]
      \/ UNCHANGED coord /\ End(r)
  BY DEF Begin
<1>3. /\ DOMAIN proc' = DOMAIN proc
      /\ DOMAIN proc'[r] = {"role", "account", "at", "txn", "seen"}
      /\ proc'[r].at \in {"prepare", "none"}
      /\ proc'[r].at = "prepare" => SourceAllows(r, proc[r].txn) /\ proc'[r].txn = proc[r].txn
      /\ \A s \in Runtimes \ {r} : proc'[s] = proc[s]
  <2>1. CASE End(r)
    BY <2>1, EndIs
  <2>2. CASE ~End(r)
    BY <1>2, <2>2 DEF RInv, Shape, Sound, ShapeOf
  <2>. QED
    BY <2>1, <2>2
<1>4. /\ DOMAIN coord' = DOMAIN coord
      /\ DOMAIN coord'[r] = DOMAIN coord[r] /\ coord'[r].current = coord[r].current
      /\ \A s \in Runtimes \ {r} : coord'[s] = coord[s]
  BY <1>2 DEF RInv, Shape, Sound, ShapeOf
<1>5. StepOf(r)
  BY <1>1, <1>3, <1>4 DEF StepOf, Same
<1>6. Sound(r)'
  <2>1. ShapeOf(r)' /\ (HasTxn(r) => TxnSound(Txn(r)))'
    BY <1>1, <1>3, <1>4 DEF RInv, Sound, ShapeOf, TxnsOf, HasTxn, Txn
  <2>2. proc'[r].at = "prepare" => TxnSound(proc'[r].txn)
    BY <1>1, <1>3 DEF RInv, Sound, TxnsOf, TxnAsked, TxnSound, SourceAllows
  <2>3. TxnsOf(r)'
    BY <1>3, <2>1, <2>2 DEF TxnsOf
  <2>4. LiveOf(r)'
    BY <1>1, <1>3, CommandHalted, HaltedLive
  <2>. QED
    BY <2>1, <2>3, <2>4 DEF Sound
<1>7. CallSound' /\ DOMAIN call' = {"request", "at"}
  BY <1>1, <1>5, CallKept
<1>. QED
  BY <1>5, <1>6, <1>7, StepSound

\* The coordinator's record is prepared, or committed, with the transaction it had.
LEMMA SaveTransactionSound ==
    ASSUME RInv, NEW r \in Runtimes, SaveTransaction(r)
    PROVE  RInv'
<1>1. UNCHANGED <<current, call, policy, generic, permit>>
  BY DEF SaveTransaction, registry
<1>2. \/ /\ proc[r].at = "prepare" /\ Go(r, "prepare previous")
         /\ coord' = [coord EXCEPT ![r].current =
                        [sequence |-> IF @ = NoFile THEN 1 ELSE @.sequence + 1,
                         status |-> "prepared", txn |-> proc[r].txn]]
      \/ /\ proc[r].at = "commit"
         /\ proc' = [proc EXCEPT ![r].at = "commit previous", ![r].seen = coord[r].current]
         /\ coord' = [coord EXCEPT ![r].current.sequence = @ + 1,
                                   ![r].current.status = "committed"]
  BY DEF SaveTransaction, At
<1>3. /\ DOMAIN proc' = DOMAIN proc
      /\ DOMAIN proc'[r] = {"role", "account", "at", "txn", "seen"}
      /\ proc[r].at \in {"prepare", "commit"}
      /\ proc'[r].at = IF proc[r].at = "prepare" THEN "prepare previous" ELSE "commit previous"
      /\ proc'[r].txn = proc[r].txn
      /\ \A s \in Runtimes \ {r} : proc'[s] = proc[s]
  <2>1. CASE proc[r].at = "prepare"
    <3>1. Go(r, "prepare previous")
      BY <1>2, <2>1
    <3>. QED
      BY <2>1, <3>1, GoIs
  <2>2. CASE proc[r].at = "commit"
    <3>1. proc' = [proc EXCEPT ![r].at = "commit previous", ![r].seen = coord[r].current]
      BY <1>2, <2>2
    <3>2. DOMAIN proc = Runtimes /\ DOMAIN proc[r] = {"role", "account", "at", "txn", "seen"}
      BY DEF RInv, Shape, Sound, ShapeOf
    <3>. QED
      BY <2>2, <3>1, <3>2
  <2>3. proc[r].at \in {"prepare", "commit"}
    BY <1>2
  <2>. QED
    BY <2>1, <2>2, <2>3
<1>4. /\ DOMAIN coord' = DOMAIN coord
      /\ DOMAIN coord'[r] = DOMAIN coord[r]
      /\ DOMAIN coord'[r].current = {"sequence", "status", "txn"}
      /\ coord'[r].current.txn = IF proc[r].at = "prepare" THEN proc[r].txn ELSE Txn(r)
      /\ proc[r].at = "commit" => HasTxn(r)
      /\ \A s \in Runtimes \ {r} : coord'[s] = coord[s]
  <2>1. DOMAIN coord = Runtimes /\ DOMAIN coord[r] = {"marker", "current", "previous"}
    BY DEF RInv, Shape, Sound, ShapeOf
  <2>2. CASE proc[r].at = "prepare"
    <3> DEFINE c == [sequence |-> IF coord[r].current = NoFile THEN 1
                                  ELSE coord[r].current.sequence + 1,
                     status |-> "prepared", txn |-> proc[r].txn]
    <3>1. coord' = [coord EXCEPT ![r].current = c]
      BY <1>2, <2>2
    <3>2. DOMAIN c = {"sequence", "status", "txn"} /\ c.txn = proc[r].txn
      OBVIOUS
    <3> HIDE DEF c
    <3>. QED
      BY <2>1, <2>2, <3>1, <3>2
  <2>3. CASE proc[r].at = "commit"
    <3>1. HasTxn(r) /\ DOMAIN coord[r].current = {"sequence", "status", "txn"}
      BY <2>3 DEF RInv, Sound, ShapeOf, TxnsOf
    <3>2. coord' = [coord EXCEPT ![r].current.sequence = @ + 1,
                                 ![r].current.status = "committed"]
      BY <1>2, <2>3
    <3>3. DOMAIN coord' = DOMAIN coord /\ \A s \in Runtimes \ {r} : coord'[s] = coord[s]
      BY <2>1, <3>2
    <3>4. coord'[r].current = [coord[r].current EXCEPT !.sequence = @ + 1, !.status = "committed"]
          /\ DOMAIN coord'[r] = DOMAIN coord[r]
      BY <2>1, <3>1, <3>2
    <3>. QED
      BY <2>3, <3>1, <3>3, <3>4 DEF Txn
  <2>. QED
    BY <1>3, <2>2, <2>3
<1>5. StepOf(r)
  BY <1>1, <1>3, <1>4 DEF StepOf, Same
<1>6. Sound(r)'
  <2>1. ShapeOf(r)'
    BY <1>1, <1>3, <1>4 DEF RInv, Sound, ShapeOf
  <2>2. TxnSound(coord'[r].current.txn)
    BY <1>3, <1>4 DEF RInv, Sound, TxnsOf
  <2>3. proc'[r].at = "prepare previous" => TxnSound(proc'[r].txn)
    BY <1>3 DEF RInv, Sound, TxnsOf
  <2>4. TxnsOf(r)'
    BY <1>3, <2>2, <2>3 DEF TxnsOf, Txn
  <2>5. LiveOf(r)'
    BY <1>1, <1>3, CommandHalted, HaltedLive
  <2>. QED
    BY <2>1, <2>4, <2>5 DEF Sound
<1>7. CallSound' /\ DOMAIN call' = {"request", "at"}
  BY <1>1, <1>3, <1>5, CallKept
<1>. QED
  BY <1>5, <1>6, <1>7, StepSound

\* The record before it is kept as the previous one.
LEMMA SaveTransactionPreviousSound ==
    ASSUME RInv, NEW r \in Runtimes, SaveTransactionPrevious(r)
    PROVE  RInv'
<1>1. /\ UNCHANGED <<current, call, policy, generic, permit>>
      /\ \/ proc[r].at = "prepare previous" /\ Go(r, "registry")
         \/ proc[r].at = "commit previous" /\ End(r)
      /\ coord' = [coord EXCEPT ![r].previous = proc[r].seen]
  BY DEF SaveTransactionPrevious, At, registry
<1>2. /\ DOMAIN proc' = DOMAIN proc
      /\ DOMAIN proc'[r] = {"role", "account", "at", "txn", "seen"}
      /\ \/ proc[r].at = "prepare previous" /\ proc'[r].at = "registry"
            /\ proc'[r].txn = proc[r].txn
         \/ proc[r].at = "commit previous" /\ proc'[r].at = "none"
      /\ \A s \in Runtimes \ {r} : proc'[s] = proc[s]
  BY <1>1, GoIs, EndIs
<1>3. /\ DOMAIN coord' = DOMAIN coord
      /\ DOMAIN coord'[r] = DOMAIN coord[r] /\ coord'[r].current = coord[r].current
      /\ \A s \in Runtimes \ {r} : coord'[s] = coord[s]
  BY <1>1 DEF RInv, Shape, Sound, ShapeOf
<1>4. StepOf(r)
  BY <1>1, <1>2, <1>3 DEF StepOf, Same
<1>5. Sound(r)'
  <2>1. ShapeOf(r)' /\ (HasTxn(r) => TxnSound(Txn(r)))'
    BY <1>1, <1>2, <1>3 DEF RInv, Sound, ShapeOf, TxnsOf, HasTxn, Txn
  <2>2. TxnsOf(r)'
    BY <1>2, <2>1 DEF RInv, Sound, TxnsOf
  <2>3. LiveOf(r)'
    BY <1>1, <1>2, CommandHalted, HaltedLive
  <2>. QED
    BY <2>1, <2>2, <2>3 DEF Sound
<1>6. CallSound' /\ DOMAIN call' = {"request", "at"}
  BY <1>1, <1>2, <1>4, CallKept
<1>. QED
  BY <1>4, <1>5, <1>6, StepSound

\* A step of a command that changes at most states and evidence.
LEMMA CommandStepSound ==
    ASSUME RInv, NEW r \in Runtimes,
           UNCHANGED <<current, call, coord, permit>>,
           StepOf(r), proc[r].at \notin {"none", "trading", "calling"},
           DOMAIN proc'[r] = {"role", "account", "at", "txn", "seen"},
           proc'[r].at \in {"none", "policy", "generic", "commit"},
           proc'[r].at \in {"generic", "commit"} => HasTxn(r),
           DOMAIN generic'[r] = DOMAIN generic[r], generic'[r].revision \in Nat,
           generic'[r].mode \in {generic[r].mode, "HALTED"}
    PROVE  RInv'
<1>1. ShapeOf(r)' /\ (HasTxn(r) => TxnSound(Txn(r)))' /\ HasTxn(r)' = HasTxn(r)
  BY DEF RInv, Sound, ShapeOf, TxnsOf, HasTxn, Txn
<1>2. TxnsOf(r)'
  BY <1>1 DEF TxnsOf
<1>3. LiveOf(r)'
  BY CommandHalted, HaltedLive
<1>4. CallSound' /\ DOMAIN call' = {"request", "at"}
  BY CallKept
<1>. QED
  BY <1>1, <1>2, <1>3, <1>4, StepSound DEF Sound

\* The trading-day evidence is bound.
LEMMA BindEvidenceSound ==
    ASSUME RInv, NEW r \in Runtimes, BindEvidence(r)
    PROVE  RInv'
<1>1. /\ UNCHANGED <<current, call, coord, policy, generic, permit>>
      /\ proc[r].at = "evidence"
      /\ Go(r, "policy") \/ End(r)
  BY DEF BindEvidence, At, registry
<1>2. /\ DOMAIN proc' = DOMAIN proc
      /\ DOMAIN proc'[r] = {"role", "account", "at", "txn", "seen"}
      /\ proc'[r].at \in {"policy", "none"}
      /\ \A s \in Runtimes \ {r} : proc'[s] = proc[s]
  BY <1>1, GoIs, EndIs
<1>3. StepOf(r)
  BY <1>1, <1>2 DEF StepOf, Same
<1>4. generic[r].revision \in Nat
  BY DEF RInv, Sound, ShapeOf
<1>. QED
  BY <1>1, <1>2, <1>3, <1>4, CommandStepSound

\* The policy state changes while a transaction is prepared, so under no running runtime.
LEMMA SavePolicySound ==
    ASSUME RInv, NEW r \in Runtimes, SavePolicy(r)
    PROVE  RInv'
<1>1. /\ UNCHANGED <<current, call, coord, generic, permit>>
      /\ proc[r].at = "policy"
      /\ (Go(r, "generic") /\ Prepared(r)) \/ End(r)
      /\ policy' = [policy EXCEPT ![r] = PolicyTarget(proc[r].txn)] \/ policy' = policy
  BY DEF SavePolicy, At, registry
<1>2. /\ DOMAIN proc' = DOMAIN proc
      /\ DOMAIN proc'[r] = {"role", "account", "at", "txn", "seen"}
      /\ proc'[r].at \in {"generic", "none"}
      /\ proc'[r].at = "generic" => HasTxn(r)
      /\ \A s \in Runtimes \ {r} : proc'[s] = proc[s]
  BY <1>1, GoIs, EndIs DEF Prepared
<1>3. StepOf(r)
  BY <1>1, <1>2 DEF StepOf, Same, RInv, Shape
<1>4. generic[r].revision \in Nat
  BY DEF RInv, Sound, ShapeOf
<1>. QED
  BY <1>1, <1>2, <1>3, <1>4, CommandStepSound

\* The generic state is written halted.
LEMMA SaveGenericSound ==
    ASSUME RInv, NEW r \in Runtimes, SaveGeneric(r)
    PROVE  RInv'
<1> DEFINE t == proc[r].txn
<1>1. /\ UNCHANGED <<current, call, coord, policy, permit>>
      /\ proc[r].at = "generic"
      /\ Go(r, "commit") \/ End(r)
      /\ \/ generic[r].revision = t.generic /\ generic' = [generic EXCEPT ![r] = GenericTarget(t)]
         \/ generic' = generic
  BY DEF SaveGeneric, At, registry
<1>2. /\ DOMAIN proc' = DOMAIN proc
      /\ DOMAIN proc'[r] = {"role", "account", "at", "txn", "seen"}
      /\ proc'[r].at \in {"commit", "none"}
      /\ \A s \in Runtimes \ {r} : proc'[s] = proc[s]
  BY <1>1, GoIs, EndIs
<1>3. /\ DOMAIN generic' = DOMAIN generic
      /\ DOMAIN generic'[r] = DOMAIN generic[r]
      /\ generic'[r].revision \in Nat /\ generic'[r].mode \in {generic[r].mode, "HALTED"}
      /\ \A s \in Runtimes \ {r} : generic'[s] = generic[s]
  <2>1. generic[r].revision \in Nat /\ DOMAIN generic = Runtimes
        /\ DOMAIN generic[r] = {"revision", "mode", "identity", "account"}
    BY DEF RInv, Shape, Sound, ShapeOf
  <2>2. generic[r].revision = t.generic => GenericTarget(t).revision \in Nat
    BY <2>1 DEF GenericTarget
  <2>3. GenericTarget(t).mode = "HALTED"
        /\ DOMAIN GenericTarget(t) = {"revision", "mode", "identity", "account"}
    BY DEF GenericTarget
  <2>. QED
    BY <1>1, <2>1, <2>2, <2>3
<1>4. StepOf(r)
  BY <1>1, <1>2, <1>3 DEF StepOf, Same
<1>5. HasTxn(r)
  BY <1>1 DEF RInv, Sound, TxnsOf
<1>. QED
  BY <1>1, <1>2, <1>3, <1>4, <1>5, CommandStepSound

\* Whether a request is admissible depends on the current record only.
LEMMA AdmissibleKept ==
    ASSUME NEW q, Admissible(q), UNCHANGED current
    PROVE  Admissible(q)'
BY DEF Admissible, Unused, Unowned, Owner, Bound, Binding, Retired

\* A call starts with a request that is admissible now, or writes nothing.
LEMMA CallRegistrySound ==
    ASSUME RInv, NEW r \in Runtimes, CallRegistry(r)
    PROVE  RInv'
<1> DEFINE q == RequestOf(r, proc[r].txn)
<1>1. /\ UNCHANGED <<current, coord, policy, generic, permit>>
      /\ proc[r].at = "registry"
      /\ StartCall(q) /\ Go(r, "calling")
  BY DEF CallRegistry, At, runtimeFiles, StartCall
<1>2. /\ DOMAIN proc' = DOMAIN proc
      /\ DOMAIN proc'[r] = {"role", "account", "at", "txn", "seen"}
      /\ proc'[r].at = "calling" /\ proc'[r].txn = proc[r].txn
      /\ \A s \in Runtimes \ {r} : proc'[s] = proc[s]
  BY <1>1, GoIs
<1>3. StepOf(r)
  BY <1>1, <1>2 DEF StepOf, Same
<1>4. Sound(r)'
  <2>1. ShapeOf(r)' /\ (HasTxn(r) => TxnSound(Txn(r)))'
    BY <1>1, <1>2 DEF RInv, Sound, ShapeOf, TxnsOf, HasTxn, Txn
  <2>2. TxnsOf(r)'
    BY <1>1, <1>2, <2>1 DEF RInv, Sound, TxnsOf
  <2>3. LiveOf(r)'
    BY <1>1, <1>2, CommandHalted, HaltedLive
  <2>. QED
    BY <2>1, <2>2, <2>3 DEF Sound
<1>5. /\ DOMAIN call' = {"request", "at"} /\ call'.request = q
      /\ call'.at \in {"done", "receipt", "refused"}
      /\ call'.at = "receipt" => Admissible(q)
  <2> HIDE DEF q
  <2>. QED
    BY <1>1 DEF StartCall
<1>6. CallSound'
  <2>1. PICK x : x = q
    OBVIOUS
  <2>2. /\ x = RequestOf(r, proc[r].txn) /\ x.runtime = r
        /\ call'.request = x /\ (call'.at = "receipt" => Admissible(x))
    BY <1>5, <2>1 DEF RequestOf
  <2> HIDE DEF q
  <2>3. RequestOf(r, proc'[r].txn) = x
    BY <1>2, <2>2 DEF RequestOf
  <2>4. Writing' => Admissible(x)'
    BY <1>1, <1>5, <2>2, AdmissibleKept DEF Writing
  <2>5. Writing' => Admissible(call.request)'
    BY <2>2, <2>4 DEF Admissible, Unused, Unowned, Owner, Bound, Binding, Retired
  <2>. QED
    BY <1>2, <2>2, <2>3, <2>5 DEF CallSound, RequestOf
<1>. QED
  BY <1>3, <1>4, <1>5, <1>6, StepSound

\* The command goes on after its call, or ends.
LEMMA ReturnFromRegistrySound ==
    ASSUME RInv, NEW r \in Runtimes, ReturnFromRegistry(r)
    PROVE  RInv'
<1>1. /\ UNCHANGED <<current, coord, policy, generic, permit>>
      /\ proc[r].at = "calling" /\ call' = NoCall
      /\ Go(r, "evidence") \/ End(r)
  BY DEF ReturnFromRegistry, At, runtimeFiles
<1>2. /\ DOMAIN proc' = DOMAIN proc
      /\ DOMAIN proc'[r] = {"role", "account", "at", "txn", "seen"}
      /\ proc'[r].at \in {"evidence", "none"}
      /\ \A s \in Runtimes \ {r} : proc'[s] = proc[s]
  BY <1>1, GoIs, EndIs
<1>3. StepOf(r)
  BY <1>1, <1>2 DEF StepOf, Same
<1>4. Sound(r)'
  <2>1. ShapeOf(r)' /\ TxnsOf(r)'
    BY <1>1, <1>2 DEF RInv, Sound, ShapeOf, TxnsOf, HasTxn, Txn
  <2>2. LiveOf(r)'
    BY <1>1, <1>2, CommandHalted, HaltedLive
  <2>. QED
    BY <2>1, <2>2 DEF Sound
<1>5. CallSound' /\ DOMAIN call' = {"request", "at"}
  BY <1>1 DEF CallSound, NoCall
<1>. QED
  BY <1>3, <1>4, <1>5, StepSound

\* The steps of a command keep the invariant.
LEMMA CommandSound ==
    ASSUME RInv, NEW r \in Runtimes, Command(r)
    PROVE  RInv'
BY StartCommandSound, InvalidatePermitSound, BeginSound, SaveTransactionSound,
   SaveTransactionPreviousSound, CallRegistrySound, ReturnFromRegistrySound,
   BindEvidenceSound, SavePolicySound, SaveGenericSound DEF Command

-----------------------------------------------------------------------------
(* The live process.                                                         *)

\* A step of a live process leaves the transactions alone.
LEMMA LiveStepSound ==
    ASSUME RInv, NEW r \in Runtimes, UNCHANGED <<current, call, coord, policy>>,
           StepOf(r), proc[r].at # "calling",
           DOMAIN proc'[r] = {"role", "account", "at", "txn", "seen"},
           proc'[r].at \in {"none", "permit", "run", "trading"},
           DOMAIN generic'[r] = DOMAIN generic[r], generic'[r].revision \in Nat,
           DOMAIN permit'[r] = {"status", "for"},
           LiveOf(r)'
    PROVE  RInv'
<1>1. ShapeOf(r)' /\ TxnsOf(r)'
  BY DEF RInv, Sound, ShapeOf, TxnsOf, HasTxn, Txn
<1>2. CallSound' /\ DOMAIN call' = {"request", "at"}
  BY CallKept
<1>. QED
  BY <1>1, <1>2, StepSound DEF Sound

\* What a permit covers depends on the coordinator, the policy state and the registry.
LEMMA CoversKept ==
    ASSUME NEW r, NEW e, Covers(r, e), UNCHANGED <<current, coord, policy>>
    PROVE  Covers(r, e)'
BY DEF Covers, Prepared, HasTxn, Bound, Binding

\* The doctor writes a permit of a halted runtime that no process uses.
LEMMA IssuePermitSound ==
    ASSUME RInv, NEW r \in Runtimes, NEW account \in Accounts, IssuePermit(r, account)
    PROVE  RInv'
<1>1. /\ UNCHANGED <<current, call, coord, policy, generic, proc>>
      /\ permit' = [permit EXCEPT ![r] = [status |-> "issued", for |-> ActivationEvidence(r)]]
      /\ proc[r].at = "none" /\ generic[r].mode = "HALTED"
  BY DEF IssuePermit, registry, Startable, LeaseFree, NoProc
<1>2. DOMAIN permit' = DOMAIN permit /\ DOMAIN permit'[r] = {"status", "for"}
      /\ \A s \in Runtimes \ {r} : permit'[s] = permit[s]
  BY <1>1 DEF RInv, Shape
<1>3. StepOf(r)
  BY <1>1, <1>2 DEF StepOf, Same
<1>4. LiveOf(r)'
  BY <1>1, HaltedLive
<1>. QED
  BY <1>1, <1>2, <1>3, <1>4, LiveStepSound DEF RInv, Sound, ShapeOf

\* A live process starts to trade under what its permit covered, or looks at what is in
\* place now.
LEMMA StartLiveSound ==
    ASSUME RInv, NEW r \in Runtimes, NEW account \in Accounts, StartLive(r, account)
    PROVE  RInv'
<1>1. /\ UNCHANGED <<current, call, coord, policy, generic, permit>>
      /\ proc[r] = NoProc /\ ~Prepared(r) /\ Authoritative(r)
      /\ proc' = [proc EXCEPT ![r] =
                    IF generic[r].mode = "RUNNING"
                    THEN Process("live", account, "trading")
                    ELSE [Process("live", account, "permit") EXCEPT
                            !.seen = ActivationEvidence(r)]]
  BY DEF StartLive, registry, runtimeFiles, Startable, LeaseFree
<1>2. /\ DOMAIN proc' = DOMAIN proc
      /\ DOMAIN proc'[r] = {"role", "account", "at", "txn", "seen"}
      /\ proc'[r].at = IF generic[r].mode = "RUNNING" THEN "trading" ELSE "permit"
      /\ proc'[r].at = "permit" => proc'[r].seen = ActivationEvidence(r)
      /\ \A s \in Runtimes \ {r} : proc'[s] = proc[s]
  BY <1>1 DEF RInv, Shape, Process
<1>3. StepOf(r)
  BY <1>1, <1>2 DEF StepOf, Same
<1>4. LiveOf(r)'
  <2>1. CASE generic[r].mode = "RUNNING"
    <3>1. permit[r].status = "consumed" /\ permit[r].for.generic < generic[r].revision
          /\ Covers(r, permit[r].for)
      BY <2>1 DEF RInv, Sound, LiveOf
    <3>2. Covers(r, permit[r].for)'
      BY <1>1, <3>1 DEF Covers, Prepared, HasTxn, Bound, Binding
    <3>. QED
      BY <1>1, <1>2, <2>1, <3>1, <3>2 DEF LiveOf
  <2>2. CASE generic[r].mode # "RUNNING"
    <3>1. PICK e : e = ActivationEvidence(r)
      OBVIOUS
    <3>2. Covers(r, e) /\ e.generic = generic[r].revision
      BY <1>1, <3>1 DEF Covers, ActivationEvidence, Authoritative, BoundHere
    <3>3. Covers(r, e)'
      BY <1>1, <3>2, CoversKept
    <3>4. proc'[r].seen = e /\ proc'[r].at = "permit"
      BY <1>2, <2>2, <3>1
    <3>. QED
      BY <1>1, <2>2, <3>2, <3>3, <3>4 DEF LiveOf, Covers
  <2>. QED
    BY <2>1, <2>2
<1>5. proc[r].at # "calling"
  BY <1>1 DEF NoProc
<1>. QED
  BY <1>1, <1>2, <1>3, <1>4, <1>5, LiveStepSound DEF RInv, Sound, ShapeOf

\* A permit that is consumed is for what the process has looked at.
LEMMA ConsumePermitSound ==
    ASSUME RInv, NEW r \in Runtimes, ConsumePermit(r)
    PROVE  RInv'
<1>1. /\ UNCHANGED <<current, call, coord, policy, generic>>
      /\ proc[r].at = "permit"
      /\ \/ /\ permit[r].for = proc[r].seen /\ Go(r, "run")
            /\ permit' = [permit EXCEPT ![r].status = "consumed"]
         \/ UNCHANGED permit /\ End(r)
  BY DEF ConsumePermit, At, registry
<1>2. /\ DOMAIN proc' = DOMAIN proc
      /\ DOMAIN proc'[r] = {"role", "account", "at", "txn", "seen"}
      /\ \/ /\ proc'[r].at = "run" /\ proc'[r].seen = proc[r].seen
            /\ permit[r].for = proc[r].seen
            /\ permit' = [permit EXCEPT ![r].status = "consumed"]
         \/ proc'[r].at = "none" /\ permit' = permit
      /\ \A s \in Runtimes \ {r} : proc'[s] = proc[s]
  <2>1. CASE End(r) /\ UNCHANGED permit
    BY <2>1, EndIs
  <2>2. CASE ~(End(r) /\ UNCHANGED permit)
    <3>1. Go(r, "run")
      BY <1>1, <2>2
    <3>. QED
      BY <1>1, <2>2, <3>1, GoIs
  <2>. QED
    BY <2>1, <2>2
<1>3. DOMAIN permit' = DOMAIN permit /\ DOMAIN permit'[r] = {"status", "for"}
      /\ permit'[r].for = permit[r].for
      /\ (proc'[r].at = "run" => permit'[r].status = "consumed")
      /\ \A s \in Runtimes \ {r} : permit'[s] = permit[s]
  BY <1>2 DEF RInv, Shape, Sound, ShapeOf
<1>4. StepOf(r)
  BY <1>1, <1>2, <1>3 DEF StepOf, Same
<1>5. LiveOf(r)'
  <2>1. /\ Covers(r, proc[r].seen) /\ proc[r].seen.generic = generic[r].revision
        /\ generic[r].mode # "RUNNING"
    BY <1>1 DEF RInv, Sound, LiveOf
  <2>2. PICK e : e = proc[r].seen
    OBVIOUS
  <2>3. Covers(r, e)'
    BY <1>1, <2>1, <2>2, CoversKept
  <2>4. proc'[r].at = "run" => Covers(r, proc[r].seen)'
    BY <1>2, <2>2, <2>3 DEF Covers
  <2>. QED
    BY <1>1, <1>2, <1>3, <2>1, <2>4 DEF LiveOf
<1>. QED
  BY <1>1, <1>2, <1>3, <1>4, <1>5, LiveStepSound DEF RInv, Sound, ShapeOf

\* A runtime that starts to run has a consumed permit of an earlier revision.
LEMMA SaveRunningSound ==
    ASSUME RInv, NEW r \in Runtimes, SaveRunning(r)
    PROVE  RInv'
<1>1. /\ UNCHANGED <<current, call, coord, policy, permit>>
      /\ proc[r].at = "run" /\ Go(r, "trading")
      /\ generic' = [generic EXCEPT ![r].mode = "RUNNING", ![r].revision = @ + 1]
  BY DEF SaveRunning, At, registry
<1>2. /\ DOMAIN proc' = DOMAIN proc
      /\ DOMAIN proc'[r] = {"role", "account", "at", "txn", "seen"}
      /\ proc'[r].at = "trading"
      /\ \A s \in Runtimes \ {r} : proc'[s] = proc[s]
  BY <1>1, GoIs
<1>3. /\ DOMAIN generic' = DOMAIN generic /\ DOMAIN generic'[r] = DOMAIN generic[r]
      /\ generic'[r].revision = generic[r].revision + 1 /\ generic[r].revision \in Nat
      /\ \A s \in Runtimes \ {r} : generic'[s] = generic[s]
  BY <1>1 DEF RInv, Shape, Sound, ShapeOf
<1>4. StepOf(r)
  BY <1>1, <1>2, <1>3 DEF StepOf, Same
<1>5. LiveOf(r)'
  <2>1. PICK e : e = permit[r].for
    OBVIOUS
  <2>2. permit[r].status = "consumed" /\ Covers(r, e) /\ e.generic = generic[r].revision
    BY <1>1, <2>1 DEF RInv, Sound, LiveOf
  <2>3. Covers(r, e)'
    BY <1>1, <2>2, CoversKept
  <2>4. Covers(r, permit[r].for)'
    BY <1>1, <2>1, <2>3 DEF Covers
  <2>5. e.generic < generic'[r].revision
    BY <1>3, <2>2
  <2>. QED
    BY <1>1, <1>2, <2>1, <2>2, <2>4, <2>5 DEF LiveOf
<1>6. DOMAIN permit'[r] = {"status", "for"} /\ generic'[r].revision \in Nat
  BY <1>1, <1>3 DEF RInv, Sound, ShapeOf
<1>. QED
  BY <1>1, <1>2, <1>3, <1>4, <1>5, <1>6, LiveStepSound

\* An emergency stop halts the runtime.
LEMMA EmergencyStopSound ==
    ASSUME RInv, NEW r \in Runtimes, EmergencyStop(r)
    PROVE  RInv'
<1>1. /\ UNCHANGED <<current, call, coord, policy, permit, proc>>
      /\ proc[r].at = "trading"
      /\ generic' = [generic EXCEPT ![r].mode = "HALTED", ![r].revision = @ + 1]
  BY DEF EmergencyStop, At, registry
<1>2. /\ DOMAIN generic' = DOMAIN generic /\ DOMAIN generic'[r] = DOMAIN generic[r]
      /\ generic'[r].revision = generic[r].revision + 1 /\ generic[r].revision \in Nat
      /\ generic'[r].mode = "HALTED"
      /\ \A s \in Runtimes \ {r} : generic'[s] = generic[s]
  BY <1>1 DEF RInv, Shape, Sound, ShapeOf
<1>3. StepOf(r)
  BY <1>1, <1>2 DEF StepOf, Same
<1>4. LiveOf(r)'
  BY <1>1, <1>2, HaltedLive
<1>5. /\ proc'[r].at = "trading" /\ DOMAIN proc'[r] = {"role", "account", "at", "txn", "seen"}
      /\ DOMAIN permit'[r] = {"status", "for"} /\ generic'[r].revision \in Nat
  BY <1>1, <1>2 DEF RInv, Sound, ShapeOf
<1>. QED
  BY <1>1, <1>2, <1>3, <1>4, <1>5, LiveStepSound

\* A live process leaves what its permit covers in place.
LEMMA ExitSound ==
    ASSUME RInv, NEW r \in Runtimes, Exit(r)
    PROVE  RInv'
<1>1. /\ UNCHANGED <<current, call, coord, policy, generic, permit>>
      /\ proc[r].at = "trading" /\ End(r)
  BY DEF Exit, At, registry, runtimeFiles
<1>2. /\ DOMAIN proc' = DOMAIN proc
      /\ DOMAIN proc'[r] = {"role", "account", "at", "txn", "seen"}
      /\ proc'[r].at = "none"
      /\ \A s \in Runtimes \ {r} : proc'[s] = proc[s]
  BY <1>1, EndIs
<1>3. StepOf(r)
  BY <1>1, <1>2 DEF StepOf, Same
<1>4. LiveOf(r)'
  <2>1. Covers(r, permit[r].for) => Covers(r, permit[r].for)'
    BY <1>1 DEF Covers, Prepared, HasTxn, Bound, Binding
  <2>. QED
    BY <1>1, <1>2, <2>1 DEF LiveOf, RInv, Sound
<1>5. /\ DOMAIN generic'[r] = DOMAIN generic[r] /\ generic'[r].revision \in Nat
      /\ DOMAIN permit'[r] = {"status", "for"}
  BY <1>1 DEF RInv, Sound, ShapeOf
<1>. QED
  BY <1>1, <1>2, <1>3, <1>4, <1>5, LiveStepSound

\* The steps of the doctor and of a live process keep the invariant.
LEMMA LiveSound ==
    ASSUME RInv, NEW r \in Runtimes, Live(r)
    PROVE  RInv'
BY IssuePermitSound, StartLiveSound, ConsumePermitSound, SaveRunningSound,
   EmergencyStopSound, ExitSound DEF Live

-----------------------------------------------------------------------------
(* A dying process, and the registry.                                        *)

\* A process dies, and its call with it.
LEMMA CrashSound ==
    ASSUME RInv, NEW r \in Runtimes, NEW torn \in BOOLEAN, Crash(r, torn)
    PROVE  RInv'
<1>1. /\ UNCHANGED <<current, coord, policy, generic, permit>>
      /\ End(r) /\ ~At(r, "trading") /\ proc[r] # NoProc
      /\ \/ call' = NoCall
         \/ call' = call /\ (proc[r].at # "calling" \/ call = NoCall \/ call.request.runtime # r)
  BY DEF Crash, Abandon, At, registry, runtimeFiles
<1>2. /\ DOMAIN proc' = DOMAIN proc
      /\ DOMAIN proc'[r] = {"role", "account", "at", "txn", "seen"}
      /\ proc'[r].at = "none"
      /\ \A s \in Runtimes \ {r} : proc'[s] = proc[s]
  BY <1>1, EndIs
<1>3. StepOf(r)
  BY <1>1, <1>2 DEF StepOf, Same
<1>4. Sound(r)'
  <2>1. ShapeOf(r)' /\ TxnsOf(r)'
    BY <1>1, <1>2 DEF RInv, Sound, ShapeOf, TxnsOf, HasTxn, Txn
  <2>2. generic[r].mode = "RUNNING" => Covers(r, permit[r].for)'
    BY <1>1 DEF RInv, Sound, LiveOf, Covers, Prepared, HasTxn, Bound, Binding
  <2>3. LiveOf(r)'
    BY <1>1, <1>2, <2>2 DEF LiveOf, RInv, Sound
  <2>. QED
    BY <2>1, <2>3 DEF Sound
<1>5. CallSound' /\ DOMAIN call' = {"request", "at"}
  <2>1. CASE call' = NoCall
    BY <2>1 DEF CallSound, NoCall
  <2>2. CASE call' # NoCall
    BY <1>1, <1>3, <2>2, CallKept
  <2>. QED
    BY <2>1, <2>2
<1>. QED
  BY <1>3, <1>4, <1>5, StepSound

\* A step of the registry that keeps its record: the call goes on to another write, or
\* ends.
LEMMA WriteSound ==
    ASSUME RInv, UNCHANGED <<current, proc, coord, policy, generic, permit>>,
           Writing \/ call.at = "unlink", call # NoCall, NEW step,
           call' = [call EXCEPT !.at = step],
           step \in {"pending", "transition", "previous", "current", "unlink", "done", "refused"},
           ~Writing => step = "done"
    PROVE  RInv'
<1>1. /\ DOMAIN call' = {"request", "at"}
      /\ call'.request = call.request /\ call'.at = step
  BY DEF RInv, Shape
<1>2. Shape'
  BY <1>1 DEF RInv, Shape
<1>3. \A s \in Runtimes : Sound(s)'
  BY SameSound DEF Same, RInv
<1>4. CallSound'
  <2>1. PICK x : x = call.request
    OBVIOUS
  <2>2. /\ x.runtime \in Runtimes /\ proc[x.runtime].at = "calling"
        /\ x = RequestOf(x.runtime, proc[x.runtime].txn)
        /\ Writing => Admissible(x)
    BY <2>1 DEF RInv, CallSound
  <2>3. Writing' => Admissible(x)'
    BY <1>1, <2>2, AdmissibleKept DEF Writing
  <2>4. x = RequestOf(x.runtime, proc'[x.runtime].txn)
    BY <2>2 DEF RequestOf
  <2>5. Writing' => Admissible(call.request)'
    BY <1>1, <2>1, <2>3 DEF Admissible, Unused, Unowned, Owner, Bound, Binding, Retired
  <2>. QED
    BY <1>1, <2>1, <2>2, <2>4, <2>5 DEF CallSound, RequestOf
<1>. QED
  BY <1>2, <1>3, <1>4 DEF RInv

\* Every write of a call but the current record's keeps the invariant.
LEMMA KeepingWriteSound ==
    ASSUME RInv, UNCHANGED <<runtimeFiles, proc>>,
           \/ CreateReceipt \/ CreatePending \/ CreateTransition
           \/ ReplacePrevious \/ UnlinkPending
    PROVE  RInv'
<1>1. UNCHANGED <<current, proc, coord, policy, generic, permit>> /\ call # NoCall
  BY DEF runtimeFiles, CreateReceipt, CreatePending, CreateTransition, ReplacePrevious,
         UnlinkPending, Doing
<1>2. CASE CreateReceipt
  <2>1. Writing
    BY <1>2 DEF CreateReceipt, Doing, Writing
  <2>2. call' = [call EXCEPT !.at = "pending"] \/ call' = [call EXCEPT !.at = "refused"]
    BY <1>2 DEF CreateReceipt, Then
  <2>. QED
    BY <1>1, <2>1, <2>2, WriteSound
<1>3. CASE CreatePending
  <2>1. Writing
    BY <1>3 DEF CreatePending, Doing, Writing
  <2>2. call' = [call EXCEPT !.at = "transition"] \/ call' = [call EXCEPT !.at = "refused"]
    BY <1>3 DEF CreatePending, Then
  <2>. QED
    BY <1>1, <2>1, <2>2, WriteSound
<1>4. CASE CreateTransition
  <2>1. Writing
    BY <1>4 DEF CreateTransition, Doing, Writing
  <2>2. call' = [call EXCEPT !.at = "previous"] \/ call' = [call EXCEPT !.at = "refused"]
    BY <1>4 DEF CreateTransition, Then
  <2>. QED
    BY <1>1, <2>1, <2>2, WriteSound
<1>5. CASE ReplacePrevious
  <2>1. Writing /\ call' = [call EXCEPT !.at = "current"]
    BY <1>5 DEF ReplacePrevious, Doing, Writing, Then
  <2>. QED
    BY <1>1, <2>1, WriteSound
<1>6. CASE UnlinkPending
  <2>1. ~Writing /\ call.at = "unlink" /\ call' = [call EXCEPT !.at = "done"]
    BY <1>6 DEF UnlinkPending, Doing, Writing, Then
  <2>. QED
    BY <1>1, <2>1, WriteSound
<1>. QED
  BY <1>2, <1>3, <1>4, <1>5, <1>6

\* The accounts and epochs of a request fit its kind.
LEMMA RequestSound ==
    ASSUME NEW r, NEW t, TxnSound(t), NEW q, q = RequestOf(r, t)
    PROVE  /\ q.kind \in {"bind", "advance", "switch", "acknowledgement"}
           /\ q.kind # "switch" => q.source = q.account
           /\ q.kind = "acknowledgement" => q.epoch = q.from
           /\ q.runtime = r /\ q.account \in Accounts
<1>1. /\ q.kind = Kind(t) /\ q.source = t.source /\ q.account = t.account
      /\ q.epoch = t.epoch /\ q.from = t.from /\ q.runtime = r
      /\ t.account \in Accounts
  BY DEF RequestOf, TxnSound
<1>2. CASE t.op = "activation"
  BY <1>1, <1>2 DEF Kind, TxnSound
<1>3. CASE t.op = "migration"
  BY <1>1, <1>3 DEF Kind, TxnSound
<1>4. CASE t.op \notin {"activation", "migration"}
  <2>1. Kind(t) = IF t.source = t.account THEN "advance" ELSE "switch"
    BY <1>4 DEF Kind
  <2>. QED
    BY <1>1, <2>1
<1>. QED
  BY <1>2, <1>3, <1>4

\* So do those of the request that is being written.
LEMMA WrittenRequest ==
    ASSUME RInv, call # NoCall
    PROVE  LET q == call.request
           IN  /\ q.kind \in {"bind", "advance", "switch", "acknowledgement"}
               /\ q.kind # "switch" => q.source = q.account
               /\ q.kind = "acknowledgement" => q.epoch = q.from
               /\ q.account \in Accounts
               /\ q.runtime \in Runtimes /\ proc[q.runtime].at = "calling"
<1>1. PICK x : x = call.request
  OBVIOUS
<1>2. x.runtime \in Runtimes /\ proc[x.runtime].at = "calling"
      /\ x = RequestOf(x.runtime, proc[x.runtime].txn)
  BY <1>1 DEF RInv, CallSound
<1>3. PICK r, t : r = x.runtime /\ t = proc[r].txn
  OBVIOUS
<1>4. TxnSound(t)
  BY <1>2, <1>3 DEF RInv, Sound, TxnsOf
<1>5. x = RequestOf(r, t)
  BY <1>2, <1>3
<1>. QED
  BY <1>1, <1>2, <1>4, <1>5, RequestSound

\* An admissible request leaves the bindings of the other runtimes alone.
LEMMA BindingsKept ==
    ASSUME DOMAIN current.bindings = Accounts, NEW q, Admissible(q),
           q.kind \in {"bind", "advance", "switch", "acknowledgement"},
           q.kind # "switch" => q.source = q.account,
           NEW a \in Bound, Binding(a).runtime # q.runtime
    PROVE  Bindings(q)[a] = current.bindings[a]
<1>1. a # q.account
  <2>1. CASE q.kind \in {"bind", "switch"}
    BY <2>1 DEF Admissible, Unowned
  <2>2. CASE q.kind \in {"advance", "acknowledgement"}
    BY <2>2 DEF Admissible, Owner
  <2>. QED
    BY <2>1, <2>2
<1>2. a # q.source
  <2>1. CASE q.kind = "switch"
    BY <2>1 DEF Admissible, Owner
  <2>2. CASE q.kind # "switch"
    BY <1>1, <2>2
  <2>. QED
    BY <2>1, <2>2
<1>. QED
  BY <1>1, <1>2 DEF Bindings, Bound

\* A sequence with one more element is a sequence.
LEMMA AppendIsSeq ==
    ASSUME NEW S, NEW s \in Seq(S), NEW e
    PROVE  Append(s, e) \in Seq(S \cup {e})
<1>1. s \in Seq(S \cup {e})
  OBVIOUS
<1>. QED
  BY <1>1

\* The new current record changes no binding that a permit of another runtime covers.
LEMMA ReplaceCurrentSound ==
    ASSUME RInv, UNCHANGED <<runtimeFiles, proc>>, ReplaceCurrent
    PROVE  RInv'
<1>1. PICK q : q = call.request
  OBVIOUS
<1>2. /\ UNCHANGED <<proc, coord, policy, generic, permit>>
      /\ call # NoCall /\ Writing
      /\ current' = [bindings |-> Bindings(q), log |-> Append(current.log, q)]
      /\ call' = [call EXCEPT !.at = "unlink"]
  BY <1>1 DEF ReplaceCurrent, Doing, Then, Writing, NextLog, runtimeFiles
<1>3. /\ DOMAIN call' = {"request", "at"}
      /\ call'.request = q /\ call'.at = "unlink"
  BY <1>1, <1>2 DEF RInv, Shape
<1>4. /\ q.kind \in {"bind", "advance", "switch", "acknowledgement"}
      /\ q.kind # "switch" => q.source = q.account
      /\ q.runtime \in Runtimes /\ proc[q.runtime].at = "calling"
  BY <1>1, <1>2, WrittenRequest
<1>5. Admissible(q)
  BY <1>1, <1>2 DEF RInv, CallSound
<1>6. current'.bindings = Bindings(q) /\ DOMAIN current.bindings = Accounts
  BY <1>2 DEF RInv, Shape
<1>7. Shape'
  <2>1. \E S : current'.log \in Seq(S)
    <3>1. PICK S : current.log \in Seq(S)
      BY DEF RInv, Shape
    <3>2. current'.log \in Seq(S \cup {q})
      BY <1>2, <3>1, AppendIsSeq
    <3>. QED
      BY <3>2
  <2>2. DOMAIN current' = {"bindings", "log"} /\ DOMAIN current'.bindings = Accounts
    BY <1>2, <1>6 DEF Bindings
  <2>. QED
    BY <1>2, <1>3, <2>1, <2>2 DEF RInv, Shape
<1>8. CallSound'
  <2>1. ~Writing'
    BY <1>3 DEF Writing
  <2>2. q = RequestOf(q.runtime, proc[q.runtime].txn)
    BY <1>1, <1>2 DEF RInv, CallSound
  <2>3. q = RequestOf(q.runtime, proc'[q.runtime].txn)
    BY <1>2, <2>2 DEF RequestOf
  <2>. QED
    BY <1>2, <1>3, <1>4, <2>1, <2>3 DEF CallSound, RequestOf
<1>9. ASSUME NEW s \in Runtimes PROVE Sound(s)'
  <2>1. ShapeOf(s)' /\ TxnsOf(s)'
    BY <1>2 DEF RInv, Sound, ShapeOf, TxnsOf, TxnAsked, HasTxn, Txn
  <2>2. CASE s = q.runtime
    <3>1. generic[s].mode # "RUNNING" /\ proc[s].at = "calling"
      BY <1>4, <2>2, CommandHalted
    <3>. QED
      BY <1>2, <2>1, <3>1, HaltedLive DEF Sound
  <2>3. CASE s # q.runtime
    <3>1. ASSUME NEW e, Covers(s, e) PROVE Covers(s, e)'
      <4>1. e.account \in Bound /\ Binding(e.account).runtime # q.runtime
        BY <2>3, <3>1 DEF Covers
      <4>2. Bindings(q)[e.account] = current.bindings[e.account]
        BY <1>4, <1>5, <1>6, <4>1, BindingsKept
      <4>3. current'.bindings[e.account] = current.bindings[e.account]
        BY <1>6, <4>2
      <4>. QED
        BY <1>2, <3>1, <4>3 DEF Covers, Prepared, HasTxn, Bound, Binding
    <3>2. PICK f, g : f = permit[s].for /\ g = proc[s].seen
      OBVIOUS
    <3>3. /\ Covers(s, f) => Covers(s, permit[s].for)'
          /\ Covers(s, g) => Covers(s, proc[s].seen)'
      BY <1>2, <3>1, <3>2 DEF Covers
    <3>4. LiveOf(s)
      BY DEF RInv, Sound
    <3>5. LiveOf(s)'
      <4>1. /\ generic[s].mode = "RUNNING" => Covers(s, f)
            /\ proc[s].at \in {"permit", "run"} => Covers(s, g)
        BY <3>2, <3>4 DEF LiveOf
      <4>. QED
        BY <1>2, <3>3, <3>4, <4>1 DEF LiveOf
    <3>. QED
      BY <2>1, <3>5 DEF Sound
  <2>. QED
    BY <2>2, <2>3
<1>. QED
  BY <1>7, <1>8, <1>9 DEF RInv

-----------------------------------------------------------------------------
(* The invariant.                                                            *)

\* Every step keeps the invariant.
LEMMA NextSound ==
    ASSUME RInv, [Next]_vars
    PROVE  RInv'
<1>1. CASE RegistryNext
  BY <1>1, KeepingWriteSound, ReplaceCurrentSound DEF RegistryNext
<1>2. CASE UNCHANGED vars
  <2>1. UNCHANGED <<current, call, proc, coord, policy, generic, permit>>
    BY <1>2 DEF vars, registry, runtimeFiles
  <2>2. \A s \in Runtimes : Sound(s)'
    BY <2>1, SameSound DEF Same, RInv
  <2>3. Shape'
    BY <2>1 DEF RInv, Shape
  <2>4. CallSound'
    <3>1. call # NoCall /\ Writing => Admissible(call.request)
      BY DEF RInv, CallSound
    <3>2. Admissible(call.request) => Admissible(call.request)'
      BY <2>1 DEF Admissible, Unused, Unowned, Owner, Bound, Binding, Retired
    <3>. QED
      BY <2>1, <3>1, <3>2 DEF RInv, CallSound, RequestOf, Writing
  <2>. QED
    BY <2>2, <2>3, <2>4 DEF RInv
<1>3. CASE \E r \in Runtimes : Command(r) \/ Live(r) \/ \E torn \in BOOLEAN : Crash(r, torn)
  BY <1>3, CommandSound, LiveSound, CrashSound
<1>. QED
  BY <1>1, <1>2, <1>3 DEF Next

\* The invariant always holds.
LEMMA AlwaysSound == Spec => []RInv
<1>1. Init => RInv
  BY InitSound
<1>2. RInv /\ [Next]_vars => RInv'
  BY NextSound
<1>. QED
  BY <1>1, <1>2, PTL DEF Spec

\* RunningIsAuthorised for every number of runtimes, accounts and transactions: who runs has
\* spent a permit for the policy state and the epoch that own its account now
\* (activate_stress90_from_permit, build_runtime_engine).
THEOREM RunningIsAuthorisedHolds == Spec => []RunningIsAuthorised
<1>1. RInv => RunningIsAuthorised
  BY DEF RInv, Sound, LiveOf, Covers, RunningIsAuthorised
<1>. QED
  BY <1>1, AlwaysSound, PTL

-----------------------------------------------------------------------------
(* The refinement.                                                           *)

\* The last element of a longer log is the one that was appended.
LEMMA AppendIsLast ==
    ASSUME NEW S, NEW s \in Seq(S), NEW e
    PROVE  Append(s, e) # <<>> /\ Append(s, e)[Len(Append(s, e))] = e
<1>1. Append(s, e) \in Seq(S \cup {e})
  BY AppendIsSeq
<1>2. Len(Append(s, e)) = Len(s) + 1 /\ Append(s, e)[Len(s) + 1] = e
  OBVIOUS
<1>. QED
  BY <1>1, <1>2

\* What makes a request admissible is what the abstract registry asks of it.
LEMMA AdmissibleIsAllowed ==
    ASSUME NEW q, q.account \in Accounts, Admissible(q)
    PROVE  /\ \A n \in DOMAIN current.log : current.log[n].nonce # q.nonce
           /\ q.kind = "bind" =>
                /\ current.bindings[q.account] = NoBinding
                /\ \A a \in Accounts : current.bindings[a] # NoBinding
                     => current.bindings[a].runtime # q.runtime
                /\ \A n \in DOMAIN current.log : current.log[n].kind = "switch"
                     => current.log[n].source # q.account
           /\ q.kind \in {"advance", "acknowledgement"} => Registry!Owns(q, q.account)
           /\ q.kind = "switch" => Registry!Owns(q, q.source) /\ q.account \notin Bound
           /\ q.kind \in {"advance", "switch"} => q.epoch # q.from
<1>1. \A n \in DOMAIN current.log : current.log[n] \in Range(current.log)
  BY DEF Range
<1>2. \A n \in DOMAIN current.log : current.log[n].nonce # q.nonce
  BY <1>1 DEF Admissible, Unused
<1>3. q.kind = "bind" => \A n \in DOMAIN current.log : current.log[n].kind = "switch"
                           => current.log[n].source # q.account
  BY <1>1 DEF Admissible, Unowned, Retired
<1>. QED
  BY <1>2, <1>3 DEF Admissible, Unowned, Owner, Bound, Binding, Registry!Owns, Registry!Bound

\* The replacement of the current record is a step of the abstract registry.
LEMMA ReplaceCurrentIsStep ==
    ASSUME RInv, ReplaceCurrent
    PROVE  Registry!Next
<1>1. PICK q : q = call.request
  OBVIOUS
<1>2. /\ call # NoCall /\ Writing
      /\ current' = [bindings |-> Bindings(q), log |-> Append(current.log, q)]
  BY <1>1 DEF ReplaceCurrent, Doing, Writing, NextLog
<1>3. /\ q.kind \in {"bind", "advance", "switch", "acknowledgement"}
      /\ q.kind # "switch" => q.source = q.account
      /\ q.kind = "acknowledgement" => q.epoch = q.from
      /\ q.account \in Accounts
  BY <1>1, <1>2, WrittenRequest
<1>4. Admissible(q) /\ DOMAIN current.bindings = Accounts
  BY <1>1, <1>2 DEF RInv, CallSound, Shape
<1>5. /\ current'.log = Append(current.log, q)
      /\ current'.bindings = [current.bindings EXCEPT ![q.source] = NoBinding, ![q.account] = q]
  BY <1>2 DEF Bindings
<1>6. current'.log # <<>> /\ current'.log[Len(current'.log)] = q
  <2>1. PICK S : current.log \in Seq(S)
    BY DEF RInv, Shape
  <2>. QED
    BY <1>5, <2>1, AppendIsLast
<1>7. Registry!Consume(q)
  BY <1>3, <1>4, <1>5, AdmissibleIsAllowed DEF Registry!Consume
<1>8. q.kind # "switch" => current'.bindings = [current.bindings EXCEPT ![q.account] = q]
  BY <1>3, <1>4, <1>5
<1>9. Registry!Bind(q) \/ Registry!Advance(q) \/ Registry!Switch(q) \/ Registry!Acknowledge(q)
  <2>1. CASE q.kind = "bind"
    BY <1>3, <1>4, <1>7, <1>8, <2>1, AdmissibleIsAllowed DEF Registry!Bind, Registry!Bound
  <2>2. CASE q.kind = "advance"
    BY <1>3, <1>4, <1>7, <1>8, <2>2, AdmissibleIsAllowed DEF Registry!Advance
  <2>3. CASE q.kind = "switch"
    BY <1>3, <1>4, <1>5, <1>7, <2>3, AdmissibleIsAllowed DEF Registry!Switch, Registry!Bound, Bound
  <2>4. CASE q.kind = "acknowledgement"
    BY <1>3, <1>4, <1>7, <1>8, <2>4, AdmissibleIsAllowed DEF Registry!Acknowledge
  <2>. QED
    BY <1>3, <2>1, <2>2, <2>3, <2>4
<1>. QED
  BY <1>6, <1>9 DEF Registry!Next

\* The steps of a command replace no current record.
LEMMA CommandKeepsRegistry ==
    ASSUME NEW r, Command(r)
    PROVE  UNCHANGED current
BY DEF Command, StartCommand, InvalidatePermit, Begin, SaveTransaction,
   SaveTransactionPrevious, CallRegistry, StartCall, ReturnFromRegistry, BindEvidence,
   SavePolicy, SaveGeneric, registry

\* Nor do those of the doctor and of a live process.
LEMMA LiveKeepsRegistry ==
    ASSUME NEW r, Live(r)
    PROVE  UNCHANGED current
BY DEF Live, IssuePermit, StartLive, ConsumePermit, SaveRunning, EmergencyStop, Exit, registry

\* Nor does a process that dies.
LEMMA CrashKeepsRegistry ==
    ASSUME NEW r, NEW torn, Crash(r, torn)
    PROVE  UNCHANGED current
BY DEF Crash, Abandon, registry

\* Every step is a step of the abstract registry or leaves what it shows alone.
LEMMA NextIsRegistryStep ==
    ASSUME RInv, [Next]_vars
    PROVE  [Registry!Next]_(Registry!vars)
<1>1. CASE ReplaceCurrent
  BY <1>1, ReplaceCurrentIsStep
<1>2. CASE ~ReplaceCurrent
  <2>1. UNCHANGED current
    <3>1. CASE RegistryNext
      BY <1>2, <3>1 DEF RegistryNext, CreateReceipt, CreatePending, CreateTransition,
           ReplacePrevious, UnlinkPending
    <3>2. CASE \E r \in Runtimes : Command(r) \/ Live(r) \/ \E torn \in BOOLEAN : Crash(r, torn)
      BY <3>2, CommandKeepsRegistry, LiveKeepsRegistry, CrashKeepsRegistry
    <3>3. CASE UNCHANGED vars
      BY <3>3 DEF vars, registry
    <3>. QED
      BY <3>1, <3>2, <3>3 DEF Next
  <2>. QED
    BY <2>1 DEF Registry!vars
<1>. QED
  BY <1>1, <1>2

\* The five files of the registry implement AtomicRegistry, wherever a caller dies and
\* whatever it leaves torn: each change of an owner is one step, from the owner and epoch it
\* was asked to replace (_save_with_nonce_unlocked: the current record is the commit point).
THEOREM RegistryIsAtomic == Spec => IsAtomicRegistry
<1>1. Init => Registry!Init
  BY DEF Init, RegistryInit, Registry!Init
<1>2. RInv /\ [Next]_vars => [Registry!Next]_(Registry!vars)
  BY NextIsRegistryStep
<1>. QED
  BY <1>1, <1>2, AlwaysSound, PTL DEF Spec, IsAtomicRegistry, Registry!Spec

-----------------------------------------------------------------------------
(* The files.                                                                *)

\* The transaction in place is what binds its account.
Effective(r) == Binding(Txn(r).account) = RequestOf(r, Txn(r))

\* Every binding is a consumed request for its account, and a runtime has at most one.
BindingsFit ==
    /\ current \in RegistryRecords
    /\ \A a \in Bound : Binding(a) \in Range(current.log) /\ Binding(a).account = a
    /\ \A a, b \in Bound : Binding(a).runtime = Binding(b).runtime => a = b

\* The pending file announces one more request, whose receipt is in place.
Announced == \E p \in Requests : pending = Append(current.log, p) /\ receipts[p.nonce] = p

\* What the registry's files are between any two writes of a call, if none was torn.
Chain ==
    /\ DOMAIN receipts = Nonces /\ transitions \in Seq(Seq(Requests))
    /\ Readable
    /\ pending = NoFile \/ (pending = current.log /\ current.log # <<>>) \/ Announced
    /\ Len(transitions) \in {Len(current.log), Len(current.log) + 1}
    /\ Len(transitions) = Len(current.log) + 1 => Announced
    /\ call.at \in {"pending", "transition", "previous", "current"} =>
         receipts[call.request.nonce] = call.request
    /\ call.at \in {"transition", "previous", "current"} => pending = NextLog
    /\ call.at \in {"previous", "current"} => Len(transitions) = Len(current.log) + 1
    /\ call.at = "current" => previous = current
    /\ call.at = "unlink" => pending = current.log /\ current.log # <<>>

\* The coordinator's record and the policy state, which is of an epoch of an earlier
\* revision once it has an account.
TypedOf(r) ==
    /\ coord[r].current \in CoordRecords \cup {NoFile}
    /\ policy[r].revision \in Nat /\ policy[r].account \in Accounts \cup {NoAccount}
    /\ IF policy[r].account = NoAccount THEN policy[r].epoch = NoEpoch
       ELSE policy[r].epoch \in Epochs /\ policy[r].epoch[3] < policy[r].revision

\* The epoch of a transaction is new, or was when its account was bound.
RankOf(t) == IF t.op = "migration" THEN t.epoch[3] < t.policy
             ELSE t.epoch = <<t.nonce, t.account, t.policy>>

\* Under a prepared transaction each file is at its source or at its target, and those
\* that are at their targets are a prefix of the order in which they are written.
PreparedFor(r, t) ==
    /\ generic[r] = GenericTarget(t) \/ generic[r].revision = t.generic
    /\ policy[r] = PolicyTarget(t) \/ policy[r].revision = t.policy
    /\ generic[r] = GenericTarget(t) => policy[r] = PolicyTarget(t)
    /\ policy[r] = PolicyTarget(t) => evidence[r] = EvidenceOf(t)
    /\ evidence[r] = EvidenceOf(t) => Effective(r)
    /\ EvidenceIsSource(r, t)
    /\ Consumed(r) => Effective(r)
    /\ RankOf(t)
    /\ \A p \in Range(current.log) : p.runtime = r =>
         p = RequestOf(r, t) \/ p.epoch[3] < t.policy
PreparedOf(r) == Prepared(r) => PreparedFor(r, Txn(r))

\* Evidence of a runtime that nobody has bound.
Unbound(a) == [NoEvidence EXCEPT !.phase = "unbound", !.account = a]

\* Without one under way, the files are at the targets of the last transaction; every
\* request of the runtime was for an earlier revision, and since a migration a new epoch
\* has begun before the runtime can be migrated again.
SettledOf(r) ==
    ~Prepared(r) =>
      /\ IF HasTxn(r)
         THEN /\ policy[r] = PolicyTarget(Txn(r)) /\ evidence[r] = EvidenceOf(Txn(r))
              /\ Effective(r)
         ELSE /\ policy[r].account = NoAccount
              /\ evidence[r] = NoEvidence \/ \E a \in Accounts : evidence[r] = Unbound(a)
              /\ \A a \in Bound : Binding(a).runtime # r
      /\ generic[r].account = policy[r].account
      /\ \A p \in Range(current.log) : p.runtime = r =>
           /\ p.epoch[3] < policy[r].revision
           /\ generic[r].identity = "stress90" /\ p.kind = "acknowledgement"
                => p.epoch # policy[r].epoch

\* A command holds a transaction that is made of the files as they are.
NewOf(r) ==
    /\ ~Prepared(r)
    /\ \E op \in Operations, n \in Nonces, a \in Accounts :
         /\ proc[r].txn = NewTxn(r, op, n, a)
         /\ op = "migration" => policy[r].account = a
         /\ op = "activation" /\ policy[r].account = NoAccount => evidence[r] = Unbound(a)

\* What a command or a live process has done when it comes to a step.
StageOf(r) ==
    /\ proc[r].at = "invalidate" => (HasTxn(r) /\ proc[r].txn = Txn(r)) \/ NewOf(r)
    /\ proc[r].at \in {"begin", "prepare"} => NewOf(r)
    /\ proc[r].at = "prepare" => /\ SourceAllows(r, proc[r].txn)
                                 /\ HasTxn(r) => Txn(r).nonce # proc[r].txn.nonce
    /\ proc[r].at \in {"prepare previous", "registry", "calling", "evidence", "policy",
                       "generic", "commit"} => HasTxn(r) /\ proc[r].txn = Txn(r)
    /\ proc[r].at = "prepare previous" => Prepared(r)
    /\ proc[r].at \in {"evidence", "policy", "generic", "commit"} => Effective(r)
    /\ proc[r].at \in {"policy", "generic", "commit"} => evidence[r] = EvidenceOf(Txn(r))
    /\ proc[r].at \in {"generic", "commit"} => Prepared(r) /\ policy[r] = PolicyTarget(Txn(r))
    /\ proc[r].at = "commit" => generic[r] = GenericTarget(Txn(r))
    /\ proc[r].at \in {"commit previous", "permit", "run", "trading"} => ~Prepared(r)

FilesOf(r) == TypedOf(r) /\ PreparedOf(r) /\ SettledOf(r)

\* A call that has replaced the record has bound what it was asked to; one that was
\* refused was not for a request consumed before.
CallFits ==
    call # NoCall =>
      /\ call.at \in {"unlink", "done"} => Effective(call.request.runtime)
      /\ call.at = "refused" /\ tornFiles = 0 /\ Prepared(call.request.runtime) =>
           ~Consumed(call.request.runtime)

FInv ==
    /\ BindingsFit
    /\ tornFiles = 0 => Chain
    /\ CallFits
    /\ tornFiles \in Nat /\ failures \in Nat /\ DOMAIN evidence = Runtimes
    /\ \A r \in Runtimes : FilesOf(r) /\ StageOf(r)

\* In the beginning there is nothing but states without an account.
LEMMA InitFiles == Init => FInv
<1> SUFFICES ASSUME Init PROVE FInv
  OBVIOUS
<1>1. /\ current = [bindings |-> [a \in Accounts |-> NoBinding], log |-> <<>>]
      /\ previous = NoFile /\ pending = NoFile /\ transitions = <<>>
      /\ receipts = [n \in Nonces |-> NoFile] /\ call = NoCall
      /\ tornFiles = 0 /\ failures = 0 /\ DOMAIN evidence = Runtimes
  BY DEF Init, RegistryInit
<1>2. Bound = {} /\ Range(current.log) = {} /\ current \in RegistryRecords
  BY <1>1 DEF Bound, Range, RegistryRecords
<1>3. Chain
  <2>1. Readable
    BY <1>1, <1>2 DEF Readable, NonceAnchorValid
  <2>. QED
    BY <1>1, <2>1 DEF Chain, NoCall
<1>4. ASSUME NEW r \in Runtimes PROVE FilesOf(r) /\ StageOf(r)
  <2>1. /\ coord[r] = [marker |-> FALSE, current |-> NoFile, previous |-> NoFile]
        /\ policy[r] = NoPolicyAccount /\ generic[r] = NoGeneric
        /\ evidence[r] = NoEvidence /\ proc[r] = NoProc
    BY DEF Init
  <2>2. ~HasTxn(r) /\ ~Prepared(r) /\ proc[r].at = "none"
    BY <2>1 DEF HasTxn, Prepared, NoProc
  <2>3. TypedOf(r)
    BY <2>1 DEF TypedOf, NoPolicyAccount
  <2>4. SettledOf(r)
    BY <1>2, <2>1, <2>2 DEF SettledOf, NoPolicyAccount, NoGeneric
  <2>. QED
    BY <2>2, <2>3, <2>4 DEF FilesOf, PreparedOf, StageOf
<1>. QED
  BY <1>1, <1>2, <1>3, <1>4 DEF FInv, BindingsFit, CallFits

\* The files a transaction changes, of one runtime.
Untouched(s) ==
    /\ coord'[s].current = coord[s].current /\ policy'[s] = policy[s]
    /\ generic'[s] = generic[s] /\ evidence'[s] = evidence[s]

\* What the files say of a runtime is kept when neither they nor the record change.
LEMMA ReadingKept ==
    ASSUME NEW s, UNCHANGED current, coord'[s].current = coord[s].current
    PROVE  /\ Bound' = Bound /\ \A a : Binding(a)' = Binding(a)
           /\ HasTxn(s)' <=> HasTxn(s)
           /\ Txn(s)' = Txn(s)
           /\ Prepared(s)' <=> Prepared(s)
           /\ Effective(s)' <=> Effective(s)
           /\ Consumed(s)' <=> Consumed(s)
BY DEF Bound, Binding, HasTxn, Txn, Prepared, Effective, Consumed

LEMMA FilesKept ==
    ASSUME NEW s, UNCHANGED current, Untouched(s), FilesOf(s)
    PROVE  FilesOf(s)'
<1>1. /\ Bound' = Bound /\ \A a : Binding(a)' = Binding(a)
      /\ HasTxn(s)' <=> HasTxn(s)
      /\ Txn(s)' = Txn(s)
      /\ Prepared(s)' <=> Prepared(s)
      /\ Effective(s)' <=> Effective(s)
      /\ Consumed(s)' <=> Consumed(s)
  BY ReadingKept DEF Untouched
<1>2. TypedOf(s)'
  BY DEF Untouched, FilesOf, TypedOf
<1>3. PreparedOf(s)'
  BY <1>1 DEF Untouched, FilesOf, PreparedOf, PreparedFor, EvidenceIsSource
<1>4. SettledOf(s)'
  BY <1>1 DEF Untouched, FilesOf, SettledOf
<1>. QED
  BY <1>2, <1>3, <1>4 DEF FilesOf

LEMMA StageKept ==
    ASSUME NEW s, UNCHANGED current, Untouched(s), proc'[s] = proc[s], StageOf(s)
    PROVE  StageOf(s)'
<1>1. /\ HasTxn(s)' <=> HasTxn(s)
      /\ Txn(s)' = Txn(s)
      /\ Prepared(s)' <=> Prepared(s)
      /\ Effective(s)' <=> Effective(s)
  BY ReadingKept DEF Untouched
<1>2. \A op, n, a : NewTxn(s, op, n, a)' = NewTxn(s, op, n, a)
  BY DEF Untouched, NewTxn
<1>3. NewOf(s) => NewOf(s)'
  BY <1>1, <1>2 DEF Untouched, NewOf
<1>4. SourceAllows(s, proc[s].txn) => SourceAllows(s, proc[s].txn)'
  BY DEF Untouched, SourceAllows
<1>. QED
  BY <1>1, <1>3, <1>4 DEF Untouched, StageOf

\* A step of one runtime, outside the registry, has to be looked at for that runtime.
LEMMA OwnStep ==
    ASSUME RInv, FInv, NEW r \in Runtimes, StepOf(r), UNCHANGED registry,
           proc[r].at # "calling" \/ call = NoCall \/ call.request.runtime # r,
           \A s \in Runtimes \ {r} : evidence'[s] = evidence[s],
           DOMAIN evidence' = DOMAIN evidence,
           tornFiles' = tornFiles, failures' \in Nat,
           FilesOf(r)', StageOf(r)'
    PROVE  FInv'
<1>1. UNCHANGED <<current, previous, pending, transitions, receipts, call>>
  BY DEF registry
<1>2. BindingsFit'
  BY <1>1 DEF FInv, BindingsFit, Bound, Binding
<1>3. Readable' = Readable
  BY <1>1 DEF Readable, NonceAnchorValid, TransitionProven, Bound, Binding
<1>4. (tornFiles = 0 => Chain)'
  BY <1>1, <1>3 DEF FInv, Chain, Announced, NextLog
<1>5. ASSUME NEW s \in Runtimes \ {r} PROVE FilesOf(s)' /\ StageOf(s)'
  <2>1. FilesOf(s) /\ StageOf(s) /\ Untouched(s) /\ proc'[s] = proc[s]
    BY DEF FInv, StepOf, Same, Untouched
  <2>. QED
    BY <1>1, <2>1, FilesKept, StageKept
<1>6. CallFits'
  <2>1. CASE call = NoCall
    BY <1>1, <2>1 DEF CallFits
  <2>2. CASE call # NoCall
    <3>1. call.request.runtime \in Runtimes \ {r}
      BY <2>2 DEF RInv, CallSound
    <3>2. PICK s \in Runtimes \ {r} : s = call.request.runtime
      BY <3>1
    <3>3. /\ Prepared(s)' <=> Prepared(s)
          /\ Effective(s)' <=> Effective(s)
          /\ Consumed(s)' <=> Consumed(s)
      BY <1>1, ReadingKept DEF StepOf, Same
    <3>4. /\ call.at \in {"unlink", "done"} => Effective(s)
          /\ call.at = "refused" /\ tornFiles = 0 /\ Prepared(s) => ~Consumed(s)
      BY <2>2, <3>2 DEF FInv, CallFits
    <3>5. /\ call.at \in {"unlink", "done"} => Effective(s)'
          /\ call.at = "refused" /\ tornFiles' = 0 /\ Prepared(s)' => ~Consumed(s)'
      BY <3>3, <3>4
    <3>. QED
      BY <1>1, <3>2, <3>5 DEF CallFits, Effective, Prepared, Consumed, HasTxn, Txn
  <2>. QED
    BY <2>1, <2>2
<1>. QED
  BY <1>2, <1>4, <1>5, <1>6 DEF FInv

-----------------------------------------------------------------------------
(* The files under a command.                                                *)

\* Evidence of a runtime without an account is unbound again before its activation.
LEMMA StartCommandFiles ==
    ASSUME RInv, FInv, NEW r \in Runtimes, NEW command \in Commands, NEW nonce \in Nonces,
           NEW account \in Accounts, StartCommand(r, command, nonce, account)
    PROVE  FInv'
<1> DEFINE op == Operation(r, command, nonce)
           resumed == Matches(r, op, nonce, account)
           t == IF resumed THEN Txn(r) ELSE NewTxn(r, op, nonce, account)
<1>1. /\ UNCHANGED <<registry, coord, policy, generic, permit, failures, tornFiles>>
      /\ proc[r] = NoProc
      /\ Prepared(r) => resumed
      /\ command = "migrate" => policy[r].account = account
      /\ IF command = "rebase" \/ Prepared(r)
         THEN UNCHANGED evidence ELSE Checkpoint(r, account)
      /\ proc' = [proc EXCEPT ![r] = [Process("lifecycle", account, "invalidate") EXCEPT !.txn = t]]
  BY DEF StartCommand, LeaseFree
<1>2. resumed => HasTxn(r)
  BY DEF Matches
<1>3. /\ op \in Operations /\ (op = "migration" => command = "migrate")
      /\ op = "activation" => command # "rebase"
  BY DEF Operation, Operations, Commands
<1>4. UNCHANGED current
  BY <1>1 DEF registry
<1> HIDE DEF op, resumed
<1>5. FilesOf(r) /\ account # NoAccount
  BY LifecycleAssumption DEF FInv
<1>6. Checkpoint(r, account) => /\ policy[r].account # NoAccount => UNCHANGED evidence
                                /\ policy[r].account = NoAccount =>
                                     evidence' = [evidence EXCEPT ![r] = Unbound(account)]
  BY DEF Checkpoint, Unbound
<1>7. /\ DOMAIN evidence' = DOMAIN evidence
      /\ \A s \in Runtimes \ {r} : evidence'[s] = evidence[s]
      /\ evidence'[r] = evidence[r] \/ /\ policy[r].account = NoAccount /\ ~Prepared(r)
                                       /\ evidence'[r] = Unbound(account)
      /\ policy[r].account = NoAccount /\ ~Prepared(r) /\ command # "rebase"
           => evidence'[r] = Unbound(account)
  BY <1>1, <1>6 DEF FInv
<1>8. /\ Bound' = Bound /\ \A a : Binding(a)' = Binding(a)
      /\ HasTxn(r)' <=> HasTxn(r)
      /\ Txn(r)' = Txn(r)
      /\ Prepared(r)' <=> Prepared(r)
      /\ Effective(r)' <=> Effective(r)
  BY <1>1, <1>4, ReadingKept
<1>9. FilesOf(r)'
  <2>1. CASE evidence'[r] = evidence[r]
    BY <1>1, <1>4, <1>5, <2>1, FilesKept DEF Untouched
  <2>2. CASE policy[r].account = NoAccount /\ ~Prepared(r) /\ evidence'[r] = Unbound(account)
    <3>1. ~HasTxn(r)
      BY <1>5, <2>2, LifecycleAssumption
         DEF FilesOf, TypedOf, SettledOf, PolicyTarget, CoordRecords, Transactions, HasTxn, Txn
    <3>2. SettledOf(r)'
      BY <1>1, <1>4, <1>5, <1>8, <2>2, <3>1 DEF FilesOf, SettledOf
    <3>3. TypedOf(r)'
      BY <1>1, <1>5 DEF FilesOf, TypedOf
    <3>. QED
      BY <1>8, <2>2, <3>2, <3>3 DEF FilesOf, PreparedOf
  <2>. QED
    BY <1>7, <2>1, <2>2
<1>10. /\ DOMAIN proc' = DOMAIN proc
       /\ proc'[r].at = "invalidate" /\ proc'[r].txn = t
       /\ \A s \in Runtimes \ {r} : proc'[s] = proc[s]
  <2> HIDE DEF t
  <2>. QED
    BY <1>1 DEF RInv, Shape, Process
<1>11. StageOf(r)'
  <2>1. CASE resumed
    BY <1>2, <1>8, <1>10, <2>1 DEF StageOf
  <2>2. CASE ~resumed
    <3>1. ~Prepared(r) /\ t = NewTxn(r, op, nonce, account)
      BY <1>1, <2>2
    <3>2. PICK o : o = op
      OBVIOUS
    <3>3. proc'[r].txn = NewTxn(r, o, nonce, account)
      BY <1>10, <3>1, <3>2
    <3>4. NewTxn(r, o, nonce, account)' = NewTxn(r, o, nonce, account)
      BY <1>1 DEF NewTxn
    <3>5. NewOf(r)'
      BY <1>1, <1>3, <1>7, <1>8, <3>1, <3>2, <3>3, <3>4 DEF NewOf
    <3>. QED
      BY <1>10, <3>5 DEF StageOf
  <2>. QED
    BY <2>1, <2>2
<1>12. StepOf(r)
  BY <1>1, <1>4, <1>10 DEF StepOf, Same
<1>13. proc[r].at # "calling" /\ tornFiles' = tornFiles /\ failures' \in Nat
  BY <1>1 DEF NoProc, FInv
<1>. QED
  BY <1>1, <1>7, <1>9, <1>11, <1>12, <1>13, OwnStep

\* A step that changes no file but the coordinator's marker and previous one keeps what
\* the files say, and has to be looked at for where the process is.
LEMMA ReadingStep ==
    ASSUME RInv, FInv, NEW r \in Runtimes, StepOf(r), UNCHANGED <<registry, evidence, tornFiles>>,
           proc[r].at # "calling" \/ call = NoCall \/ call.request.runtime # r,
           Untouched(r), failures' \in Nat, StageOf(r)'
    PROVE  FInv'
<1>1. UNCHANGED current /\ FilesOf(r) /\ DOMAIN evidence' = DOMAIN evidence
  BY DEF registry, FInv
<1>2. FilesOf(r)'
  BY <1>1, FilesKept
<1>. QED
  BY <1>1, <1>2, OwnStep

\* What a command has in hand stays new until it writes.
LEMMA NewKept ==
    ASSUME NEW r, NewOf(r), UNCHANGED current, Untouched(r), proc'[r].txn = proc[r].txn
    PROVE  NewOf(r)'
<1>1. Prepared(r)' <=> Prepared(r)
  BY ReadingKept DEF Untouched
<1>2. \A op, n, a : NewTxn(r, op, n, a)' = NewTxn(r, op, n, a)
  BY DEF Untouched, NewTxn
<1>. QED
  BY <1>1, <1>2 DEF NewOf, Untouched

\* The transaction a command goes on with is the one in place.
LEMMA InvalidatePermitFiles ==
    ASSUME RInv, FInv, NEW r \in Runtimes, InvalidatePermit(r)
    PROVE  FInv'
<1>1. /\ UNCHANGED <<registry, coord, policy, generic, evidence, failures, tornFiles>>
      /\ proc[r].at = "invalidate"
      /\ permit' = [permit EXCEPT ![r] = IF @ = NoPermit THEN @
                                         ELSE [@ EXCEPT !.status = "invalidated"]]
      /\ Go(r, IF HasTxn(r) /\ Txn(r) = proc[r].txn THEN "registry" ELSE "begin")
  BY DEF InvalidatePermit, At
<1>2. /\ DOMAIN proc' = DOMAIN proc
      /\ proc'[r].at = IF HasTxn(r) /\ Txn(r) = proc[r].txn THEN "registry" ELSE "begin"
      /\ proc'[r].txn = proc[r].txn
      /\ \A s \in Runtimes \ {r} : proc'[s] = proc[s]
  BY <1>1, GoIs
<1>3. StepOf(r) /\ UNCHANGED current /\ Untouched(r)
  BY <1>1, <1>2 DEF StepOf, Same, Untouched, registry
<1>4. StageOf(r)'
  <2>1. CASE HasTxn(r) /\ Txn(r) = proc[r].txn
    BY <1>1, <1>2, <2>1 DEF StageOf, HasTxn, Txn
  <2>2. CASE ~(HasTxn(r) /\ Txn(r) = proc[r].txn)
    <3>1. NewOf(r)
      BY <1>1, <2>2 DEF FInv, StageOf
    <3>2. NewOf(r)'
      BY <1>2, <1>3, <3>1, NewKept
    <3>. QED
      BY <1>2, <2>2, <3>2 DEF StageOf
  <2>. QED
    BY <2>1, <2>2
<1>5. failures' \in Nat
  BY <1>1 DEF FInv
<1>. QED
  BY <1>1, <1>3, <1>4, <1>5, ReadingStep

\* A transaction begins on files as they were when it was made.
LEMMA BeginFiles ==
    ASSUME RInv, FInv, NEW r \in Runtimes, Begin(r)
    PROVE  FInv'
<1>1. /\ UNCHANGED <<registry, policy, generic, evidence, permit, failures, tornFiles>>
      /\ proc[r].at = "begin"
      /\ \/ /\ SourceAllows(r, proc[r].txn) /\ (HasTxn(r) => Txn(r).nonce # proc[r].txn.nonce)
            /\ coord' = [coord EXCEPT ![r].marker = TRUE]
            /\ proc' = [proc EXCEPT ![r].at = "prepare", ![r].seen = coord[r].current]
         \/ UNCHANGED coord /\ End(r)
  BY DEF Begin, At
<1>2. /\ DOMAIN proc' = DOMAIN proc
      /\ \/ proc'[r].at = "none"
         \/ /\ proc'[r].at = "prepare" /\ proc'[r].txn = proc[r].txn
            /\ SourceAllows(r, proc[r].txn) /\ (HasTxn(r) => Txn(r).nonce # proc[r].txn.nonce)
      /\ \A s \in Runtimes \ {r} : proc'[s] = proc[s]
  <2>1. CASE End(r)
    BY <2>1, EndIs
  <2>2. CASE ~End(r)
    BY <1>1, <2>2 DEF RInv, Shape, Sound, ShapeOf
  <2>. QED
    BY <2>1, <2>2
<1>3. /\ DOMAIN coord' = DOMAIN coord /\ coord'[r].current = coord[r].current
      /\ \A s \in Runtimes \ {r} : coord'[s] = coord[s]
  BY <1>1 DEF RInv, Shape, Sound, ShapeOf
<1>4. StepOf(r) /\ UNCHANGED current /\ Untouched(r)
  BY <1>1, <1>2, <1>3 DEF StepOf, Same, Untouched, registry
<1>5. StageOf(r)'
  <2>1. CASE proc'[r].at = "none"
    BY <2>1 DEF StageOf
  <2>2. CASE proc'[r].at # "none"
    <3>1. NewOf(r)'
      BY <1>1, <1>2, <1>4, <2>2, NewKept DEF FInv, StageOf
    <3>2. (HasTxn(r)' <=> HasTxn(r)) /\ Txn(r)' = Txn(r)
      BY <1>4, ReadingKept DEF Untouched
    <3>3. PICK t : t = proc[r].txn
      OBVIOUS
    <3>4. SourceAllows(r, t)'
      BY <1>1, <1>2, <2>2, <3>3 DEF SourceAllows
    <3>5. SourceAllows(r, proc[r].txn)' /\ (HasTxn(r) => Txn(r).nonce # proc[r].txn.nonce)'
      BY <1>2, <2>2, <3>2, <3>3, <3>4 DEF SourceAllows
    <3>. QED
      BY <1>2, <2>2, <3>1, <3>5 DEF StageOf
  <2>. QED
    BY <2>1, <2>2
<1>6. failures' \in Nat
  BY <1>1 DEF FInv
<1>. QED
  BY <1>1, <1>4, <1>5, <1>6, ReadingStep

\* The previous record is not read by a step that follows.
LEMMA SaveTransactionPreviousFiles ==
    ASSUME RInv, FInv, NEW r \in Runtimes, SaveTransactionPrevious(r)
    PROVE  FInv'
<1>1. /\ UNCHANGED <<registry, policy, generic, evidence, permit, failures, tornFiles>>
      /\ \/ proc[r].at = "prepare previous" /\ Go(r, "registry")
         \/ proc[r].at = "commit previous" /\ End(r)
      /\ coord' = [coord EXCEPT ![r].previous = proc[r].seen]
  BY DEF SaveTransactionPrevious, At
<1>2. /\ DOMAIN proc' = DOMAIN proc
      /\ \/ proc[r].at = "prepare previous" /\ proc'[r].at = "registry"
            /\ proc'[r].txn = proc[r].txn
         \/ proc[r].at = "commit previous" /\ proc'[r].at = "none"
      /\ \A s \in Runtimes \ {r} : proc'[s] = proc[s]
  BY <1>1, GoIs, EndIs
<1>3. /\ DOMAIN coord' = DOMAIN coord /\ coord'[r].current = coord[r].current
      /\ \A s \in Runtimes \ {r} : coord'[s] = coord[s]
  BY <1>1 DEF RInv, Shape, Sound, ShapeOf
<1>4. StepOf(r) /\ UNCHANGED current /\ Untouched(r)
  BY <1>1, <1>2, <1>3 DEF StepOf, Same, Untouched, registry
<1>5. StageOf(r)'
  <2>1. (HasTxn(r)' <=> HasTxn(r)) /\ Txn(r)' = Txn(r)
    BY <1>4, ReadingKept DEF Untouched
  <2>. QED
    BY <1>2, <2>1 DEF FInv, StageOf
<1>6. failures' \in Nat /\ proc[r].at # "calling"
  BY <1>1 DEF FInv
<1>. QED
  BY <1>1, <1>4, <1>5, <1>6, ReadingStep

\* A transaction that is made of settled files starts from them: no file is at its target
\* yet, its request was never consumed, and the evidence is what it may replace.
LEMMA NewIsPrepared ==
    ASSUME RInv, FInv, NEW r \in Runtimes, NewOf(r), NEW t, t = proc[r].txn,
           SourceAllows(r, t), HasTxn(r) => Txn(r).nonce # t.nonce
    PROVE  /\ t \in Transactions
           /\ generic[r].revision = t.generic /\ generic[r] # GenericTarget(t)
           /\ policy[r].revision = t.policy /\ policy[r] # PolicyTarget(t)
           /\ evidence[r] # EvidenceOf(t) /\ EvidenceIsSource(r, t)
           /\ RequestOf(r, t) \notin Range(current.log)
           /\ RankOf(t)
           /\ \A p \in Range(current.log) : p.runtime = r => p.epoch[3] < t.policy
<1>1. PICK op \in Operations, n \in Nonces, a \in Accounts :
         /\ t = NewTxn(r, op, n, a)
         /\ op = "migration" => policy[r].account = a
         /\ op = "activation" /\ policy[r].account = NoAccount => evidence[r] = Unbound(a)
  BY DEF NewOf
<1>2. /\ t.op = op /\ t.nonce = n /\ t.account = a
      /\ t.source = IF policy[r].account = NoAccount THEN a ELSE policy[r].account
      /\ t.from = policy[r].epoch
      /\ t.epoch = IF op = "migration" THEN policy[r].epoch ELSE <<n, a, policy[r].revision>>
      /\ t.policy = policy[r].revision /\ t.generic = generic[r].revision
      /\ DOMAIN t = {"op", "nonce", "account", "source", "from", "epoch", "policy", "generic"}
  BY <1>1 DEF NewTxn
<1>3. ~Prepared(r) /\ SettledOf(r) /\ TypedOf(r) /\ generic[r].revision \in Nat /\ a # NoAccount
  BY LifecycleAssumption DEF NewOf, FInv, FilesOf, RInv, Sound, ShapeOf
<1>4. HasTxn(r) => Txn(r) \in Transactions
  BY <1>3 DEF TypedOf, HasTxn, Txn, CoordRecords
<1>5. policy[r].account # NoAccount => HasTxn(r)
  BY <1>3 DEF SettledOf
<1>6. t \in Transactions
  <2>1. policy[r].epoch \in {NoEpoch} \cup Epochs /\ (op = "migration" => policy[r].epoch \in Epochs)
    BY <1>1, <1>3 DEF TypedOf
  <2>2. t.epoch \in Epochs /\ t.source \in Accounts
    BY <1>2, <1>3, <2>1 DEF Epochs, TypedOf
  <2>3. t = [op |-> t.op, nonce |-> t.nonce, account |-> t.account, source |-> t.source,
             from |-> t.from, epoch |-> t.epoch, policy |-> t.policy, generic |-> t.generic]
    BY <1>1 DEF NewTxn
  <2>. QED
    BY <1>2, <1>3, <2>1, <2>2, <2>3 DEF Transactions, TypedOf
<1>7. generic[r] # GenericTarget(t) /\ policy[r] # PolicyTarget(t)
  <2>1. GenericTarget(t).revision = generic[r].revision + 1
        /\ PolicyTarget(t).revision = policy[r].revision + 1
    BY <1>2 DEF GenericTarget, PolicyTarget
  <2>. QED
    BY <1>3, <2>1 DEF TypedOf
<1>8. evidence[r] # EvidenceOf(t)
  <2>1. EvidenceOf(t).phase = "bound" /\ EvidenceOf(t).nonce = t.nonce
    BY DEF EvidenceOf
  <2>2. CASE HasTxn(r)
    <3>1. evidence[r].nonce = Txn(r).nonce
      BY <1>3, <2>2 DEF SettledOf, EvidenceOf
    <3>. QED
      BY <2>1, <2>2, <3>1
  <2>3. CASE ~HasTxn(r)
    <3>1. evidence[r].phase \in {"none", "unbound"}
      <4>1. NoEvidence.phase = "none" /\ \A u : Unbound(u).phase = "unbound"
        BY DEF NoEvidence, Unbound
      <4>. QED
        BY <1>3, <2>3, <4>1 DEF SettledOf
    <3>. QED
      BY <2>1, <3>1
  <2>. QED
    BY <2>2, <2>3
<1>9. EvidenceIsSource(r, t)
  <2>1. CASE op = "activation"
    <3>1. evidence[r] = Unbound(a)
      BY <1>1, <1>2, <2>1 DEF SourceAllows
    <3>2. evidence[r].phase = "unbound" /\ evidence[r].account = a
      BY <3>1 DEF Unbound, NoEvidence
    <3>. QED
      BY <1>2, <2>1, <3>2 DEF EvidenceIsSource
  <2>2. CASE op # "activation"
    <3>1. policy[r].account # NoAccount
      BY <1>2, <1>3, <2>2 DEF SourceAllows
    <3>2. evidence[r] = EvidenceOf(Txn(r)) /\ policy[r] = PolicyTarget(Txn(r))
      BY <1>3, <1>5, <3>1 DEF SettledOf
    <3>3. evidence[r].phase = "bound" /\ evidence[r].account = policy[r].account
          /\ evidence[r].epoch = policy[r].epoch
      BY <3>2 DEF EvidenceOf, PolicyTarget
    <3>. QED
      BY <1>2, <2>2, <3>1, <3>3 DEF EvidenceIsSource
  <2>. QED
    BY <2>1, <2>2
<1>10. \A p \in Range(current.log) : p.runtime = r => p.epoch[3] < t.policy
  BY <1>2, <1>3 DEF SettledOf
<1>11. RequestOf(r, t) \notin Range(current.log)
  <2>1. PICK q : q = RequestOf(r, t)
    OBVIOUS
  <2>2. q.runtime = r /\ q.epoch = t.epoch /\ q.kind = Kind(t)
    BY <2>1 DEF RequestOf
  <2>3. CASE op = "migration"
    <3>1. q.kind = "acknowledgement" /\ q.epoch = policy[r].epoch
      BY <1>2, <2>2, <2>3 DEF Kind
    <3>2. generic[r].identity = "stress90"
      BY <1>2, <2>3 DEF SourceAllows
    <3>. QED
      BY <1>3, <2>1, <2>2, <3>1, <3>2 DEF SettledOf
  <2>4. CASE op # "migration"
    <3>1. q.epoch[3] = policy[r].revision
      BY <1>2, <2>2, <2>4
    <3>. QED
      BY <1>2, <1>3, <1>10, <2>1, <2>2, <3>1 DEF TypedOf
  <2>. QED
    BY <2>3, <2>4
<1>12. RankOf(t)
  <2>1. CASE op = "migration"
    BY <1>1, <1>2, <1>3, <2>1 DEF RankOf, TypedOf
  <2>2. CASE op # "migration"
    BY <1>2, <2>2 DEF RankOf
  <2>. QED
    BY <2>1, <2>2
<1>. QED
  BY <1>2, <1>6, <1>7, <1>8, <1>9, <1>10, <1>11, <1>12

\* A transaction is prepared from files at their sources.
LEMMA PrepareFiles ==
    ASSUME RInv, FInv, NEW r \in Runtimes, SaveTransaction(r), proc[r].at = "prepare"
    PROVE  FInv'
<1>1. PICK t : t = proc[r].txn
  OBVIOUS
<1> DEFINE c == [sequence |-> IF coord[r].current = NoFile THEN 1
                              ELSE coord[r].current.sequence + 1,
                 status |-> "prepared", txn |-> t]
<1>2. /\ UNCHANGED <<registry, policy, generic, evidence, permit, failures, tornFiles>>
      /\ Go(r, "prepare previous")
      /\ coord' = [coord EXCEPT ![r].current = c]
  BY <1>1 DEF SaveTransaction, At
<1>3. /\ DOMAIN proc' = DOMAIN proc
      /\ proc'[r].at = "prepare previous" /\ proc'[r].txn = t
      /\ \A s \in Runtimes \ {r} : proc'[s] = proc[s]
  BY <1>1, <1>2, GoIs
<1>4. c.status = "prepared" /\ c.txn = t
  OBVIOUS
<1>5. /\ TypedOf(r) /\ NewOf(r) /\ SourceAllows(r, t)
      /\ HasTxn(r) => Txn(r).nonce # t.nonce
  BY <1>1 DEF FInv, FilesOf, StageOf
<1>6. /\ t \in Transactions
      /\ generic[r].revision = t.generic /\ generic[r] # GenericTarget(t)
      /\ policy[r].revision = t.policy /\ policy[r] # PolicyTarget(t)
      /\ evidence[r] # EvidenceOf(t) /\ EvidenceIsSource(r, t)
      /\ RequestOf(r, t) \notin Range(current.log)
      /\ RankOf(t)
      /\ \A p \in Range(current.log) : p.runtime = r => p.epoch[3] < t.policy
  BY <1>1, <1>5, NewIsPrepared
<1>7. c \in CoordRecords
  <2>1. coord[r].current # NoFile => coord[r].current.sequence \in Nat
    BY <1>5 DEF TypedOf, CoordRecords
  <2>. QED
    BY <1>6, <2>1 DEF CoordRecords
<1> HIDE DEF c
<1>8. /\ DOMAIN coord' = DOMAIN coord /\ coord'[r].current = c
      /\ \A s \in Runtimes \ {r} : coord'[s] = coord[s]
  BY <1>2 DEF RInv, Shape, Sound, ShapeOf
<1>9. HasTxn(r)' /\ Txn(r)' = t /\ Prepared(r)'
  BY <1>4, <1>7, <1>8, FilesAssumption DEF HasTxn, Txn, Prepared
<1>10. UNCHANGED current
  BY <1>2 DEF registry
<1>11. FilesOf(r)'
  <2>1. TypedOf(r)'
    BY <1>2, <1>5, <1>7, <1>8 DEF TypedOf
  <2>2. EvidenceIsSource(r, t)'
    BY <1>2, <1>6 DEF EvidenceIsSource
  <2>3. ~Consumed(r)'
    BY <1>6, <1>9, <1>10 DEF Consumed
  <2>4. PreparedFor(r, t)'
    BY <1>2, <1>6, <1>10, <2>2, <2>3 DEF PreparedFor
  <2>5. PreparedOf(r)'
    BY <1>9, <2>4 DEF PreparedOf, PreparedFor, EvidenceIsSource
  <2>. QED
    BY <1>9, <2>1, <2>5 DEF FilesOf, SettledOf
<1>12. StageOf(r)'
  BY <1>3, <1>9 DEF StageOf
<1>13. StepOf(r) /\ failures' \in Nat
  BY <1>2, <1>3, <1>8, <1>10 DEF StepOf, Same, FInv
<1>. QED
  BY <1>2, <1>11, <1>12, <1>13, OwnStep

\* A transaction is committed when every file is at its target.
LEMMA CommitFiles ==
    ASSUME RInv, FInv, NEW r \in Runtimes, SaveTransaction(r), proc[r].at = "commit"
    PROVE  FInv'
<1>1. PICK t : t = Txn(r)
  OBVIOUS
<1>2. /\ UNCHANGED <<registry, policy, generic, evidence, permit, failures, tornFiles>>
      /\ proc' = [proc EXCEPT ![r].at = "commit previous", ![r].seen = coord[r].current]
      /\ coord' = [coord EXCEPT ![r].current.sequence = @ + 1, ![r].current.status = "committed"]
  BY DEF SaveTransaction, At
<1>3. /\ TypedOf(r) /\ Prepared(r) /\ PreparedFor(r, t) /\ Effective(r)
      /\ HasTxn(r) /\ policy[r] = PolicyTarget(t) /\ evidence[r] = EvidenceOf(t)
      /\ generic[r] = GenericTarget(t)
  BY <1>1 DEF FInv, FilesOf, StageOf, PreparedOf
<1>4. coord[r].current \in CoordRecords /\ t \in Transactions
  BY <1>1, <1>3 DEF TypedOf, HasTxn, Txn, CoordRecords
<1>5. /\ DOMAIN proc' = DOMAIN proc /\ proc'[r].at = "commit previous"
      /\ \A s \in Runtimes \ {r} : proc'[s] = proc[s]
  <2>1. DOMAIN proc = Runtimes /\ DOMAIN proc[r] = {"role", "account", "at", "txn", "seen"}
    BY DEF RInv, Shape, Sound, ShapeOf
  <2>. QED
    BY <1>2, <2>1
<1>6. /\ DOMAIN coord' = DOMAIN coord
      /\ coord'[r].current =
           [coord[r].current EXCEPT !.sequence = @ + 1, !.status = "committed"]
      /\ \A s \in Runtimes \ {r} : coord'[s] = coord[s]
  <2>1. DOMAIN coord = Runtimes
    BY DEF RInv, Shape
  <2>2. DOMAIN coord[r] = {"marker", "current", "previous"}
    BY DEF RInv, Sound, ShapeOf
  <2>3. {"sequence", "status"} \subseteq DOMAIN coord[r].current
    BY <1>4 DEF CoordRecords
  <2>. QED
    BY <1>2, <2>1, <2>2, <2>3
<1>7. coord'[r].current \in CoordRecords /\ coord'[r].current.txn = t
      /\ coord'[r].current.status = "committed"
  <2>1. PICK d : d = coord[r].current
    OBVIOUS
  <2>2. d \in CoordRecords /\ d.txn = t
    BY <1>1, <1>4, <2>1 DEF Txn
  <2>3. PICK e : e = [d EXCEPT !.sequence = @ + 1, !.status = "committed"]
    OBVIOUS
  <2>4. e.sequence = d.sequence + 1 /\ e.status = "committed" /\ e.txn = d.txn
        /\ e = [sequence |-> e.sequence, status |-> e.status, txn |-> e.txn]
    BY <2>2, <2>3 DEF CoordRecords
  <2>5. d.sequence \in Nat
    BY <2>2 DEF CoordRecords
  <2>6. e \in CoordRecords
    BY <1>4, <2>2, <2>4, <2>5 DEF CoordRecords
  <2>. QED
    BY <1>6, <2>1, <2>2, <2>3, <2>4, <2>6
<1>8. HasTxn(r)' /\ Txn(r)' = t /\ ~Prepared(r)'
  BY <1>7, FilesAssumption DEF HasTxn, Txn, Prepared
<1>9. UNCHANGED current
  BY <1>2 DEF registry
<1>10. SettledOf(r)'
  <2>1. Effective(r)'
    BY <1>1, <1>3, <1>8, <1>9 DEF Effective, Binding
  <2>2. generic[r].account = policy[r].account
    BY <1>3 DEF GenericTarget, PolicyTarget
  <2>3. /\ policy[r].revision = t.policy + 1 /\ policy[r].epoch = t.epoch
        /\ generic[r].identity = "stress90" => t.op # "migration"
    BY <1>3 DEF PolicyTarget, GenericTarget
  <2>4. t.epoch[3] \in Nat /\ t.policy \in Nat
    BY <1>4 DEF Transactions, Epochs
  <2>5. t.epoch[3] <= t.policy /\ (t.op # "migration" => t.epoch[3] = t.policy)
    BY <1>3, <2>4 DEF PreparedFor, RankOf
  <2>6. PICK q : q = RequestOf(r, t)
    OBVIOUS
  <2>7. q.epoch = t.epoch /\ (t.op # "migration" => q.kind # "acknowledgement")
    BY <2>6 DEF RequestOf, Kind
  <2>8. ASSUME NEW p \in Range(current.log), p.runtime = r
        PROVE  /\ p.epoch[3] < policy[r].revision
               /\ generic[r].identity = "stress90" /\ p.kind = "acknowledgement"
                    => p.epoch # policy[r].epoch
    <3>1. p \in Requests
      BY DEF FInv, BindingsFit, RegistryRecords, Range
    <3>2. p.epoch[3] \in Nat
      BY <3>1 DEF Requests, Epochs
    <3>3. p = q \/ p.epoch[3] < t.policy
      BY <1>3, <2>6, <2>8 DEF PreparedFor
    <3>. QED
      BY <2>3, <2>4, <2>5, <2>7, <3>2, <3>3
  <2>. QED
    BY <1>2, <1>3, <1>8, <1>9, <2>1, <2>2, <2>8 DEF SettledOf
<1>11. FilesOf(r)'
  BY <1>2, <1>3, <1>7, <1>8, <1>10 DEF FilesOf, TypedOf, PreparedOf
<1>12. StageOf(r)'
  BY <1>5, <1>8 DEF StageOf
<1>13. StepOf(r) /\ failures' \in Nat /\ proc[r].at # "calling"
  BY <1>2, <1>5, <1>6, <1>9 DEF StepOf, Same, FInv
<1>14. DOMAIN evidence' = DOMAIN evidence
  BY <1>2
<1>. QED
  BY <1>2, <1>11, <1>12, <1>13, <1>14, OwnStep

\* The transaction a command carries out is in place, and its coordinator record is whole.
LEMMA CarriedOut ==
    ASSUME RInv, FInv, NEW r \in Runtimes,
           proc[r].at \in {"prepare previous", "registry", "calling", "evidence", "policy",
                           "generic", "commit"}
    PROVE  /\ HasTxn(r) /\ proc[r].txn = Txn(r) /\ Txn(r) \in Transactions
           /\ Prepared(r) => PreparedFor(r, Txn(r))
           /\ ~Prepared(r) => /\ policy[r] = PolicyTarget(Txn(r)) /\ Effective(r)
                              /\ evidence[r] = EvidenceOf(Txn(r))
<1>1. HasTxn(r) /\ proc[r].txn = Txn(r) /\ FilesOf(r)
  BY DEF FInv, StageOf
<1>2. Txn(r) \in Transactions
  BY <1>1 DEF FilesOf, TypedOf, HasTxn, Txn, CoordRecords
<1>. QED
  BY <1>1, <1>2 DEF FilesOf, PreparedOf, SettledOf

\* The evidence is bound to a transaction that binds its account.
LEMMA BindEvidenceFiles ==
    ASSUME RInv, FInv, NEW r \in Runtimes, BindEvidence(r)
    PROVE  FInv'
<1>1. PICK t : t = proc[r].txn
  OBVIOUS
<1>2. /\ UNCHANGED <<registry, coord, policy, generic, permit, failures, tornFiles>>
      /\ proc[r].at = "evidence"
      /\ \/ evidence' = [evidence EXCEPT ![r] = EvidenceOf(t)] /\ Go(r, "policy")
         \/ UNCHANGED evidence /\ End(r)
  BY <1>1 DEF BindEvidence, At
<1>3. /\ DOMAIN proc' = DOMAIN proc /\ DOMAIN evidence' = DOMAIN evidence
      /\ \/ /\ evidence'[r] = EvidenceOf(t)
            /\ proc'[r].at = "policy" /\ proc'[r].txn = t
         \/ evidence' = evidence /\ proc'[r].at = "none"
      /\ \A s \in Runtimes \ {r} : proc'[s] = proc[s] /\ evidence'[s] = evidence[s]
  <2>1. CASE UNCHANGED evidence /\ End(r)
    BY <2>1, EndIs
  <2>2. CASE evidence' = [evidence EXCEPT ![r] = EvidenceOf(t)] /\ Go(r, "policy")
    BY <1>1, <2>2, GoIs DEF FInv
  <2>. QED
    BY <1>2, <2>1, <2>2
<1>4. /\ HasTxn(r) /\ t = Txn(r) /\ Effective(r) /\ FilesOf(r)
      /\ ~Prepared(r) => evidence[r] = EvidenceOf(t)
  BY <1>1, <1>2, CarriedOut DEF FInv, StageOf
<1>5. UNCHANGED current
  BY <1>2 DEF registry
<1>6. /\ Bound' = Bound /\ \A a : Binding(a)' = Binding(a)
      /\ HasTxn(r)' <=> HasTxn(r)
      /\ Txn(r)' = Txn(r)
      /\ Prepared(r)' <=> Prepared(r)
      /\ Effective(r)' <=> Effective(r)
      /\ Consumed(r)' <=> Consumed(r)
  BY <1>2, <1>5, ReadingKept
<1>7. FilesOf(r)'
  <2>1. CASE evidence'[r] = evidence[r]
    BY <1>2, <1>4, <1>5, <2>1, FilesKept DEF Untouched
  <2>2. CASE evidence'[r] # evidence[r]
    <3>1. Prepared(r) /\ evidence'[r] = EvidenceOf(t)
      BY <1>3, <1>4, <2>2
    <3>2. TypedOf(r)'
      BY <1>2, <1>4 DEF FilesOf, TypedOf
    <3>3. PreparedFor(r, t)
      BY <1>4, <3>1 DEF FilesOf, PreparedOf
    <3>4. PreparedFor(r, t)'
      BY <1>2, <1>4, <1>5, <1>6, <3>1, <3>3 DEF PreparedFor, EvidenceIsSource
    <3>5. PreparedOf(r)'
      BY <1>4, <1>6, <3>4 DEF PreparedOf, PreparedFor, EvidenceIsSource
    <3>. QED
      BY <1>6, <3>1, <3>2, <3>5 DEF FilesOf, SettledOf
  <2>. QED
    BY <2>1, <2>2
<1>8. StageOf(r)'
  BY <1>3, <1>4, <1>6 DEF StageOf
<1>9. StepOf(r) /\ failures' \in Nat /\ proc[r].at # "calling"
  BY <1>2, <1>3, <1>5 DEF StepOf, Same, FInv
<1>. QED
  BY <1>2, <1>3, <1>7, <1>8, <1>9, OwnStep

\* The policy state is written once the evidence is bound.
LEMMA SavePolicyFiles ==
    ASSUME RInv, FInv, NEW r \in Runtimes, SavePolicy(r)
    PROVE  FInv'
<1>1. PICK t : t = proc[r].txn
  OBVIOUS
<1>2. /\ UNCHANGED <<registry, coord, generic, evidence, permit, failures, tornFiles>>
      /\ proc[r].at = "policy"
      /\ \/ /\ Prepared(r) /\ policy[r].revision = t.policy /\ Go(r, "generic")
            /\ policy' = [policy EXCEPT ![r] = PolicyTarget(t)]
         \/ /\ Prepared(r) /\ policy[r] = PolicyTarget(t) /\ Go(r, "generic")
            /\ policy' = policy
         \/ policy' = policy /\ End(r)
  BY <1>1 DEF SavePolicy, At
<1>3. /\ DOMAIN proc' = DOMAIN proc /\ DOMAIN policy' = DOMAIN policy
      /\ \/ /\ Prepared(r) /\ policy'[r] = PolicyTarget(t)
            /\ proc'[r].at = "generic" /\ proc'[r].txn = t
         \/ policy' = policy /\ proc'[r].at = "none"
      /\ \A s \in Runtimes \ {r} : proc'[s] = proc[s] /\ policy'[s] = policy[s]
  <2>1. CASE End(r) /\ policy' = policy
    BY <2>1, EndIs
  <2>2. CASE ~(End(r) /\ policy' = policy)
    <3>1. Prepared(r) /\ Go(r, "generic")
          /\ \/ policy' = [policy EXCEPT ![r] = PolicyTarget(t)]
             \/ policy' = policy /\ policy[r] = PolicyTarget(t)
      BY <1>2, <2>2
    <3>. QED
      BY <1>1, <3>1, GoIs DEF RInv, Shape
  <2>. QED
    BY <2>1, <2>2
<1>4. /\ HasTxn(r) /\ t = Txn(r) /\ t \in Transactions /\ Effective(r) /\ FilesOf(r)
      /\ evidence[r] = EvidenceOf(t)
  BY <1>1, <1>2, CarriedOut DEF FInv, StageOf
<1>5. UNCHANGED current
  BY <1>2 DEF registry
<1>6. /\ HasTxn(r)' <=> HasTxn(r)
      /\ Txn(r)' = Txn(r)
      /\ Prepared(r)' <=> Prepared(r)
      /\ Effective(r)' <=> Effective(r)
      /\ Consumed(r)' <=> Consumed(r)
  BY <1>2, <1>5, ReadingKept
<1>7. FilesOf(r)'
  <2>1. CASE policy'[r] = policy[r]
    BY <1>2, <1>4, <1>5, <2>1, FilesKept DEF Untouched
  <2>2. CASE policy'[r] # policy[r]
    <3>1. Prepared(r) /\ policy'[r] = PolicyTarget(t)
      BY <1>3, <2>2
    <3>2. PreparedFor(r, t)
      BY <1>4, <3>1 DEF FilesOf, PreparedOf
    <3>3. TypedOf(r)'
      <4>1. policy'[r].revision = t.policy + 1 /\ policy'[r].account = t.account
            /\ policy'[r].epoch = t.epoch
        BY <3>1 DEF PolicyTarget
      <4>2. t.epoch \in Epochs /\ t.epoch[3] \in Nat /\ t.policy \in Nat
            /\ t.account \in Accounts /\ t.account # NoAccount
        BY <1>4, LifecycleAssumption DEF Transactions, Epochs
      <4>3. t.epoch[3] < t.policy + 1
        BY <3>2, <4>2 DEF PreparedFor, RankOf
      <4>. QED
        BY <1>2, <1>4, <4>1, <4>2, <4>3 DEF FilesOf, TypedOf
    <3>4. PreparedFor(r, t)'
      BY <1>2, <1>4, <1>5, <1>6, <3>1, <3>2 DEF PreparedFor, EvidenceIsSource
    <3>5. PreparedOf(r)'
      BY <1>4, <1>6, <3>4 DEF PreparedOf, PreparedFor, EvidenceIsSource
    <3>. QED
      BY <1>6, <3>1, <3>3, <3>5 DEF FilesOf, SettledOf
  <2>. QED
    BY <2>1, <2>2
<1>8. StageOf(r)'
  BY <1>2, <1>3, <1>4, <1>6 DEF StageOf
<1>9. StepOf(r) /\ failures' \in Nat /\ proc[r].at # "calling" /\ DOMAIN evidence' = DOMAIN evidence
  BY <1>2, <1>3, <1>5 DEF StepOf, Same, FInv
<1>. QED
  BY <1>2, <1>7, <1>8, <1>9, OwnStep

\* The generic state is written last.
LEMMA SaveGenericFiles ==
    ASSUME RInv, FInv, NEW r \in Runtimes, SaveGeneric(r)
    PROVE  FInv'
<1>1. PICK t : t = proc[r].txn
  OBVIOUS
<1>2. /\ UNCHANGED <<registry, coord, policy, evidence, permit, failures, tornFiles>>
      /\ proc[r].at = "generic"
      /\ \/ generic' = [generic EXCEPT ![r] = GenericTarget(t)] /\ Go(r, "commit")
         \/ generic' = generic /\ generic[r] = GenericTarget(t) /\ Go(r, "commit")
         \/ generic' = generic /\ End(r)
  BY <1>1 DEF SaveGeneric, At
<1>3. /\ DOMAIN proc' = DOMAIN proc /\ DOMAIN generic' = DOMAIN generic
      /\ \/ /\ generic'[r] = GenericTarget(t)
            /\ proc'[r].at = "commit" /\ proc'[r].txn = t
         \/ generic' = generic /\ proc'[r].at = "none"
      /\ \A s \in Runtimes \ {r} : proc'[s] = proc[s] /\ generic'[s] = generic[s]
  <2>1. CASE End(r) /\ generic' = generic
    BY <2>1, EndIs
  <2>2. CASE ~(End(r) /\ generic' = generic)
    <3>1. Go(r, "commit")
          /\ \/ generic' = [generic EXCEPT ![r] = GenericTarget(t)]
             \/ generic' = generic /\ generic[r] = GenericTarget(t)
      BY <1>2, <2>2
    <3>. QED
      BY <1>1, <3>1, GoIs DEF RInv, Shape
  <2>. QED
    BY <2>1, <2>2
<1>4. /\ HasTxn(r) /\ t = Txn(r) /\ Effective(r) /\ FilesOf(r)
      /\ evidence[r] = EvidenceOf(t) /\ Prepared(r) /\ policy[r] = PolicyTarget(t)
  BY <1>1, <1>2, CarriedOut DEF FInv, StageOf
<1>5. UNCHANGED current
  BY <1>2 DEF registry
<1>6. /\ HasTxn(r)' <=> HasTxn(r)
      /\ Txn(r)' = Txn(r)
      /\ Prepared(r)' <=> Prepared(r)
      /\ Effective(r)' <=> Effective(r)
      /\ Consumed(r)' <=> Consumed(r)
  BY <1>2, <1>5, ReadingKept
<1>7. FilesOf(r)'
  <2>1. CASE generic'[r] = generic[r]
    BY <1>2, <1>4, <1>5, <2>1, FilesKept DEF Untouched
  <2>2. CASE generic'[r] # generic[r]
    <3>1. generic'[r] = GenericTarget(t) /\ PreparedFor(r, t)
      BY <1>3, <1>4, <2>2 DEF FilesOf, PreparedOf
    <3>2. TypedOf(r)'
      BY <1>2, <1>4 DEF FilesOf, TypedOf
    <3>3. PreparedFor(r, t)'
      BY <1>2, <1>4, <1>5, <1>6, <3>1 DEF PreparedFor, EvidenceIsSource
    <3>4. PreparedOf(r)'
      BY <1>4, <1>6, <3>3 DEF PreparedOf, PreparedFor, EvidenceIsSource
    <3>. QED
      BY <1>4, <1>6, <3>2, <3>4 DEF FilesOf, SettledOf
  <2>. QED
    BY <2>1, <2>2
<1>8. StageOf(r)'
  BY <1>2, <1>3, <1>4, <1>6 DEF StageOf
<1>9. StepOf(r) /\ failures' \in Nat /\ proc[r].at # "calling" /\ DOMAIN evidence' = DOMAIN evidence
  BY <1>2, <1>3, <1>5 DEF StepOf, Same, FInv
<1>. QED
  BY <1>2, <1>7, <1>8, <1>9, OwnStep

-----------------------------------------------------------------------------
(* The files under the doctor and a live process.                            *)

\* A live process works on settled files.
LEMMA LiveSettled ==
    ASSUME FInv, NEW r \in Runtimes, proc[r].at \in {"permit", "run", "trading"}
    PROVE  ~Prepared(r)
BY DEF FInv, StageOf

\* Where a live process may be, all that the invariant asks of it is that the files are
\* settled.
LEMMA LiveStage ==
    ASSUME NEW r, ~Prepared(r)', proc'[r].at \in {"none", "permit", "run", "trading"}
    PROVE  StageOf(r)'
BY DEF StageOf

\* Starting or stopping to run changes neither the account nor the identity of a state.
LEMMA ModeFiles ==
    ASSUME RInv, FInv, NEW r \in Runtimes, StepOf(r),
           UNCHANGED <<registry, coord, policy, evidence, failures, tornFiles>>,
           ~Prepared(r), proc[r].at # "calling",
           generic'[r].account = generic[r].account, generic'[r].identity = generic[r].identity,
           proc'[r].at \in {"none", "permit", "run", "trading"}
    PROVE  FInv'
<1>1. UNCHANGED current /\ FilesOf(r)
  BY DEF registry, FInv
<1>2. /\ Bound' = Bound /\ \A a : Binding(a)' = Binding(a)
      /\ HasTxn(r)' <=> HasTxn(r)
      /\ Txn(r)' = Txn(r)
      /\ Prepared(r)' <=> Prepared(r)
      /\ Effective(r)' <=> Effective(r)
  BY <1>1, ReadingKept
<1>3. TypedOf(r)'
  BY <1>1 DEF FilesOf, TypedOf
<1>4. SettledOf(r)'
  BY <1>1, <1>2 DEF FilesOf, SettledOf
<1>5. FilesOf(r)'
  BY <1>2, <1>3, <1>4 DEF FilesOf, PreparedOf
<1>6. StageOf(r)'
  BY <1>2, LiveStage
<1>7. DOMAIN evidence' = DOMAIN evidence /\ failures' \in Nat
  BY DEF FInv
<1>. QED
  BY <1>5, <1>6, <1>7, OwnStep

\* The steps of the doctor and of a live process leave settled files settled.
LEMMA LiveFiles ==
    ASSUME RInv, FInv, NEW r \in Runtimes, Live(r)
    PROVE  FInv'
<1>1. ASSUME NEW account \in Accounts, IssuePermit(r, account) PROVE FInv'
  <2>1. /\ UNCHANGED <<registry, coord, policy, generic, evidence, proc, failures, tornFiles>>
        /\ permit' = [permit EXCEPT ![r] = [status |-> "issued", for |-> ActivationEvidence(r)]]
        /\ proc[r].at = "none"
    BY <1>1 DEF IssuePermit, Startable, LeaseFree, NoProc
  <2>2. StepOf(r) /\ Untouched(r) /\ UNCHANGED current
    BY <2>1 DEF StepOf, Same, Untouched, registry
  <2>3. StageOf(r)' /\ failures' \in Nat
    BY <2>1, <2>2, StageKept DEF FInv
  <2>. QED
    BY <2>1, <2>2, <2>3, ReadingStep
<1>2. ASSUME NEW account \in Accounts, StartLive(r, account) PROVE FInv'
  <2>1. /\ UNCHANGED <<registry, coord, policy, generic, evidence, permit, failures, tornFiles>>
        /\ ~Prepared(r) /\ proc[r].at = "none"
        /\ proc' = [proc EXCEPT ![r] =
                    IF generic[r].mode = "RUNNING"
                    THEN Process("live", account, "trading")
                    ELSE [Process("live", account, "permit") EXCEPT
                            !.seen = ActivationEvidence(r)]]
    BY <1>2 DEF StartLive, runtimeFiles, Startable, LeaseFree, NoProc
  <2>2. /\ DOMAIN proc' = DOMAIN proc /\ proc'[r].at \in {"trading", "permit"}
        /\ \A s \in Runtimes \ {r} : proc'[s] = proc[s]
    BY <2>1 DEF RInv, Shape, Process
  <2>3. StepOf(r)
    BY <2>1, <2>2 DEF StepOf, Same, registry
  <2>. QED
    BY <2>1, <2>2, <2>3, ModeFiles
<1>3. CASE ConsumePermit(r)
  <2>1. /\ UNCHANGED <<registry, coord, policy, generic, evidence, failures, tornFiles>>
        /\ proc[r].at = "permit" /\ (Go(r, "run") \/ End(r))
        /\ permit' = permit \/ permit' = [permit EXCEPT ![r].status = "consumed"]
    BY <1>3 DEF ConsumePermit, At
  <2>2. /\ DOMAIN proc' = DOMAIN proc /\ proc'[r].at \in {"run", "none"}
        /\ \A s \in Runtimes \ {r} : proc'[s] = proc[s]
    BY <2>1, GoIs, EndIs
  <2>3. DOMAIN permit' = DOMAIN permit /\ \A s \in Runtimes \ {r} : permit'[s] = permit[s]
    BY <2>1 DEF RInv, Shape
  <2>4. StepOf(r)
    BY <2>1, <2>2, <2>3 DEF StepOf, Same, registry
  <2>. QED
    BY <2>1, <2>2, <2>4, LiveSettled, ModeFiles
<1>4. CASE SaveRunning(r)
  <2>1. /\ UNCHANGED <<registry, coord, policy, evidence, permit, failures, tornFiles>>
        /\ proc[r].at = "run" /\ Go(r, "trading")
        /\ generic' = [generic EXCEPT ![r].mode = "RUNNING", ![r].revision = @ + 1]
    BY <1>4 DEF SaveRunning, At
  <2>2. /\ DOMAIN proc' = DOMAIN proc /\ proc'[r].at = "trading"
        /\ \A s \in Runtimes \ {r} : proc'[s] = proc[s]
    BY <2>1, GoIs
  <2>3. /\ DOMAIN generic' = DOMAIN generic
        /\ generic'[r].account = generic[r].account /\ generic'[r].identity = generic[r].identity
        /\ \A s \in Runtimes \ {r} : generic'[s] = generic[s]
    BY <2>1 DEF RInv, Shape, Sound, ShapeOf
  <2>4. StepOf(r) /\ ~Prepared(r)
    BY <2>1, <2>2, <2>3, LiveSettled DEF StepOf, Same, registry
  <2>. QED
    BY <2>1, <2>2, <2>3, <2>4, ModeFiles
<1>5. CASE EmergencyStop(r)
  <2>1. /\ UNCHANGED <<registry, coord, policy, evidence, permit, proc, failures, tornFiles>>
        /\ proc[r].at = "trading"
        /\ generic' = [generic EXCEPT ![r].mode = "HALTED", ![r].revision = @ + 1]
    BY <1>5 DEF EmergencyStop, At
  <2>2. /\ DOMAIN generic' = DOMAIN generic
        /\ generic'[r].account = generic[r].account /\ generic'[r].identity = generic[r].identity
        /\ \A s \in Runtimes \ {r} : generic'[s] = generic[s]
    BY <2>1 DEF RInv, Shape, Sound, ShapeOf
  <2>3. StepOf(r) /\ ~Prepared(r)
    BY <2>1, <2>2, LiveSettled DEF StepOf, Same, registry
  <2>. QED
    BY <2>1, <2>2, <2>3, ModeFiles
<1>6. CASE Exit(r)
  <2>1. /\ UNCHANGED <<registry, coord, policy, generic, evidence, permit, failures, tornFiles>>
        /\ proc[r].at = "trading" /\ End(r)
    BY <1>6 DEF Exit, At, runtimeFiles
  <2>2. /\ DOMAIN proc' = DOMAIN proc /\ proc'[r].at = "none"
        /\ \A s \in Runtimes \ {r} : proc'[s] = proc[s]
    BY <2>1, EndIs
  <2>3. StepOf(r) /\ ~Prepared(r)
    BY <2>1, <2>2, LiveSettled DEF StepOf, Same, registry
  <2>. QED
    BY <2>1, <2>2, <2>3, ModeFiles
<1>. QED
  BY <1>1, <1>2, <1>3, <1>4, <1>5, <1>6 DEF Live

-----------------------------------------------------------------------------
(* The files under a call of the registry.                                   *)

\* What a command asks of the registry is a request.
LEMMA AskedRequest ==
    ASSUME NEW r \in Runtimes, NEW t \in Transactions
    PROVE  RequestOf(r, t) \in Requests
BY DEF RequestOf, Requests, Kind, Transactions

\* The request of a call is its command's, for the transaction in place.
LEMMA CallRequest ==
    ASSUME RInv, FInv, call # NoCall
    PROVE  \E r \in Runtimes :
             /\ call.request.runtime = r /\ proc[r].at = "calling" /\ HasTxn(r)
             /\ call.request = RequestOf(r, Txn(r)) /\ call.request \in Requests
             /\ Txn(r) \in Transactions
             /\ Writing => Admissible(call.request)
<1>1. PICK r \in Runtimes : r = call.request.runtime
  BY DEF RInv, CallSound
<1>2. /\ proc[r].at = "calling" /\ call.request = RequestOf(r, proc[r].txn)
      /\ Writing => Admissible(call.request)
  BY <1>1 DEF RInv, CallSound
<1>3. HasTxn(r) /\ proc[r].txn = Txn(r) /\ Txn(r) \in Transactions
  BY <1>2, CarriedOut
<1>. QED
  BY <1>1, <1>2, <1>3, AskedRequest

\* An admissible request was never consumed.
LEMMA AdmissibleIsNew ==
    ASSUME NEW q, Admissible(q)
    PROVE  q \notin Range(current.log)
BY DEF Admissible, Unused

\* A log with one more request.
LEMMA LogAppended ==
    ASSUME NEW s \in Seq(Requests), NEW q \in Requests
    PROVE  /\ Append(s, q) \in Seq(Requests) /\ Append(s, q) # <<>>
           /\ Len(Append(s, q)) = Len(s) + 1 /\ Len(s) \in Nat
           /\ Front(Append(s, q)) = s /\ Last(Append(s, q)) = q
           /\ Range(Append(s, q)) = Range(s) \cup {q}
<1>1. /\ Append(s, q) \in Seq(Requests) /\ Append(s, q) # <<>>
      /\ Len(Append(s, q)) = Len(s) + 1 /\ Len(s) \in Nat
  OBVIOUS
<1>2. \A i \in 1 .. Len(s) : Append(s, q)[i] = s[i]
  OBVIOUS
<1>3. Append(s, q)[Len(s) + 1] = q
  OBVIOUS
<1>4. Last(Append(s, q)) = q
  BY <1>1, <1>3 DEF Last
<1>5. Front(Append(s, q)) = s
  <2>1. Len(Append(s, q)) - 1 = Len(s)
    BY <1>1
  <2>2. Front(Append(s, q)) = [i \in 1 .. Len(s) |-> Append(s, q)[i]]
    BY <2>1 DEF Front
  <2>3. s = [i \in 1 .. Len(s) |-> s[i]]
    OBVIOUS
  <2>. QED
    BY <1>2, <2>2, <2>3
<1>6. Range(Append(s, q)) = Range(s) \cup {q}
  <2>1. DOMAIN Append(s, q) = 1 .. Len(s) + 1 /\ DOMAIN s = 1 .. Len(s)
    BY <1>1
  <2>. QED
    BY <1>1, <1>2, <1>3, <2>1 DEF Range
<1>. QED
  BY <1>1, <1>4, <1>5, <1>6

\* Whatever step a call is at, a changing call may go on with the files it finds.
LEMMA ChainIsReconcilable ==
    ASSUME BindingsFit, Chain
    PROVE  Readable /\ Reconcilable
<1>1. Readable /\ NonceAnchorValid
  BY DEF Chain, Readable
<1>2. current.log \in Seq(Requests) /\ Len(current.log) \in Nat
  BY DEF BindingsFit, RegistryRecords
<1>3. CASE pending = NoFile
  BY <1>1, <1>3 DEF Reconcilable
<1>4. CASE pending = current.log /\ current.log # <<>>
  <2>1. pending # Torn /\ Len(current.log) > 0
    BY <1>2, <1>4, FilesAssumption
  <2>2. Len(transitions) >= Len(pending) /\ transitions[Len(pending)] = pending
    BY <1>1, <1>4, <2>1 DEF NonceAnchorValid
  <2>. QED
    BY <1>1, <1>4, <2>1, <2>2 DEF Reconcilable
<1>5. CASE Announced
  <2>1. PICK p \in Requests : pending = Append(current.log, p)
    BY <1>5 DEF Announced
  <2>2. /\ pending \in Seq(Requests) /\ Len(pending) = Len(current.log) + 1
        /\ Front(pending) = current.log
    BY <1>2, <2>1, LogAppended
  <2>3. pending # Torn
    BY <2>2, FilesAssumption
  <2>4. Len(transitions) \in {Len(current.log), Len(current.log) + 1}
    BY DEF Chain
  <2>5. CASE Len(transitions) = Len(current.log)
    BY <1>1, <1>2, <2>2, <2>3, <2>5 DEF Reconcilable
  <2>6. CASE Len(transitions) = Len(current.log) + 1
    <3>1. pending = transitions[Len(pending)]
      BY <1>1, <1>2, <2>2, <2>6 DEF NonceAnchorValid
    <3>. QED
      BY <1>1, <1>2, <2>2, <2>3, <2>6, <3>1 DEF Reconcilable
  <2>. QED
    BY <2>4, <2>5, <2>6
<1>. QED
  BY <1>3, <1>4, <1>5 DEF Chain

\* A step that keeps the record and what is read of the runtimes has to be looked at for
\* the chain of files, the call and the places of the processes.
LEMMA RegistryFilesStep ==
    ASSUME FInv, UNCHANGED <<current, evidence>>, \A s \in Runtimes : Untouched(s) /\ StageOf(s)',
           tornFiles' \in Nat, failures' \in Nat, tornFiles' = 0 => Chain', CallFits'
    PROVE  FInv'
<1>1. BindingsFit'
  BY DEF FInv, BindingsFit, Bound, Binding
<1>2. \A s \in Runtimes : FilesOf(s)'
  BY FilesKept DEF FInv
<1>. QED
  BY <1>1, <1>2 DEF FInv

\* A step of the runtime whose call starts or ends.
LEMMA CallerStep ==
    ASSUME RInv, FInv, NEW r \in Runtimes,
           UNCHANGED <<current, runtimeFiles>>,
           \A s \in Runtimes \ {r} : proc'[s] = proc[s], StageOf(r)',
           tornFiles' \in Nat, failures' \in Nat, tornFiles' = 0 => Chain', CallFits'
    PROVE  FInv'
<1>1. \A s \in Runtimes : Untouched(s)
  BY DEF runtimeFiles, Untouched
<1>2. ASSUME NEW s \in Runtimes \ {r} PROVE StageOf(s)'
  BY <1>1, <1>2, StageKept DEF FInv
<1>. QED
  BY <1>1, <1>2, RegistryFilesStep DEF runtimeFiles

\* The record's place in the chain depends on the files that prove it.
LEMMA AnchorKept ==
    ASSUME NonceAnchorValid, UNCHANGED <<current, transitions, receipts>>,
           pending' = pending \/ Len(transitions) <= Len(current.log), Len(transitions) \in Nat,
           Len(current.log) \in Nat
    PROVE  NonceAnchorValid'
BY DEF NonceAnchorValid, TransitionProven, Bound, Binding

\* A call that starts clears what the one before has left, and is refused only if its
\* request is not the one in place.
LEMMA CallRegistryFiles ==
    ASSUME RInv, FInv, NEW r \in Runtimes, CallRegistry(r)
    PROVE  FInv'
<1>1. PICK t : t = Txn(r)
  OBVIOUS
<1>2. PICK q : q = RequestOf(r, t)
  OBVIOUS
<1>3. proc[r].at = "registry"
  BY DEF CallRegistry, At
<1>4. HasTxn(r) /\ proc[r].txn = t /\ FilesOf(r) /\ StageOf(r)
  BY <1>1, <1>3, CarriedOut DEF FInv
<1>5. /\ UNCHANGED <<current, previous, transitions, receipts, runtimeFiles, failures, tornFiles>>
      /\ StartCall(q) /\ Go(r, "calling") /\ call = NoCall
  BY <1>2, <1>4 DEF CallRegistry, StartCall
<1>6. /\ proc'[r].at = "calling" /\ proc'[r].txn = t
      /\ \A s \in Runtimes \ {r} : proc'[s] = proc[s]
  BY <1>4, <1>5, GoIs
<1>7. /\ HasTxn(r)' <=> HasTxn(r)
      /\ Txn(r)' = Txn(r)
      /\ Prepared(r)' <=> Prepared(r)
      /\ Effective(r)' <=> Effective(r)
      /\ Consumed(r)' <=> Consumed(r)
  BY <1>5, ReadingKept DEF runtimeFiles
<1>8. StageOf(r)'
  BY <1>1, <1>4, <1>6, <1>7 DEF StageOf
<1>9. tornFiles = 0 => Readable /\ Reconcilable
  BY ChainIsReconcilable DEF FInv
<1>10. /\ call'.request = q /\ call'.at \in {"done", "receipt", "refused"}
       /\ call'.at = "done" => Repeated(q)
       /\ call'.at = "refused" /\ tornFiles = 0 => ~Repeated(q)
       /\ pending' = pending \/ (pending = current.log /\ pending' = NoFile)
  BY <1>5, <1>9 DEF StartCall
<1>11. Repeated(q) <=> Effective(r)
  BY <1>1, <1>2 DEF Repeated, Effective, RequestOf
<1>12. CallFits'
  <2>1. Prepared(r) /\ Consumed(r) => Effective(r)
    BY <1>1, <1>4 DEF FilesOf, PreparedOf, PreparedFor
  <2>2. /\ call'.at \in {"unlink", "done"} => Effective(r)'
        /\ call'.at = "refused" /\ tornFiles' = 0 /\ Prepared(r)' => ~Consumed(r)'
    BY <1>5, <1>7, <1>10, <1>11, <2>1
  <2>3. q.runtime = r
    BY <1>2 DEF RequestOf
  <2>. QED
    BY <1>10, <2>2, <2>3 DEF CallFits, Effective, Prepared, Consumed, HasTxn, Txn
<1>13. ASSUME tornFiles = 0 PROVE Chain'
  <2>1. Chain /\ BindingsFit
    BY <1>13 DEF FInv
  <2>2. current.log \in Seq(Requests) /\ Len(current.log) \in Nat
    BY <2>1 DEF BindingsFit, RegistryRecords
  <2>3. pending = current.log => ~Announced
    BY <2>2, LogAppended DEF Announced
  <2>4. NonceAnchorValid'
    <3>1. pending' # pending => Len(transitions) <= Len(current.log)
      BY <1>10, <2>1, <2>2, <2>3 DEF Chain
    <3>2. Len(transitions) \in Nat
      BY <2>1 DEF Chain
    <3>. QED
      BY <1>5, <2>1, <2>2, <3>1, <3>2, AnchorKept DEF Chain, Readable
  <2>5. Readable'
    BY <1>5, <2>1, <2>4 DEF Chain, Readable
  <2>6. pending' = pending => (Announced => Announced')
    BY <1>5 DEF Announced
  <2>. QED
    BY <1>5, <1>10, <2>1, <2>3, <2>5, <2>6 DEF Chain
<1>. QED
  BY <1>5, <1>6, <1>8, <1>12, <1>13, CallerStep DEF FInv

\* The chain of files asks less when there is no call.
LEMMA ChainWithoutCall ==
    ASSUME Chain, UNCHANGED <<current, previous, pending, transitions, receipts>>, call' = NoCall
    PROVE  Chain'
<1>1. Readable'
  BY DEF Chain, Readable, NonceAnchorValid, TransitionProven, Bound, Binding
<1>. QED
  BY <1>1 DEF Chain, Announced, NoCall

\* A command goes on after its call when its transaction is what binds the account.
LEMMA ReturnFromRegistryFiles ==
    ASSUME RInv, FInv, NEW r \in Runtimes, ReturnFromRegistry(r)
    PROVE  FInv'
<1>1. /\ UNCHANGED <<current, previous, pending, transitions, receipts, runtimeFiles,
                     failures, tornFiles>>
      /\ proc[r].at = "calling" /\ call # NoCall /\ call.request.runtime = r /\ call' = NoCall
      /\ (call.at = "done" /\ Go(r, "evidence")) \/ End(r)
  BY DEF ReturnFromRegistry, At
<1>2. /\ \/ proc'[r].at = "none"
         \/ proc'[r].at = "evidence" /\ proc'[r].txn = proc[r].txn /\ call.at = "done"
      /\ \A s \in Runtimes \ {r} : proc'[s] = proc[s]
  BY <1>1, GoIs, EndIs
<1>3. HasTxn(r) /\ proc[r].txn = Txn(r)
  BY <1>1, CarriedOut
<1>4. /\ HasTxn(r)' <=> HasTxn(r)
      /\ Txn(r)' = Txn(r)
      /\ Prepared(r)' <=> Prepared(r)
      /\ Effective(r)' <=> Effective(r)
  BY <1>1, ReadingKept DEF runtimeFiles
<1>5. call.at = "done" => Effective(r)
  BY <1>1 DEF FInv, CallFits
<1>6. StageOf(r)'
  BY <1>2, <1>3, <1>4, <1>5 DEF StageOf
<1>7. CallFits'
  BY <1>1 DEF CallFits
<1>8. tornFiles' = 0 => Chain'
  BY <1>1, ChainWithoutCall DEF FInv
<1>. QED
  BY <1>1, <1>2, <1>6, <1>7, <1>8, CallerStep DEF FInv

\* A process dies; a file torn with it is counted.
LEMMA CrashFiles ==
    ASSUME RInv, FInv, NEW r \in Runtimes, NEW torn \in BOOLEAN, Crash(r, torn)
    PROVE  FInv'
<1>1. /\ UNCHANGED <<current, runtimeFiles>> /\ End(r) /\ failures' = failures + 1
      /\ tornFiles' = tornFiles + (IF torn THEN 1 ELSE 0)
      /\ \/ /\ call' = NoCall
            /\ torn \/ UNCHANGED <<previous, pending, transitions, receipts>>
         \/ /\ ~torn /\ UNCHANGED registry
            /\ proc[r].at # "calling" \/ call = NoCall \/ call.request.runtime # r
  <2>1. CASE At(r, "calling") /\ call # NoCall /\ call.request.runtime = r
    <3>1. Abandon(torn)
      BY <2>1 DEF Crash
    <3>2. call' = NoCall /\ UNCHANGED current
          /\ (torn \/ UNCHANGED <<previous, pending, transitions, receipts>>)
      BY <3>1 DEF Abandon
    <3>. QED
      BY <3>2 DEF Crash
  <2>2. CASE ~(At(r, "calling") /\ call # NoCall /\ call.request.runtime = r)
    <3>1. ~torn /\ UNCHANGED registry /\ proc[r] # NoProc
      BY <2>2 DEF Crash
    <3>2. proc[r].at # "calling" \/ call = NoCall \/ call.request.runtime # r
      BY <2>2, <3>1 DEF At
    <3>. QED
      BY <3>1, <3>2 DEF Crash, registry
  <2>. QED
    BY <2>1, <2>2
<1>2. /\ DOMAIN proc' = DOMAIN proc /\ proc'[r].at = "none"
      /\ \A s \in Runtimes \ {r} : proc'[s] = proc[s]
  BY <1>1, EndIs
<1>3. failures' \in Nat /\ tornFiles' \in Nat /\ (tornFiles' = 0 => tornFiles = 0 /\ ~torn)
  BY <1>1 DEF FInv
<1>4. Prepared(r)' <=> Prepared(r)
  BY <1>1, ReadingKept DEF runtimeFiles
<1>5. StageOf(r)'
  BY <1>2 DEF StageOf
<1>6. CASE /\ call' = NoCall
           /\ torn \/ UNCHANGED <<previous, pending, transitions, receipts>>
  <2>1. CallFits'
    BY <1>6 DEF CallFits
  <2>2. tornFiles' = 0 => Chain'
    BY <1>1, <1>3, <1>6, ChainWithoutCall DEF FInv
  <2>. QED
    BY <1>1, <1>2, <1>3, <1>5, <2>1, <2>2, CallerStep
<1>7. CASE /\ ~torn /\ UNCHANGED registry
           /\ proc[r].at # "calling" \/ call = NoCall \/ call.request.runtime # r
  <2>1. tornFiles' = tornFiles
    BY <1>1, <1>7 DEF FInv
  <2>2. StepOf(r)
    BY <1>1, <1>2 DEF StepOf, Same, runtimeFiles
  <2>3. Untouched(r) /\ UNCHANGED evidence
    BY <1>1 DEF Untouched, runtimeFiles
  <2>. QED
    BY <1>3, <1>5, <1>7, <2>1, <2>2, <2>3, ReadingStep
<1>. QED
  BY <1>1, <1>6, <1>7

\* A step that keeps the record and the runtimes' files has to be looked at for the chain;
\* a call that is refused while it writes is for a request that was never consumed.
LEMMA WriteFiles ==
    ASSUME RInv, FInv, UNCHANGED <<current, runtimeFiles, proc, failures, tornFiles>>,
           call # NoCall, NEW step, call' = [call EXCEPT !.at = step],
           \/ Writing /\ step \in {"pending", "transition", "previous", "current", "refused"}
           \/ call.at = "unlink" /\ step = "done",
           tornFiles = 0 => Chain'
    PROVE  FInv'
<1>1. \A s \in Runtimes : Untouched(s) /\ proc'[s] = proc[s]
  BY DEF runtimeFiles, Untouched
<1>2. \A s \in Runtimes : StageOf(s)'
  BY <1>1, StageKept DEF FInv
<1>3. call'.request = call.request /\ call'.at = step
  BY DEF RInv, Shape
<1>4. PICK r \in Runtimes : /\ call.request.runtime = r /\ call.request = RequestOf(r, Txn(r))
                            /\ Writing => Admissible(call.request)
  BY CallRequest
<1>5. /\ Prepared(r)' <=> Prepared(r)
      /\ Effective(r)' <=> Effective(r)
      /\ Consumed(r)' <=> Consumed(r)
  BY <1>1, ReadingKept DEF Untouched
<1>6. Writing => ~Consumed(r)
  BY <1>4, AdmissibleIsNew DEF Consumed
<1>7. call.at = "unlink" => Effective(r)
  BY <1>4 DEF FInv, CallFits
<1>8. /\ call'.at \in {"unlink", "done"} => Effective(r)'
      /\ call'.at = "refused" => ~Consumed(r)'
  BY <1>3, <1>5, <1>6, <1>7
<1>9. CallFits'
  BY <1>3, <1>4, <1>8 DEF CallFits, Effective, Consumed, Txn
<1>. QED
  BY <1>1, <1>2, <1>9, RegistryFilesStep DEF FInv, runtimeFiles

\* The last request of a log.
LEMMA LastRequest ==
    ASSUME NEW s \in Seq(Requests), s # <<>>
    PROVE  Last(s) \in Requests /\ Last(s).nonce \in Nonces
<1>1. Len(s) \in 1 .. Len(s)
  OBVIOUS
<1>2. Last(s) \in Requests
  BY <1>1 DEF Last
<1>. QED
  BY <1>2 DEF Requests

\* A record that can be read can be read when there are more receipts.
LEMMA MoreReceipts ==
    ASSUME BindingsFit, Chain, UNCHANGED <<current, previous, pending, transitions>>,
           \A n \in Nonces : receipts[n] \in Requests => receipts'[n] = receipts[n]
    PROVE  Readable' /\ (Announced => Announced')
<1>1. NonceAnchorValid /\ current.log \in Seq(Requests) /\ Len(current.log) \in Nat
  BY DEF Chain, Readable, BindingsFit, RegistryRecords
<1>2. ASSUME NEW p \in Requests, receipts[p.nonce] = p PROVE receipts'[p.nonce] = p
  BY <1>2 DEF Requests
<1>3. Announced => Announced'
  BY <1>2 DEF Announced
<1>4. ASSUME NEW n, NEW s \in Seq(Requests), s # <<>>, transitions[n] = s, TransitionProven(n)
      PROVE  TransitionProven(n)'
  <2>1. receipts[Last(s).nonce] = Last(s)
    BY <1>4 DEF TransitionProven
  <2>2. PICK p \in Requests : p = Last(s)
    BY <1>4, LastRequest
  <2>3. receipts'[p.nonce] = p
    BY <1>2, <2>1, <2>2
  <2>. QED
    BY <1>4, <2>2, <2>3 DEF TransitionProven
<1>5. PICK count : count = Len(current.log)
  OBVIOUS
<1>6. count > 0 => TransitionProven(count)'
  BY <1>1, <1>4, <1>5 DEF NonceAnchorValid
<1>7. Len(transitions) > count => TransitionProven(count + 1)'
  <2> SUFFICES ASSUME Len(transitions) > count PROVE TransitionProven(count + 1)'
    OBVIOUS
  <2>1. Len(transitions) = count + 1
    BY <1>1, <1>5 DEF Chain
  <2>2. PICK p \in Requests : pending = Append(current.log, p)
    BY <1>5, <2>1 DEF Chain, Announced
  <2>3. pending \in Seq(Requests) /\ pending # <<>>
    BY <1>1, <2>2, LogAppended
  <2>. QED
    BY <1>1, <1>4, <1>5, <2>3 DEF NonceAnchorValid
<1>8. \A a \in Bound : receipts'[Binding(a).nonce] = Binding(a)
  <2> SUFFICES ASSUME NEW a \in Bound PROVE receipts'[Binding(a).nonce] = Binding(a)
    OBVIOUS
  <2>1. Binding(a) \in Requests
    BY DEF BindingsFit, RegistryRecords, Bound, Binding
  <2>2. PICK p \in Requests : p = Binding(a)
    BY <2>1
  <2>. QED
    BY <1>1, <1>2, <2>2 DEF NonceAnchorValid
<1>9. NonceAnchorValid'
  BY <1>1, <1>5, <1>6, <1>7, <1>8 DEF NonceAnchorValid, Bound, Binding
<1>. QED
  BY <1>3, <1>9 DEF Chain, Readable

\* Only the log that ends with the announced request announces one.
LEMMA NotAnnounced ==
    ASSUME BindingsFit, pending = NoFile \/ pending = current.log
    PROVE  ~Announced
<1>1. current.log \in Seq(Requests)
  BY DEF BindingsFit, RegistryRecords
<1>. QED
  BY <1>1, LogAppended, FilesAssumption DEF Announced

\* The files of the chain under a call that has its next step or its end before it.
LEMMA ChainGoesOn ==
    ASSUME Chain, UNCHANGED <<current, previous, pending, transitions, receipts>>,
           NEW step \in {"refused", "previous"},
           call'.at = step, call'.request = call.request,
           step = "previous" => call.at = "transition" /\ Len(transitions) = Len(current.log) + 1
    PROVE  Chain'
<1>1. Readable'
  BY DEF Chain, Readable, NonceAnchorValid, TransitionProven, Bound, Binding
<1>2. NextLog' = NextLog
  BY DEF NextLog
<1>. QED
  BY <1>1, <1>2 DEF Chain, Announced

\* A receipt is created, or is in place already.
LEMMA CreateReceiptFiles ==
    ASSUME RInv, FInv, UNCHANGED <<runtimeFiles, proc, failures, tornFiles>>, CreateReceipt
    PROVE  FInv'
<1>1. PICK q : q = call.request
  OBVIOUS
<1>2. /\ UNCHANGED <<current, previous, pending, transitions>> /\ call # NoCall /\ Writing
      /\ \/ /\ receipts[q.nonce] \in {NoFile, q}
            /\ receipts' = [receipts EXCEPT ![q.nonce] = q]
            /\ call' = [call EXCEPT !.at = "pending"]
         \/ UNCHANGED receipts /\ call' = [call EXCEPT !.at = "refused"]
  BY <1>1 DEF CreateReceipt, Doing, Then, Writing
<1>3. q \in Requests /\ q.nonce \in Nonces
  <2>1. q \in Requests
    BY <1>1, <1>2, CallRequest
  <2>. QED
    BY <2>1 DEF Requests
<1>4. PICK step \in {"pending", "refused"} :
        /\ call' = [call EXCEPT !.at = step]
        /\ step = "refused" => UNCHANGED receipts
        /\ step = "pending" => /\ receipts[q.nonce] \in {NoFile, q}
                               /\ receipts' = [receipts EXCEPT ![q.nonce] = q]
  BY <1>2
<1>5. call'.at = step /\ call'.request = q
  BY <1>1, <1>4 DEF RInv, Shape
<1>6. ASSUME tornFiles = 0 PROVE Chain'
  <2>1. Chain /\ BindingsFit
    BY <1>6 DEF FInv
  <2>2. CASE step = "refused"
    BY <1>1, <1>2, <1>4, <1>5, <2>1, <2>2, ChainGoesOn
  <2>3. CASE step = "pending"
    <3>1. DOMAIN receipts' = Nonces /\ receipts'[q.nonce] = q
      BY <1>3, <1>4, <2>1, <2>3 DEF Chain
    <3>2. ASSUME NEW n \in Nonces, receipts[n] \in Requests PROVE receipts'[n] = receipts[n]
      BY <1>3, <1>4, <2>1, <2>3, <3>2, FilesAssumption DEF Chain
    <3>3. Readable' /\ (Announced => Announced')
      BY <1>2, <2>1, <3>2, MoreReceipts
    <3>. QED
      BY <1>2, <1>5, <2>1, <2>3, <3>1, <3>3 DEF Chain
  <2>. QED
    BY <2>2, <2>3
<1>. QED
  BY <1>2, <1>4, <1>6, WriteFiles DEF runtimeFiles

\* The next record is announced, or is announced already.
LEMMA CreatePendingFiles ==
    ASSUME RInv, FInv, UNCHANGED <<runtimeFiles, proc, failures, tornFiles>>, CreatePending
    PROVE  FInv'
<1>1. PICK q : q = call.request
  OBVIOUS
<1>2. /\ UNCHANGED <<current, previous, transitions, receipts>> /\ call # NoCall
      /\ Writing /\ call.at = "pending"
  BY DEF CreatePending, Doing, Writing
<1>3. PICK step \in {"transition", "refused"} :
        /\ call' = [call EXCEPT !.at = step]
        /\ step = "refused" => UNCHANGED pending
        /\ step = "transition" => pending \in {NoFile, NextLog} /\ pending' = NextLog
  BY DEF CreatePending, Then
<1>4. call'.at = step /\ call'.request = q
  BY <1>1, <1>3 DEF RInv, Shape
<1>5. q \in Requests
  BY <1>1, <1>2, CallRequest
<1>6. ASSUME tornFiles = 0 PROVE Chain'
  <2>1. Chain /\ BindingsFit
    BY <1>6 DEF FInv
  <2>2. CASE step = "refused"
    BY <1>1, <1>2, <1>3, <1>4, <2>1, <2>2, ChainGoesOn
  <2>3. CASE step = "transition"
    <3>1. NextLog = Append(current.log, q) /\ NextLog' = NextLog
      BY <1>1, <1>2, <1>4 DEF NextLog
    <3>2. receipts[q.nonce] = q
      BY <1>1, <1>2, <2>1 DEF Chain
    <3>3. Announced'
      BY <1>2, <1>3, <1>5, <2>3, <3>1, <3>2 DEF Announced
    <3>4. current.log \in Seq(Requests) /\ Len(current.log) \in Nat /\ Len(transitions) \in Nat
      BY <2>1 DEF BindingsFit, RegistryRecords, Chain
    <3>5. pending' # pending => Len(transitions) <= Len(current.log)
      BY <1>3, <2>1, <2>3, <3>4, NotAnnounced DEF Chain
    <3>6. NonceAnchorValid'
      BY <1>2, <2>1, <3>4, <3>5, AnchorKept DEF Chain, Readable
    <3>7. Readable'
      BY <1>2, <2>1, <3>6 DEF Chain, Readable
    <3>. QED
      BY <1>2, <1>3, <1>4, <2>1, <2>3, <3>1, <3>2, <3>3, <3>7 DEF Chain
  <2>. QED
    BY <2>2, <2>3
<1>. QED
  BY <1>2, <1>3, <1>6, WriteFiles DEF runtimeFiles

\* The transition of the next revision is created, or is in place already.
LEMMA CreateTransitionFiles ==
    ASSUME RInv, FInv, UNCHANGED <<runtimeFiles, proc, failures, tornFiles>>, CreateTransition
    PROVE  FInv'
<1>1. PICK q : q = call.request
  OBVIOUS
<1>2. /\ UNCHANGED <<current, previous, pending, receipts>> /\ call # NoCall
      /\ Writing /\ call.at = "transition"
  BY DEF CreateTransition, Doing, Writing
<1>3. PICK step \in {"previous", "refused"} :
        /\ call' = [call EXCEPT !.at = step]
        /\ step = "refused" => UNCHANGED transitions
        /\ \/ Len(transitions) = Len(current.log) /\ transitions' = Append(transitions, NextLog)
           \/ Len(transitions) # Len(current.log) /\ UNCHANGED transitions
  <2>1. CASE Len(transitions) = Len(current.log)
    BY <2>1 DEF CreateTransition, Then
  <2>2. CASE Len(transitions) # Len(current.log)
    BY <2>2 DEF CreateTransition, Then
  <2>. QED
    BY <2>1, <2>2
<1>4. call'.at = step /\ call'.request = q
  BY <1>1, <1>3 DEF RInv, Shape
<1>5. q \in Requests
  BY <1>1, <1>2, CallRequest
<1>6. ASSUME tornFiles = 0 PROVE Chain'
  <2>1. Chain /\ BindingsFit
    BY <1>6 DEF FInv
  <2>2. CASE UNCHANGED transitions
    <3>1. Len(transitions) # Len(current.log) => Len(transitions) = Len(current.log) + 1
      BY <2>1 DEF Chain
    <3>2. Len(transitions) = Len(current.log) => step = "refused"
      <4>1. SUFFICES ASSUME Len(transitions) = Len(current.log) PROVE FALSE
        OBVIOUS
      <4>2. transitions' = Append(transitions, NextLog) /\ transitions \in Seq(Seq(Requests))
        BY <1>3, <2>1, <4>1 DEF Chain
      <4>3. Len(transitions') = Len(transitions) + 1 /\ Len(transitions) \in Nat
        BY <4>2
      <4>. QED
        BY <2>2, <4>3
    <3>. QED
      BY <1>1, <1>2, <1>4, <2>1, <2>2, <3>1, <3>2, ChainGoesOn
  <2>3. CASE /\ Len(transitions) = Len(current.log)
             /\ transitions' = Append(transitions, NextLog)
    <3>1. PICK log, n : log = NextLog /\ n = Len(current.log)
      OBVIOUS
    <3>2. current.log \in Seq(Requests) /\ n \in Nat /\ transitions \in Seq(Seq(Requests))
      BY <2>1, <3>1 DEF BindingsFit, RegistryRecords, Chain
    <3>3. /\ log \in Seq(Requests) /\ Front(log) = current.log /\ Last(log) = q
          /\ log = Append(current.log, q)
      BY <1>1, <1>5, <3>1, <3>2, LogAppended DEF NextLog
    <3>4. /\ transitions' \in Seq(Seq(Requests)) /\ Len(transitions') = n + 1
          /\ transitions'[n + 1] = log
          /\ \A i \in 1 .. n : transitions'[i] = transitions[i]
      BY <2>3, <3>1, <3>2, <3>3
    <3>5. receipts[q.nonce] = q /\ pending = log
      BY <1>1, <1>2, <2>1, <3>1 DEF Chain
    <3>6. NonceAnchorValid
      BY <2>1 DEF Chain, Readable
    <3>7. n > 0 => TransitionProven(n)' /\ transitions'[n] = current.log
      <4> SUFFICES ASSUME n > 0 PROVE TransitionProven(n)' /\ transitions'[n] = current.log
        OBVIOUS
      <4>1. TransitionProven(n) /\ transitions[n] = current.log
        BY <3>1, <3>6 DEF NonceAnchorValid
      <4>2. transitions'[n] = transitions[n] /\ (n > 1 => transitions'[n - 1] = transitions[n - 1])
        BY <3>2, <3>4
      <4>. QED
        BY <1>2, <4>1, <4>2 DEF TransitionProven
    <3>8. TransitionProven(n + 1)'
      <4>1. PICK m : m = n + 1
        OBVIOUS
      <4>2. transitions'[m] # Torn /\ Last(transitions'[m]) = q
        BY <3>3, <3>4, <4>1, FilesAssumption
      <4>3. m > 1 => transitions'[m - 1] = Front(transitions'[m])
        <5> SUFFICES ASSUME m > 1 PROVE transitions'[m - 1] = Front(transitions'[m])
          OBVIOUS
        <5>1. m - 1 = n /\ n > 0
          BY <3>2, <4>1
        <5>2. transitions'[n] = current.log
          BY <3>7, <5>1
        <5>. QED
          BY <3>3, <3>4, <4>1, <5>1, <5>2
      <4>4. receipts'[Last(transitions'[m]).nonce] = Last(transitions'[m])
        BY <1>2, <3>5, <4>2
      <4>5. TransitionProven(m)'
        BY <4>2, <4>3, <4>4 DEF TransitionProven
      <4>. QED
        BY <4>1, <4>5
    <3>9. NonceAnchorValid'
      <4>1. Len(current'.log) = n /\ Bound' = Bound /\ \A a : Binding(a)' = Binding(a)
        BY <1>2, <3>1 DEF Bound, Binding
      <4>. QED
        <5>1. \A a \in Bound' : receipts'[Binding(a)'.nonce] = Binding(a)'
          BY <1>2, <3>6, <4>1 DEF NonceAnchorValid
        <5>2. Len(transitions') >= n /\ Len(transitions') > n
          BY <3>2, <3>4
        <5>3. pending' = transitions'[n + 1] /\ Front(transitions'[n + 1]) = current'.log
          BY <1>2, <3>3, <3>4, <3>5
        <5>4. n > 0 => TransitionProven(n)' /\ transitions'[n] = current'.log
          BY <1>2, <3>7
        <5>. QED
          BY <3>8, <4>1, <5>1, <5>2, <5>3, <5>4 DEF NonceAnchorValid
    <3>10. Readable'
      BY <1>2, <2>1, <3>9 DEF Chain, Readable
    <3>11. Announced'
      BY <1>2, <1>5, <3>3, <3>5 DEF Announced
    <3>12. NextLog' = log
      BY <1>2, <1>4, <3>3 DEF NextLog
    <3>. QED
      BY <1>2, <1>3, <1>4, <2>1, <3>1, <3>4, <3>5, <3>10, <3>11, <3>12 DEF Chain
  <2>. QED
    BY <1>3, <2>2, <2>3
<1>. QED
  BY <1>2, <1>3, <1>6, WriteFiles DEF runtimeFiles

\* The record is kept before it is replaced.
LEMMA ReplacePreviousFiles ==
    ASSUME RInv, FInv, UNCHANGED <<runtimeFiles, proc, failures, tornFiles>>, ReplacePrevious
    PROVE  FInv'
<1>1. /\ UNCHANGED <<current, pending, transitions, receipts>> /\ call # NoCall
      /\ Writing /\ call.at = "previous" /\ previous' = current
      /\ call' = [call EXCEPT !.at = "current"]
  BY DEF ReplacePrevious, Doing, Writing, Then
<1>2. call'.at = "current" /\ call'.request = call.request
  BY <1>1 DEF RInv, Shape
<1>3. ASSUME tornFiles = 0 PROVE Chain'
  <2>1. Chain
    BY <1>3 DEF FInv
  <2>2. NonceAnchorValid'
    BY <1>1, <2>1 DEF Chain, Readable, NonceAnchorValid, TransitionProven, Bound, Binding
  <2>3. Readable'
    BY <1>1, <2>2 DEF Readable
  <2>. QED
    BY <1>1, <1>2, <2>1, <2>3 DEF Chain, Announced, NextLog
<1>. QED
  BY <1>1, <1>3, WriteFiles DEF runtimeFiles

\* The last write of a call takes the announcement away.
LEMMA UnlinkPendingFiles ==
    ASSUME RInv, FInv, UNCHANGED <<runtimeFiles, proc, failures, tornFiles>>, UnlinkPending
    PROVE  FInv'
<1>1. /\ UNCHANGED <<current, previous, transitions, receipts>> /\ call # NoCall
      /\ call.at = "unlink" /\ pending' = NoFile
      /\ call' = [call EXCEPT !.at = "done"]
  BY DEF UnlinkPending, Doing, Then
<1>2. call'.at = "done" /\ call'.request = call.request
  BY <1>1 DEF RInv, Shape
<1>3. ASSUME tornFiles = 0 PROVE Chain'
  <2>1. Chain /\ BindingsFit
    BY <1>3 DEF FInv
  <2>2. Len(transitions) = Len(current.log) /\ Len(transitions) \in Nat
    BY <1>1, <2>1, NotAnnounced DEF Chain
  <2>3. NonceAnchorValid'
    BY <1>1, <2>1, <2>2, AnchorKept DEF Chain, Readable
  <2>4. Readable'
    BY <1>1, <2>1, <2>3 DEF Chain, Readable
  <2>. QED
    BY <1>1, <1>2, <2>1, <2>2, <2>4 DEF Chain
<1>. QED
  BY <1>1, <1>3, WriteFiles DEF runtimeFiles

\* The record a call installs, and what it makes of the bindings.
Installed(q) ==
    /\ current' = [bindings |-> Bindings(q), log |-> Append(current.log, q)]
    /\ q \in Requests /\ Admissible(q) /\ (q.kind # "switch" => q.source = q.account)

NewBindingsOf(q) ==
    /\ q.account \in Bound' /\ Binding(q.account)' = q
    /\ \A a \in Bound : Binding(a).runtime # q.runtime =>
         a \in Bound' /\ Binding(a)' = Binding(a)
    /\ \A a \in Bound' : a = q.account \/ (a \in Bound /\ Binding(a)' = Binding(a) /\ a # q.source)

LEMMA NewBindings ==
    ASSUME RInv, BindingsFit, NEW q, Installed(q)
    PROVE  NewBindingsOf(q) /\ BindingsFit'
<1>1. /\ current'.bindings = Bindings(q) /\ current'.log = Append(current.log, q)
      /\ DOMAIN current.bindings = Accounts
      /\ current.bindings \in [Accounts -> Requests \cup {NoBinding}]
      /\ current.log \in Seq(Requests)
  BY DEF Installed, BindingsFit, RegistryRecords
<1>2. /\ q.source \in Accounts /\ q.account \in Accounts /\ q # NoBinding /\ q \in Requests
      /\ q.kind \in {"bind", "advance", "switch", "acknowledgement"}
  BY FilesAssumption DEF Installed, Requests
<1>3. /\ Bindings(q)[q.account] = q
      /\ q.source # q.account => Bindings(q)[q.source] = NoBinding
      /\ \A a \in Accounts \ {q.source, q.account} : Bindings(q)[a] = current.bindings[a]
  BY <1>1, <1>2 DEF Bindings
<1>4. NewBindingsOf(q)
  <2>1. q.account \in Bound' /\ Binding(q.account)' = q
    BY <1>1, <1>2, <1>3 DEF Bound, Binding
  <2>2. ASSUME NEW a \in Bound, Binding(a).runtime # q.runtime
        PROVE  a \in Bound' /\ Binding(a)' = Binding(a)
    <3>1. Bindings(q)[a] = current.bindings[a]
      BY <1>1, <1>2, <2>2, BindingsKept DEF Installed
    <3>. QED
      BY <1>1, <3>1 DEF Bound, Binding
  <2>3. ASSUME NEW a \in Bound', a # q.account
        PROVE  a \in Bound /\ Binding(a)' = Binding(a) /\ a # q.source
    BY <1>1, <1>2, <1>3, <2>3 DEF Bound, Binding
  <2>. QED
    BY <2>1, <2>2, <2>3 DEF NewBindingsOf
<1>5. current' \in RegistryRecords /\ Range(current'.log) = Range(current.log) \cup {q}
  <2>1. Bindings(q) \in [Accounts -> Requests \cup {NoBinding}]
    BY <1>1, <1>2 DEF Bindings
  <2>2. /\ Append(current.log, q) \in Seq(Requests)
        /\ Range(Append(current.log, q)) = Range(current.log) \cup {q}
    BY <1>1, <1>2, LogAppended
  <2>. QED
    BY <1>1, <2>1, <2>2 DEF Installed, RegistryRecords
<1>6. ASSUME NEW a \in Bound' PROVE Binding(a)' \in Range(current'.log) /\ Binding(a)'.account = a
  BY <1>4, <1>5 DEF NewBindingsOf, BindingsFit
<1>7. ASSUME NEW b \in Bound', b # q.account PROVE Binding(b)'.runtime # q.runtime
  <2>1. b \in Bound /\ Binding(b)' = Binding(b) /\ b # q.source
    BY <1>4, <1>7 DEF NewBindingsOf
  <2>2. CASE q.kind = "bind"
    BY <2>1, <2>2 DEF Installed, Admissible, Unowned
  <2>3. CASE q.kind = "switch"
    BY <2>1, <2>3 DEF Installed, Admissible, Owner, BindingsFit
  <2>4. CASE q.kind \in {"advance", "acknowledgement"}
    BY <1>7, <2>1, <2>4 DEF Installed, Admissible, Owner, BindingsFit
  <2>. QED
    BY <1>2, <2>2, <2>3, <2>4
<1>8. ASSUME NEW a \in Bound', NEW b \in Bound', Binding(a)'.runtime = Binding(b)'.runtime
      PROVE  a = b
  BY <1>4, <1>7, <1>8 DEF NewBindingsOf, BindingsFit
<1>. QED
  BY <1>4, <1>5, <1>6, <1>8 DEF BindingsFit

\* A transaction that binds its account has been consumed for it.
LEMMA EffectiveIsBound ==
    ASSUME BindingsFit, NEW s \in Runtimes, HasTxn(s), TypedOf(s), Effective(s)
    PROVE  /\ Txn(s).account \in Bound /\ Binding(Txn(s).account).runtime = s
           /\ Consumed(s)
<1>1. Txn(s) \in Transactions
  BY DEF TypedOf, HasTxn, Txn, CoordRecords
<1>2. PICK t \in Transactions : t = Txn(s)
  BY <1>1
<1>3. Binding(t.account) = RequestOf(s, t) /\ RequestOf(s, t) \in Requests
  BY <1>2, AskedRequest DEF Effective
<1>4. t.account \in Bound /\ RequestOf(s, t).runtime = s
  BY <1>3, FilesAssumption DEF Bound, Binding, Transactions, RequestOf
<1>. QED
  BY <1>2, <1>3, <1>4 DEF BindingsFit, Consumed

\* The transaction of another runtime binds its account before and after.
LEMMA OthersKept ==
    ASSUME RInv, FInv, NEW q, Installed(q), NEW s \in Runtimes, s # q.runtime,
           coord'[s].current = coord[s].current, HasTxn(s)
    PROVE  /\ Effective(s)' <=> Effective(s)
           /\ Consumed(s)' <=> Consumed(s)
<1>1. PICK t : t = Txn(s)
  OBVIOUS
<1>2. /\ Txn(s)' = t /\ HasTxn(s)' /\ TypedOf(s) /\ BindingsFit /\ NewBindingsOf(q)
      /\ RequestOf(s, t).runtime = s
  BY <1>1, NewBindings DEF Txn, HasTxn, FInv, FilesOf, RequestOf
<1>3. t \in Transactions /\ t.account \in Accounts /\ RequestOf(s, t) \in Requests
  <2>1. t \in Transactions
    BY <1>1, <1>2 DEF TypedOf, HasTxn, Txn, CoordRecords
  <2>. QED
    BY <2>1, AskedRequest DEF Transactions
<1>4. /\ Effective(s) <=> Binding(t.account) = RequestOf(s, t)
      /\ Effective(s)' <=> Binding(t.account)' = RequestOf(s, t)
      /\ Consumed(s) <=> RequestOf(s, t) \in Range(current.log)
      /\ Consumed(s)' <=> RequestOf(s, t) \in Range(current'.log)
  BY <1>1, <1>2 DEF Effective, Consumed, RequestOf, Binding
<1>5. ASSUME Binding(t.account) = RequestOf(s, t) PROVE Binding(t.account)' = RequestOf(s, t)
  <2>1. t.account \in Bound
    BY <1>3, <1>5, FilesAssumption DEF Bound, Binding
  <2>. QED
    BY <1>2, <1>5, <2>1 DEF NewBindingsOf
<1>6. ASSUME Binding(t.account)' = RequestOf(s, t) PROVE Binding(t.account) = RequestOf(s, t)
  <2>1. t.account \in Bound'
    BY <1>3, <1>6, FilesAssumption DEF Bound, Binding
  <2>2. t.account # q.account
    BY <1>2, <1>6 DEF NewBindingsOf
  <2>. QED
    BY <1>2, <1>6, <2>1, <2>2 DEF NewBindingsOf
<1>7. Range(current'.log) = Range(current.log) \cup {q}
  BY <1>2, LogAppended DEF Installed, BindingsFit, RegistryRecords
<1>8. RequestOf(s, t) # q
  BY <1>2
<1>. QED
  BY <1>4, <1>5, <1>6, <1>7, <1>8

\* What the invariant says of another runtime is kept.
LEMMA OtherRuntimeKept ==
    ASSUME RInv, FInv, NEW q, Installed(q), NEW s \in Runtimes, s # q.runtime,
           UNCHANGED <<runtimeFiles, proc>>
    PROVE  FilesOf(s)' /\ StageOf(s)'
<1>1. /\ Untouched(s) /\ proc'[s] = proc[s]
      /\ HasTxn(s)' <=> HasTxn(s)
      /\ Txn(s)' = Txn(s)
      /\ Prepared(s)' <=> Prepared(s)
  BY DEF runtimeFiles, Untouched, HasTxn, Txn, Prepared
<1>2. HasTxn(s) => /\ Effective(s)' <=> Effective(s)
                   /\ Consumed(s)' <=> Consumed(s)
  BY <1>1, OthersKept DEF Untouched
<1>3. NewBindingsOf(q) /\ FilesOf(s) /\ StageOf(s) /\ BindingsFit
  BY NewBindings DEF FInv
<1>4. Range(current'.log) = Range(current.log) \cup {q}
  BY <1>3, LogAppended DEF Installed, BindingsFit, RegistryRecords
<1>5. TypedOf(s)'
  BY <1>1, <1>3 DEF Untouched, FilesOf, TypedOf
<1>6. PreparedOf(s)'
  <2> SUFFICES ASSUME Prepared(s)' PROVE PreparedFor(s, Txn(s))'
    BY DEF PreparedOf
  <2>1. PICK t : t = Txn(s)
    OBVIOUS
  <2>2. HasTxn(s) /\ PreparedFor(s, t)
    BY <1>1, <1>3, <2>1 DEF FilesOf, PreparedOf, Prepared
  <2>3. PreparedFor(s, t)'
    BY <1>1, <1>2, <1>4, <2>2 DEF Untouched, PreparedFor, EvidenceIsSource
  <2>. QED
    BY <1>1, <2>1, <2>3
<1>7. SettledOf(s)'
  <2> SUFFICES ASSUME ~Prepared(s)' PROVE SettledOf(s)'
    BY DEF SettledOf
  <2>1. SettledOf(s) /\ ~Prepared(s)
    BY <1>1, <1>3 DEF FilesOf
  <2>2. (\A a \in Bound : Binding(a).runtime # s) => \A a \in Bound' : Binding(a)'.runtime # s
    BY <1>3 DEF NewBindingsOf
  <2>. QED
    BY <1>1, <1>2, <1>4, <2>1, <2>2 DEF Untouched, SettledOf
<1>8. StageOf(s)'
  <2>1. \A op, n, a : NewTxn(s, op, n, a)' = NewTxn(s, op, n, a)
    BY <1>1 DEF Untouched, NewTxn
  <2>2. NewOf(s) => NewOf(s)'
    BY <1>1, <2>1 DEF Untouched, NewOf
  <2>3. SourceAllows(s, proc[s].txn) => SourceAllows(s, proc[s].txn)'
    BY <1>1 DEF Untouched, SourceAllows
  <2>. QED
    BY <1>1, <1>2, <1>3, <2>2, <2>3 DEF Untouched, StageOf
<1>. QED
  BY <1>5, <1>6, <1>7, <1>8 DEF FilesOf

\* The transaction of the call becomes what binds its account: it is a prepared one, since
\* its request was not in place.
LEMMA OwnRuntimeBound ==
    ASSUME RInv, FInv, NEW r \in Runtimes, NEW q, Installed(q), call # NoCall,
           q = call.request, r = q.runtime, UNCHANGED <<runtimeFiles, proc>>
    PROVE  Effective(r)' /\ FilesOf(r)' /\ StageOf(r)'
<1>1. PICK t : t = Txn(r)
  OBVIOUS
<1>2. /\ proc[r].at = "calling" /\ HasTxn(r) /\ q = RequestOf(r, t) /\ t \in Transactions
      /\ proc[r].txn = t /\ FilesOf(r)
  BY <1>1, CallRequest, CarriedOut DEF FInv
<1>3. /\ Untouched(r) /\ proc'[r] = proc[r]
      /\ HasTxn(r)' /\ Txn(r)' = t
      /\ Prepared(r)' <=> Prepared(r)
  BY <1>1, <1>2 DEF runtimeFiles, Untouched, HasTxn, Txn, Prepared
<1>4. NewBindingsOf(q) /\ BindingsFit
  BY NewBindings DEF FInv
<1>5. Range(current'.log) = Range(current.log) \cup {q}
  BY <1>4, LogAppended DEF Installed, BindingsFit, RegistryRecords
<1>6. ~Effective(r)
  <2>1. ~Consumed(r)
    BY <1>1, <1>2, AdmissibleIsNew DEF Installed, Consumed
  <2>. QED
    BY <1>2, <1>4, <2>1, EffectiveIsBound DEF FilesOf
<1>7. Prepared(r) /\ PreparedFor(r, t)
  BY <1>1, <1>2, <1>6 DEF FilesOf, SettledOf, PreparedOf
<1>8. Effective(r)'
  <2>1. q.account = t.account
    BY <1>2 DEF RequestOf
  <2>2. Binding(t.account)' = RequestOf(r, t)
    BY <1>2, <1>4, <2>1 DEF NewBindingsOf
  <2>. QED
    BY <1>3, <2>2 DEF Effective, RequestOf, Binding
<1>9. TypedOf(r)'
  BY <1>2, <1>3 DEF Untouched, FilesOf, TypedOf
<1>10. PreparedFor(r, t)'
  <2>1. ASSUME NEW p \in Range(current'.log), p.runtime = r
        PROVE  p = RequestOf(r, t) \/ p.epoch[3] < t.policy
    BY <1>2, <1>5, <1>7, <2>1 DEF PreparedFor
  <2>2. \A p \in Range(current'.log) : p.runtime = r =>
          p = RequestOf(r, t)' \/ p.epoch[3] < t.policy
    BY <2>1 DEF RequestOf
  <2>. QED
    BY <1>3, <1>7, <1>8, <2>2 DEF Untouched, PreparedFor, EvidenceIsSource
<1>11. PreparedOf(r)' /\ SettledOf(r)'
  BY <1>3, <1>7, <1>10 DEF PreparedOf, SettledOf
<1>12. StageOf(r)'
  BY <1>2, <1>3 DEF StageOf
<1>. QED
  BY <1>8, <1>9, <1>11, <1>12 DEF FilesOf

\* The new record is the one that the last transition and the pending file name.
LEMMA ChainReplaced ==
    ASSUME BindingsFit, Chain, NEW q, Installed(q), NewBindingsOf(q), q = call.request,
           call.at = "current", UNCHANGED <<previous, pending, transitions, receipts>>,
           call'.at = "unlink"
    PROVE  Chain'
<1>1. PICK log, n : log = NextLog /\ n = Len(current.log)
  OBVIOUS
<1>2. current \in RegistryRecords /\ current.log \in Seq(Requests) /\ n \in Nat
  BY <1>1 DEF BindingsFit, RegistryRecords
<1>3. /\ log \in Seq(Requests) /\ log # <<>> /\ Len(log) = n + 1 /\ Front(log) = current.log
      /\ log = Append(current.log, q)
  BY <1>1, <1>2, LogAppended DEF Installed, NextLog
<1>4. /\ pending = log /\ previous = current /\ Len(transitions) = n + 1
      /\ receipts[q.nonce] = q /\ NonceAnchorValid
  BY <1>1 DEF Chain, Readable
<1>5. current'.log = log
  BY <1>3 DEF Installed
<1>6. TransitionProven(n + 1) /\ transitions[n + 1] = log
  BY <1>1, <1>2, <1>4 DEF NonceAnchorValid
<1>7. \A a \in Bound' : receipts'[Binding(a)'.nonce] = Binding(a)'
  BY <1>4 DEF NewBindingsOf, NonceAnchorValid
<1>8. TransitionProven(n + 1)'
  BY <1>6 DEF TransitionProven
<1>9. NonceAnchorValid'
  <2>1. Len(current'.log) = n + 1 /\ n + 1 > 0 /\ ~(Len(transitions') > n + 1)
        /\ Len(transitions') >= n + 1
    BY <1>2, <1>3, <1>4, <1>5
  <2>2. transitions'[n + 1] = current'.log
    BY <1>5, <1>6
  <2>. QED
    BY <1>7, <1>8, <2>1, <2>2 DEF NonceAnchorValid
<1>10. Readable'
  <2>1. previous' # NoFile /\ current'.log # <<>> /\ previous'.log = Front(current'.log)
    BY <1>2, <1>3, <1>4, <1>5, FilesAssumption
  <2>. QED
    BY <1>9, <2>1 DEF Readable
<1>11. Len(transitions') = Len(current'.log) /\ Len(current'.log) \in Nat
       /\ pending' = current'.log /\ current'.log # <<>>
  BY <1>2, <1>3, <1>4, <1>5
<1>. QED
  BY <1>10, <1>11 DEF Chain

\* The current record is replaced: the call's transaction is what binds its account now.
LEMMA ReplaceCurrentFiles ==
    ASSUME RInv, FInv, UNCHANGED <<runtimeFiles, proc, failures, tornFiles>>, ReplaceCurrent
    PROVE  FInv'
<1>1. PICK q : q = call.request
  OBVIOUS
<1>2. /\ UNCHANGED <<previous, pending, transitions, receipts>>
      /\ call # NoCall /\ Writing /\ call.at = "current"
      /\ current' = [bindings |-> Bindings(q), log |-> Append(current.log, q)]
      /\ call' = [call EXCEPT !.at = "unlink"]
  BY <1>1 DEF ReplaceCurrent, Doing, Then, Writing, NextLog
<1>3. call'.at = "unlink" /\ call'.request = q
  BY <1>1, <1>2 DEF RInv, Shape
<1>4. PICK r \in Runtimes : r = q.runtime /\ q \in Requests /\ Admissible(q)
  BY <1>1, <1>2, CallRequest
<1>5. Installed(q)
  BY <1>1, <1>2, <1>4, WrittenRequest DEF Installed
<1>6. BindingsFit /\ NewBindingsOf(q) /\ BindingsFit'
  BY <1>5, NewBindings DEF FInv
<1>7. Effective(r)' /\ FilesOf(r)' /\ StageOf(r)'
  BY <1>1, <1>2, <1>4, <1>5, OwnRuntimeBound
<1>8. ASSUME NEW s \in Runtimes \ {r} PROVE FilesOf(s)' /\ StageOf(s)'
  BY <1>4, <1>5, OtherRuntimeKept
<1>9. CallFits'
  BY <1>3, <1>4, <1>7 DEF CallFits, Effective, Txn
<1>10. tornFiles' = 0 => Chain'
  BY <1>1, <1>2, <1>3, <1>5, <1>6, ChainReplaced DEF FInv
<1>. QED
  BY <1>6, <1>7, <1>8, <1>9, <1>10 DEF FInv, runtimeFiles

\* A write of the registry keeps the invariant.
LEMMA RegistryFiles ==
    ASSUME RInv, FInv, RegistryNext
    PROVE  FInv'
<1>1. UNCHANGED <<runtimeFiles, proc, failures, tornFiles>>
  BY DEF RegistryNext
<1>. QED
  BY <1>1, CreateReceiptFiles, CreatePendingFiles, CreateTransitionFiles, ReplacePreviousFiles,
     ReplaceCurrentFiles, UnlinkPendingFiles DEF RegistryNext

\* So does a step of a command.
LEMMA CommandFiles ==
    ASSUME RInv, FInv, NEW r \in Runtimes, Command(r)
    PROVE  FInv'
<1>1. ASSUME SaveTransaction(r) PROVE FInv'
  BY <1>1, PrepareFiles, CommitFiles DEF SaveTransaction, At
<1>. QED
  BY <1>1, StartCommandFiles, InvalidatePermitFiles, BeginFiles, SaveTransactionPreviousFiles,
     CallRegistryFiles, ReturnFromRegistryFiles, BindEvidenceFiles, SavePolicyFiles,
     SaveGenericFiles DEF Command

\* Nothing changes in a stuttering step.
LEMMA StutterFiles ==
    ASSUME FInv, UNCHANGED vars
    PROVE  FInv'
<1>1. UNCHANGED <<current, previous, pending, transitions, receipts, call, coord, policy,
                  generic, evidence, permit, proc, failures, tornFiles>>
  BY DEF vars, registry, runtimeFiles
<1>2. \A s \in Runtimes : Untouched(s) /\ StageOf(s)'
  BY <1>1, StageKept DEF FInv, Untouched
<1>3. tornFiles' = 0 => Chain'
  <2>1. Readable' = Readable
    BY <1>1 DEF Readable, NonceAnchorValid, TransitionProven, Bound, Binding
  <2>. QED
    BY <1>1, <2>1 DEF FInv, Chain, Announced, NextLog
<1>4. CallFits'
  BY <1>1 DEF FInv, CallFits, Effective, Binding, Prepared, Consumed, HasTxn, Txn
<1>. QED
  BY <1>1, <1>2, <1>3, <1>4, RegistryFilesStep DEF FInv

\* Every step keeps the invariant.
LEMMA NextFiles ==
    ASSUME RInv, FInv, [Next]_vars
    PROVE  FInv'
BY RegistryFiles, CommandFiles, LiveFiles, CrashFiles, StutterFiles DEF Next

\* The invariant always holds.
LEMMA AlwaysFiles == Spec => []FInv
<1>1. Init => FInv
  BY InitFiles
<1>2. RInv /\ FInv /\ [Next]_vars => FInv'
  BY NextFiles
<1>. QED
  BY <1>1, <1>2, AlwaysSound, PTL DEF Spec

\* Without a transaction under way, the files and the registry say the same of a runtime.
LEMMA SettledAgrees ==
    ASSUME FInv, NEW r \in Runtimes, ~Prepared(r)
    PROVE  /\ HasTxn(r) => policy[r] = PolicyTarget(Txn(r)) /\ Consumed(r)
           /\ {a \in Bound : Binding(a).runtime = r} = {policy[r].account} \ {NoAccount}
           /\ generic[r].account = policy[r].account
           /\ policy[r].account # NoAccount =>
                /\ Binding(policy[r].account).epoch = policy[r].epoch
                /\ evidence[r] = EvidenceOf(Txn(r))
<1>1. BindingsFit /\ TypedOf(r) /\ SettledOf(r)
  BY DEF FInv, FilesOf
<1>2. CASE HasTxn(r)
  <2>1. PICK t : t = Txn(r)
    OBVIOUS
  <2>2. policy[r] = PolicyTarget(t) /\ evidence[r] = EvidenceOf(t) /\ Effective(r)
    BY <1>1, <1>2, <2>1 DEF SettledOf
  <2>3. t.account \in Bound /\ Binding(t.account).runtime = r /\ Consumed(r)
    BY <1>1, <1>2, <2>1, <2>2, EffectiveIsBound
  <2>4. t.account # NoAccount
    BY <2>3, LifecycleAssumption DEF Bound
  <2>5. {a \in Bound : Binding(a).runtime = r} = {t.account}
    BY <1>1, <2>3 DEF BindingsFit
  <2>6. policy[r].account = t.account /\ policy[r].epoch = t.epoch
    BY <2>2 DEF PolicyTarget
  <2>7. Binding(t.account).epoch = t.epoch
    BY <2>1, <2>2 DEF Effective, RequestOf
  <2>8. generic[r].account = policy[r].account
    BY <1>1 DEF SettledOf
  <2>. QED
    BY <2>1, <2>2, <2>3, <2>4, <2>5, <2>6, <2>7, <2>8
<1>3. CASE ~HasTxn(r)
  BY <1>1, <1>3 DEF SettledOf
<1>. QED
  BY <1>2, <1>3

\* FilesSurviveCrash for every number of runtimes, accounts and nonces, and of deaths: the
\* registry can be read and changed again, and the files of each runtime are at one point
\* of the order in which its transaction writes them (_load_unlocked,
\* _reconcile_nonce_pending_unlocked, _commit_stress90_lifecycle_under_broker_fence).
THEOREM FilesSurviveCrashHolds == Spec => []FilesSurviveCrash
<1>1. FInv => FilesSurviveCrash
  <2> SUFFICES ASSUME FInv PROVE FilesSurviveCrash
    OBVIOUS
  <2>1. tornFiles = 0 => Readable /\ Reconcilable
    BY ChainIsReconcilable DEF FInv
  <2>2. ASSUME NEW r \in Runtimes, Prepared(r), NEW t, t = Txn(r)
        PROVE  /\ generic[r] = GenericTarget(t) \/ generic[r].revision = t.generic
               /\ policy[r] = PolicyTarget(t) \/ policy[r].revision = t.policy
               /\ generic[r] = GenericTarget(t) => policy[r] = PolicyTarget(t)
               /\ policy[r] = PolicyTarget(t) => evidence[r] = EvidenceOf(t)
               /\ evidence[r] = EvidenceOf(t) => Consumed(r)
    <3>1. PreparedFor(r, t) /\ TypedOf(r) /\ BindingsFit /\ HasTxn(r)
      BY <2>2 DEF FInv, FilesOf, PreparedOf, Prepared
    <3>2. Effective(r) => Consumed(r)
      BY <3>1, EffectiveIsBound
    <3>. QED
      BY <3>1, <3>2 DEF PreparedFor
  <2>. QED
    BY <2>1, <2>2, SettledAgrees DEF FilesSurviveCrash
<1>. QED
  BY <1>1, AlwaysFiles, PTL

\* A process ends only in a step of its own.
LEMMA EndsItself ==
    ASSUME RInv, NEW r \in Runtimes, NEW s \in Runtimes \ {r},
           Command(s) \/ Live(s) \/ \E torn \in BOOLEAN : Crash(s, torn)
    PROVE  proc'[r] = proc[r]
<1> DEFINE Other == proc'[r] = proc[r]
<1>1. ASSUME NEW step, Go(s, step) PROVE Other
  BY <1>1, GoIs
<1>2. ASSUME End(s) PROVE Other
  BY <1>2, EndIs
<1>3. ASSUME NEW p, proc' = [proc EXCEPT ![s] = p] PROVE Other
  BY <1>3
<1>4. ASSUME Command(s) PROVE Other
  <2>1. ASSUME NEW command \in Commands, NEW nonce \in Nonces, NEW account \in Accounts,
               StartCommand(s, command, nonce, account)
        PROVE  Other
    BY <2>1, <1>3 DEF StartCommand
  <2>2. ASSUME Begin(s) PROVE Other
    BY <2>2, <1>2 DEF Begin, RInv, Shape
  <2>3. ASSUME SaveTransaction(s) PROVE Other
    BY <2>3, <1>1 DEF SaveTransaction, RInv, Shape
  <2>4. InvalidatePermit(s) \/ SaveTransactionPrevious(s) \/ CallRegistry(s)
          \/ ReturnFromRegistry(s) => Other
    BY <1>1, <1>2 DEF InvalidatePermit, SaveTransactionPrevious, CallRegistry, ReturnFromRegistry
  <2>5. BindEvidence(s) \/ SavePolicy(s) \/ SaveGeneric(s) => Other
    BY <1>1, <1>2 DEF BindEvidence, SavePolicy, SaveGeneric
  <2> HIDE DEF Other
  <2>. QED
    BY <1>4, <2>1, <2>2, <2>3, <2>4, <2>5 DEF Command
<1>5. ASSUME Live(s) PROVE Other
  <2>1. ASSUME NEW account \in Accounts, IssuePermit(s, account) PROVE Other
    BY <2>1 DEF IssuePermit
  <2>2. ASSUME NEW account \in Accounts, StartLive(s, account) PROVE Other
    BY <2>2, <1>3 DEF StartLive
  <2>3. ConsumePermit(s) \/ SaveRunning(s) \/ EmergencyStop(s) \/ Exit(s) => Other
    BY <1>1, <1>2 DEF ConsumePermit, SaveRunning, EmergencyStop, Exit
  <2> HIDE DEF Other
  <2>. QED
    BY <1>5, <2>1, <2>2, <2>3 DEF Live
<1>6. ASSUME NEW torn \in BOOLEAN, Crash(s, torn) PROVE Other
  BY <1>6, <1>2 DEF Crash
<1>. QED
  BY <1>4, <1>5, <1>6

\* What a process that goes on is not.
LEMMA GoesOn ==
    ASSUME RInv, NEW r \in Runtimes, NEW step, Go(r, step), step # "none"
    PROVE  proc'[r] # NoProc
BY GoIs DEF NoProc

\* With its transaction in place, the evidence a command finds is what it expects.
LEMMA EvidenceAccepted ==
    ASSUME RInv, FInv, NEW r \in Runtimes, Prepared(r), proc[r].at = "evidence",
           call = NoCall, tornFiles = 0, NEW t, t = proc[r].txn
    PROVE  /\ BoundHere(r, t.account, t.epoch) /\ Binding(t.account).nonce = t.nonce
           /\ EvidenceIsSource(r, t)
<1>1. /\ HasTxn(r) /\ t = Txn(r) /\ PreparedFor(r, t) /\ Effective(r)
      /\ BindingsFit /\ TypedOf(r) /\ Readable
  BY CarriedOut DEF FInv, StageOf, FilesOf, Chain
<1>2. t.account \in Bound /\ Binding(t.account) = RequestOf(r, t)
  BY <1>1, EffectiveIsBound DEF Effective
<1>. QED
  BY <1>1, <1>2 DEF BoundHere, RequestOf, PreparedFor

\* No step of a command ends it while its transaction is prepared and consumed.
LEMMA CommandGoesOn ==
    ASSUME RInv, FInv, NEW r \in Runtimes, Command(r), tornFiles = 0,
           Prepared(r), Consumed(r), proc[r] # NoProc
    PROVE  proc'[r] # NoProc
<1>1. ASSUME NEW command \in Commands, NEW nonce \in Nonces, NEW account \in Accounts,
             StartCommand(r, command, nonce, account)
      PROVE  FALSE
  BY <1>1 DEF StartCommand, LeaseFree
<1>2. ASSUME InvalidatePermit(r) PROVE proc'[r] # NoProc
  BY <1>2, GoesOn DEF InvalidatePermit
<1>3. ASSUME Begin(r) PROVE FALSE
  BY <1>3 DEF Begin, At, FInv, StageOf, NewOf
<1>4. ASSUME SaveTransaction(r) PROVE proc'[r] # NoProc
  <2>1. CASE proc[r].at = "prepare"
    BY <1>4, <2>1, GoesOn DEF SaveTransaction, At
  <2>2. CASE proc[r].at = "commit"
    <3>1. proc' = [proc EXCEPT ![r].at = "commit previous", ![r].seen = coord[r].current]
      BY <1>4, <2>2 DEF SaveTransaction, At
    <3>2. proc'[r].at = "commit previous"
      <4>1. r \in DOMAIN proc /\ "at" \in DOMAIN proc[r]
        BY DEF RInv, Shape, Sound, ShapeOf
      <4>. QED
        BY <3>1, <4>1
    <3>3. NoProc.at = "none"
      BY DEF NoProc
    <3>. QED
      BY <3>2, <3>3
  <2>. QED
    BY <1>4, <2>1, <2>2 DEF SaveTransaction, At
<1>5. ASSUME SaveTransactionPrevious(r) PROVE proc'[r] # NoProc
  <2>1. proc[r].at # "commit previous"
    BY DEF FInv, StageOf
  <2>. QED
    BY <1>5, <2>1, GoesOn DEF SaveTransactionPrevious, At
<1>6. ASSUME CallRegistry(r) PROVE proc'[r] # NoProc
  BY <1>6, GoesOn DEF CallRegistry
<1>7. ASSUME ReturnFromRegistry(r) PROVE proc'[r] # NoProc
  <2>1. call # NoCall /\ call.request.runtime = r
    BY <1>7 DEF ReturnFromRegistry
  <2>2. call.at # "refused"
    BY <2>1 DEF FInv, CallFits
  <2>. QED
    BY <1>7, <2>2, GoesOn DEF ReturnFromRegistry
<1>8. ASSUME BindEvidence(r) PROVE proc'[r] # NoProc
  <2>1. PICK t : t = proc[r].txn
    OBVIOUS
  <2>2. proc[r].at = "evidence" /\ call = NoCall
    BY <1>8 DEF BindEvidence, At
  <2>3. Go(r, "policy")
    BY <1>8, <2>1, <2>2, EvidenceAccepted DEF BindEvidence
  <2>. QED
    BY <2>3, GoesOn
<1>9. ASSUME SavePolicy(r) PROVE proc'[r] # NoProc
  <2>1. PICK t : t = proc[r].txn
    OBVIOUS
  <2>2. policy[r] = PolicyTarget(t) \/ policy[r].revision = t.policy
    BY <1>9, <2>1, CarriedOut DEF SavePolicy, At, PreparedFor
  <2>3. Go(r, "generic")
    BY <1>9, <2>1, <2>2 DEF SavePolicy
  <2>. QED
    BY <2>3, GoesOn
<1>10. ASSUME SaveGeneric(r) PROVE proc'[r] # NoProc
  <2>1. PICK t : t = proc[r].txn
    OBVIOUS
  <2>2. generic[r] = GenericTarget(t) \/ generic[r].revision = t.generic
    BY <1>10, <2>1, CarriedOut DEF SaveGeneric, At, PreparedFor
  <2>3. Go(r, "commit")
    BY <1>10, <2>1, <2>2 DEF SaveGeneric
  <2>. QED
    BY <2>3, GoesOn
<1>. QED
  BY <1>1, <1>2, <1>3, <1>4, <1>5, <1>6, <1>7, <1>8, <1>9, <1>10 DEF Command

\* A live process runs without a prepared transaction, and none is started over a process.
LEMMA LiveGoesOn ==
    ASSUME RInv, FInv, NEW r \in Runtimes, Live(r), Prepared(r), proc[r] # NoProc
    PROVE  proc'[r] = proc[r]
<1>1. proc[r].at \notin {"permit", "run", "trading"}
  BY LiveSettled
<1>. QED
  BY <1>1 DEF Live, IssuePermit, Startable, StartLive, ConsumePermit, SaveRunning, EmergencyStop,
     Exit, At

\* The end of a process with a consumed transaction is a death, the commit, or follows a
\* torn file.
LEMMA NeverRefused ==
    ASSUME RInv, FInv, Next, NEW r \in Runtimes, Prepared(r), Consumed(r),
           proc[r] # NoProc, proc'[r] = NoProc
    PROVE  failures' > failures \/ tornFiles > 0 \/ ~Prepared(r)'
<1>1. failures \in Nat /\ tornFiles \in Nat
  BY DEF FInv
<1>2. PICK s \in Runtimes : Command(s) \/ Live(s) \/ \E torn \in BOOLEAN : Crash(s, torn)
  BY DEF Next, RegistryNext
<1>3. s = r
  BY <1>2, EndsItself
<1>4. CASE Command(r)
  BY <1>1, <1>4, CommandGoesOn
<1>5. CASE Live(r)
  BY <1>5, LiveGoesOn
<1>6. CASE \E torn \in BOOLEAN : Crash(r, torn)
  BY <1>1, <1>6 DEF Crash
<1>. QED
  BY <1>2, <1>3, <1>4, <1>5, <1>6

\* ConsumedIsNeverRefused for every number of runtimes, accounts and nonces: once its
\* request is in place, nothing that a command finds makes it give up its transaction
\* (apply_stress90_lifecycle_transaction, bind_for_lifecycle).
THEOREM ConsumedIsNeverRefusedHolds == Spec => ConsumedIsNeverRefused
<1> DEFINE Kept == \A r \in Runtimes :
             Prepared(r) /\ Consumed(r) /\ proc[r] # NoProc /\ proc'[r] = NoProc
               => failures' > failures \/ tornFiles > 0 \/ ~Prepared(r)'
<1>1. RInv /\ FInv /\ [Next]_vars => [Kept]_vars
  BY NeverRefused
<1>. QED
  BY <1>1, AlwaysSound, AlwaysFiles, PTL DEF Spec, ConsumedIsNeverRefused
=============================================================================
