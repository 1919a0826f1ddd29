-------------------------- MODULE AccountRegistry ---------------------------
(***************************************************************************)
(* The account runtime registry of a machine as files: a current and a       *)
(* previous record, one write-once receipt per consumed nonce, a write-once  *)
(* pending file, and a write-once transition per revision.  A kernel lock    *)
(* makes a call exclusive and the callers wait for it, so one `call` is      *)
(* enough; each write is a step and the caller may die before any of them.   *)
(*                                                                           *)
(* A record is named by its checksum, which covers its parent's; here it is  *)
(* the log of consumed requests, that determines them.  The receipt stands   *)
(* for itself and for the nodes of the digest tree written with it.          *)
(***************************************************************************)
EXTENDS Naturals, FiniteSets, SequencesExt

CONSTANTS Accounts, Runtimes, Nonces,
          NoBinding, NoFile,
          Torn          \* a write-once file whose writer died

VARIABLES current,      \* [bindings, log]
          previous,     \* NoFile or such a record
          pending,      \* NoFile, Torn or the log of the next record
          transitions,  \* for each revision Torn or the log of its record
          receipts,     \* [Nonces -> NoFile, Torn or a request]
          call          \* [request, at]

registry == <<current, previous, pending, transitions, receipts, call>>

NoCall == [request |-> NoFile, at |-> "none"]

Bound == {a \in Accounts : current.bindings[a] # NoBinding}
Binding(account) == current.bindings[account]

RegistryInit ==
    /\ current = [bindings |-> [a \in Accounts |-> NoBinding], log |-> <<>>]
    /\ previous = NoFile /\ pending = NoFile /\ transitions = <<>>
    /\ receipts = [n \in Nonces |-> NoFile]
    /\ call = NoCall

-----------------------------------------------------------------------------
\* Reading.

\* load_transition: the transition of a revision, if it is whole and proven: it
\* extends the one before and its receipt is in place.
TransitionProven(n) ==
    /\ transitions[n] # Torn
    /\ n > 1 => transitions[n - 1] = Front(transitions[n])
    /\ receipts[Last(transitions[n]).nonce] = Last(transitions[n])

\* _validate_nonce_anchor_unlocked: the transition of the current record is the last,
\* or the pending file announces the one after it.
NonceAnchorValid ==
    LET count == Len(current.log)
    IN  /\ Len(transitions) >= count
        /\ count > 0 => TransitionProven(count) /\ transitions[count] = current.log
        /\ Len(transitions) > count =>
             /\ TransitionProven(count + 1)
             /\ pending = transitions[count + 1]
             /\ Front(transitions[count + 1]) = current.log
        /\ \A a \in Bound : receipts[Binding(a).nonce] = Binding(a)

\* _load_unlocked, which every call starts with.
Readable ==
    /\ \/ previous = current
       \/ previous = NoFile /\ current.log = <<>>
       \/ previous # NoFile /\ current.log # <<>> /\ previous.log = Front(current.log)
    /\ NonceAnchorValid

\* _reconcile_nonce_pending_unlocked lets a changing call go on.
Reconcilable ==
    pending # NoFile =>
      /\ pending # Torn
      /\ IF Len(transitions) >= Len(pending)
         THEN /\ transitions[Len(pending)] = pending
              /\ current.log \in {pending, Front(pending)}
         ELSE current.log = Front(pending)

-----------------------------------------------------------------------------
\* bind_new, advance_epoch, switch_account_binding and acknowledge_binding_operation
\* of a request [kind, nonce, runtime, source, from, account, epoch].

\* The same request again, after its last step: nothing to do.
Repeated(q) == Binding(q.account) = q

Unused(q) == \A p \in Range(current.log) : p.nonce # q.nonce

\* A binding remembers the accounts its runtime has left, and a runtime stays bound.
Retired == {p.source : p \in {o \in Range(current.log) : o.kind = "switch"}}

\* Mutant: a new owner does not look for other bindings of its account.
UnownedByRuntime(q) ==
    \A a \in Bound : Binding(a).runtime # q.runtime

Unowned(q) ==
    /\ q.account \notin Bound /\ q.account \notin Retired
    /\ \A a \in Bound : Binding(a).runtime # q.runtime

Owner(q, account) ==
    /\ account \in Bound
    /\ Binding(account).runtime = q.runtime /\ Binding(account).epoch = q.from

Admissible(q) ==
    /\ Unused(q)
    /\ q.kind = "bind" => Unowned(q)
    /\ q.kind = "advance" => Owner(q, q.account) /\ q.epoch # q.from
    /\ q.kind = "switch" =>
         Owner(q, q.source) /\ q.account \notin Bound /\ q.epoch # q.from
    /\ q.kind = "acknowledgement" => Owner(q, q.account)

\* Mutant: a switch keeps its source.
BindingsWithSource(q) == [current.bindings EXCEPT ![q.account] = q]

Bindings(q) ==
    [current.bindings EXCEPT ![q.source] = NoBinding, ![q.account] = q]

Doing(step) == call # NoCall /\ call.at = step
Then(step) == call' = [call EXCEPT !.at = step]
NextLog == Append(current.log, call.request)

StartCall(q) ==
    /\ call = NoCall
    /\ IF Readable /\ Reconcilable
       THEN /\ pending' = IF pending = current.log THEN NoFile ELSE pending
            /\ call' = [request |-> q,
                        at |-> IF Repeated(q) THEN "done"
                               ELSE IF Admissible(q) THEN "receipt" ELSE "refused"]
       ELSE UNCHANGED pending /\ call' = [request |-> q, at |-> "refused"]
    /\ UNCHANGED <<current, previous, transitions, receipts>>

-----------------------------------------------------------------------------
\* _save_with_nonce_unlocked, write by write; the last one is the unlinking of the
\* pending file.  A write-once file that exists must be what would be written.

CreateReceipt ==
    /\ Doing("receipt")
    /\ LET q == call.request
       IN  IF receipts[q.nonce] \in {NoFile, q}
           THEN receipts' = [receipts EXCEPT ![q.nonce] = q] /\ Then("pending")
           ELSE UNCHANGED receipts /\ Then("refused")
    /\ UNCHANGED <<current, previous, pending, transitions>>

CreatePending ==
    /\ Doing("pending")
    /\ IF pending \in {NoFile, NextLog}
       THEN pending' = NextLog /\ Then("transition")
       ELSE UNCHANGED pending /\ Then("refused")
    /\ UNCHANGED <<current, previous, transitions, receipts>>

CreateTransition ==
    /\ Doing("transition")
    /\ LET count == Len(current.log)
       IN  IF Len(transitions) = count
           THEN transitions' = Append(transitions, NextLog) /\ Then("previous")
           ELSE /\ UNCHANGED transitions
                /\ Then(IF transitions[count + 1] = NextLog THEN "previous" ELSE "refused")
    /\ UNCHANGED <<current, previous, pending, receipts>>

ReplacePrevious ==
    /\ Doing("previous")
    /\ previous' = current /\ Then("current")
    /\ UNCHANGED <<current, pending, transitions, receipts>>

ReplaceCurrent ==
    /\ Doing("current")
    /\ current' = [bindings |-> Bindings(call.request), log |-> NextLog]
    /\ Then("unlink")
    /\ UNCHANGED <<previous, pending, transitions, receipts>>

UnlinkPending ==
    /\ Doing("unlink")
    /\ pending' = NoFile /\ Then("done")
    /\ UNCHANGED <<current, previous, transitions, receipts>>

\* The caller dies.  A write-once file it is creating is missing, or torn.
Abandon(torn) ==
    /\ call # NoCall /\ call' = NoCall
    /\ IF ~torn
       THEN UNCHANGED <<pending, transitions, receipts>>
       ELSE \/ /\ Doing("receipt") /\ receipts[call.request.nonce] = NoFile
               /\ receipts' = [receipts EXCEPT ![call.request.nonce] = Torn]
               /\ UNCHANGED <<pending, transitions>>
            \/ /\ Doing("pending") /\ pending = NoFile /\ pending' = Torn
               /\ UNCHANGED <<transitions, receipts>>
            \/ /\ Doing("transition") /\ Len(transitions) = Len(current.log)
               /\ transitions' = Append(transitions, Torn)
               /\ UNCHANGED <<pending, receipts>>
    /\ UNCHANGED <<current, previous>>

RegistryStep ==
    \/ CreateReceipt \/ CreatePending \/ CreateTransition
    \/ ReplacePrevious \/ ReplaceCurrent \/ UnlinkPending
=============================================================================
