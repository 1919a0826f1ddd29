--------------------------- MODULE AtomicRegistry ---------------------------
(***************************************************************************)
(* What the machine's account runtime registry (account_runtime_registry.py *)
(* with account_runtime_nonce_ledger.py) promises to the lifecycle commands *)
(* of all runtimes: every change of an owner is one step, takes the owner   *)
(* and the epoch it was asked to replace, and consumes a nonce for ever.    *)
(***************************************************************************)
EXTENDS Naturals, Sequences

CONSTANTS Accounts,
          NoBinding    \* an account that no runtime owns

VARIABLES bindings,    \* [Accounts -> the last request about the account, or NoBinding]
          log          \* every request whose nonce is consumed, in order

vars == <<bindings, log>>

Bound(account) == bindings[account] # NoBinding

Init == bindings = [a \in Accounts |-> NoBinding] /\ log = <<>>

\* A nonce is consumed once, by one request.
Consume(q) ==
    /\ \A n \in DOMAIN log : log[n].nonce # q.nonce
    /\ log' = Append(log, q)

Owns(q, account) ==
    /\ Bound(account)
    /\ bindings[account].runtime = q.runtime
    /\ bindings[account].epoch = q.from

\* A new owner: neither the account nor the runtime is in another binding, and the
\* account has not been left by a switch.
Bind(q) ==
    /\ q.kind = "bind"
    /\ ~Bound(q.account)
    /\ \A a \in Accounts : Bound(a) => bindings[a].runtime # q.runtime
    /\ \A n \in DOMAIN log : log[n].kind = "switch" => log[n].source # q.account
    /\ Consume(q)
    /\ bindings' = [bindings EXCEPT ![q.account] = q]

\* The owner starts a new epoch of its account.
Advance(q) ==
    /\ q.kind = "advance"
    /\ Owns(q, q.account) /\ q.epoch # q.from
    /\ Consume(q)
    /\ bindings' = [bindings EXCEPT ![q.account] = q]

\* The owner leaves its account for one that nobody owns.
Switch(q) ==
    /\ q.kind = "switch"
    /\ Owns(q, q.source) /\ ~Bound(q.account) /\ q.epoch # q.from
    /\ Consume(q)
    /\ bindings' = [bindings EXCEPT ![q.source] = NoBinding, ![q.account] = q]

\* The owner consumes a nonce and keeps account and epoch.
Acknowledge(q) ==
    /\ q.kind = "acknowledgement"
    /\ Owns(q, q.account) /\ q.epoch = q.from
    /\ Consume(q)
    /\ bindings' = [bindings EXCEPT ![q.account] = q]

Next ==
    /\ log' # <<>>
    /\ LET q == log'[Len(log')] IN Bind(q) \/ Advance(q) \/ Switch(q) \/ Acknowledge(q)

Spec == Init /\ [][Next]_vars
=============================================================================
