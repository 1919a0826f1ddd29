--------------------------- MODULE AtomicJournal ---------------------------
(***************************************************************************)
(* What the order submission journal (broker/ctp_order_journal.py) promises *)
(* to the broker: a map from order identities to entries that changes one   *)
(* whole operation at a time, whatever files it is kept in and whenever the *)
(* process dies.  An epoch of entries is set aside as a whole ("sealed")    *)
(* and never changes again.                                                 *)
(***************************************************************************)
EXTENDS Sequences

CONSTANTS NoEntry,    \* the entry of an identity the journal does not have
          Accounts

VARIABLES entries,    \* [Orders -> entry or NoEntry] of the current epoch
          epochs,     \* sequence of sealed epochs, [account, entries] each
          account     \* the account the current epoch belongs to

vars == <<entries, epochs, account>>

Final == {"terminal", "aborted_before_send"}

Successors ==
    [prepared |-> {"prepared", "submitted", "terminal", "aborted_before_send"},
     submitted |-> {"submitted", "terminal"},
     terminal |-> {"terminal"},
     aborted_before_send |-> {"aborted_before_send"}]

Has(map, id) == map[id] # NoEntry

\* How one revision of an entry may follow another: the identity stays, the status
\* goes forward, fills are only added, and an order never sent has none.
Revises(old, new) ==
    /\ new.day = old.day
    /\ new.status \in Successors[old.status]
    /\ old.fills \subseteq new.fills
    /\ new.status = "aborted_before_send" => new.fills = {}

Init ==
    /\ \A id \in DOMAIN entries : ~Has(entries, id)
    /\ epochs = <<>>
    /\ account \in Accounts

\* A new identity, never used before by this account, enters as "prepared".
Prepare ==
    /\ \E id \in DOMAIN entries :
         /\ ~Has(entries, id)
         /\ \A i \in DOMAIN epochs :
              epochs[i].account = account => ~Has(epochs[i].entries, id)
         /\ Has(entries', id)
         /\ entries'[id].status = "prepared" /\ entries'[id].fills = {}
         /\ entries' = [entries EXCEPT ![id] = entries'[id]]
    /\ UNCHANGED <<epochs, account>>

\* A batch of callbacks is recorded as a whole.
Update ==
    /\ DOMAIN entries' = DOMAIN entries
    /\ \A id \in DOMAIN entries :
         /\ Has(entries', id) <=> Has(entries, id)
         /\ Has(entries, id) => Revises(entries[id], entries'[id])
    /\ UNCHANGED <<epochs, account>>

\* An epoch without open orders is set aside, for the same or another account.
Seal ==
    /\ \A id \in DOMAIN entries : Has(entries, id) => entries[id].status \in Final
    /\ epochs' = Append(epochs, [account |-> account, entries |-> entries])
    /\ entries' = [id \in DOMAIN entries |-> NoEntry]
    /\ account' \in Accounts

Next == Prepare \/ Update \/ Seal

Spec == Init /\ [][Next]_vars
=============================================================================
