------------------------ MODULE OrderSubmissionProofs ------------------------
(***************************************************************************)
(* The write-ahead property of the order journal, for any number of          *)
(* sessions, orders and lots, any crash and any interleaving: whatever order *)
(* the exchange has, the journal on disk has with the same economics, and    *)
(* never as an order that was not sent.                                      *)
(*                                                                           *)
(* WriteAhead alone is not inductive.  Between the reservation and the       *)
(* official send the order is in the journal and not at the exchange, still  *)
(* "prepared": without that, AbortBeforeSend could disown an order that is   *)
(* out, and OfficialSend could send one that was disowned.  And the entries  *)
(* have to be entries, or a later write could drop their economics.          *)
(***************************************************************************)
EXTENDS OrderSubmission, Functions, FiniteSetTheorems, WellFoundedInduction, TLAPS

Fields == {"offset", "volume", "status", "fills"}

\* Every journal entry has the fields of an entry.
WellFormed(entries) == \A id \in DOMAIN entries : DOMAIN entries[id] = Fields

\* The order being submitted is reserved, and not out yet.
ReservedOnly ==
    at = "prepared" =>
        /\ request.id \in DOMAIN journal
        /\ request.id \notin DOMAIN orders
        /\ journal[request.id].status = "prepared"

\* A submission returns to the loop, never to another submission's middle.
Returns == at \in {"prepared", "sent"} => request.back \in {"poll", "checkpoint"}

IInv == WellFormed(journal) /\ ReservedOnly /\ Returns /\ WriteAhead

\* What the steps that neither send nor write the journal leave alone.
Untouched == UNCHANGED <<orders, journal>>

-----------------------------------------------------------------------------

\* Changing the status of a well-formed entry keeps the rest of the journal.
LEMMA WithStatusKeeps ==
    ASSUME NEW entries, WellFormed(entries), NEW id, NEW status
    PROVE  LET after == WithStatus(entries, id, status)
           IN  /\ WellFormed(after)
               /\ DOMAIN after = DOMAIN entries
               /\ \A i \in DOMAIN entries :
                     /\ after[i].offset = entries[i].offset
                     /\ after[i].volume = entries[i].volume
                     /\ i # id => after[i] = entries[i]
                     /\ i = id => after[i].status = status
  BY DEF WithStatus, WellFormed, Fields

\* So does applying what the callbacks collected; and no applied update makes an
\* order one that was never sent.
LEMMA AppliedKeeps ==
    ASSUME NEW entries, WellFormed(entries), NEW updates
    PROVE  LET after == Applied(entries, updates)
           IN  /\ WellFormed(after)
               /\ DOMAIN after = DOMAIN entries
               /\ \A i \in DOMAIN entries :
                     /\ after[i].offset = entries[i].offset
                     /\ after[i].volume = entries[i].volume
                     /\ \/ after[i].status = entries[i].status
                        \/ after[i].status = "terminal"
  BY DEF Applied, WellFormed, Fields

\* The recovery of a restart disowns only what the exchange does not have.
LEMMA RecoveredKeeps ==
    ASSUME WellFormed(journal)
    PROVE  /\ WellFormed(Recovered)
           /\ DOMAIN Recovered = DOMAIN journal
           /\ \A i \in DOMAIN journal :
                 /\ Recovered[i].offset = journal[i].offset
                 /\ Recovered[i].volume = journal[i].volume
                 /\ i \in DOMAIN orders => Recovered[i].status = "terminal"
  BY DEF Recovered, WellFormed, Fields

-----------------------------------------------------------------------------

LEMMA InitIInv == Init => IInv
  BY DEF Init, IInv, WellFormed, ReservedOnly, Returns, WriteAhead

\* A step that leaves the exchange's orders and the journal alone, and neither
\* reserves nor goes on with a reservation, keeps the invariant.
LEMMA UntouchedIInv ==
    ASSUME IInv, Untouched,
           (at' = at /\ request' = request) \/ at' \notin {"prepared", "sent"}
    PROVE  IInv'
  BY DEF IInv, Untouched, WellFormed, ReservedOnly, Returns, WriteAhead

LEMMA ReserveIInv ==
    ASSUME IInv, NEW offset, NEW volume, NEW back \in {"poll", "checkpoint"},
           Reserve(offset, volume, back)
    PROVE  IInv'
  <1> DEFINE new == [offset |-> offset, volume |-> volume, status |-> "prepared",
                     fills |-> {}]
  <1>1. NextOrderId \notin DOMAIN journal
    BY DEF Reserve, CanReserve
  <1>2. /\ DOMAIN journal' = DOMAIN journal \cup {NextOrderId}
        /\ journal'[NextOrderId] = new
        /\ \A id \in DOMAIN journal : journal'[id] = journal[id]
    BY <1>1 DEF Reserve
  <1>3. /\ orders' = orders /\ at' = "prepared"
        /\ request'.id = NextOrderId /\ request'.back = back
    BY DEF Reserve, exchangeVars
  <1>4. DOMAIN new = Fields /\ new.status = "prepared"
    BY DEF Fields
  <1>5. WellFormed(journal)'
    BY <1>2, <1>4 DEF IInv, WellFormed
  <1>6. NextOrderId \notin DOMAIN orders
    BY <1>1 DEF IInv, WriteAhead
  <1>7. ReservedOnly'
    BY <1>2, <1>3, <1>4, <1>6 DEF ReservedOnly
  <1>8. WriteAhead'
    BY <1>2, <1>3 DEF IInv, WriteAhead
  <1>9. Returns'
    BY <1>3 DEF Returns
  <1> QED BY <1>5, <1>7, <1>8, <1>9 DEF IInv

LEMMA OfficialSendIInv ==
    ASSUME IInv, OfficialSend
    PROVE  IInv'
  <1>1. /\ journal' = journal /\ at = "prepared"
        /\ \/ at' = request.back
           \/ at' = "sent" /\ request' = request
    BY DEF OfficialSend, diskVars
  <1>2. \/ orders' = orders
        \/ orders' = [i \in DOMAIN orders \cup {request.id} |->
                         IF i = request.id THEN [offset |-> journal[request.id].offset,
                                                 volume |-> journal[request.id].volume]
                         ELSE orders[i]]
    BY DEF OfficialSend
  <1>3. request.back \in {"poll", "checkpoint"}
    BY <1>1 DEF IInv, Returns
  <1>4. WriteAhead'
    <2>1. /\ request.id \in DOMAIN journal
          /\ journal[request.id].status # "aborted_before_send"
      BY <1>1 DEF IInv, ReservedOnly
    <2> QED BY <1>1, <1>2, <2>1 DEF IInv, WriteAhead
  <1>5. ReservedOnly' /\ Returns'
    BY <1>1, <1>3 DEF ReservedOnly, Returns
  <1> QED BY <1>1, <1>4, <1>5 DEF IInv, WellFormed

\* The two later writes of send_order.
LEMMA AbortIInv ==
    ASSUME IInv, AbortBeforeSend
    PROVE  IInv'
  <1>1. /\ at = "prepared" /\ at' = request.back /\ orders' = orders
        /\ journal' = WithStatus(journal, request.id, "aborted_before_send")
    BY DEF AbortBeforeSend, exchangeVars
  <1>2. at' \in {"poll", "checkpoint"} /\ request.id \notin DOMAIN orders
    BY <1>1 DEF IInv, Returns, ReservedOnly
  <1>3. WellFormed(journal)
    BY DEF IInv
  <1> QED BY <1>1, <1>2, <1>3, WithStatusKeeps
          DEF IInv, ReservedOnly, Returns, WriteAhead

LEMMA MarkSubmittedIInv ==
    ASSUME IInv, MarkSubmitted
    PROVE  IInv'
  <1>1. /\ at = "sent" /\ at' = request.back /\ orders' = orders
        /\ journal' = WithStatus(journal, request.id, "submitted")
    BY DEF MarkSubmitted, exchangeVars
  <1>2. at' \in {"poll", "checkpoint"}
    BY <1>1 DEF IInv, Returns
  <1>3. WellFormed(journal)
    BY DEF IInv
  <1> QED BY <1>1, <1>2, <1>3, WithStatusKeeps
          DEF IInv, ReservedOnly, Returns, WriteAhead

\* The writes of a checkpoint and of a restart's recovery.
LEMMA CheckpointApplyIInv ==
    ASSUME IInv, CheckpointApply
    PROVE  IInv'
  <1>1. /\ at' \notin {"prepared", "sent"} /\ orders' = orders
        /\ journal' = journal \/ journal' = Applied(journal, pending)
    BY DEF CheckpointApply, exchangeVars
  <1>2. WellFormed(journal)
    BY DEF IInv
  <1> QED BY <1>1, <1>2, AppliedKeeps DEF IInv, ReservedOnly, Returns, WriteAhead

LEMMA VerifySessionIInv ==
    ASSUME IInv, VerifySession
    PROVE  IInv'
  <1>1. at' = "poll" /\ orders' = orders /\ journal' = Recovered
    BY DEF VerifySession, exchangeVars
  <1>2. WellFormed(journal)
    BY DEF IInv
  <1> QED BY <1>1, <1>2, RecoveredKeeps DEF IInv, ReservedOnly, Returns, WriteAhead

-----------------------------------------------------------------------------

LEMMA StepIInv == IInv /\ [Next]_vars => IInv'
  <1> SUFFICES ASSUME IInv, [Next]_vars PROVE IInv'
    OBVIOUS
  <1>1. CASE HandleEvent
    BY <1>1, UntouchedIInv DEF HandleEvent, Untouched, exchangeVars
  <1>2. CASE PollDone
    BY <1>2, UntouchedIInv DEF PollDone, Untouched, exchangeVars, diskVars
  <1>3. CASE Reduce
    <2>1. \/ \E volume : Reserve("CLOSE", volume, "checkpoint")
          \/ Untouched /\ at' = "checkpoint"
      BY <1>3 DEF Reduce, SendRefused, Untouched, exchangeVars, diskVars
    <2> QED BY <2>1, ReserveIInv, UntouchedIInv
  <1>4. CASE OfficialSend
    BY <1>4, OfficialSendIInv
  <1>5. CASE AbortBeforeSend
    BY <1>5, AbortIInv
  <1>6. CASE MarkSubmitted
    BY <1>6, MarkSubmittedIInv
  <1>7. CASE CheckpointApply
    BY <1>7, CheckpointApplyIInv
  <1>8. CASE CheckpointInstall
    BY <1>8, UntouchedIInv DEF CheckpointInstall, Untouched, exchangeVars
  <1>9. CASE Acknowledge
    BY <1>9, UntouchedIInv DEF Acknowledge, Untouched, exchangeVars, diskVars
  <1>10. CASE Rebalance
    <2>1. \/ \E offset, volume : Reserve(offset, volume, "poll")
          \/ Untouched /\ at' = "poll"
      BY <1>10 DEF Rebalance, Untouched, exchangeVars, diskVars
    <2> QED BY <2>1, ReserveIInv, UntouchedIInv
  <1>11. CASE Startup
    <2>1. CASE VerifySession
      BY <2>1, VerifySessionIInv
    <2>2. CASE Start \/ Snapshot \/ StartupOrdersSettled
      BY <2>2, UntouchedIInv
         DEF Start, Snapshot, StartupOrdersSettled, Starting, Untouched, exchangeVars, diskVars
    <2> QED BY <1>11, <2>1, <2>2 DEF Startup
  <1>12. CASE Down
    BY <1>12, UntouchedIInv DEF Down, Untouched, exchangeVars, diskVars
  <1>13. CASE EventThread
    BY <1>13, UntouchedIInv
       DEF EventThread, OrderCallback, AccountCallback, TradeCallback, TradeEnqueue,
           Dispatching, Untouched, exchangeVars, diskVars
  <1>14. CASE Exchange
    BY <1>14, UntouchedIInv
       DEF Exchange, ExFill, ExCancel, ExForeignFill, ExAccount, Untouched, diskVars
  <1>15. CASE UNCHANGED vars
    BY <1>15, UntouchedIInv DEF vars, Untouched, exchangeVars, diskVars
  <1> QED BY <1>1, <1>2, <1>3, <1>4, <1>5, <1>6, <1>7, <1>8, <1>9, <1>10, <1>11, <1>12,
             <1>13, <1>14, <1>15 DEF Next, RunOnce

\* An order the exchange has is in the durable journal with the same economics,
\* and not as one that was never sent (ctp.py send_order and restart recovery).
THEOREM WriteAheadHolds == Spec => []WriteAhead
  <1>1. IInv => WriteAhead
    BY DEF IInv
  <1> QED BY <1>1, InitIInv, StepIInv, PTL DEF Spec

-----------------------------------------------------------------------------
(***************************************************************************)
(* The journal neither forgets nor changes its mind: the action property    *)
(* JournalKeepsItsEvidence, for any number of sessions, orders and lots.     *)
(*                                                                           *)
(* A fill recorded for an order is a trade of that order at the exchange, so *)
(* the recovery of a restart, which rewrites the fills from the session      *)
(* query, loses none; and an order is final in the journal only if it is out *)
(* or never was, which WriteAhead and the identities in the callback queue   *)
(* keep apart.                                                               *)
(***************************************************************************)

\* The identities this program gives its orders; Foreign is none of them.
OwnId == Nat \X (Nat \ {0})

\* What VeighNa may have in its queue.
QueuedReturns ==
    [type : {"order"}, order : DOMAIN orders \cup {Foreign}, active : BOOLEAN]
        \cup [type : {"trade"}, trade : Nat]
        \cup [type : {"account"}, loss : BOOLEAN]

TypeInv ==
    /\ session \in Nat /\ orderRef \in Nat
    /\ DOMAIN journal \subseteq OwnId
    /\ DOMAIN known \subseteq DOMAIN journal
    /\ IsFiniteSet(DOMAIN orders) /\ live \subseteq DOMAIN orders
    /\ trades \in Seq(OwnId \cup {Foreign})
    /\ upstream \in Seq(QueuedReturns)
    /\ pending \in [terminal : SUBSET DOMAIN orders, fills : SUBSET Nat]

\* Recorded fills are trades of the order, and a final order was sent.
Evidence ==
    \A id \in DOMAIN journal :
        /\ journal[id].fills \subseteq TradesOf(id)
        /\ journal[id].status = "terminal" => id \in DOMAIN orders

\* The order being submitted is not final yet.
Submitting ==
    at \in {"prepared", "sent"} => journal[request.id].status = "prepared"

EInv == IInv /\ TypeInv /\ Evidence /\ Submitting

\* What is kept from one journal to the next.
Keeps(before, after) ==
    \A id \in DOMAIN before :
        /\ id \in DOMAIN after
        /\ before[id].fills \subseteq after[id].fills
        /\ before[id].status \in {"terminal", "aborted_before_send"}
              => after[id].status = before[id].status

-----------------------------------------------------------------------------

LEMMA SeqMonotone ==
    ASSUME NEW S, NEW T, S \subseteq T, NEW s \in Seq(S)
    PROVE  s \in Seq(T)
  OBVIOUS

LEMMA AppendTyped ==
    ASSUME NEW S, NEW s \in Seq(S), NEW e \in S
    PROVE  Append(s, e) \in Seq(S)
  OBVIOUS

LEMMA ForeignIsNotOwn == Foreign \notin OwnId
  BY DEF Foreign, OwnId

LEMMA InitEInv == Init => EInv
  <1> SUFFICES ASSUME Init PROVE EInv
    OBVIOUS
  <1>1. TypeInv
    BY FS_EmptySet DEF Init, TypeInv, Nothing
  <1>2. Evidence /\ Submitting
    BY DEF Init, Evidence, Submitting
  <1> QED BY <1>1, <1>2, InitIInv DEF EInv

\* Trades are only ever added, so what was a trade of an order stays one.
LEMMA TradesGrow ==
    ASSUME TypeInv, NEW o \in OwnId \cup {Foreign}, trades' = Append(trades, o)
    PROVE  /\ trades' \in Seq(OwnId \cup {Foreign})
           /\ \A id : TradesOf(id) \subseteq TradesOf(id)'
  BY DEF TypeInv, TradesOf

\* A new order or a new state of the exchange leaves what was queued well typed.
LEMMA ReturnsGrow ==
    ASSUME DOMAIN orders \subseteq DOMAIN orders', NEW q \in Seq(QueuedReturns)
    PROVE  q \in Seq(QueuedReturns')
  <1>1. QueuedReturns \subseteq QueuedReturns'
    BY DEF QueuedReturns
  <1> QED BY <1>1, SeqMonotone

\* Steps that touch neither the exchange, nor the journal, nor what the callbacks
\* collect, and neither begin nor continue a submission.
LEMMA QuietEInv ==
    ASSUME EInv, IInv',
           UNCHANGED <<orders, live, trades, journal, session, orderRef, known, upstream,
                       pending>>,
           (at' = at /\ request' = request) \/ at' \notin {"prepared", "sent"}
    PROVE  EInv' /\ Keeps(journal, journal')
  <1>1. TypeInv' /\ QueuedReturns' = QueuedReturns
    BY DEF EInv, TypeInv, QueuedReturns
  <1>2. Evidence' /\ Submitting'
    BY DEF EInv, Evidence, Submitting, TradesOf
  <1> QED BY <1>1, <1>2 DEF EInv, Keeps

-----------------------------------------------------------------------------
(* The exchange. *)

LEMMA PublishTyped ==
    ASSUME TypeInv, NEW events \in Seq(QueuedReturns), Publish(events)
    PROVE  upstream' \in Seq(QueuedReturns)
  BY DEF TypeInv, Publish

LEMMA ExchangeEInv ==
    ASSUME EInv, IInv', Exchange
    PROVE  EInv' /\ Keeps(journal, journal')
  <1>1. /\ UNCHANGED <<orders, journal, session, orderRef, known, pending, at, request>>
        /\ QueuedReturns' = QueuedReturns
    BY DEF Exchange, ExFill, ExCancel, ExForeignFill, ExAccount, diskVars, memoryVars,
           QueuedReturns
  <1>2. DOMAIN orders \subseteq OwnId
    BY DEF EInv, IInv, WriteAhead, TypeInv
  <1>3. /\ live' \subseteq DOMAIN orders
        /\ \/ trades' = trades
           \/ \E o \in OwnId \cup {Foreign} : trades' = Append(trades, o)
    BY <1>2 DEF Exchange, ExFill, ExCancel, ExForeignFill, ExAccount, EInv, TypeInv
  <1>4. /\ trades' \in Seq(OwnId \cup {Foreign})
        /\ \A id : TradesOf(id) \subseteq TradesOf(id)'
    BY <1>3, TradesGrow DEF EInv, TypeInv, TradesOf
  <1>5. upstream' \in Seq(QueuedReturns)
    <2>1. Len(trades) + 1 \in Nat
      BY DEF EInv, TypeInv
    <2>2. CASE \E id \in live : ExFill(id)
      <3>1. PICK id \in live : ExFill(id)
        BY <2>2
      <3>2. \A done \in BOOLEAN :
                <<OrderEvent(id, done), TradeEvent(Len(trades) + 1)>> \in Seq(QueuedReturns)
        BY <2>1 DEF EInv, TypeInv, QueuedReturns, OrderEvent, TradeEvent
      <3> QED BY <3>1, <3>2, PublishTyped DEF ExFill, EInv
    <2>3. CASE \E id \in live : ExCancel(id)
      <3>1. PICK id \in live : ExCancel(id)
        BY <2>3
      <3>2. <<OrderEvent(id, FALSE)>> \in Seq(QueuedReturns)
        BY DEF EInv, TypeInv, QueuedReturns, OrderEvent
      <3> QED BY <3>1, <3>2, PublishTyped DEF ExCancel, EInv
    <2>4. CASE ExForeignFill
      <3>1. <<OrderEvent(Foreign, FALSE), TradeEvent(Len(trades) + 1)>> \in Seq(QueuedReturns)
        BY <2>1 DEF QueuedReturns, OrderEvent, TradeEvent
      <3> QED BY <2>4, <3>1, PublishTyped DEF ExForeignFill, EInv
    <2>5. CASE \E loss \in BOOLEAN : ExAccount(loss)
      <3>1. PICK loss \in BOOLEAN : ExAccount(loss)
        BY <2>5
      <3>2. AccountEvent(loss) \in QueuedReturns
        BY DEF QueuedReturns, AccountEvent
      <3> QED BY <3>1, <3>2 DEF ExAccount, EInv, TypeInv
    <2> QED BY <2>2, <2>3, <2>4, <2>5 DEF Exchange
  <1>6. TypeInv'
    BY <1>1, <1>3, <1>4, <1>5 DEF EInv, TypeInv
  <1>7. Evidence' /\ Submitting'
    BY <1>1, <1>4 DEF EInv, Evidence, Submitting
  <1> QED BY <1>1, <1>6, <1>7 DEF EInv, Keeps

-----------------------------------------------------------------------------
(* The callbacks. *)

LEMMA EventThreadEInv ==
    ASSUME EInv, IInv', EventThread
    PROVE  EInv' /\ Keeps(journal, journal')
  <1>1. /\ UNCHANGED <<orders, live, trades, journal, session, orderRef, known, at, request>>
        /\ QueuedReturns' = QueuedReturns
    BY DEF EventThread, OrderCallback, AccountCallback, TradeCallback, TradeEnqueue,
           Dispatching, exchangeVars, diskVars, memoryVars, QueuedReturns
  <1>2. upstream' \in Seq(QueuedReturns)
    <2>1. \/ upstream' = upstream
          \/ upstream # <<>> /\ upstream' = Tail(upstream)
      BY DEF EventThread, OrderCallback, AccountCallback, TradeCallback, TradeEnqueue,
             Dispatching
    <2> QED BY <2>1 DEF EInv, TypeInv
  <1>3. pending' \in [terminal : SUBSET DOMAIN orders, fills : SUBSET Nat]
    <2>1. CASE OrderCallback
      <3>1. /\ Head(upstream) \in QueuedReturns /\ Head(upstream).type = "order"
        BY <2>1 DEF OrderCallback, Dispatching, EInv, TypeInv
      <3>2. Head(upstream).order \in DOMAIN orders \cup {Foreign}
        BY <3>1 DEF QueuedReturns
      <3>3. Foreign \notin DOMAIN known
        BY ForeignIsNotOwn DEF EInv, TypeInv
      <3>4. \/ pending' = pending
            \/ /\ Head(upstream).order \in DOMAIN known
               /\ pending' = [pending EXCEPT !.terminal = @ \cup {Head(upstream).order}]
        BY <2>1 DEF OrderCallback
      <3> QED BY <3>2, <3>3, <3>4 DEF EInv, TypeInv
    <2>2. CASE TradeCallback
      <3>1. /\ Head(upstream) \in QueuedReturns /\ Head(upstream).type = "trade"
        BY <2>2 DEF TradeCallback, Dispatching, EInv, TypeInv
      <3>2. Head(upstream).trade \in Nat
        BY <3>1 DEF QueuedReturns
      <3>3. \/ pending' = pending
            \/ pending' = [pending EXCEPT !.fills = @ \cup {Head(upstream).trade}]
        BY <2>2 DEF TradeCallback
      <3> QED BY <3>2, <3>3 DEF EInv, TypeInv
    <2>3. CASE AccountCallback \/ TradeEnqueue
      BY <2>3 DEF AccountCallback, TradeEnqueue, memoryVars, EInv, TypeInv
    <2> QED BY <2>1, <2>2, <2>3 DEF EventThread
  <1>4. TypeInv'
    BY <1>1, <1>2, <1>3 DEF EInv, TypeInv
  <1>5. Evidence' /\ Submitting'
    BY <1>1 DEF EInv, Evidence, Submitting, TradesOf
  <1> QED BY <1>1, <1>4, <1>5 DEF EInv, Keeps

-----------------------------------------------------------------------------
(* The engine thread: one submission. *)

LEMMA ReserveEInv ==
    ASSUME EInv, IInv', NEW offset, NEW volume, NEW back, Reserve(offset, volume, back)
    PROVE  EInv' /\ Keeps(journal, journal')
  <1> DEFINE new == [offset |-> offset, volume |-> volume, status |-> "prepared",
                     fills |-> {}]
  <1>1. /\ UNCHANGED <<orders, live, trades, session, orderRef, upstream, pending>>
        /\ QueuedReturns' = QueuedReturns
    BY DEF Reserve, exchangeVars, queueVars, QueuedReturns
  <1>2. /\ NextOrderId \notin DOMAIN journal
        /\ DOMAIN journal' = DOMAIN journal \cup {NextOrderId}
        /\ DOMAIN known' = DOMAIN known \cup {NextOrderId}
        /\ journal'[NextOrderId] = new
        /\ \A id \in DOMAIN journal : journal'[id] = journal[id]
        /\ request'.id = NextOrderId
    BY DEF Reserve, CanReserve
  <1>3. NextOrderId \in OwnId
    BY DEF EInv, TypeInv, NextOrderId, OwnId
  <1>4. TypeInv'
    BY <1>1, <1>2, <1>3 DEF EInv, TypeInv
  <1>5. Evidence'
    BY <1>1, <1>2 DEF EInv, Evidence, TradesOf
  <1>6. Submitting'
    BY <1>2 DEF Submitting
  <1>7. Keeps(journal, journal')
    BY <1>2 DEF Keeps
  <1> QED BY <1>4, <1>5, <1>6, <1>7 DEF EInv

LEMMA OfficialSendEInv ==
    ASSUME EInv, IInv', OfficialSend
    PROVE  EInv' /\ Keeps(journal, journal')
  <1>1. /\ UNCHANGED <<trades, journal, session, known, pending>>
        /\ orderRef' = orderRef + 1 /\ at = "prepared"
        /\ (at' = "sent" /\ request' = request) \/ at' = request.back
    BY DEF OfficialSend, diskVars
  <1>2. \/ UNCHANGED <<orders, live, upstream>>
        \/ /\ DOMAIN orders' = DOMAIN orders \cup {request.id}
           /\ live' = live \cup {request.id}
           /\ upstream' = Append(upstream, OrderEvent(request.id, TRUE))
    BY DEF OfficialSend
  <1>3. DOMAIN orders \subseteq DOMAIN orders'
    BY <1>2
  <1>4. upstream' \in Seq(QueuedReturns')
    <2>1. upstream \in Seq(QueuedReturns')
      BY <1>3, ReturnsGrow DEF EInv, TypeInv
    <2>2. CASE upstream' = Append(upstream, OrderEvent(request.id, TRUE))
                /\ request.id \in DOMAIN orders'
      <3>1. OrderEvent(request.id, TRUE) \in QueuedReturns'
        BY <2>2 DEF OrderEvent, QueuedReturns
      <3> QED BY <2>1, <2>2, <3>1, AppendTyped
    <2> QED BY <1>2, <2>1, <2>2
  <1>5. IsFiniteSet(DOMAIN orders') /\ live' \subseteq DOMAIN orders'
    <2>1. IsFiniteSet(DOMAIN orders) /\ live \subseteq DOMAIN orders
      BY DEF EInv, TypeInv
    <2>2. IsFiniteSet(DOMAIN orders \cup {request.id})
      BY <2>1, FS_AddElement
    <2>3. CASE UNCHANGED <<orders, live>>
      BY <2>1, <2>3
    <2>4. CASE DOMAIN orders' = DOMAIN orders \cup {request.id}
               /\ live' = live \cup {request.id}
      BY <2>1, <2>2, <2>4
    <2> QED BY <1>2, <2>3, <2>4
  <1>6. TypeInv'
    BY <1>1, <1>3, <1>4, <1>5 DEF EInv, TypeInv
  <1>7. Evidence'
    BY <1>1, <1>3 DEF EInv, Evidence, TradesOf
  <1>8. Submitting'
    BY <1>1 DEF EInv, IInv, Returns, Submitting
  <1> QED BY <1>1, <1>6, <1>7, <1>8 DEF EInv, Keeps

\* The two later writes of send_order change the status of an order that is
\* still prepared.
LEMMA StatusEInv ==
    ASSUME EInv, IInv', NEW status \in {"submitted", "aborted_before_send"},
           at \in {"prepared", "sent"}, at' = request.back,
           journal' = WithStatus(journal, request.id, status),
           known' = WithStatus(known, request.id, status),
           UNCHANGED <<orders, live, trades, session, orderRef, upstream, pending>>
    PROVE  EInv' /\ Keeps(journal, journal')
  <1>1. /\ at' \in {"poll", "checkpoint"}
        /\ request.id \in DOMAIN journal => journal[request.id].status = "prepared"
    BY DEF EInv, IInv, Returns, Submitting
  <1>2. /\ DOMAIN journal' = DOMAIN journal /\ DOMAIN known' = DOMAIN known
        /\ \A id \in DOMAIN journal :
              /\ journal'[id].fills = journal[id].fills
              /\ id # request.id => journal'[id].status = journal[id].status
              /\ id = request.id => journal'[id].status = status
    BY DEF WithStatus, EInv, IInv, WellFormed, Fields
  <1>3. TypeInv'
    BY <1>2 DEF EInv, TypeInv, QueuedReturns
  <1>4. Evidence' /\ Submitting'
    BY <1>1, <1>2 DEF EInv, Evidence, Submitting, TradesOf
  <1>5. Keeps(journal, journal')
    BY <1>1, <1>2 DEF Keeps
  <1> QED BY <1>3, <1>4, <1>5 DEF EInv

-----------------------------------------------------------------------------
(* The engine thread: checkpoints, and a restart. *)

\* What the callbacks collected makes final only orders that were sent, and adds
\* to an order only its own trades.
LEMMA CheckpointApplyEInv ==
    ASSUME EInv, IInv', CheckpointApply
    PROVE  EInv' /\ Keeps(journal, journal')
  <1>1. /\ UNCHANGED <<orders, live, trades, session, orderRef, upstream, pending>>
        /\ at' \notin {"prepared", "sent"}
        /\ known' = known
        /\ journal' = Applied(journal, pending) \/ journal' = journal
    BY DEF CheckpointApply, exchangeVars, queueVars
  <1>2. CASE journal' = journal
    <2>1. TypeInv'
      BY <1>1, <1>2 DEF EInv, TypeInv, QueuedReturns
    <2> QED BY <1>1, <1>2, <2>1 DEF EInv, Evidence, Submitting, TradesOf, Keeps
  <1>3. CASE journal' = Applied(journal, pending)
    <2>1. /\ DOMAIN journal' = DOMAIN journal
          /\ \A id \in DOMAIN journal :
                /\ journal'[id].fills = journal[id].fills \cup (pending.fills \cap TradesOf(id))
                /\ journal'[id].status =
                      IF id \in pending.terminal THEN "terminal" ELSE journal[id].status
      BY <1>3 DEF Applied, EInv, IInv, WellFormed, Fields
    <2>2. pending.terminal \subseteq DOMAIN orders
      BY DEF EInv, TypeInv
    <2>3. TypeInv'
      BY <1>1, <2>1 DEF EInv, TypeInv, QueuedReturns
    <2>4. Evidence'
      BY <1>1, <2>1, <2>2 DEF EInv, Evidence, TradesOf
    <2>5. Keeps(journal, journal')
      BY <2>1, <2>2 DEF EInv, IInv, WriteAhead, Keeps
    <2> QED BY <1>1, <2>3, <2>4, <2>5 DEF EInv, Submitting
  <1> QED BY <1>1, <1>2, <1>3

LEMMA CheckpointInstallEInv ==
    ASSUME EInv, IInv', CheckpointInstall
    PROVE  EInv' /\ Keeps(journal, journal')
  <1>1. /\ UNCHANGED <<orders, live, trades, journal, session, orderRef, upstream>>
        /\ at' \notin {"prepared", "sent"}
        /\ pending' = Remaining
        /\ DOMAIN known' \subseteq DOMAIN journal
    BY DEF CheckpointInstall, Install, Applied, EInv, TypeInv, exchangeVars, queueVars
  <1>2. pending' \in [terminal : SUBSET DOMAIN orders, fills : SUBSET Nat]
    BY <1>1 DEF Remaining, EInv, TypeInv
  <1>3. TypeInv'
    BY <1>1, <1>2 DEF EInv, TypeInv, QueuedReturns
  <1> QED BY <1>1, <1>3 DEF EInv, Evidence, Submitting, TradesOf, Keeps

LEMMA VerifySessionEInv ==
    ASSUME EInv, IInv', VerifySession
    PROVE  EInv' /\ Keeps(journal, journal')
  <1>1. /\ UNCHANGED <<orders, live, trades, session, orderRef, upstream, pending>>
        /\ at' = "poll" /\ journal' = Recovered /\ known' = Recovered
    BY DEF VerifySession, Install, exchangeVars
  <1>2. /\ DOMAIN Recovered = DOMAIN journal
        /\ \A id \in DOMAIN journal :
              /\ Recovered[id].fills = TradesOf(id)
              /\ Recovered[id].status =
                    IF id \in DOMAIN orders THEN "terminal" ELSE "aborted_before_send"
    BY DEF Recovered, EInv, IInv, WellFormed, Fields
  <1>3. TypeInv'
    BY <1>1, <1>2 DEF EInv, TypeInv, QueuedReturns
  <1>4. Evidence'
    BY <1>1, <1>2 DEF Evidence, TradesOf
  <1>5. Keeps(journal, journal')
    BY <1>1, <1>2 DEF EInv, IInv, WriteAhead, Evidence, Keeps
  <1> QED BY <1>1, <1>3, <1>4, <1>5 DEF EInv, Submitting

LEMMA ReplayedTyped ==
    ASSUME TypeInv, NEW ids \in Orderings(DOMAIN orders)
    PROVE  Replayed(ids) \in Seq(QueuedReturns)
  <1> DEFINE first == [i \in DOMAIN ids |-> OrderEvent(ids[i], ids[i] \in live)]
             second == [n \in DOMAIN trades |-> TradeEvent(n)]
  <1>1. \E n \in Nat : DOMAIN ids = 1..n /\ \A i \in 1..n : ids[i] \in DOMAIN orders
    BY FS_CardinalityType DEF Orderings, TypeInv
  <1>2. first \in Seq(QueuedReturns)
    BY <1>1 DEF OrderEvent, QueuedReturns
  <1>3. second \in Seq(QueuedReturns)
    BY DEF TypeInv, TradeEvent, QueuedReturns
  <1> QED BY <1>2, <1>3 DEF Replayed

LEMMA StartEInv ==
    ASSUME EInv, IInv', Start
    PROVE  EInv' /\ Keeps(journal, journal')
  <1>1. /\ UNCHANGED <<orders, live, trades, journal>>
        /\ at' = "starting" /\ session' = session + 1 /\ orderRef' = 0
        /\ known' = journal /\ pending' = Nothing
        /\ QueuedReturns' = QueuedReturns
    BY DEF Start, exchangeVars, diskVars, QueuedReturns
  <1>2. upstream' \in Seq(QueuedReturns)
    BY ReplayedTyped DEF Start, EInv
  <1>3. TypeInv'
    BY <1>1, <1>2 DEF EInv, TypeInv, Nothing
  <1> QED BY <1>1, <1>3 DEF EInv, Evidence, Submitting, TradesOf, Keeps

LEMMA DownEInv ==
    ASSUME EInv, IInv', Down
    PROVE  EInv' /\ Keeps(journal, journal')
  <1>1. /\ UNCHANGED <<orders, live, trades, journal, session>>
        /\ at' = "down" /\ orderRef' = 0 /\ known' = <<>> /\ pending' = Nothing
        /\ upstream' = <<>> /\ QueuedReturns' = QueuedReturns
    BY DEF Down, exchangeVars, diskVars, QueuedReturns
  <1>2. TypeInv'
    BY <1>1 DEF EInv, TypeInv, Nothing
  <1> QED BY <1>1, <1>2 DEF EInv, Evidence, Submitting, TradesOf, Keeps

-----------------------------------------------------------------------------

LEMMA StepEInv == EInv /\ [Next]_vars => EInv' /\ Keeps(journal, journal')
  <1> SUFFICES ASSUME EInv, [Next]_vars PROVE EInv' /\ Keeps(journal, journal')
    OBVIOUS
  <1>0. IInv'
    BY StepIInv DEF EInv
  <1> DEFINE Unread == UNCHANGED <<orders, live, trades, journal, session, orderRef, known,
                                   upstream, pending>>
  <1>1. CASE HandleEvent \/ PollDone \/ Acknowledge
    <2>1. Unread /\ ((at' = at /\ request' = request) \/ at' \notin {"prepared", "sent"})
      BY <1>1 DEF HandleEvent, PollDone, Acknowledge, exchangeVars, diskVars, memoryVars,
                  queueVars
    <2> QED BY <1>0, <2>1, QuietEInv
  <1>2. CASE Reduce \/ Rebalance
    <2>1. \/ \E offset, volume, back : Reserve(offset, volume, back)
          \/ Unread /\ at' \notin {"prepared", "sent"}
      BY <1>2 DEF Reduce, Rebalance, SendRefused, exchangeVars, diskVars, memoryVars, queueVars
    <2> QED BY <1>0, <2>1, ReserveEInv, QuietEInv
  <1>3. CASE OfficialSend
    BY <1>0, <1>3, OfficialSendEInv
  <1>4. CASE AbortBeforeSend
    BY <1>0, <1>4, StatusEInv DEF AbortBeforeSend, exchangeVars, queueVars
  <1>5. CASE MarkSubmitted
    BY <1>0, <1>5, StatusEInv DEF MarkSubmitted, exchangeVars, queueVars
  <1>6. CASE CheckpointApply
    BY <1>0, <1>6, CheckpointApplyEInv
  <1>7. CASE CheckpointInstall
    BY <1>0, <1>7, CheckpointInstallEInv
  <1>8. CASE Startup
    <2>1. CASE Snapshot \/ StartupOrdersSettled
      <3>1. Unread /\ ((at' = at /\ request' = request) \/ at' \notin {"prepared", "sent"})
        BY <2>1 DEF Snapshot, StartupOrdersSettled, exchangeVars, diskVars, memoryVars, queueVars
      <3> QED BY <1>0, <3>1, QuietEInv
    <2> QED BY <1>0, <1>8, <2>1, StartEInv, VerifySessionEInv DEF Startup
  <1>9. CASE Down
    BY <1>0, <1>9, DownEInv
  <1>10. CASE EventThread
    BY <1>0, <1>10, EventThreadEInv
  <1>11. CASE Exchange
    BY <1>0, <1>11, ExchangeEInv
  <1>12. CASE UNCHANGED vars
    BY <1>0, <1>12, QuietEInv
       DEF vars, exchangeVars, diskVars, memoryVars, queueVars
  <1> QED BY <1>1, <1>2, <1>3, <1>4, <1>5, <1>6, <1>7, <1>8, <1>9, <1>10, <1>11, <1>12
          DEF Next, RunOnce

\* The journal neither forgets an order or a fill nor takes back a final status,
\* whatever is checkpointed, recovered after a crash or aborted
\* (ctp_order_journal.py apply_updates, ctp.py recover_stress90_session_activity).
THEOREM JournalKeepsItsEvidenceHolds == Spec => JournalKeepsItsEvidence
  <1>1. EInv /\ [Next]_vars
           => [\A id \in DOMAIN journal :
                  /\ id \in DOMAIN journal'
                  /\ journal[id].fills \subseteq journal'[id].fills
                  /\ journal[id].status \in {"terminal", "aborted_before_send"}
                        => journal'[id].status = journal[id].status]_vars
    BY StepEInv DEF Keeps
  <1> QED BY <1>1, InitEInv, StepEInv, PTL DEF Spec, JournalKeepsItsEvidence

\* Every fill the journal has recorded is a trade of that order at the exchange,
\* and an order it holds final was sent.
THEOREM EvidenceHolds == Spec => []Evidence
  <1>1. EInv => Evidence
    BY DEF EInv
  <1> QED BY <1>1, InitEInv, StepEInv, PTL DEF Spec

-----------------------------------------------------------------------------
(***************************************************************************)
(* The memory of the process follows the disk (FollowsDisk), for any number  *)
(* of sessions, orders and lots: the entries it works with are those of the  *)
(* journal, but for the moment between the two halves of a checkpoint, and   *)
(* every trade it has seen was there at the start, is recorded, or is        *)
(* pending for the next checkpoint.  What RecordsAgreeAtBoundary needs of    *)
(* the journal rests on it, and so does EnoughSlots, in the second part.     *)
(*                                                                           *)
(* It is inductive together with EInv and with the types of the rest of the  *)
(* state: an event in a queue is of a trade that has happened, every trade   *)
(* is of an order that was sent, and no position is short.                   *)
(***************************************************************************)

\* The trades a queue has an event of.
QueuedIn(q) == {q[i].trade : i \in {j \in DOMAIN q : q[j].type = "trade"}}

\* What the FIFO may hold.
Events == QueuedReturns \cup {BrokerError}

\* The engine has counted own trades only, and knew the seeded ones before.
EngineTyped ==
    /\ engine \in [lots : Nat, ids : SUBSET DOMAIN trades,
                   mode : {"RUNNING", "REDUCE_ONLY", "HALTED"}]
    /\ \A n \in engine.ids : trades[n] # Foreign
    /\ seeded \subseteq engine.ids

\* No position is ever short, and every trade belongs to an order that was sent.
LotsTyped ==
    /\ mirror \in Nat /\ ExchangeLots \in Nat
    /\ \A n \in DOMAIN trades : trades[n] \in DOMAIN orders \cup {Foreign}

\* Queued trades have happened.
QueuesTyped ==
    /\ fifo \in Seq(Events)
    /\ QueuedIn(upstream) \cup QueuedIn(fifo) \subseteq DOMAIN trades
    /\ handling \in DOMAIN trades \cup {NoTrade}

EntriesTyped ==
    /\ IsFiniteSet(DOMAIN journal)
    /\ \A id \in DOMAIN journal : /\ journal[id].offset \in {"OPEN", "CLOSE"}
                                  /\ journal[id].volume \in Nat
    /\ snapshot \in [terminal : SUBSET DOMAIN orders, fills : SUBSET Nat]

RecordTypes == EngineTyped /\ LotsTyped /\ QueuesTyped /\ EntriesTyped

Installing == at \in {"install", "verify install"}

\* The process's memory follows the disk: its entries lag behind the journal only
\* between the two halves of a checkpoint, and a trade it has seen was seeded, is
\* recorded or waits for the next checkpoint.
FollowsDisk ==
    Up => /\ WellFormed(known)
          /\ IF Installing THEN journal = Applied(known, snapshot) ELSE known = journal
          /\ seen = seeded \cup FillsOf(journal) \cup pending.fills
          /\ pending.fills \cup snapshot.fills
                \subseteq {n \in DOMAIN trades : trades[n] \in DOMAIN known}
          /\ \A id \in DOMAIN known \cap DOMAIN orders :
                known[id].status # "aborted_before_send"
          /\ QueuedIn(fifo) \cup ({handling} \ {NoTrade}) \cup engine.ids \subseteq seen

MInv == EInv /\ RecordTypes /\ FollowsDisk

-----------------------------------------------------------------------------
(* Queues. *)

\* A queued event adds its trade, if it tells one.
LEMMA QueuedAppend ==
    ASSUME NEW S, NEW q \in Seq(S), NEW e \in S
    PROVE  QueuedIn(Append(q, e)) = QueuedIn(q) \cup (IF e.type = "trade" THEN {e.trade} ELSE {})
  <1>1. /\ DOMAIN q = 1..Len(q) /\ Len(q) \in Nat
        /\ DOMAIN Append(q, e) = 1..(Len(q) + 1)
        /\ \A i \in 1..Len(q) : Append(q, e)[i] = q[i]
        /\ Append(q, e)[Len(q) + 1] = e
    OBVIOUS
  <1> QED BY <1>1 DEF QueuedIn

\* A removed event takes at most its own trade.
LEMMA QueuedTail ==
    ASSUME NEW S, NEW q \in Seq(S), q # <<>>
    PROVE  /\ QueuedIn(q) = QueuedIn(Tail(q))
                              \cup (IF Head(q).type = "trade" THEN {Head(q).trade} ELSE {})
           /\ Tail(q) \in Seq(S) /\ Head(q) \in S
  <1>1. /\ DOMAIN q = 1..Len(q) /\ Len(q) \in Nat \ {0}
        /\ DOMAIN Tail(q) = 1..(Len(q) - 1)
        /\ \A i \in 1..(Len(q) - 1) : Tail(q)[i] = q[i + 1]
        /\ Head(q) = q[1] /\ Tail(q) \in Seq(S) /\ Head(q) \in S
    OBVIOUS
  <1>2. \A j \in DOMAIN q : j = 1 \/ j - 1 \in DOMAIN Tail(q)
    BY <1>1
  <1>3. QueuedIn(q) \subseteq QueuedIn(Tail(q))
                              \cup (IF Head(q).type = "trade" THEN {Head(q).trade} ELSE {})
    <2> SUFFICES ASSUME NEW i \in DOMAIN q, q[i].type = "trade"
                 PROVE  \/ q[i].trade \in QueuedIn(Tail(q))
                        \/ i = 1
      BY <1>1 DEF QueuedIn
    <2>1. CASE i # 1
      <3>1. i - 1 \in DOMAIN Tail(q) /\ Tail(q)[i - 1] = q[i]
        BY <1>1, <2>1
      <3> QED BY <3>1 DEF QueuedIn
    <2> QED BY <2>1
  <1>4. QueuedIn(Tail(q)) \subseteq QueuedIn(q)
    <2> SUFFICES ASSUME NEW i \in DOMAIN Tail(q), Tail(q)[i].type = "trade"
                 PROVE  Tail(q)[i].trade \in QueuedIn(q)
      BY DEF QueuedIn
    <2>1. i + 1 \in DOMAIN q /\ q[i + 1] = Tail(q)[i]
      BY <1>1
    <2> QED BY <2>1 DEF QueuedIn
  <1>5. Head(q).type = "trade" => Head(q).trade \in QueuedIn(q)
    BY <1>1 DEF QueuedIn
  <1> QED BY <1>1, <1>3, <1>4, <1>5

\* Joined queues tell what either tells.
LEMMA QueuedConcat ==
    ASSUME NEW S, NEW p \in Seq(S), NEW q \in Seq(S)
    PROVE  QueuedIn(p \o q) = QueuedIn(p) \cup QueuedIn(q)
  <1>1. /\ DOMAIN p = 1..Len(p) /\ DOMAIN q = 1..Len(q) /\ Len(p) \in Nat /\ Len(q) \in Nat
        /\ DOMAIN (p \o q) = 1..(Len(p) + Len(q))
        /\ \A i \in DOMAIN p : (p \o q)[i] = p[i]
        /\ \A i \in DOMAIN q : (p \o q)[i + Len(p)] = q[i]
    OBVIOUS
  <1>2. \A i \in DOMAIN (p \o q) : i \in DOMAIN p \/ i - Len(p) \in DOMAIN q
    BY <1>1
  <1>3. QueuedIn(p \o q) \subseteq QueuedIn(p) \cup QueuedIn(q)
    <2> SUFFICES ASSUME NEW i \in DOMAIN (p \o q), (p \o q)[i].type = "trade"
                 PROVE  (p \o q)[i].trade \in QueuedIn(p) \cup QueuedIn(q)
      BY DEF QueuedIn
    <2>1. CASE i \in DOMAIN p
      BY <1>1, <2>1 DEF QueuedIn
    <2>2. CASE i - Len(p) \in DOMAIN q
      <3>1. (p \o q)[i] = q[i - Len(p)]
        BY <1>1, <2>2
      <3> QED BY <2>2, <3>1 DEF QueuedIn
    <2> QED BY <1>2, <2>1, <2>2
  <1>4. QueuedIn(p) \subseteq QueuedIn(p \o q)
    BY <1>1 DEF QueuedIn
  <1>5. QueuedIn(q) \subseteq QueuedIn(p \o q)
    <2> SUFFICES ASSUME NEW i \in DOMAIN q, q[i].type = "trade"
                 PROVE  q[i].trade \in QueuedIn(p \o q)
      BY DEF QueuedIn
    <2>1. i + Len(p) \in DOMAIN (p \o q) /\ (p \o q)[i + Len(p)] = q[i]
      BY <1>1
    <2> QED BY <2>1 DEF QueuedIn
  <1> QED BY <1>3, <1>4, <1>5

-----------------------------------------------------------------------------
(***************************************************************************)
(* Sums over finite sets.  The sum is a recursive function on the subsets    *)
(* of the set, so every lemma is an induction over data.  It is stated       *)
(* without an operator parameter: a set of natural numbers that are          *)
(* counterexamples has a least element, because < is well founded.           *)
(***************************************************************************)

\* Every non-empty set of natural numbers has a least element.
LEMMA LeastNatural ==
    ASSUME NEW T \in SUBSET Nat, T # {}
    PROVE  \E m \in T : \A n \in T : m <= n
  <1> DEFINE R == OpToRel(<, Nat)
  <1>1. IsWellFoundedOn(R, Nat)
    BY NatLessThanWellFounded
  <1>2. \A x \in Nat, y \in Nat : <<y, x>> \in R <=> y < x
    BY DEF OpToRel
  <1> HIDE DEF R
  <1>3. PICK m \in T : \A y \in T : ~ (<<y, m>> \in R)
    BY <1>1, WFMin
  <1>4. \A n \in T : ~ (n < m)
    BY <1>2, <1>3
  <1>5. m \in Nat /\ \A n \in T : n \in Nat
    OBVIOUS
  <1> QED BY <1>4, <1>5

\* So a set of natural numbers that holds 0 and every successor of its elements
\* holds them all.
LEMMA NatByInduction ==
    ASSUME NEW P \in SUBSET Nat, 0 \in P, \A n \in P : n + 1 \in P
    PROVE  P = Nat
  <1> SUFFICES ASSUME Nat \ P # {} PROVE FALSE
    OBVIOUS
  <1>1. PICK m \in Nat \ P : \A n \in Nat \ P : m <= n
    BY LeastNatural
  <1>2. m # 0 /\ m - 1 \in Nat
    BY <1>1
  <1>3. m - 1 \in P
    BY <1>1, <1>2
  <1> QED BY <1>1, <1>2, <1>3

\* The element the fold takes first.
First(s) == CHOOSE x \in s : TRUE

\* A function on the subsets of a set that adds up as the fold does.
IsFold(g, f, D) ==
    g = [s \in D |-> IF s = {} THEN 0 ELSE f[First(s)] + g[s \ {First(s)}]]

\* The sum is the fold of the community modules.
LEMMA SumIsFold ==
    ASSUME NEW f, NEW S
    PROVE  SumFunctionOnSet(f, S) = (CHOOSE g : IsFold(g, f, SUBSET S))[S]
  BY DEF SumFunctionOnSet, FoldFunctionOnSet, MapThenFoldSet, IsFold, First

\* The element a fold takes first is an element of the set.
LEMMA FirstIn ==
    ASSUME NEW s, s # {}
    PROVE  First(s) \in s
  BY DEF First

\* The set without the element a fold takes first is one smaller.
LEMMA WithoutFirst ==
    ASSUME NEW s, IsFiniteSet(s), s # {}
    PROVE  /\ IsFiniteSet(s \ {First(s)})
           /\ Cardinality(s \ {First(s)}) = Cardinality(s) - 1
           /\ Cardinality(s) \in Nat \ {0}
  <1>1. First(s) \in s
    BY FirstIn
  <1> QED BY <1>1, FS_RemoveElement, FS_CardinalityType, FS_EmptySet

\* Such a function exists: it is built up by the size of the subsets.
LEMMA FoldExists ==
    ASSUME NEW f, NEW S, IsFiniteSet(S)
    PROVE  \E g : IsFold(g, f, SUBSET S)
  <1> DEFINE Upto(n) == {s \in SUBSET S : Cardinality(s) <= n}
             P == {n \in Nat : \E g : IsFold(g, f, Upto(n))}
  <1>1. \A s \in SUBSET S : IsFiniteSet(s) /\ Cardinality(s) \in Nat
    BY FS_Subset, FS_CardinalityType
  <1>2. 0 \in P
    <2> DEFINE g == [s \in Upto(0) |-> 0]
    <2>1. \A s \in Upto(0) : s = {}
      BY <1>1, FS_EmptySet
    <2>2. IsFold(g, f, Upto(0))
      BY <2>1 DEF IsFold
    <2> QED BY <2>2
  <1>3. ASSUME NEW n \in P PROVE n + 1 \in P
    <2>1. PICK h : IsFold(h, f, Upto(n))
      OBVIOUS
    <2> DEFINE g == [s \in Upto(n + 1) |->
                        IF s = {} THEN 0 ELSE f[First(s)] + h[s \ {First(s)}]]
    <2>2. \A s \in Upto(n) : s \in Upto(n + 1)
      BY <1>1
    <2>3. \A s \in Upto(n) : g[s] = h[s]
      BY <2>1, <2>2 DEF IsFold
    <2>4. \A s \in Upto(n + 1) : s # {} => s \ {First(s)} \in Upto(n)
      BY <1>1, WithoutFirst
    <2> HIDE DEF Upto
    <2>5. g = [s \in Upto(n + 1) |->
                  IF s = {} THEN 0 ELSE f[First(s)] + g[s \ {First(s)}]]
      BY <2>3, <2>4
    <2>6. IsFold(g, f, Upto(n + 1))
      BY <2>5 DEF IsFold
    <2> HIDE DEF g
    <2>7. n + 1 \in Nat
      OBVIOUS
    <2> QED BY <2>6, <2>7
  <1> HIDE DEF P
  <1>4. P = Nat
    BY <1>2, <1>3, NatByInduction DEF P
  <1>5. Cardinality(S) \in P
    BY <1>1, <1>4
  <1>6. Upto(Cardinality(S)) = SUBSET S
    BY <1>1, FS_Subset
  <1> QED BY <1>5, <1>6 DEF P

\* And it is unique, whatever set it was built for and however the summands are
\* given outside the set summed over.
LEMMA FoldUnique ==
    ASSUME NEW S, NEW T, NEW f, NEW h, NEW g, NEW k, NEW U, IsFiniteSet(U),
           U \subseteq S, U \subseteq T, \A x \in U : f[x] = h[x],
           IsFold(g, f, SUBSET S), IsFold(k, h, SUBSET T)
    PROVE  g[U] = k[U]
  <1> DEFINE P == {n \in Nat : \A s \in SUBSET U : Cardinality(s) = n => g[s] = k[s]}
  <1>1. \A s \in SUBSET U : IsFiniteSet(s) /\ Cardinality(s) \in Nat
    BY FS_Subset, FS_CardinalityType
  <1>2. \A s \in SUBSET U : s # {} => /\ g[s] = f[First(s)] + g[s \ {First(s)}]
                                      /\ k[s] = h[First(s)] + k[s \ {First(s)}]
    BY DEF IsFold
  <1>3. g[{}] = 0 /\ k[{}] = 0
    BY DEF IsFold
  <1>4. 0 \in P
    BY <1>1, <1>3, FS_EmptySet
  <1>5. ASSUME NEW n \in P PROVE n + 1 \in P
    <2> SUFFICES ASSUME NEW s \in SUBSET U, Cardinality(s) = n + 1 PROVE g[s] = k[s]
      OBVIOUS
    <2>1. s # {}
      <3>1. n \in Nat /\ Cardinality({}) = 0
        BY FS_EmptySet
      <3> QED BY <3>1
    <2>2. /\ Cardinality(s \ {First(s)}) = n /\ s \ {First(s)} \in SUBSET U
          /\ First(s) \in U
      BY <1>1, <2>1, WithoutFirst, FirstIn
    <2> QED BY <1>2, <2>1, <2>2
  <1> HIDE DEF P
  <1>6. P = Nat
    BY <1>4, <1>5, NatByInduction DEF P
  <1> QED BY <1>1, <1>6 DEF P

\* So the fold of a set is that of a smaller one, where both are.
LEMMA FoldRestricts ==
    ASSUME NEW S, NEW f, NEW g, NEW k, NEW U, IsFiniteSet(U), U \subseteq S,
           IsFold(g, f, SUBSET S), IsFold(k, f, SUBSET U)
    PROVE  g[U] = k[U]
  <1>1. U \subseteq U /\ \A x \in U : f[x] = f[x]
    OBVIOUS
  <1> QED BY <1>1, FoldUnique

\* The sum, with the element a fold takes first taken out.
LEMMA SumUnfold ==
    ASSUME NEW f, NEW S, IsFiniteSet(S)
    PROVE  /\ S = {} => SumFunctionOnSet(f, S) = 0
           /\ S # {} => SumFunctionOnSet(f, S)
                           = f[First(S)] + SumFunctionOnSet(f, S \ {First(S)})
  <1> DEFINE g == CHOOSE g : IsFold(g, f, SUBSET S)
             R == S \ {First(S)}
             h == CHOOSE h : IsFold(h, f, SUBSET R)
  <1>1. IsFiniteSet(R)
    BY FS_Subset
  <1>2. IsFold(g, f, SUBSET S) /\ IsFold(h, f, SUBSET R)
    BY <1>1, FoldExists
  <1>3. SumFunctionOnSet(f, S) = g[S] /\ SumFunctionOnSet(f, R) = h[R]
    BY SumIsFold
  <1> HIDE DEF g, h
  <1> HIDE DEF R
  <1>4. g[R] = h[R]
    <2>1. R \subseteq S
      BY DEF R
    <2> QED BY <1>1, <1>2, <2>1, FoldRestricts
  <1> USE DEF R
  <1>5. /\ S = {} => g[S] = 0
        /\ S # {} => g[S] = f[First(S)] + g[R]
    BY <1>2 DEF IsFold
  <1> QED BY <1>3, <1>4, <1>5

\* The empty sum.
LEMMA SumEmpty ==
    ASSUME NEW f
    PROVE  SumFunctionOnSet(f, {}) = 0
  BY SumUnfold, FS_EmptySet

\* Only the summands count.
LEMMA SumSame ==
    ASSUME NEW S, IsFiniteSet(S), NEW f, NEW h, \A x \in S : f[x] = h[x]
    PROVE  SumFunctionOnSet(f, S) = SumFunctionOnSet(h, S)
  <1> DEFINE g == CHOOSE g : IsFold(g, f, SUBSET S)
             k == CHOOSE k : IsFold(k, h, SUBSET S)
  <1>1. IsFold(g, f, SUBSET S) /\ IsFold(k, h, SUBSET S)
    BY FoldExists
  <1>2. SumFunctionOnSet(f, S) = g[S] /\ SumFunctionOnSet(h, S) = k[S]
    BY SumIsFold
  <1> HIDE DEF g, k
  <1> QED BY <1>1, <1>2, FoldUnique

\* A sum of integers is an integer.
LEMMA SumType ==
    ASSUME NEW S, IsFiniteSet(S), NEW f, \A x \in S : f[x] \in Int
    PROVE  SumFunctionOnSet(f, S) \in Int
  <1> DEFINE P == {n \in Nat : \A s \in SUBSET S :
                      Cardinality(s) = n => SumFunctionOnSet(f, s) \in Int}
  <1>1. \A s \in SUBSET S : IsFiniteSet(s) /\ Cardinality(s) \in Nat
    BY FS_Subset, FS_CardinalityType
  <1>2. 0 \in P
    BY <1>1, SumEmpty, FS_EmptySet
  <1>3. ASSUME NEW n \in P PROVE n + 1 \in P
    <2> SUFFICES ASSUME NEW s \in SUBSET S, Cardinality(s) = n + 1
                 PROVE  SumFunctionOnSet(f, s) \in Int
      OBVIOUS
    <2>1. s # {}
      <3>1. n \in Nat /\ Cardinality({}) = 0
        BY FS_EmptySet
      <3> QED BY <3>1
    <2>2. /\ Cardinality(s \ {First(s)}) = n /\ s \ {First(s)} \in SUBSET S
          /\ First(s) \in S
      BY <1>1, <2>1, WithoutFirst, FirstIn
    <2>3. SumFunctionOnSet(f, s) = f[First(s)] + SumFunctionOnSet(f, s \ {First(s)})
      BY <1>1, <2>1, SumUnfold
    <2>4. f[First(s)] \in Int /\ SumFunctionOnSet(f, s \ {First(s)}) \in Int
      BY <2>2
    <2> QED BY <2>3, <2>4
  <1> HIDE DEF P
  <1>4. P = Nat
    BY <1>2, <1>3, NatByInduction DEF P
  <1> QED BY <1>1, <1>4 DEF P

\* The order of summation does not matter: any element can be taken out first.
LEMMA SumRemove ==
    ASSUME NEW S, IsFiniteSet(S), NEW f, \A x \in S : f[x] \in Int, NEW e \in S
    PROVE  SumFunctionOnSet(f, S) = f[e] + SumFunctionOnSet(f, S \ {e})
  <1> DEFINE P == {n \in Nat : \A s \in SUBSET S : \A x \in s : Cardinality(s) = n =>
                      SumFunctionOnSet(f, s) = f[x] + SumFunctionOnSet(f, s \ {x})}
  <1>1. \A s \in SUBSET S : IsFiniteSet(s) /\ Cardinality(s) \in Nat
    BY FS_Subset, FS_CardinalityType
  <1>2. 0 \in P
    <2>1. \A s \in SUBSET S : Cardinality(s) = 0 => s = {}
      BY <1>1, FS_EmptySet
    <2> QED BY <2>1
  <1>3. ASSUME NEW n \in P PROVE n + 1 \in P
    <2> SUFFICES ASSUME NEW s \in SUBSET S, NEW x \in s, Cardinality(s) = n + 1
                 PROVE  SumFunctionOnSet(f, s) = f[x] + SumFunctionOnSet(f, s \ {x})
      OBVIOUS
    <2> DEFINE p == First(s)
    <2>1. p \in s /\ IsFiniteSet(s)
      BY <1>1, FirstIn
    <2>2. SumFunctionOnSet(f, s) = f[p] + SumFunctionOnSet(f, s \ {p})
      BY <2>1, SumUnfold
    <2> HIDE DEF p
    <2>3. CASE x = p
      BY <2>2, <2>3
    <2>4. CASE x # p
      <3>1. Cardinality(s \ {p}) = n /\ Cardinality(s \ {x}) = n
        <4>1. Cardinality(s) - 1 = n
          <5>1. n \in Nat
            OBVIOUS
          <5> QED BY <5>1
        <4> QED BY <2>1, <4>1, FS_RemoveElement
      <3>2. \A t \in SUBSET S : \A y \in t : Cardinality(t) = n =>
                SumFunctionOnSet(f, t) = f[y] + SumFunctionOnSet(f, t \ {y})
        OBVIOUS
      <3>3. SumFunctionOnSet(f, s \ {p}) = f[x] + SumFunctionOnSet(f, (s \ {p}) \ {x})
        BY <2>4, <3>1, <3>2
      <3>4. SumFunctionOnSet(f, s \ {x}) = f[p] + SumFunctionOnSet(f, (s \ {x}) \ {p})
        BY <2>1, <2>4, <3>1, <3>2
      <3>5. (s \ {p}) \ {x} = (s \ {x}) \ {p}
        OBVIOUS
      <3>6. /\ f[x] \in Int /\ f[p] \in Int
            /\ SumFunctionOnSet(f, (s \ {x}) \ {p}) \in Int
        <4>1. IsFiniteSet((s \ {x}) \ {p}) /\ \A y \in (s \ {x}) \ {p} : f[y] \in Int
          BY <2>1, FS_Subset
        <4> QED BY <2>1, <4>1, SumType
      <3> QED BY <2>2, <3>3, <3>4, <3>5, <3>6
    <2> QED BY <2>3, <2>4
  <1> HIDE DEF P
  <1>4. P = Nat
    BY <1>2, <1>3, NatByInduction DEF P
  <1>5. S \in SUBSET S /\ Cardinality(S) \in Nat
    BY <1>1
  <1> QED BY <1>4, <1>5 DEF P

\* An element adds its own value to the sum, wherever the fold takes it.
LEMMA SumAdd ==
    ASSUME NEW S, IsFiniteSet(S), NEW f, NEW e, e \notin S,
           f[e] \in Int, \A x \in S : f[x] \in Int
    PROVE  SumFunctionOnSet(f, S \cup {e}) = f[e] + SumFunctionOnSet(f, S)
  <1>1. IsFiniteSet(S \cup {e}) /\ (S \cup {e}) \ {e} = S
    BY FS_AddElement
  <1> QED BY <1>1, SumRemove

\* A larger summand makes a larger sum.
LEMMA SumMonotone ==
    ASSUME NEW S, IsFiniteSet(S), NEW f, NEW h,
           \A x \in S : f[x] \in Int /\ h[x] \in Int /\ f[x] <= h[x]
    PROVE  SumFunctionOnSet(f, S) <= SumFunctionOnSet(h, S)
  <1> DEFINE P == {n \in Nat : \A s \in SUBSET S : Cardinality(s) = n =>
                      SumFunctionOnSet(f, s) <= SumFunctionOnSet(h, s)}
  <1>1. \A s \in SUBSET S : IsFiniteSet(s) /\ Cardinality(s) \in Nat
    BY FS_Subset, FS_CardinalityType
  <1>2. 0 \in P
    <2>1. \A s \in SUBSET S : Cardinality(s) = 0 => s = {}
      BY <1>1, FS_EmptySet
    <2> QED BY <2>1, SumEmpty
  <1>3. ASSUME NEW n \in P PROVE n + 1 \in P
    <2> SUFFICES ASSUME NEW s \in SUBSET S, Cardinality(s) = n + 1
                 PROVE  SumFunctionOnSet(f, s) <= SumFunctionOnSet(h, s)
      OBVIOUS
    <2>1. s # {}
      <3>1. n \in Nat /\ Cardinality({}) = 0
        BY FS_EmptySet
      <3> QED BY <3>1
    <2> DEFINE p == First(s)
               r == s \ {p}
    <2>2. Cardinality(r) = n /\ r \in SUBSET S /\ p \in S /\ IsFiniteSet(r)
      BY <1>1, <2>1, WithoutFirst, FirstIn
    <2>3. /\ SumFunctionOnSet(f, s) = f[p] + SumFunctionOnSet(f, r)
          /\ SumFunctionOnSet(h, s) = h[p] + SumFunctionOnSet(h, r)
      BY <1>1, <2>1, SumUnfold
    <2> HIDE DEF p, r
    <2>4. SumFunctionOnSet(f, r) <= SumFunctionOnSet(h, r)
      BY <2>2
    <2>5. /\ SumFunctionOnSet(f, r) \in Int /\ SumFunctionOnSet(h, r) \in Int
          /\ f[p] \in Int /\ h[p] \in Int /\ f[p] <= h[p]
      BY <2>2, SumType
    <2> QED BY <2>3, <2>4, <2>5
  <1> HIDE DEF P
  <1>4. P = Nat
    BY <1>2, <1>3, NatByInduction DEF P
  <1> QED BY <1>1, <1>4 DEF P

\* A sum of natural numbers is a natural number.
LEMMA SumNat ==
    ASSUME NEW S, IsFiniteSet(S), NEW f, \A x \in S : f[x] \in Nat
    PROVE  SumFunctionOnSet(f, S) \in Nat
  <1> DEFINE P == {n \in Nat : \A s \in SUBSET S : Cardinality(s) = n =>
                      SumFunctionOnSet(f, s) \in Nat}
  <1>1. \A s \in SUBSET S : IsFiniteSet(s) /\ Cardinality(s) \in Nat
    BY FS_Subset, FS_CardinalityType
  <1>2. 0 \in P
    <2>1. \A s \in SUBSET S : Cardinality(s) = 0 => s = {}
      BY <1>1, FS_EmptySet
    <2> QED BY <2>1, SumEmpty
  <1>3. ASSUME NEW n \in P PROVE n + 1 \in P
    <2> SUFFICES ASSUME NEW s \in SUBSET S, Cardinality(s) = n + 1
                 PROVE  SumFunctionOnSet(f, s) \in Nat
      OBVIOUS
    <2>1. s # {}
      <3>1. n \in Nat /\ Cardinality({}) = 0
        BY FS_EmptySet
      <3> QED BY <3>1
    <2>2. /\ Cardinality(s \ {First(s)}) = n /\ s \ {First(s)} \in SUBSET S
          /\ First(s) \in S
      BY <1>1, <2>1, WithoutFirst, FirstIn
    <2>3. SumFunctionOnSet(f, s) = f[First(s)] + SumFunctionOnSet(f, s \ {First(s)})
      BY <1>1, <2>1, SumUnfold
    <2>4. f[First(s)] \in Nat /\ SumFunctionOnSet(f, s \ {First(s)}) \in Nat
      BY <2>2
    <2> QED BY <2>3, <2>4
  <1> HIDE DEF P
  <1>4. P = Nat
    BY <1>2, <1>3, NatByInduction DEF P
  <1> QED BY <1>1, <1>4 DEF P

\* One summand changes.
LEMMA SumUpdate ==
    ASSUME NEW S, IsFiniteSet(S), NEW f, NEW h, \A x \in S : f[x] \in Int /\ h[x] \in Int,
           NEW e \in S, \A x \in S \ {e} : h[x] = f[x]
    PROVE  SumFunctionOnSet(h, S) = SumFunctionOnSet(f, S) - f[e] + h[e]
  <1>1. SumFunctionOnSet(f, S) = f[e] + SumFunctionOnSet(f, S \ {e})
    BY SumRemove
  <1>2. SumFunctionOnSet(h, S) = h[e] + SumFunctionOnSet(h, S \ {e})
    BY SumRemove
  <1>3. IsFiniteSet(S \ {e})
    BY FS_Subset
  <1>4. SumFunctionOnSet(f, S \ {e}) = SumFunctionOnSet(h, S \ {e})
    BY <1>3, SumSame
  <1>5. SumFunctionOnSet(f, S \ {e}) \in Int
    BY <1>3, SumType
  <1> QED BY <1>1, <1>2, <1>4, <1>5

\* A sum over two disjoint sets is the sum of the two sums.
LEMMA SumSplit ==
    ASSUME NEW S, NEW T, IsFiniteSet(S), IsFiniteSet(T), S \cap T = {},
           NEW f, \A x \in S \cup T : f[x] \in Int
    PROVE  SumFunctionOnSet(f, S \cup T) = SumFunctionOnSet(f, S) + SumFunctionOnSet(f, T)
  <1> DEFINE Splits(Y) == SumFunctionOnSet(f, S \cup Y)
                             = SumFunctionOnSet(f, S) + SumFunctionOnSet(f, Y)
             P == {k \in Nat : \A Y \in SUBSET T : Cardinality(Y) = k => Splits(Y)}
  <1>1. 0 \in P
    <2> SUFFICES ASSUME NEW Y \in SUBSET T, Cardinality(Y) = 0 PROVE Splits(Y)
      OBVIOUS
    <2>1. Y = {}
      BY FS_Subset, FS_EmptySet
    <2>2. S \cup Y = S
      BY <2>1
    <2>3. SumFunctionOnSet(f, Y) = 0
      BY <2>1, SumEmpty
    <2>4. SumFunctionOnSet(f, S) \in Int
      BY SumType
    <2>5. SumFunctionOnSet(f, S) = SumFunctionOnSet(f, S) + SumFunctionOnSet(f, Y)
      BY <2>3, <2>4
    <2> HIDE DEF P
    <2> QED BY <2>2, <2>5
  <1>2. ASSUME NEW k \in P PROVE k + 1 \in P
    <2> SUFFICES ASSUME NEW Y \in SUBSET T, Cardinality(Y) = k + 1 PROVE Splits(Y)
      OBVIOUS
    <2>1. k \in Nat /\ IsFiniteSet(Y)
      BY FS_Subset
    <2>2. PICK e : e \in Y
      BY <2>1, FS_EmptySet
    <2> DEFINE Z == Y \ {e}
    <2>3. Cardinality(Z) = Cardinality(Y) - 1
      BY <2>1, <2>2, FS_RemoveElement
    <2>4. Z \in SUBSET T /\ Cardinality(Z) = k /\ IsFiniteSet(Z)
      BY <2>1, <2>3, FS_Subset
    <2>5. Splits(Z)
      BY <2>4
    <2>6. (S \cup Y) \ {e} = S \cup Z /\ e \in S \cup Y /\ S \cup Y \subseteq S \cup T
      BY <2>2
    <2>7. IsFiniteSet(S \cup Y) /\ IsFiniteSet(S \cup Z)
      BY <2>1, <2>4, FS_Union
    <2> HIDE DEF P, Z
    <2>8. SumFunctionOnSet(f, S \cup Y) = f[e] + SumFunctionOnSet(f, S \cup Z)
      BY <2>6, <2>7, SumRemove
    <2>9. SumFunctionOnSet(f, Y) = f[e] + SumFunctionOnSet(f, Z)
      BY <2>1, <2>2, SumRemove DEF Z
    <2>10. f[e] \in Int /\ SumFunctionOnSet(f, S) \in Int /\ SumFunctionOnSet(f, Z) \in Int
      BY <2>2, <2>4, SumType
    <2>11. SumFunctionOnSet(f, S \cup Y) = SumFunctionOnSet(f, S) + SumFunctionOnSet(f, Y)
      BY <2>5, <2>8, <2>9, <2>10
    <2> QED BY <2>11
  <1>3. P = Nat
    <2>1. P \in SUBSET Nat
      OBVIOUS
    <2> HIDE DEF P
    <2> QED BY <1>1, <1>2, <2>1, NatByInduction
  <1>4. Cardinality(T) \in P
    <2> HIDE DEF P
    <2> QED BY <1>3, FS_CardinalityType
  <1> QED BY <1>4

\* A sum of ones, or of minus ones, counts the set; a sum of zeros is zero.
LEMMA SumOfUnits ==
    ASSUME NEW S, IsFiniteSet(S), NEW c \in {1, 0, -1}, NEW f, \A x \in S : f[x] = c
    PROVE  SumFunctionOnSet(f, S) = c * Cardinality(S)
  <1> DEFINE P == {k \in Nat : \A Y \in SUBSET S :
                      Cardinality(Y) = k => SumFunctionOnSet(f, Y) = c * k}
  <1>1. 0 \in P
    <2> SUFFICES ASSUME NEW Y \in SUBSET S, Cardinality(Y) = 0
                 PROVE  SumFunctionOnSet(f, Y) = c * 0
      OBVIOUS
    <2>1. Y = {}
      BY FS_Subset, FS_EmptySet
    <2>2. SumFunctionOnSet(f, Y) = 0
      BY <2>1, SumEmpty
    <2> QED BY <2>2
  <1>2. ASSUME NEW k \in P PROVE k + 1 \in P
    <2> SUFFICES ASSUME NEW Y \in SUBSET S, Cardinality(Y) = k + 1
                 PROVE  SumFunctionOnSet(f, Y) = c * (k + 1)
      OBVIOUS
    <2>1. k \in Nat /\ IsFiniteSet(Y)
      BY FS_Subset
    <2>2. PICK e : e \in Y
      BY <2>1, FS_EmptySet
    <2> DEFINE Z == Y \ {e}
    <2>3. Cardinality(Z) = Cardinality(Y) - 1
      BY <2>1, <2>2, FS_RemoveElement
    <2>4. Z \in SUBSET S /\ Cardinality(Z) = k
      BY <2>1, <2>3
    <2>5. SumFunctionOnSet(f, Z) = c * k
      BY <2>4
    <2> HIDE DEF P, Z
    <2>6. \A x \in Y : f[x] \in Int
      OBVIOUS
    <2>7. SumFunctionOnSet(f, Y) = f[e] + SumFunctionOnSet(f, Z)
      BY <2>1, <2>2, <2>6, SumRemove DEF Z
    <2>8. SumFunctionOnSet(f, Y) = c + c * k
      BY <2>2, <2>5, <2>7
    <2> QED BY <2>1, <2>8
  <1>3. P = Nat
    <2>1. P \in SUBSET Nat
      OBVIOUS
    <2> HIDE DEF P
    <2> QED BY <1>1, <1>2, <2>1, NatByInduction
  <1>4. Cardinality(S) \in P
    <2> HIDE DEF P
    <2> QED BY <1>3, FS_CardinalityType
  <1> QED BY <1>4

-----------------------------------------------------------------------------
(* Trades and lots. *)

\* The lots of some of the trades.
LotsOf(S) == SumFunctionOnSet([n \in DOMAIN trades |-> Lots(n)], S)

\* The exchange's position is the lots of all its trades.
LEMMA ExchangeLotsAre == ExchangeLots = LotsOf(DOMAIN trades)
  BY DEF ExchangeLots, LotsOf, SumFunction

\* Trades are numbered from one.
LEMMA TradesFinite ==
    ASSUME TypeInv
    PROVE  /\ DOMAIN trades = 1..Len(trades) /\ Len(trades) \in Nat
           /\ IsFiniteSet(DOMAIN trades)
  <1>1. DOMAIN trades = 1..Len(trades) /\ Len(trades) \in Nat
    BY DEF TypeInv
  <1> QED BY <1>1, FS_Interval

\* A trade moves an integer number of lots.
LEMMA LotsInt == \A n : Lots(n) \in {1, -1}
  BY DEF Lots

\* A trade is added at the end, and the earlier ones stay what they were.
LEMMA TradeAdded ==
    ASSUME TypeInv, NEW o \in OwnId \cup {Foreign}, trades' = Append(trades, o)
    PROVE  /\ Len(trades) + 1 \notin DOMAIN trades
           /\ DOMAIN trades' = DOMAIN trades \cup {Len(trades) + 1}
           /\ trades'[Len(trades) + 1] = o
           /\ \A n \in DOMAIN trades : trades'[n] = trades[n]
           /\ \A id : TradesOf(id)' = IF id = o THEN TradesOf(id) \cup {Len(trades) + 1}
                                      ELSE TradesOf(id)
  <1>1. /\ DOMAIN trades = 1..Len(trades) /\ Len(trades) \in Nat
        /\ DOMAIN trades' = 1..(Len(trades) + 1)
        /\ trades'[Len(trades) + 1] = o
        /\ \A n \in 1..Len(trades) : trades'[n] = trades[n]
    BY DEF TypeInv
  <1>2. DOMAIN trades' = DOMAIN trades \cup {Len(trades) + 1}
    BY <1>1
  <1>3. Len(trades) + 1 \notin DOMAIN trades
    BY <1>1
  <1> QED BY <1>1, <1>2, <1>3 DEF TradesOf

\* What an order's trade counts does not depend on the orders sent later.
LEMMA LotsStay ==
    ASSUME LotsTyped, DOMAIN trades \subseteq DOMAIN trades',
           \A n \in DOMAIN trades : trades'[n] = trades[n],
           \A id \in DOMAIN orders : orders'[id] = orders[id]
    PROVE  \A n \in DOMAIN trades : Lots(n)' = Lots(n)
  BY DEF LotsTyped, Lots

\* Lots of known trades do not change when orders and trades are added.
LEMMA LotsOfStays ==
    ASSUME TypeInv, LotsTyped, DOMAIN trades \subseteq DOMAIN trades',
           \A n \in DOMAIN trades : trades'[n] = trades[n],
           \A id \in DOMAIN orders : orders'[id] = orders[id],
           NEW S, S \subseteq DOMAIN trades
    PROVE  LotsOf(S)' = LotsOf(S)
  <1> DEFINE f == [n \in DOMAIN trades |-> Lots(n)]
             g == [n \in DOMAIN trades' |-> Lots(n)']
  <1>1. \A n \in S : g[n] = f[n]
    BY LotsStay
  <1>2. IsFiniteSet(S)
    BY TradesFinite, FS_Subset
  <1> HIDE DEF f, g
  <1>3. SumFunctionOnSet(g, S) = SumFunctionOnSet(f, S)
    BY <1>1, <1>2, SumSame
  <1> QED BY <1>3 DEF f, g, LotsOf

\* A new trade changes the exchange's position by its lot.
LEMMA LotsAdded ==
    ASSUME TypeInv, LotsTyped, NEW o \in OwnId \cup {Foreign}, trades' = Append(trades, o),
           orders' = orders, NEW n, n = Len(trades) + 1
    PROVE  ExchangeLots' = ExchangeLots + Lots(n)'
  <1> DEFINE g == [i \in DOMAIN trades' |-> Lots(i)']
  <1>1. /\ n \notin DOMAIN trades /\ DOMAIN trades' = DOMAIN trades \cup {n}
        /\ \A i \in DOMAIN trades : trades'[i] = trades[i]
    BY TradeAdded
  <1>2. LotsOf(DOMAIN trades)' = ExchangeLots'
    BY DEF ExchangeLots, LotsOf, SumFunction
  <1>3. SumFunctionOnSet(g, DOMAIN trades) = LotsOf(DOMAIN trades)
    <2> DEFINE f == [i \in DOMAIN trades |-> Lots(i)]
    <2>1. \A i \in DOMAIN trades : g[i] = f[i]
      BY <1>1, LotsStay
    <2>2. IsFiniteSet(DOMAIN trades)
      BY TradesFinite
    <2> HIDE DEF f, g
    <2>3. SumFunctionOnSet(g, DOMAIN trades) = SumFunctionOnSet(f, DOMAIN trades)
      BY <2>1, <2>2, SumSame
    <2> QED BY <2>3 DEF f, LotsOf
  <1>4. \A i \in DOMAIN trades \cup {n} : g[i] \in Int
    <2>1. \A i : Lots(i)' \in Int
      BY DEF Lots
    <2> QED BY <1>1, <2>1
  <1>5. g[n] = Lots(n)'
    BY <1>1
  <1>6. SumFunctionOnSet(g, DOMAIN trades \cup {n}) = g[n] + SumFunctionOnSet(g, DOMAIN trades)
    <2>1. IsFiniteSet(DOMAIN trades)
      BY TradesFinite
    <2> HIDE DEF g
    <2> QED BY <1>1, <1>4, <2>1, SumAdd
  <1>7. ExchangeLots' = SumFunctionOnSet(g, DOMAIN trades \cup {n})
    BY <1>1 DEF ExchangeLots, SumFunction
  <1>8. LotsOf(DOMAIN trades) = ExchangeLots
    BY ExchangeLotsAre
  <1>9. ExchangeLots \in Int /\ Lots(n)' \in Int
    BY DEF LotsTyped, Lots
  <1> HIDE DEF g
  <1>10. ExchangeLots' = Lots(n)' + ExchangeLots
    BY <1>3, <1>5, <1>6, <1>7, <1>8
  <1> QED BY <1>9, <1>10

-----------------------------------------------------------------------------
(* Memory. *)

\* A checkpoint changes the fields of the entries it has something for.
LEMMA AppliedAre ==
    ASSUME NEW entries, WellFormed(entries), NEW updates,
           NEW after, after = Applied(entries, updates)
    PROVE  /\ DOMAIN after = DOMAIN entries
           /\ WellFormed(after)
           /\ \A id \in DOMAIN entries : /\ after[id].offset = entries[id].offset
                                         /\ after[id].volume = entries[id].volume
  BY AppliedKeeps

\* A checkpoint changes a status to final only.
LEMMA AppliedStatus ==
    ASSUME NEW entries, WellFormed(entries), NEW updates,
           NEW after, after = Applied(entries, updates)
    PROVE  \A id \in DOMAIN entries :
              /\ id \in updates.terminal => after[id].status = "terminal"
              /\ id \notin updates.terminal => after[id].status = entries[id].status
  <1> SUFFICES ASSUME NEW id \in DOMAIN entries
               PROVE  /\ id \in updates.terminal => after[id].status = "terminal"
                      /\ id \notin updates.terminal => after[id].status = entries[id].status
    OBVIOUS
  <1>1. DOMAIN entries[id] = Fields
    BY DEF WellFormed
  <1> QED BY <1>1 DEF Applied, Fields

\* A checkpoint adds the pending fills of the order to an entry's.
LEMMA AppliedFills ==
    ASSUME NEW entries, WellFormed(entries), NEW updates,
           NEW after, after = Applied(entries, updates)
    PROVE  \A id \in DOMAIN entries :
              after[id].fills = entries[id].fills \cup (updates.fills \cap TradesOf(id))
  <1> SUFFICES ASSUME NEW id \in DOMAIN entries
               PROVE  after[id].fills = entries[id].fills \cup (updates.fills \cap TradesOf(id))
    OBVIOUS
  <1>1. DOMAIN entries[id] = Fields
    BY DEF WellFormed
  <1> QED BY <1>1 DEF Applied, Fields

\* The fills of a batch whose orders the journal has are all recorded.
LEMMA FillsApplied ==
    ASSUME NEW entries, WellFormed(entries), NEW updates,
           updates.fills \subseteq {n \in DOMAIN trades : trades[n] \in DOMAIN entries}
    PROVE  FillsOf(Applied(entries, updates)) = FillsOf(entries) \cup updates.fills
  <1> DEFINE after == Applied(entries, updates)
  <1>0. after = Applied(entries, updates)
    OBVIOUS
  <1> HIDE DEF after
  <1>1. /\ DOMAIN after = DOMAIN entries
        /\ \A id \in DOMAIN entries :
              after[id].fills = entries[id].fills \cup (updates.fills \cap TradesOf(id))
    BY <1>0, AppliedAre, AppliedFills
  <1>2. FillsOf(after) \subseteq FillsOf(entries) \cup updates.fills
    BY <1>1 DEF FillsOf
  <1>3. FillsOf(entries) \subseteq FillsOf(after)
    BY <1>1 DEF FillsOf
  <1>4. updates.fills \subseteq FillsOf(after)
    <2> SUFFICES ASSUME NEW n \in updates.fills PROVE n \in FillsOf(after)
      OBVIOUS
    <2>1. trades[n] \in DOMAIN entries /\ n \in updates.fills \cap TradesOf(trades[n])
      BY DEF TradesOf
    <2> QED BY <1>1, <2>1 DEF FillsOf
  <1> QED BY <1>2, <1>3, <1>4 DEF after

\* The invariant holds before the first session.
LEMMA InitMInv == Init => MInv
  <1> SUFFICES ASSUME Init PROVE MInv
    OBVIOUS
  <1>1. EInv
    BY InitEInv
  <1>2. EngineTyped /\ QueuesTyped
    BY DEF Init, EngineTyped, QueuesTyped, QueuedIn
  <1>3. EntriesTyped
    BY FS_EmptySet DEF Init, EntriesTyped, Nothing
  <1>4. LotsTyped
    <2>1. DOMAIN trades = {}
      BY DEF Init
    <2>2. ExchangeLots = 0
      BY <2>1, SumEmpty, ExchangeLotsAre DEF LotsOf
    <2> QED BY <2>1, <2>2 DEF Init, LotsTyped
  <1>5. FollowsDisk
    BY DEF Init, FollowsDisk, Up
  <1> QED BY <1>1, <1>2, <1>3, <1>4, <1>5 DEF MInv, RecordTypes

-----------------------------------------------------------------------------
(* Steps that keep the types and the memory. *)

EngineType == [lots : Nat, ids : SUBSET DOMAIN trades,
               mode : {"RUNNING", "REDUCE_ONLY", "HALTED"}]

\* Steps that change neither the records nor the queues.
LEMMA QuietMInv ==
    ASSUME MInv, EInv',
           UNCHANGED <<orders, trades, journal, known, seeded, seen, pending, snapshot,
                       upstream, handling, fifo>>,
           mirror' \in Nat, engine' \in EngineType, engine'.ids = engine.ids,
           Up' => Up, Installing' <=> Installing
    PROVE  MInv'
  <1>1. ExchangeLots' = ExchangeLots /\ Events' = Events
    BY DEF ExchangeLots, Lots, Events, QueuedReturns
  <1>2. RecordTypes'
    BY <1>1 DEF MInv, RecordTypes, EngineTyped, LotsTyped, QueuesTyped, EntriesTyped,
                QueuedIn, EngineType
  <1>3. Applied(known, snapshot)' = Applied(known, snapshot)
    BY DEF Applied, TradesOf
  <1>4. FollowsDisk'
    BY <1>3 DEF MInv, FollowsDisk, WellFormed, FillsOf, QueuedIn
  <1> QED BY <1>2, <1>4 DEF MInv

\* A halted engine is an engine.
LEMMA HaltedTyped ==
    ASSUME MInv
    PROVE  /\ engine \in EngineType /\ Halted(engine) \in EngineType
           /\ Halted(engine).ids = engine.ids /\ Halted(engine).mode = "HALTED"
           /\ Halted(engine).lots = engine.lots
  BY DEF MInv, RecordTypes, EngineTyped, EngineType, Halted

\* What handling an event makes of the RuntimeState: the trade is counted, or the
\* engine halts, or nothing is lost.
LEMMA HandledIs ==
    ASSUME MInv, NEW e \in Events, e.type = "trade" => e.trade \in DOMAIN trades
    PROVE  LET after == Handled(engine, e)
           IN  /\ after \in EngineType
               /\ \/ /\ after.ids = engine.ids
                     /\ after.lots = engine.lots
                     /\ e.type = "trade" => e.trade \in engine.ids \/ after.mode = "HALTED"
                  \/ /\ e.type = "trade" /\ e.trade \notin engine.ids
                     /\ trades[e.trade] \in DOMAIN known
                     /\ after.ids = engine.ids \cup {e.trade}
                     /\ \/ after.mode = "HALTED"
                        \/ after.lots = engine.lots + Lots(e.trade)
               /\ engine.mode = "HALTED" => after.mode = "HALTED"
               /\ e.type = "broker_error" => after.mode = "HALTED"
  <1>1. engine \in EngineType /\ engine.lots \in Nat
    BY DEF MInv, RecordTypes, EngineTyped, EngineType
  <1>2. CASE e.type = "trade"
    <2>1. CASE e.trade \in engine.ids
      BY <1>1, <1>2, <2>1 DEF Handled
    <2>2. CASE e.trade \notin engine.ids /\ trades[e.trade] \notin DOMAIN known
      BY <1>1, <1>2, <2>2 DEF Handled, Halted, EngineType
    <2>3. CASE e.trade \notin engine.ids /\ trades[e.trade] \in DOMAIN known
      <3> DEFINE marked == [engine EXCEPT !.ids = @ \cup {e.trade}]
      <3>1. Handled(engine, e) = IF engine.lots + Lots(e.trade) >= 0
                                 THEN [marked EXCEPT !.lots = @ + Lots(e.trade)]
                                 ELSE Halted(marked)
        BY <1>2, <2>3 DEF Handled
      <3>2. /\ marked \in EngineType /\ marked.ids = engine.ids \cup {e.trade}
            /\ marked.lots = engine.lots /\ marked.mode = engine.mode
        BY <1>1, <1>2 DEF EngineType
      <3> HIDE DEF marked
      <3>3. Lots(e.trade) \in Int
        BY DEF Lots
      <3> QED BY <1>1, <1>2, <2>3, <3>1, <3>2, <3>3 DEF EngineType, Halted
    <2> QED BY <2>1, <2>2, <2>3
  <1>3. CASE e.type # "trade"
    <2>1. \/ Handled(engine, e) = DailyLossStop(engine)
          \/ Handled(engine, e) = Halted(engine)
          \/ Handled(engine, e) = engine /\ e.type # "broker_error"
      BY <1>3 DEF Handled
    <2>2. e.type = "broker_error" => Handled(engine, e) = Halted(engine)
      BY <1>3 DEF Handled
    <2> QED BY <1>1, <1>3, <2>1, <2>2 DEF EngineType, DailyLossStop, Halted
  <1> QED BY <1>2, <1>3

\* The engine handles the oldest event of its queue.
LEMMA HandleEventMInv ==
    ASSUME MInv, EInv', HandleEvent
    PROVE  MInv'
  <1>1. /\ UNCHANGED <<orders, trades, journal, known, seeded, seen, pending, snapshot, mirror,
                       upstream, handling, at>>
        /\ fifo # <<>> /\ fifo' = Tail(fifo)
        /\ engine' = Handled(engine, Head(fifo))
    BY DEF HandleEvent, exchangeVars, memoryVars
  <1>2. /\ Head(fifo) \in Events /\ Tail(fifo) \in Seq(Events)
        /\ QueuedIn(fifo') \subseteq QueuedIn(fifo)
        /\ Head(fifo).type = "trade" => Head(fifo).trade \in QueuedIn(fifo)
    BY <1>1, QueuedTail DEF MInv, RecordTypes, QueuesTyped
  <1>3. /\ engine' \in EngineType
        /\ \/ engine'.ids = engine.ids
           \/ /\ engine'.ids = engine.ids \cup {Head(fifo).trade}
              /\ Head(fifo).type = "trade"
              /\ trades[Head(fifo).trade] \in DOMAIN known
    BY <1>1, <1>2, HandledIs DEF MInv, RecordTypes, QueuesTyped
  <1>4. ExchangeLots' = ExchangeLots /\ Events' = Events /\ QueuedIn(upstream)' = QueuedIn(upstream)
    BY <1>1 DEF ExchangeLots, Lots, Events, QueuedReturns, QueuedIn
  <1>5. EngineTyped'
    <2>1. Foreign \notin DOMAIN known
      BY ForeignIsNotOwn DEF MInv, EInv, TypeInv
    <2> QED BY <1>1, <1>3, <2>1 DEF MInv, RecordTypes, EngineTyped, EngineType
  <1>6. LotsTyped' /\ QueuesTyped' /\ EntriesTyped'
    BY <1>1, <1>2, <1>4 DEF MInv, RecordTypes, LotsTyped, QueuesTyped, EntriesTyped
  <1>7. FollowsDisk'
    <2>1. Applied(known, snapshot)' = Applied(known, snapshot)
      BY <1>1 DEF Applied, TradesOf
    <2>2. QueuedIn(fifo)' = QueuedIn(fifo')
      BY DEF QueuedIn
    <2>3. Up' = Up /\ Installing' = Installing /\ WellFormed(known)' = WellFormed(known)
          /\ FillsOf(journal)' = FillsOf(journal)
      BY <1>1 DEF Up, Installing, WellFormed, FillsOf
    <2>4. Up => engine'.ids \subseteq seen
      BY <1>2, <1>3 DEF MInv, FollowsDisk
    <2> QED BY <1>1, <1>2, <2>1, <2>2, <2>3, <2>4 DEF MInv, FollowsDisk
  <1> QED BY <1>5, <1>6, <1>7 DEF MInv, RecordTypes

\* A reservation adds the same entry to the journal and to memory.
LEMMA ReserveMInv ==
    ASSUME MInv, EInv', NEW offset \in {"OPEN", "CLOSE"}, NEW volume \in Nat, NEW back,
           at \in {"reduce", "rebalance"}, Reserve(offset, volume, back)
    PROVE  MInv'
  <1> DEFINE new == [offset |-> offset, volume |-> volume, status |-> "prepared",
                     fills |-> {}]
  <1>1. /\ UNCHANGED <<orders, live, trades, engine, seeded, seen, pending, snapshot, mirror,
                       upstream, handling, fifo>>
        /\ at' = "prepared"
    BY DEF Reserve, exchangeVars, queueVars
  <1>2. Up /\ Up' /\ ~Installing /\ ~Installing' /\ known = journal
    BY <1>1 DEF MInv, FollowsDisk, Up, Installing
  <1>3. /\ NextOrderId \notin DOMAIN journal
        /\ DOMAIN journal' = DOMAIN journal \cup {NextOrderId}
        /\ journal'[NextOrderId] = new
        /\ \A id \in DOMAIN journal : journal'[id] = journal[id]
        /\ known' = journal'
    BY <1>2 DEF Reserve, CanReserve
  <1>4. ExchangeLots' = ExchangeLots /\ Events' = Events
    BY <1>1 DEF ExchangeLots, Lots, Events, QueuedReturns
  <1>5. EntriesTyped'
    <2>1. IsFiniteSet(DOMAIN journal')
      BY <1>3, FS_AddElement DEF MInv, RecordTypes, EntriesTyped
    <2>2. new.offset = offset /\ new.volume = volume
      OBVIOUS
    <2> HIDE DEF new
    <2> QED BY <1>1, <1>3, <2>1, <2>2 DEF MInv, RecordTypes, EntriesTyped
  <1>6. EngineTyped' /\ LotsTyped' /\ QueuesTyped'
    BY <1>1, <1>4 DEF MInv, RecordTypes, EngineTyped, LotsTyped, QueuesTyped, QueuedIn
  <1>7. FillsOf(journal)' = FillsOf(journal)
    <2>1. FillsOf(journal') = FillsOf(journal)
      BY <1>3 DEF FillsOf
    <2> QED BY <2>1 DEF FillsOf
  <1>8. FollowsDisk'
    <2>1. WellFormed(known)'
      BY <1>3 DEF EInv, IInv, WellFormed
    <2>2. \A id \in DOMAIN known \cap DOMAIN orders : known[id].status # "aborted_before_send"
      BY <1>2 DEF MInv, FollowsDisk
    <2>3. \A id \in (DOMAIN known \cap DOMAIN orders)' : known'[id].status # "aborted_before_send"
      BY <1>1, <1>2, <1>3, <2>2
    <2> QED BY <1>1, <1>2, <1>3, <1>7, <2>1, <2>3 DEF MInv, FollowsDisk, QueuedIn
  <1> QED BY <1>5, <1>6, <1>8 DEF MInv, RecordTypes

\* The official send tells memory nothing new: the order was reserved.
LEMMA OfficialSendMInv ==
    ASSUME MInv, EInv', OfficialSend
    PROVE  MInv'
  <1>1. /\ UNCHANGED <<trades, journal, engine, known, seeded, seen, pending, snapshot, mirror,
                       handling, fifo>>
        /\ at = "prepared" /\ upstream = <<>> /\ fifo = <<>>
        /\ at' = "sent" \/ at' = request.back
    BY DEF OfficialSend, diskVars, Boundary
  <1>2. Up /\ Up' /\ ~Installing /\ ~Installing' /\ known = journal
    BY <1>1 DEF MInv, EInv, IInv, Returns, FollowsDisk, Up, Installing
  <1>3. CASE UNCHANGED <<orders, live, upstream>>
    <2>1. engine \in EngineType /\ mirror \in Nat
      BY HaltedTyped DEF MInv, RecordTypes, LotsTyped
    <2> QED BY <1>1, <1>2, <1>3, <2>1, QuietMInv
  <1>4. CASE /\ orders' = [i \in DOMAIN orders \cup {request.id} |->
                              IF i = request.id
                              THEN [offset |-> journal[request.id].offset,
                                    volume |-> journal[request.id].volume]
                              ELSE orders[i]]
             /\ upstream' = Append(upstream, OrderEvent(request.id, TRUE))
    <2>1. request.id \notin DOMAIN orders /\ journal[request.id].status = "prepared"
      BY <1>1 DEF MInv, EInv, IInv, ReservedOnly
    <2>2. /\ DOMAIN orders' = DOMAIN orders \cup {request.id}
          /\ \A id \in DOMAIN orders : orders'[id] = orders[id]
      BY <1>4, <2>1
    <2>3. ExchangeLots' = ExchangeLots
      <3>1. LotsOf(DOMAIN trades)' = LotsOf(DOMAIN trades)
        <4> DEFINE S == DOMAIN trades
        <4>1. \A n \in S : Lots(n)' = Lots(n)
          BY <1>1, <2>2, LotsStay DEF MInv, RecordTypes
        <4> QED BY <1>1, <4>1 DEF LotsOf
      <3> QED BY <3>1, ExchangeLotsAre DEF ExchangeLots, LotsOf, SumFunction
    <2>4. /\ QueuedIn(upstream') = {} /\ QueuedIn(fifo') = {}
          /\ fifo' \in Seq(Events')
      <3>1. upstream' = <<OrderEvent(request.id, TRUE)>>
        BY <1>1, <1>4
      <3>2. QueuedIn(upstream') = {}
        BY <3>1 DEF QueuedIn, OrderEvent
      <3>3. QueuedIn(fifo') = {}
        BY <1>1 DEF QueuedIn
      <3>4. fifo' \in Seq(Events')
        BY <1>1
      <3> QED BY <3>2, <3>3, <3>4
    <2>5. RecordTypes'
      <3>1. EngineTyped'
        BY <1>1 DEF MInv, RecordTypes, EngineTyped
      <3>2. LotsTyped' /\ EntriesTyped'
        BY <1>1, <2>2, <2>3 DEF MInv, RecordTypes, LotsTyped, EntriesTyped
      <3>3. QueuesTyped'
        BY <1>1, <2>4 DEF MInv, RecordTypes, QueuesTyped, QueuedIn
      <3> QED BY <3>1, <3>2, <3>3 DEF RecordTypes
    <2>6. FollowsDisk'
      BY <1>1, <1>2, <2>1, <2>2 DEF MInv, FollowsDisk, WellFormed, FillsOf, QueuedIn
    <2> QED BY <2>5, <2>6 DEF MInv
  <1> QED BY <1>3, <1>4 DEF OfficialSend

\* The two later writes of send_order change one status, on disk and in memory.
LEMMA StatusMInv ==
    ASSUME MInv, EInv', NEW status \in {"submitted", "aborted_before_send"},
           at \in {"prepared", "sent"}, at' = request.back,
           status = "aborted_before_send" => at = "prepared",
           journal' = WithStatus(journal, request.id, status),
           known' = WithStatus(known, request.id, status),
           UNCHANGED <<orders, trades, engine, seeded, seen, pending, snapshot, mirror,
                       upstream, handling, fifo>>
    PROVE  MInv'
  <1>1. Up /\ Up' /\ ~Installing /\ ~Installing' /\ known = journal
    BY DEF MInv, EInv, IInv, Returns, FollowsDisk, Up, Installing
  <1>2. /\ DOMAIN journal' = DOMAIN journal /\ known' = journal'
        /\ \A id \in DOMAIN journal :
              /\ journal'[id].offset = journal[id].offset
              /\ journal'[id].volume = journal[id].volume
              /\ id # request.id => journal'[id] = journal[id]
              /\ id = request.id => journal'[id].status = status
    BY <1>1, WithStatusKeeps DEF MInv, EInv, IInv
  <1>3. \A id \in DOMAIN journal : journal'[id].fills = journal[id].fills
    BY DEF WithStatus, MInv, EInv, IInv, WellFormed, Fields
  <1>4. FillsOf(journal)' = FillsOf(journal)
    BY <1>2, <1>3 DEF FillsOf
  <1>5. ExchangeLots' = ExchangeLots /\ Events' = Events
    BY DEF ExchangeLots, Lots, Events, QueuedReturns
  <1>6. EngineTyped' /\ LotsTyped' /\ QueuesTyped' /\ EntriesTyped'
    BY <1>2, <1>5 DEF MInv, RecordTypes, EngineTyped, LotsTyped, QueuesTyped, EntriesTyped,
                      QueuedIn
  <1>7. FollowsDisk'
    <2>1. WellFormed(known)'
      BY <1>2 DEF EInv, IInv, WellFormed
    <2>2. \A id \in DOMAIN journal \cap DOMAIN orders :
              journal'[id].status # "aborted_before_send"
      BY <1>1, <1>2 DEF MInv, FollowsDisk, EInv, IInv, ReservedOnly
    <2> QED BY <1>1, <1>2, <1>4, <2>1, <2>2 DEF MInv, FollowsDisk, QueuedIn
  <1> QED BY <1>6, <1>7 DEF MInv, RecordTypes

\* A step that leaves the queues alone leaves them well typed.
LEMMA QueuesKept ==
    ASSUME QueuesTyped, UNCHANGED <<trades, upstream, handling, fifo>>, Events' = Events
    PROVE  QueuesTyped'
  <1>1. fifo' \in Seq(Events)' /\ handling' \in DOMAIN trades' \cup {NoTrade}
    BY DEF QueuesTyped
  <1>2. QueuedIn(upstream)' = QueuedIn(upstream) /\ QueuedIn(fifo)' = QueuedIn(fifo)
    BY DEF QueuedIn
  <1> QED BY <1>1, <1>2 DEF QueuesTyped

\* The first half of a checkpoint puts the journal ahead of memory by its batch.
LEMMA CheckpointApplyMInv ==
    ASSUME MInv, EInv', CheckpointApply
    PROVE  MInv'
  <1>1. /\ UNCHANGED <<orders, trades, known, seeded, seen, pending, mirror,
                       upstream, handling, fifo>>
        /\ at \in {"checkpoint", "verify"}
    BY DEF CheckpointApply, exchangeVars, queueVars
  <1>2. Up /\ ~Installing /\ known = journal
    BY <1>1 DEF MInv, FollowsDisk, Up, Installing
  <1>3. CASE /\ engine' = Halted(engine) /\ at' = "poll" /\ UNCHANGED <<journal, snapshot>>
    <2>1. Up' /\ ~Installing' /\ mirror \in Nat
      BY <1>3 DEF Up, Installing, MInv, RecordTypes, LotsTyped
    <2> QED BY <1>1, <1>2, <1>3, <2>1, HaltedTyped, QuietMInv
  <1>4. CASE /\ engine' = engine /\ journal' = Applied(journal, pending)
             /\ snapshot' = pending /\ at' \in {"install", "verify install"}
    <2>1. WellFormed(journal)
      BY DEF MInv, EInv, IInv
    <2>2. /\ DOMAIN journal' = DOMAIN journal
          /\ \A id \in DOMAIN journal : /\ journal'[id].offset = journal[id].offset
                                        /\ journal'[id].volume = journal[id].volume
      <3>1. PICK after : after = Applied(journal, pending)
        OBVIOUS
      <3>2. /\ DOMAIN after = DOMAIN journal
            /\ \A id \in DOMAIN journal : /\ after[id].offset = journal[id].offset
                                          /\ after[id].volume = journal[id].volume
        BY <2>1, <3>1, AppliedAre
      <3> QED BY <1>4, <3>1, <3>2
    <2>3. FillsOf(journal') = FillsOf(journal) \cup pending.fills
      BY <1>2, <1>4, <2>1, FillsApplied DEF MInv, FollowsDisk
    <2>4. ExchangeLots' = ExchangeLots /\ Events' = Events
      BY <1>1 DEF ExchangeLots, Lots, Events, QueuedReturns
    <2>5. EngineTyped' /\ LotsTyped' /\ QueuesTyped'
      <3>1. EngineTyped'
        BY <1>1, <1>4 DEF MInv, RecordTypes, EngineTyped
      <3>2. LotsTyped'
        BY <1>1, <1>4, <2>4 DEF MInv, RecordTypes, LotsTyped
      <3>3. QueuesTyped'
        BY <1>1, <2>4, QueuesKept DEF MInv, RecordTypes
      <3> QED BY <3>1, <3>2, <3>3
    <2>6. EntriesTyped'
      BY <1>1, <1>4, <2>2 DEF MInv, EInv, TypeInv, RecordTypes, EntriesTyped
    <2>7. Up' /\ Installing'
      BY <1>4 DEF Up, Installing
    <2>8. (journal = Applied(known, snapshot))'
      BY <1>1, <1>2, <1>4 DEF Applied, TradesOf
    <2>9. FollowsDisk'
      <3>1. /\ FillsOf(journal)' = FillsOf(journal) \cup pending.fills
            /\ QueuedIn(fifo)' = QueuedIn(fifo) /\ WellFormed(known)' = WellFormed(known)
        BY <1>1, <2>3 DEF FillsOf, QueuedIn, WellFormed
      <3>2. (seen = seeded \cup FillsOf(journal) \cup pending.fills)'
        BY <1>1, <1>2, <3>1 DEF MInv, FollowsDisk
      <3>3. (pending.fills \cup snapshot.fills
                \subseteq {n \in DOMAIN trades : trades[n] \in DOMAIN known})'
        BY <1>1, <1>2, <1>4 DEF MInv, FollowsDisk
      <3> QED BY <1>1, <1>2, <1>4, <2>7, <2>8, <3>1, <3>2, <3>3 DEF MInv, FollowsDisk
    <2> QED BY <2>5, <2>6, <2>9 DEF MInv, RecordTypes
  <1> QED BY <1>3, <1>4 DEF CheckpointApply

\* The second half lets memory catch up.
LEMMA CheckpointInstallMInv ==
    ASSUME MInv, EInv', CheckpointInstall
    PROVE  MInv' /\ known' = journal /\ seen' = seen
  <1>1. /\ UNCHANGED <<orders, trades, journal, seeded, mirror, upstream, handling, fifo>>
        /\ Installing /\ at' \in {"session query", "poll", "acknowledge"}
        /\ pending' = Remaining /\ snapshot' = Nothing
        /\ engine' \in {engine, Halted(engine)}
    BY DEF CheckpointInstall, Installing, exchangeVars, queueVars
  <1>2. Up /\ Up' /\ ~Installing'
    BY <1>1 DEF Up, Installing
  <1>3. /\ journal = Applied(known, snapshot) /\ WellFormed(known)
        /\ pending.fills \cup snapshot.fills
              \subseteq {n \in DOMAIN trades : trades[n] \in DOMAIN known}
        /\ seen = seeded \cup FillsOf(journal) \cup pending.fills
    BY <1>1, <1>2 DEF MInv, FollowsDisk
  <1>4. /\ DOMAIN journal = DOMAIN known
        /\ FillsOf(journal) = FillsOf(known) \cup snapshot.fills
    BY <1>3, AppliedAre, FillsApplied
  <1>5. known' = journal
    BY <1>3 DEF CheckpointInstall, Install
  <1>6. seen' = seen
    <2>1. CASE seen' = seeded \cup FillsOf(journal) /\ Remaining = Nothing
      <3>1. pending.fills \subseteq snapshot.fills
        BY <2>1 DEF Remaining, Nothing
      <3> QED BY <1>3, <1>4, <2>1, <3>1
    <2>2. CASE seen' = seen
      BY <2>2
    <2> QED BY <2>1, <2>2 DEF CheckpointInstall, Install
  <1>7. pending'.fills \subseteq pending.fills /\ pending.fills \subseteq pending'.fills \cup snapshot.fills
    BY <1>1 DEF Remaining
  <1>8. ExchangeLots' = ExchangeLots /\ Events' = Events
    BY <1>1 DEF ExchangeLots, Lots, Events, QueuedReturns
  <1>9. EngineTyped'
    BY <1>1, HaltedTyped DEF MInv, RecordTypes, EngineTyped, EngineType
  <1>10. LotsTyped' /\ EntriesTyped'
    BY <1>1, <1>8 DEF MInv, RecordTypes, LotsTyped, EntriesTyped, Nothing
  <1>11. QueuesTyped'
    BY <1>1, <1>8, QueuesKept DEF MInv, RecordTypes
  <1>12. FollowsDisk'
    <2>1. WellFormed(known)'
      BY <1>1, <1>5 DEF EInv, IInv, WellFormed
    <2>2. (seen = seeded \cup FillsOf(journal) \cup pending.fills)'
      <3>1. FillsOf(journal)' = FillsOf(journal)
        BY <1>1 DEF FillsOf
      <3> QED BY <1>1, <1>3, <1>4, <1>6, <1>7, <3>1
    <2>3. (pending.fills \cup snapshot.fills
              \subseteq {n \in DOMAIN trades : trades[n] \in DOMAIN known})'
      BY <1>1, <1>3, <1>4, <1>5, <1>7 DEF Nothing
    <2>4. \A id \in (DOMAIN known \cap DOMAIN orders)' : known'[id].status # "aborted_before_send"
      BY <1>1, <1>5 DEF EInv, IInv, WriteAhead
    <2>5. engine'.ids = engine.ids /\ QueuedIn(fifo)' = QueuedIn(fifo)
      BY <1>1, HaltedTyped DEF QueuedIn
    <2> QED BY <1>1, <1>2, <1>5, <1>6, <2>1, <2>2, <2>3, <2>4, <2>5 DEF MInv, FollowsDisk
  <1> QED BY <1>5, <1>6, <1>9, <1>10, <1>11, <1>12 DEF MInv, RecordTypes

\* The fills of the recovered journal are all the trades of its orders.
LEMMA RecoveredFills ==
    ASSUME MInv
    PROVE  FillsOf(Recovered) = {n \in DOMAIN trades : trades[n] \in DOMAIN journal}
  <1>1. /\ DOMAIN Recovered = DOMAIN journal
        /\ \A id \in DOMAIN journal : Recovered[id].fills = TradesOf(id)
    BY DEF Recovered, MInv, EInv, IInv, WellFormed, Fields
  <1> QED BY <1>1 DEF FillsOf, TradesOf

\* A verified session leaves a journal that the exchange agrees with.
LEMMA VerifySessionMInv ==
    ASSUME MInv, EInv', VerifySession
    PROVE  MInv' /\ FillsOf(journal) \subseteq FillsOf(Recovered)
                 /\ seen \subseteq seen' /\ seeded \subseteq FillsOf(Recovered)
  <1>1. /\ UNCHANGED <<orders, trades, seeded, pending, snapshot, mirror, upstream, handling, fifo>>
        /\ at = "session query" /\ at' = "poll"
        /\ journal' = Recovered /\ known' = Recovered
        /\ seen' = seeded \cup FillsOf(Recovered)
        /\ engine' \in {engine, Halted(engine)}
    BY DEF VerifySession, Install, exchangeVars
  <1>2. Up /\ Up' /\ ~Installing /\ ~Installing' /\ known = journal
    BY <1>1 DEF MInv, FollowsDisk, Up, Installing
  <1>3. /\ DOMAIN Recovered = DOMAIN journal
        /\ \A id \in DOMAIN journal : /\ Recovered[id].offset = journal[id].offset
                                      /\ Recovered[id].volume = journal[id].volume
                                      /\ id \in DOMAIN orders => Recovered[id].status = "terminal"
    BY RecoveredKeeps DEF MInv, EInv, IInv
  <1>4. FillsOf(Recovered) = {n \in DOMAIN trades : trades[n] \in DOMAIN journal}
    BY RecoveredFills
  <1>5. FillsOf(journal) \subseteq FillsOf(Recovered)
    <2>1. \A id \in DOMAIN journal : journal[id].fills \subseteq TradesOf(id)
      BY DEF MInv, EInv, Evidence
    <2> QED BY <1>4, <2>1 DEF FillsOf, TradesOf
  <1>6. /\ seen = seeded \cup FillsOf(journal) \cup pending.fills
        /\ pending.fills \subseteq FillsOf(Recovered)
    BY <1>2, <1>4 DEF MInv, FollowsDisk
  <1>7. ExchangeLots' = ExchangeLots /\ Events' = Events
    BY <1>1 DEF ExchangeLots, Lots, Events, QueuedReturns
  <1>8. EngineTyped' /\ LotsTyped'
    <2>1. EngineTyped'
      BY <1>1, HaltedTyped DEF MInv, RecordTypes, EngineTyped, EngineType
    <2> QED BY <1>1, <1>7, <2>1 DEF MInv, RecordTypes, LotsTyped
  <1>9. QueuesTyped' /\ EntriesTyped'
    <2>1. QueuesTyped'
      BY <1>1, <1>7 DEF MInv, RecordTypes, QueuesTyped, QueuedIn
    <2>2. EntriesTyped'
      BY <1>1, <1>3 DEF MInv, RecordTypes, EntriesTyped
    <2> QED BY <2>1, <2>2
  <1>10. FollowsDisk'
    <2>1. WellFormed(known)'
      BY <1>1 DEF EInv, IInv, WellFormed
    <2>2. (seen = seeded \cup FillsOf(journal) \cup pending.fills)'
      <3>1. FillsOf(journal)' = FillsOf(Recovered)
        BY <1>1 DEF FillsOf
      <3> QED BY <1>1, <1>6, <3>1
    <2>3. (pending.fills \cup snapshot.fills
              \subseteq {n \in DOMAIN trades : trades[n] \in DOMAIN known})'
      BY <1>1, <1>2, <1>3 DEF MInv, FollowsDisk
    <2>4. engine'.ids = engine.ids /\ QueuedIn(fifo)' = QueuedIn(fifo)
      BY <1>1, HaltedTyped DEF QueuedIn
    <2>5. QueuedIn(fifo) \cup ({handling} \ {NoTrade}) \cup engine.ids \subseteq seen'
      BY <1>1, <1>2, <1>5, <1>6 DEF MInv, FollowsDisk
    <2> QED BY <1>1, <1>2, <1>3, <2>1, <2>2, <2>3, <2>4, <2>5 DEF FollowsDisk
  <1>11. seeded \subseteq FillsOf(Recovered)
    <2>1. \A n \in seeded : n \in DOMAIN trades /\ trades[n] \in DOMAIN orders
      BY DEF MInv, RecordTypes, EngineTyped, LotsTyped
    <2>2. DOMAIN orders \subseteq DOMAIN journal
      BY DEF MInv, EInv, IInv, WriteAhead
    <2> QED BY <1>4, <2>1, <2>2
  <1> QED BY <1>1, <1>5, <1>6, <1>8, <1>9, <1>10, <1>11 DEF MInv, RecordTypes

\* Every trade of the day is replayed to a process that starts.
LEMMA QueuedReplayed ==
    ASSUME TypeInv, NEW ids \in Orderings(DOMAIN orders)
    PROVE  QueuedIn(Replayed(ids)) = DOMAIN trades
  <1> DEFINE first == [i \in DOMAIN ids |-> OrderEvent(ids[i], ids[i] \in live)]
             second == [n \in DOMAIN trades |-> TradeEvent(n)]
  <1>1. \E n \in Nat : DOMAIN ids = 1..n
    BY FS_CardinalityType DEF Orderings, TypeInv
  <1> DEFINE S == Range(first) \cup Range(second)
  <1>2. first \in Seq(S) /\ second \in Seq(S)
    <2> HIDE DEF S
    <2>1. /\ \A i \in DOMAIN first : first[i] \in S
          /\ \A n \in DOMAIN second : second[n] \in S
      BY DEF S, Range
    <2>2. PICK n \in Nat : DOMAIN first = 1..n
      BY <1>1
    <2>3. PICK m \in Nat : DOMAIN second = 1..m
      BY TradesFinite
    <2>4. first \in [1..n -> S] /\ second \in [1..m -> S]
      BY <2>1, <2>2, <2>3
    <2> HIDE DEF first, second
    <2> QED BY <2>4
  <1>3. QueuedIn(first) = {}
    BY DEF QueuedIn, OrderEvent
  <1>4. QueuedIn(second) = DOMAIN trades
    BY DEF QueuedIn, TradeEvent
  <1> HIDE DEF first, second, S
  <1>5. QueuedIn(first \o second) = QueuedIn(first) \cup QueuedIn(second)
    BY <1>2, QueuedConcat
  <1> QED BY <1>3, <1>4, <1>5 DEF Replayed, first, second

\* A start reads the journal and asks for the replay.
LEMMA StartMInv ==
    ASSUME MInv, EInv', Start
    PROVE  MInv'
  <1>1. /\ UNCHANGED <<orders, trades, journal, engine>>
        /\ at' = "starting" /\ known' = journal /\ seeded' = engine.ids
        /\ seen' = engine.ids \cup FillsOf(journal)
        /\ pending' = Nothing /\ snapshot' = Nothing /\ mirror' = ExchangeLots
        /\ handling' = NoTrade /\ fifo' = <<>>
    BY DEF Start, exchangeVars, diskVars
  <1>2. Up' /\ ~Installing'
    BY <1>1 DEF Up, Installing
  <1>3. QueuedIn(upstream') = DOMAIN trades /\ QueuedIn(fifo') = {}
    <2>1. QueuedIn(upstream') = DOMAIN trades
      BY QueuedReplayed DEF Start, MInv, EInv
    <2> QED BY <1>1, <2>1 DEF QueuedIn
  <1>4. ExchangeLots' = ExchangeLots
    BY <1>1 DEF ExchangeLots, Lots
  <1>5. EngineTyped' /\ LotsTyped' /\ EntriesTyped'
    BY <1>1, <1>4 DEF MInv, RecordTypes, EngineTyped, LotsTyped, EntriesTyped, Nothing
  <1>6. QueuesTyped'
    <2>1. fifo' \in Seq(Events')
      BY <1>1
    <2> QED BY <1>1, <1>3, <2>1 DEF QueuesTyped, QueuedIn
  <1>7. FollowsDisk'
    <2>1. /\ WellFormed(known)' /\ FillsOf(journal)' = FillsOf(journal)
          /\ QueuedIn(fifo)' = {}
      BY <1>1, <1>3 DEF EInv, IInv, WellFormed, FillsOf, QueuedIn
    <2>2. \A id \in DOMAIN journal \cap DOMAIN orders :
              journal[id].status # "aborted_before_send"
      BY DEF MInv, EInv, IInv, WriteAhead
    <2> QED BY <1>1, <1>2, <2>1, <2>2 DEF FollowsDisk, Nothing
  <1> QED BY <1>5, <1>6, <1>7 DEF MInv, RecordTypes

\* A process that is down has no memory.
LEMMA DownMInv ==
    ASSUME MInv, EInv', Down
    PROVE  MInv'
  <1>1. /\ UNCHANGED <<orders, trades, journal, engine>>
        /\ at' = "down" /\ seeded' = {} /\ snapshot' = Nothing /\ mirror' = 0
        /\ upstream' = <<>> /\ handling' = NoTrade /\ fifo' = <<>>
    BY DEF Down, exchangeVars, diskVars
  <1>2. ExchangeLots' = ExchangeLots
    BY <1>1 DEF ExchangeLots, Lots
  <1>3. EngineTyped' /\ LotsTyped' /\ EntriesTyped'
    BY <1>1, <1>2 DEF MInv, RecordTypes, EngineTyped, LotsTyped, EntriesTyped, Nothing
  <1>4. QueuesTyped'
    <2>1. fifo' \in Seq(Events')
      BY <1>1
    <2> QED BY <1>1, <2>1 DEF QueuesTyped, QueuedIn
  <1>5. FollowsDisk'
    BY <1>1 DEF FollowsDisk, Up
  <1> QED BY <1>3, <1>4, <1>5 DEF MInv, RecordTypes

\* What the callbacks do to queues and memory.
LEMMA EventThreadDoes ==
    ASSUME MInv, EventThread
    PROVE  /\ UNCHANGED <<orders, live, trades, journal, engine, known, seeded, snapshot, at,
                          request>>
           /\ fifo' \in Seq(Events)
           /\ \/ \* a trade that was seen before, or refused
                 /\ UNCHANGED <<seen, mirror, handling>>
                 /\ pending'.fills = pending.fills
                 /\ QueuedIn(fifo') = QueuedIn(fifo)
                 /\ \/ QueuedIn(upstream) = QueuedIn(upstream')
                    \/ /\ \E i \in DOMAIN fifo' : fifo'[i].type = "broker_error"
                       /\ QueuedIn(upstream') \subseteq QueuedIn(upstream)
                    \/ \E n \in seen : QueuedIn(upstream) = QueuedIn(upstream') \cup {n}
              \/ \* a trade that is booked
                 \E n \in DOMAIN trades \ seen :
                    /\ trades[n] \in DOMAIN known
                    /\ seen' = seen \cup {n} /\ pending'.fills = pending.fills \cup {n}
                    /\ mirror' = mirror + Lots(n) /\ mirror' \in Nat
                    /\ handling = NoTrade /\ handling' = n /\ fifo' = fifo
                    /\ QueuedIn(upstream) = QueuedIn(upstream') \cup {n}
              \/ \* its event is queued
                 /\ UNCHANGED <<seen, mirror, pending, upstream>>
                 /\ handling # NoTrade /\ handling' = NoTrade
                 /\ QueuedIn(fifo') = QueuedIn(fifo) \cup {handling}
           /\ \A i \in DOMAIN fifo : i \in DOMAIN fifo' /\ fifo'[i] = fifo[i]
  <1>1. UNCHANGED <<orders, live, trades, journal, engine, known, seeded, snapshot, at, request>>
    BY DEF EventThread, OrderCallback, AccountCallback, TradeCallback, TradeEnqueue,
           Dispatching, exchangeVars, diskVars, memoryVars
  <1>2. /\ fifo \in Seq(Events) /\ upstream \in Seq(QueuedReturns)
        /\ QueuedIn(upstream) \subseteq DOMAIN trades
        /\ handling \in DOMAIN trades \cup {NoTrade} /\ DOMAIN trades \subseteq Nat
    BY TradesFinite DEF MInv, EInv, TypeInv, RecordTypes, QueuesTyped
  <1>3. ASSUME NEW e \in Events, fifo' = Append(fifo, e)
        PROVE  /\ fifo' \in Seq(Events)
               /\ QueuedIn(fifo') = QueuedIn(fifo) \cup (IF e.type = "trade" THEN {e.trade} ELSE {})
               /\ \A i \in DOMAIN fifo : i \in DOMAIN fifo' /\ fifo'[i] = fifo[i]
               /\ e.type = "broker_error" => \E i \in DOMAIN fifo' : fifo'[i].type = "broker_error"
    <2>1. QueuedIn(fifo') = QueuedIn(fifo) \cup (IF e.type = "trade" THEN {e.trade} ELSE {})
      BY <1>2, <1>3, QueuedAppend
    <2>2. /\ fifo' \in Seq(Events) /\ Len(fifo) + 1 \in DOMAIN fifo' /\ fifo'[Len(fifo) + 1] = e
          /\ \A i \in DOMAIN fifo : i \in DOMAIN fifo' /\ fifo'[i] = fifo[i]
      BY <1>2, <1>3
    <2> QED BY <2>1, <2>2
  <1>4. BrokerError \in Events /\ BrokerError.type = "broker_error"
    BY DEF Events, BrokerError
  <1>5. ASSUME NEW type, Dispatching(type)
        PROVE  /\ handling = NoTrade /\ Head(upstream) \in QueuedReturns
               /\ Head(upstream).type = type
               /\ QueuedIn(upstream) = QueuedIn(upstream')
                     \cup (IF type = "trade" THEN {Head(upstream).trade} ELSE {})
    BY <1>2, <1>5, QueuedTail DEF Dispatching
  <1>6. CASE OrderCallback
    <2>1. PICK e \in Events : fifo' = Append(fifo, e) /\ e.type # "trade"
      BY <1>4, <1>5, <1>6 DEF OrderCallback, Enqueue, Events
    <2>2. /\ UNCHANGED <<seen, mirror, handling>> /\ pending'.fills = pending.fills
          /\ QueuedIn(upstream) = QueuedIn(upstream')
      BY <1>5, <1>6 DEF OrderCallback, MInv, EInv, TypeInv
    <2> QED BY <1>1, <1>3, <2>1, <2>2
  <1>7. CASE AccountCallback
    <2>1. Head(upstream) \in Events /\ Head(upstream).type # "trade"
      BY <1>5, <1>7 DEF AccountCallback, Events
    <2>2. /\ fifo' = Append(fifo, Head(upstream))
          /\ UNCHANGED <<seen, mirror, handling, pending>>
      BY <1>7 DEF AccountCallback, Enqueue, memoryVars
    <2>3. QueuedIn(upstream) = QueuedIn(upstream')
      BY <1>5, <1>7 DEF AccountCallback
    <2> QED BY <1>1, <1>3, <2>1, <2>2, <2>3
  <1>8. CASE TradeCallback
    <2> DEFINE n == Head(upstream).trade
    <2>1. n \in DOMAIN trades /\ handling = NoTrade
          /\ QueuedIn(upstream) = QueuedIn(upstream') \cup {n}
      BY <1>2, <1>5, <1>8 DEF TradeCallback
    <2>2. CASE n \in seen /\ UNCHANGED <<seen, evidenced, pending, mirror, handling, fifo,
                                        acknowledged>>
      BY <1>1, <1>2, <2>1, <2>2
    <2>3. CASE Enqueue(BrokerError) /\ UNCHANGED <<seen, evidenced, pending, mirror, handling>>
      <3>1. fifo' = Append(fifo, BrokerError)
        BY <2>3 DEF Enqueue
      <3> QED BY <1>1, <1>3, <1>4, <2>1, <2>3, <3>1
    <2>4. CASE /\ n \notin seen /\ Bookable(n) /\ seen' = seen \cup {n}
               /\ pending' = [pending EXCEPT !.fills = @ \cup {n}]
               /\ mirror' = mirror + Lots(n) /\ handling' = n
               /\ UNCHANGED fifo
      <3>1. trades[n] \in DOMAIN known /\ mirror + Lots(n) >= 0
        BY <2>4 DEF Bookable
      <3>2. mirror' \in Nat
        BY <2>4, <3>1 DEF Lots, MInv, RecordTypes, LotsTyped
      <3>3. pending'.fills = pending.fills \cup {n}
        BY <2>4 DEF MInv, EInv, TypeInv
      <3> HIDE DEF n
      <3> QED BY <1>1, <1>2, <2>1, <2>4, <3>1, <3>2, <3>3
    <2> QED BY <1>8, <2>2, <2>3, <2>4 DEF TradeCallback
  <1>9. CASE TradeEnqueue
    <2>1. /\ fifo' = Append(fifo, TradeEvent(handling)) /\ handling # NoTrade /\ handling' = NoTrade
          /\ UNCHANGED <<seen, mirror, pending, upstream>>
      BY <1>9 DEF TradeEnqueue, Enqueue, memoryVars
    <2>2. TradeEvent(handling) \in Events /\ TradeEvent(handling).type = "trade"
          /\ TradeEvent(handling).trade = handling
      BY <1>2, <2>1 DEF TradeEvent, Events, QueuedReturns
    <2> QED BY <1>1, <1>3, <2>1, <2>2
  <1> QED BY <1>6, <1>7, <1>8, <1>9 DEF EventThread

\* The thread of the gateway's callbacks.
LEMMA EventThreadMInv ==
    ASSUME MInv, EInv', EventThread
    PROVE  MInv'
  <1>1. /\ UNCHANGED <<orders, live, trades, journal, engine, known, seeded, snapshot, at, request>>
        /\ fifo' \in Seq(Events)
        /\ mirror' \in Nat
        /\ QueuedIn(upstream') \subseteq QueuedIn(upstream)
        /\ seen \subseteq seen' /\ seen' \subseteq seen \cup DOMAIN trades
        /\ pending'.fills = pending.fills \cup (seen' \ seen)
        /\ \A n \in seen' \ seen : trades[n] \in DOMAIN known
        /\ \/ handling' = handling
           \/ handling' \in (seen' \cap DOMAIN trades) \cup {NoTrade}
        /\ QueuedIn(fifo') \subseteq QueuedIn(fifo) \cup ({handling} \ {NoTrade})
    <2>1. mirror \in Nat /\ handling \in DOMAIN trades \cup {NoTrade}
      BY DEF MInv, RecordTypes, LotsTyped, EInv, TypeInv, QueuesTyped
    <2>2. /\ UNCHANGED <<orders, live, trades, journal, engine, known, seeded, snapshot, at,
                         request>>
          /\ fifo' \in Seq(Events)
      BY EventThreadDoes
    <2>3. CASE /\ UNCHANGED <<seen, mirror, handling>>
               /\ pending'.fills = pending.fills
               /\ QueuedIn(fifo') = QueuedIn(fifo)
               /\ QueuedIn(upstream') \subseteq QueuedIn(upstream)
      BY <2>1, <2>2, <2>3
    <2>4. ASSUME NEW n \in DOMAIN trades \ seen, trades[n] \in DOMAIN known,
                 seen' = seen \cup {n}, pending'.fills = pending.fills \cup {n},
                 mirror' \in Nat, handling' = n, fifo' = fifo,
                 QueuedIn(upstream) = QueuedIn(upstream') \cup {n}
          PROVE  <1>1!:
      BY <2>1, <2>2, <2>4
    <2>5. CASE /\ UNCHANGED <<seen, mirror, pending, upstream>>
               /\ handling # NoTrade /\ handling' = NoTrade
               /\ QueuedIn(fifo') = QueuedIn(fifo) \cup {handling}
      <3>1. pending'.fills = pending.fills /\ QueuedIn(upstream') = QueuedIn(upstream)
        BY <2>5
      <3> QED BY <2>1, <2>2, <2>5, <3>1
    <2> QED BY <2>3, <2>4, <2>5, EventThreadDoes
  <1>2. ExchangeLots' = ExchangeLots /\ Events' = Events
    BY <1>1 DEF ExchangeLots, Lots, Events, QueuedReturns
  <1>3. EngineTyped' /\ LotsTyped' /\ EntriesTyped'
    BY <1>1, <1>2 DEF MInv, RecordTypes, EngineTyped, LotsTyped, EntriesTyped
  <1>4. QueuesTyped'
    <2>1. QueuedIn(upstream)' = QueuedIn(upstream') /\ QueuedIn(fifo)' = QueuedIn(fifo')
      BY DEF QueuedIn
    <2> QED BY <1>1, <1>2, <2>1 DEF MInv, RecordTypes, QueuesTyped
  <1>5. FollowsDisk'
    <2>1. /\ Up' = Up /\ Installing' = Installing /\ WellFormed(known)' = WellFormed(known)
          /\ FillsOf(journal)' = FillsOf(journal) /\ QueuedIn(fifo)' = QueuedIn(fifo')
          /\ Applied(known, snapshot)' = Applied(known, snapshot)
      BY <1>1 DEF Up, Installing, WellFormed, FillsOf, QueuedIn, Applied, TradesOf
    <2>2. Up => handling \in seen \cup {NoTrade} /\ QueuedIn(fifo) \cup engine.ids \subseteq seen
      BY DEF MInv, FollowsDisk
    <2>3. Up => (seen = seeded \cup FillsOf(journal) \cup pending.fills)'
      BY <1>1, <2>1 DEF MInv, FollowsDisk
    <2>4. Up => (pending.fills \cup snapshot.fills
                   \subseteq {n \in DOMAIN trades : trades[n] \in DOMAIN known})'
      BY <1>1 DEF MInv, FollowsDisk
    <2> QED BY <1>1, <2>1, <2>2, <2>3, <2>4 DEF MInv, FollowsDisk
  <1> QED BY <1>3, <1>4, <1>5 DEF MInv, RecordTypes

-----------------------------------------------------------------------------
(* The exchange. *)

\* What a step of the exchange does to the trades and the queue.
TradesAndQueue(o, n) ==
    /\ o \in DOMAIN orders \cup {Foreign} /\ n = Len(trades) + 1
    /\ trades' = Append(trades, o)
    /\ ExchangeLots' = ExchangeLots + Lots(n)'
    /\ QueuedIn(upstream') = QueuedIn(upstream) \cup (IF Up THEN {n} ELSE {})

\* An exchange event joins the queue of a process that listens.
LEMMA PublishQueues ==
    ASSUME TypeInv, NEW events \in Seq(QueuedReturns), Publish(events)
    PROVE  QueuedIn(upstream') = QueuedIn(upstream) \cup (IF Up THEN QueuedIn(events) ELSE {})
  <1>1. upstream \in Seq(QueuedReturns)
    BY DEF TypeInv
  <1>2. CASE Up
    BY <1>1, <1>2, QueuedConcat DEF Publish
  <1>3. CASE ~Up
    BY <1>3 DEF Publish
  <1> QED BY <1>2, <1>3

\* The trade of a fill is queued for a process that listens.
LEMMA FillQueued ==
    ASSUME NEW id \in DOMAIN orders \cup {Foreign}, NEW active \in BOOLEAN, NEW n \in Nat
    PROVE  /\ <<OrderEvent(id, active), TradeEvent(n)>> \in Seq(QueuedReturns)
           /\ QueuedIn(<<OrderEvent(id, active), TradeEvent(n)>>) = {n}
           /\ <<OrderEvent(id, active)>> \in Seq(QueuedReturns)
           /\ QueuedIn(<<OrderEvent(id, active)>>) = {}
  <1> DEFINE q == <<OrderEvent(id, active), TradeEvent(n)>>
             r == <<OrderEvent(id, active)>>
  <1>1. OrderEvent(id, active) \in QueuedReturns /\ TradeEvent(n) \in QueuedReturns
    BY DEF OrderEvent, TradeEvent, QueuedReturns
  <1>2. OrderEvent(id, active).type = "order" /\ TradeEvent(n).type = "trade"
        /\ TradeEvent(n).trade = n
    BY DEF OrderEvent, TradeEvent
  <1> HIDE DEF OrderEvent, TradeEvent
  <1>3. /\ DOMAIN q = {1, 2} /\ q[1].type = "order" /\ q[2].type = "trade" /\ q[2].trade = n
        /\ DOMAIN r = {1} /\ r[1].type = "order"
    BY <1>2
  <1>4. q \in Seq(QueuedReturns) /\ r \in Seq(QueuedReturns)
    BY <1>1
  <1> HIDE DEF q, r
  <1>5. QueuedIn(q) = {n} /\ QueuedIn(r) = {}
    BY <1>3 DEF QueuedIn
  <1> QED BY <1>4, <1>5 DEF q, r

\* What a step of the exchange changes.
LEMMA ExchangeDoes ==
    ASSUME MInv, Exchange
    PROVE  /\ UNCHANGED <<orders, journal, engine, known, seeded, seen, pending, snapshot,
                         mirror, handling, fifo, at, request>>
           /\ live' \subseteq live
           /\ \/ UNCHANGED trades /\ QueuedIn(upstream') = QueuedIn(upstream)
              \/ \E o \in live \cup {Foreign}, n \in Nat :
                    TradesAndQueue(o, n) /\ ExchangeLots' >= 0
  <1>1. /\ UNCHANGED <<orders, journal, engine, known, seeded, seen, pending, snapshot,
                         mirror, handling, fifo, at, request>>
        /\ live' \subseteq live
    BY DEF Exchange, ExFill, ExCancel, ExForeignFill, ExAccount, diskVars, memoryVars
  <1>2. TypeInv /\ LotsTyped /\ live \subseteq DOMAIN orders /\ DOMAIN orders \subseteq OwnId
    BY DEF MInv, EInv, IInv, WriteAhead, TypeInv, RecordTypes
  <1>3. Len(trades) + 1 \in Nat
    BY <1>2, TradesFinite
  <1>4. ASSUME NEW id \in live, ExFill(id), NEW n \in Nat, n = Len(trades) + 1
        PROVE  TradesAndQueue(id, n) /\ ExchangeLots' >= 0
    <2>1. trades' = Append(trades, id) /\ (orders[id].offset = "CLOSE" => ExchangeLots > 0)
      BY <1>4 DEF ExFill
    <2>2. PICK active \in BOOLEAN : Publish(<<OrderEvent(id, active), TradeEvent(n)>>)
      BY <1>4 DEF ExFill
    <2>3. QueuedIn(upstream') = QueuedIn(upstream) \cup (IF Up THEN {n} ELSE {})
      <3> DEFINE q == <<OrderEvent(id, active), TradeEvent(n)>>
      <3>1. q \in Seq(QueuedReturns) /\ QueuedIn(q) = {n}
        BY <1>2, FillQueued
      <3>2. Publish(q)
        BY <2>2
      <3> HIDE DEF q
      <3> QED BY <1>2, <3>1, <3>2, PublishQueues
    <2>4. id \in OwnId /\ orders' = orders
      BY <1>1, <1>2
    <2>5. ExchangeLots' = ExchangeLots + Lots(n)'
      BY <1>2, <1>4, <2>1, <2>4, LotsAdded
    <2>6. orders[id].offset \in {"OPEN", "CLOSE"} /\ id # Foreign
      BY <1>2, ForeignIsNotOwn DEF MInv, EInv, IInv, WriteAhead, RecordTypes, EntriesTyped
    <2>7. trades'[n] = id /\ orders'[id].offset = orders[id].offset
      BY <1>2, <1>4, <2>1, <2>4, TradeAdded
    <2>8. Lots(n)' = IF orders[id].offset = "OPEN" THEN 1 ELSE -1
      BY <2>6, <2>7 DEF Lots
    <2>9. ExchangeLots' >= 0
      BY <1>2, <2>1, <2>5, <2>6, <2>8 DEF LotsTyped
    <2> QED BY <1>2, <1>4, <2>1, <2>3, <2>5, <2>9 DEF TradesAndQueue
  <1>5. ASSUME ExForeignFill, NEW n \in Nat, n = Len(trades) + 1
        PROVE  TradesAndQueue(Foreign, n) /\ ExchangeLots' >= 0
    <2> DEFINE q == <<OrderEvent(Foreign, FALSE), TradeEvent(n)>>
    <2>1. trades' = Append(trades, Foreign) /\ Publish(q)
      BY <1>5 DEF ExForeignFill
    <2>2. QueuedIn(upstream') = QueuedIn(upstream) \cup (IF Up THEN {n} ELSE {})
      <3>1. q \in Seq(QueuedReturns) /\ QueuedIn(q) = {n}
        BY FillQueued
      <3> HIDE DEF q
      <3> QED BY <1>2, <2>1, <3>1, PublishQueues
    <2>3. ExchangeLots' = ExchangeLots + Lots(n)'
      BY <1>1, <1>2, <1>5, <2>1, LotsAdded
    <2>4. trades'[n] = Foreign
      BY <1>2, <1>5, <2>1, TradeAdded
    <2>5. Lots(n)' = 1
      BY <2>4 DEF Lots
    <2>6. ExchangeLots' >= 0
      BY <1>2, <2>3, <2>5 DEF LotsTyped
    <2> QED BY <1>5, <2>1, <2>2, <2>3, <2>6 DEF TradesAndQueue
  <1>6. ASSUME NEW id \in live, ExCancel(id)
        PROVE  trades' = trades /\ QueuedIn(upstream') = QueuedIn(upstream)
    <2> DEFINE q == <<OrderEvent(id, FALSE)>>
    <2>1. Publish(q) /\ trades' = trades
      BY <1>6 DEF ExCancel
    <2>2. q \in Seq(QueuedReturns) /\ QueuedIn(q) = {}
      BY <1>2, <1>3, FillQueued
    <2> HIDE DEF q
    <2> QED BY <1>2, <2>1, <2>2, PublishQueues
  <1>7. ASSUME NEW loss \in BOOLEAN, ExAccount(loss)
        PROVE  trades' = trades /\ QueuedIn(upstream') = QueuedIn(upstream)
    <2>1. upstream' = Append(upstream, AccountEvent(loss)) /\ trades' = trades
      BY <1>7 DEF ExAccount
    <2>2. AccountEvent(loss) \in QueuedReturns /\ AccountEvent(loss).type # "trade"
      BY DEF AccountEvent, QueuedReturns
    <2>3. QueuedIn(upstream') = QueuedIn(upstream) \cup {}
      BY <1>2, <2>1, <2>2, QueuedAppend DEF TypeInv
    <2> QED BY <2>1, <2>3
  <1>8. CASE \E id \in live : ExFill(id)
    BY <1>1, <1>3, <1>4, <1>8
  <1>9. CASE ExForeignFill
    BY <1>1, <1>3, <1>5, <1>9
  <1> QED BY <1>1, <1>6, <1>7, <1>8, <1>9 DEF Exchange

\* Steps of the exchange.
LEMMA ExchangeMInv ==
    ASSUME MInv, EInv', Exchange
    PROVE  MInv'
  <1>1. /\ UNCHANGED <<orders, journal, engine, known, seeded, seen, pending, snapshot,
                      mirror, handling, fifo, at, request>>
        /\ TypeInv /\ LotsTyped
    BY ExchangeDoes DEF MInv, EInv, RecordTypes
  <1>2. /\ DOMAIN trades \subseteq DOMAIN trades'
        /\ \A n \in DOMAIN trades : trades'[n] = trades[n]
        /\ \A n \in DOMAIN trades' : trades'[n] \in DOMAIN orders \cup {Foreign}
        /\ QueuedIn(upstream') \subseteq QueuedIn(upstream) \cup DOMAIN trades'
        /\ ExchangeLots' \in Nat
    <2>1. CASE UNCHANGED trades /\ QueuedIn(upstream') = QueuedIn(upstream)
      BY <1>1, <2>1 DEF LotsTyped, ExchangeLots, Lots
    <2>2. ASSUME NEW o \in live \cup {Foreign}, NEW n \in Nat, TradesAndQueue(o, n),
                 ExchangeLots' >= 0
          PROVE  <1>2!:
      <3>1. o \in OwnId \cup {Foreign} /\ ExchangeLots' \in Int
        BY <1>1, <2>2 DEF MInv, EInv, IInv, WriteAhead, TypeInv, TradesAndQueue, LotsTyped, Lots
      <3>2. /\ DOMAIN trades' = DOMAIN trades \cup {n} /\ trades'[n] = o
            /\ \A i \in DOMAIN trades : trades'[i] = trades[i]
        BY <1>1, <2>2, <3>1, TradeAdded DEF TradesAndQueue
      <3> QED BY <1>1, <2>2, <3>1, <3>2 DEF TradesAndQueue, LotsTyped
    <2> QED BY <2>1, <2>2, ExchangeDoes
  <1>3. QueuedIn(upstream)' = QueuedIn(upstream') /\ QueuedIn(fifo)' = QueuedIn(fifo)
        /\ Events' = Events /\ FillsOf(journal)' = FillsOf(journal)
    BY <1>1 DEF QueuedIn, Events, QueuedReturns, FillsOf
  <1>4. EngineTyped'
    BY <1>1, <1>2 DEF MInv, RecordTypes, EngineTyped
  <1>5. LotsTyped'
    BY <1>1, <1>2 DEF LotsTyped
  <1>6. QueuesTyped'
    BY <1>1, <1>2, <1>3 DEF MInv, RecordTypes, QueuesTyped
  <1>7. EntriesTyped'
    BY <1>1 DEF MInv, RecordTypes, EntriesTyped
  <1>8. FollowsDisk'
    <2>1. /\ Up' = Up /\ Installing' = Installing /\ WellFormed(known)' = WellFormed(known)
      BY <1>1 DEF Up, Installing, WellFormed
    <2>2. Up => snapshot.fills \subseteq DOMAIN trades
      BY DEF MInv, FollowsDisk
    <2>3. Up => \A id : snapshot.fills \cap TradesOf(id)' = snapshot.fills \cap TradesOf(id)
      BY <1>2, <2>2 DEF TradesOf
    <2>4. Up => Applied(known, snapshot)' = Applied(known, snapshot)
      BY <1>1, <2>3 DEF Applied
    <2>5. Up => (pending.fills \cup snapshot.fills
                   \subseteq {n \in DOMAIN trades : trades[n] \in DOMAIN known})'
      BY <1>1, <1>2 DEF MInv, FollowsDisk
    <2> QED BY <1>1, <1>3, <2>1, <2>4, <2>5 DEF MInv, FollowsDisk
  <1> QED BY <1>4, <1>5, <1>6, <1>7, <1>8 DEF MInv, RecordTypes

-----------------------------------------------------------------------------
(* Every step. *)

\* Steps of the engine thread that leave the records and the queues alone.
LEMMA EngineMInv ==
    ASSUME MInv, EInv', PollDone \/ Acknowledge \/ Snapshot \/ StartupOrdersSettled
                          \/ UNCHANGED vars
    PROVE  MInv'
  <1>1. UNCHANGED <<orders, trades, journal, engine, known, seeded, seen, pending, snapshot,
                   upstream, handling, fifo>>
    BY DEF PollDone, Acknowledge, Snapshot, StartupOrdersSettled, vars, exchangeVars, diskVars,
           memoryVars, queueVars
  <1>2. mirror' \in {mirror, ExchangeLots}
    BY DEF PollDone, Acknowledge, Snapshot, StartupOrdersSettled, vars, memoryVars
  <1>3. (Up' => Up) /\ (Installing' <=> Installing)
    BY DEF PollDone, Acknowledge, Snapshot, StartupOrdersSettled, vars, Up, Installing
  <1>4. engine \in EngineType /\ mirror \in Nat /\ ExchangeLots \in Nat
    BY HaltedTyped DEF MInv, RecordTypes, LotsTyped
  <1> QED BY <1>1, <1>2, <1>3, <1>4, QuietMInv

\* The risk reduction.
LEMMA ReduceMInv ==
    ASSUME MInv, EInv', Reduce
    PROVE  MInv'
  <1>1. at = "reduce" /\ mirror \in Nat /\ MaxVolume \in Nat
    BY SubmissionAssumption DEF Reduce, MInv, RecordTypes, LotsTyped
  <1> DEFINE volume == IF mirror < MaxVolume THEN mirror ELSE MaxVolume
  <1>2. volume \in Nat
    BY <1>1
  <1>3. CASE Reserve("CLOSE", volume, "checkpoint")
    <2> HIDE DEF volume
    <2> QED BY <1>1, <1>2, <1>3, ReserveMInv
  <1>4. CASE at' = "checkpoint" /\ UNCHANGED <<exchangeVars, journal, memoryVars, queueVars>>
             /\ engine' \in {engine, Halted(engine)}
    <2>1. engine' \in EngineType /\ engine'.ids = engine.ids
      BY <1>4, HaltedTyped
    <2> QED BY <1>1, <1>4, <2>1, QuietMInv
            DEF exchangeVars, memoryVars, queueVars, Up, Installing
  <1> QED BY <1>3, <1>4 DEF Reduce, SendRefused, diskVars

\* The rebalance.
LEMMA RebalanceMInv ==
    ASSUME MInv, EInv', Rebalance
    PROVE  MInv'
  <1>1. at = "rebalance" /\ 1..MaxVolume \subseteq Nat
    BY SubmissionAssumption DEF Rebalance
  <1>2. CASE \E offset \in {"OPEN", "CLOSE"}, volume \in 1..MaxVolume :
                Reserve(offset, volume, "poll")
    BY <1>1, <1>2, ReserveMInv
  <1>3. CASE at' = "poll" /\ UNCHANGED <<exchangeVars, diskVars, memoryVars, queueVars>>
    <2>1. engine \in EngineType /\ mirror \in Nat
      BY HaltedTyped DEF MInv, RecordTypes, LotsTyped
    <2> QED BY <1>1, <1>3, <2>1, QuietMInv
            DEF exchangeVars, diskVars, memoryVars, queueVars, Up, Installing
  <1> QED BY <1>2, <1>3 DEF Rebalance

\* Every step keeps the invariant.
LEMMA StepMInv == MInv /\ [Next]_vars => MInv'
  <1> SUFFICES ASSUME MInv, [Next]_vars PROVE MInv'
    OBVIOUS
  <1>0. EInv'
    BY StepEInv DEF MInv
  <1>1. CASE PollDone \/ Acknowledge \/ Snapshot \/ StartupOrdersSettled \/ UNCHANGED vars
    BY <1>0, <1>1, EngineMInv
  <1>2. CASE AbortBeforeSend
    BY <1>0, <1>2, StatusMInv DEF AbortBeforeSend, exchangeVars, queueVars
  <1>3. CASE MarkSubmitted
    BY <1>0, <1>3, StatusMInv DEF MarkSubmitted, exchangeVars, queueVars
  <1>4. CASE RunOnce /\ ~PollDone /\ ~Acknowledge /\ ~AbortBeforeSend /\ ~MarkSubmitted
    BY <1>0, <1>4, HandleEventMInv, ReduceMInv, RebalanceMInv, OfficialSendMInv,
       CheckpointApplyMInv, CheckpointInstallMInv DEF RunOnce
  <1>5. CASE Start \/ VerifySession \/ Down
    BY <1>0, <1>5, StartMInv, VerifySessionMInv, DownMInv
  <1>6. CASE EventThread \/ Exchange
    BY <1>0, <1>6, EventThreadMInv, ExchangeMInv
  <1> QED BY <1>1, <1>2, <1>3, <1>4, <1>5, <1>6 DEF Next, RunOnce, Startup

\* The process's memory follows the disk: its entries lag behind the journal only
\* between the two halves of a checkpoint, and a trade it has seen was seeded, is
\* recorded or waits for the next checkpoint (ctp.py _on_trade,
\* checkpoint_order_submission_journal, _install_order_journal_entries).
THEOREM FollowsDiskHolds == Spec => []FollowsDisk
  <1>1. MInv => FollowsDisk
    BY DEF MInv
  <1> QED BY <1>1, InitMInv, StepMInv, PTL DEF Spec

-----------------------------------------------------------------------------
(***************************************************************************)
(* The fixed table of trade slots is never overrun (EnoughSlots), for any    *)
(* capacity, and any number of sessions, orders and lots.                    *)
(*                                                                           *)
(* What is seen and what is still owed to the orders that may fill add up to *)
(* no more than the capacity: a reservation claims the slots of its volume,  *)
(* a trade moves one of them from owed to seen, a final status or an order   *)
(* that was never sent frees the rest.  The sum over the orders that may     *)
(* fill is where the lemmas about sums are needed.                           *)
(***************************************************************************)

\* The slots still owed to some entries when the trades of S have theirs.
Owed(entries, S) ==
    SumFunction([id \in MayFill(entries) |->
                    entries[id].volume - Cardinality(S \cap TradesOf(id))])

\* EnoughSlots, counted with the entries on disk.
Slots == Up => Cardinality(seen) + Owed(journal, seen) <= Capacity

-----------------------------------------------------------------------------

\* Entries whose volumes are numbers.
Counted(entries) ==
    /\ IsFiniteSet(DOMAIN entries)
    /\ \A id \in DOMAIN entries : entries[id].volume \in Nat

\* What is owed is a sum of integers over a finite set.
LEMMA OwedTerms ==
    ASSUME TypeInv, NEW entries, Counted(entries), NEW S, S \subseteq DOMAIN trades
    PROVE  /\ IsFiniteSet(MayFill(entries)) /\ IsFiniteSet(S) /\ Cardinality(S) \in Nat
           /\ \A id : IsFiniteSet(S \cap TradesOf(id)) /\ Cardinality(S \cap TradesOf(id)) \in Nat
           /\ \A id \in MayFill(entries) :
                 entries[id].volume - Cardinality(S \cap TradesOf(id)) \in Int
           /\ Owed(entries, S) \in Int
  <1>1. IsFiniteSet(MayFill(entries))
    BY FS_Subset DEF MayFill, Counted
  <1>2. IsFiniteSet(S) /\ Cardinality(S) \in Nat
    BY TradesFinite, FS_Subset, FS_CardinalityType
  <1>3. \A id : IsFiniteSet(S \cap TradesOf(id)) /\ Cardinality(S \cap TradesOf(id)) \in Nat
    BY <1>2, FS_Subset, FS_CardinalityType
  <1>4. \A id \in MayFill(entries) :
            entries[id].volume - Cardinality(S \cap TradesOf(id)) \in Int
    BY <1>3 DEF MayFill, Counted
  <1> DEFINE f == [id \in MayFill(entries) |->
                      entries[id].volume - Cardinality(S \cap TradesOf(id))]
  <1>5. DOMAIN f = MayFill(entries) /\ \A id \in MayFill(entries) : f[id] \in Int
    BY <1>4
  <1>6. SumFunction(f) \in Int
    <2> HIDE DEF f
    <2> QED BY <1>1, <1>5, SumType DEF SumFunction
  <1> QED BY <1>1, <1>2, <1>3, <1>4, <1>6 DEF Owed

\* A fill moves one slot from those owed to those taken.
LEMMA SlotMoves ==
    ASSUME TypeInv, NEW entries, Counted(entries), NEW S, S \subseteq DOMAIN trades,
           NEW n \in DOMAIN trades \ S, trades[n] \in MayFill(entries)
    PROVE  /\ Owed(entries, S \cup {n}) = Owed(entries, S) - 1
           /\ Cardinality(S \cup {n}) = Cardinality(S) + 1
  <1> DEFINE o == trades[n]
             T == S \cup {n}
             f == [id \in MayFill(entries) |->
                      entries[id].volume - Cardinality(S \cap TradesOf(id))]
             h == [id \in MayFill(entries) |->
                      entries[id].volume - Cardinality(T \cap TradesOf(id))]
  <1>1. T \subseteq DOMAIN trades
    OBVIOUS
  <1>2. Cardinality(T) = Cardinality(S) + 1
    BY OwedTerms, FS_AddElement
  <1>3. \A id \in MayFill(entries) \ {o} : T \cap TradesOf(id) = S \cap TradesOf(id)
    BY DEF TradesOf
  <1>4. T \cap TradesOf(o) = (S \cap TradesOf(o)) \cup {n} /\ n \notin S \cap TradesOf(o)
    BY DEF TradesOf
  <1>5. Cardinality(T \cap TradesOf(o)) = Cardinality(S \cap TradesOf(o)) + 1
    BY <1>4, OwedTerms, FS_AddElement
  <1>6. /\ \A id \in MayFill(entries) : f[id] \in Int /\ h[id] \in Int
        /\ \A id \in MayFill(entries) \ {o} : h[id] = f[id]
        /\ DOMAIN f = MayFill(entries) /\ DOMAIN h = MayFill(entries)
    <2> HIDE DEF T, o
    <2>1. \A id \in MayFill(entries) :
              entries[id].volume - Cardinality(T \cap TradesOf(id)) \in Int
      BY <1>1, OwedTerms
    <2> QED BY <1>3, <2>1, OwedTerms
  <1>7. h[o] = f[o] - 1
    <2>1. entries[o].volume \in Nat /\ Cardinality(S \cap TradesOf(o)) \in Nat
      BY OwedTerms DEF MayFill, Counted
    <2> HIDE DEF T, o
    <2>2. o \in MayFill(entries)
      BY DEF o
    <2> QED BY <1>5, <2>1, <2>2
  <1>8. SumFunctionOnSet(h, MayFill(entries)) = SumFunctionOnSet(f, MayFill(entries)) - f[o] + h[o]
    <2>1. IsFiniteSet(MayFill(entries))
      BY OwedTerms
    <2> HIDE DEF f, h
    <2> QED BY <1>6, <2>1, SumUpdate
  <1>9. Owed(entries, S) = SumFunctionOnSet(f, MayFill(entries))
        /\ Owed(entries, T) = SumFunctionOnSet(h, MayFill(entries))
    BY DEF Owed, SumFunction
  <1>10. Owed(entries, S) \in Int /\ f[o] \in Int
    BY <1>6, OwedTerms
  <1> HIDE DEF f, h, T
  <1>11. Owed(entries, T) = Owed(entries, S) - 1
    BY <1>7, <1>8, <1>9, <1>10
  <1> QED BY <1>2, <1>11 DEF T

\* So do any number of fills.
LEMMA SlotsMove ==
    ASSUME TypeInv, NEW entries, Counted(entries), NEW S, S \subseteq DOMAIN trades,
           NEW X, X \subseteq DOMAIN trades \ S, \A n \in X : trades[n] \in MayFill(entries)
    PROVE  Cardinality(S \cup X) + Owed(entries, S \cup X) = Cardinality(S) + Owed(entries, S)
  <1> DEFINE Balanced(Y) == Cardinality(S \cup Y) + Owed(entries, S \cup Y)
                               = Cardinality(S) + Owed(entries, S)
             P == {k \in Nat : \A Y \in SUBSET X : Cardinality(Y) = k => Balanced(Y)}
  <1>1. IsFiniteSet(X)
    BY TradesFinite, FS_Subset
  <1>2. 0 \in P
    <2> SUFFICES ASSUME NEW Y \in SUBSET X, Cardinality(Y) = 0 PROVE Balanced(Y)
      OBVIOUS
    <2>1. Y = {}
      BY <1>1, FS_Subset, FS_EmptySet
    <2>2. S \cup Y = S
      BY <2>1
    <2> HIDE DEF P
    <2> QED BY <2>2
  <1>3. ASSUME NEW k \in P PROVE k + 1 \in P
    <2> SUFFICES ASSUME NEW Y \in SUBSET X, Cardinality(Y) = k + 1 PROVE Balanced(Y)
      OBVIOUS
    <2>1. k \in Nat /\ IsFiniteSet(Y)
      BY <1>1, FS_Subset
    <2>2. PICK n : n \in Y
      BY <2>1, FS_EmptySet
    <2> DEFINE Z == Y \ {n}
    <2>3. Z \in SUBSET X /\ Cardinality(Z) = k /\ n \notin Z /\ n \in X
      <3>1. Cardinality(Z) = Cardinality(Y) - 1
        BY <2>1, <2>2, FS_RemoveElement
      <3> QED BY <2>1, <2>2, <3>1
    <2>4. Balanced(Z)
      BY <2>3
    <2> DEFINE T == S \cup Z
    <2>5. T \subseteq DOMAIN trades /\ n \in DOMAIN trades \ T /\ S \cup Y = T \cup {n}
      BY <2>2, <2>3
    <2>6. trades[n] \in MayFill(entries)
      BY <2>3
    <2> HIDE DEF T, Z, P
    <2>7. /\ Owed(entries, T \cup {n}) = Owed(entries, T) - 1
          /\ Cardinality(T \cup {n}) = Cardinality(T) + 1
      BY <2>5, <2>6, SlotMoves
    <2>8. Owed(entries, T) \in Int /\ Cardinality(T) \in Nat
      BY <2>5, OwedTerms
    <2>9. Cardinality(T) + Owed(entries, T) = Cardinality(S) + Owed(entries, S)
      BY <2>4 DEF T
    <2>10. Cardinality(T \cup {n}) + Owed(entries, T \cup {n})
              = Cardinality(S) + Owed(entries, S)
      BY <2>7, <2>8, <2>9
    <2> QED BY <2>5, <2>10
  <1>4. P = Nat
    <2>1. P \in SUBSET Nat
      OBVIOUS
    <2> HIDE DEF P
    <2> QED BY <1>2, <1>3, <2>1, NatByInduction
  <1>5. Cardinality(X) \in P
    <2> HIDE DEF P
    <2> QED BY <1>1, <1>4, FS_CardinalityType
  <1> QED BY <1>5

-----------------------------------------------------------------------------

\* The volumes on disk are numbers.
LEMMA JournalCounted == MInv => TypeInv /\ Counted(journal)
  BY DEF MInv, EInv, RecordTypes, EntriesTyped, Counted

\* What was seen has happened.
LEMMA SeenHappened ==
    ASSUME MInv, Up
    PROVE  seen \subseteq DOMAIN trades /\ FillsOf(journal) \subseteq seen
  <1>1. seeded \subseteq DOMAIN trades
    BY DEF MInv, RecordTypes, EngineTyped
  <1>2. FillsOf(journal) \subseteq DOMAIN trades
    BY DEF MInv, EInv, Evidence, FillsOf, TradesOf
  <1> QED BY <1>1, <1>2 DEF MInv, FollowsDisk

\* The fills of an order are those of its trades that are recorded at all.
LEMMA FillsAre ==
    ASSUME MInv, NEW id \in DOMAIN journal
    PROVE  journal[id].fills = FillsOf(journal) \cap TradesOf(id)
  BY DEF MInv, EInv, Evidence, FillsOf, TradesOf

\* What is reserved is what is owed when exactly the recorded fills have arrived.
LEMMA ReservedIsOwed == MInv => Reserved(journal) = Owed(journal, FillsOf(journal))
  <1> SUFFICES ASSUME MInv PROVE Reserved(journal) = Owed(journal, FillsOf(journal))
    OBVIOUS
  <1>1. \A id \in MayFill(journal) : journal[id].fills = FillsOf(journal) \cap TradesOf(id)
    BY FillsAre DEF MayFill
  <1> QED BY <1>1 DEF Reserved, Owed

\* More arrived trades leave less owed.
LEMMA OwedMonotone ==
    ASSUME TypeInv, NEW entries, Counted(entries), NEW S, NEW T, S \subseteq T,
           T \subseteq DOMAIN trades
    PROVE  Owed(entries, T) <= Owed(entries, S)
  <1> DEFINE f == [id \in MayFill(entries) |->
                      entries[id].volume - Cardinality(S \cap TradesOf(id))]
             h == [id \in MayFill(entries) |->
                      entries[id].volume - Cardinality(T \cap TradesOf(id))]
  <1>1. \A id : Cardinality(S \cap TradesOf(id)) <= Cardinality(T \cap TradesOf(id))
    <2> SUFFICES ASSUME NEW id
                 PROVE  Cardinality(S \cap TradesOf(id)) <= Cardinality(T \cap TradesOf(id))
      OBVIOUS
    <2>1. IsFiniteSet(T \cap TradesOf(id)) /\ S \cap TradesOf(id) \subseteq T \cap TradesOf(id)
      BY OwedTerms
    <2> QED BY <2>1, FS_Subset
  <1>2. \A id \in MayFill(entries) : f[id] \in Int /\ h[id] \in Int /\ h[id] <= f[id]
    <2>1. \A id \in MayFill(entries) :
              /\ entries[id].volume \in Nat
              /\ Cardinality(S \cap TradesOf(id)) \in Nat
              /\ Cardinality(T \cap TradesOf(id)) \in Nat
      <3>1. S \subseteq DOMAIN trades
        OBVIOUS
      <3> QED BY <3>1, OwedTerms DEF MayFill, Counted
    <2> SUFFICES ASSUME NEW id \in MayFill(entries)
                 PROVE  f[id] \in Int /\ h[id] \in Int /\ h[id] <= f[id]
      OBVIOUS
    <2> DEFINE a == Cardinality(S \cap TradesOf(id))
               b == Cardinality(T \cap TradesOf(id))
    <2>2. a <= b /\ a \in Nat /\ b \in Nat /\ entries[id].volume \in Nat
      BY <1>1, <2>1
    <2>3. f[id] = entries[id].volume - a /\ h[id] = entries[id].volume - b
      OBVIOUS
    <2> HIDE DEF a, b, f, h
    <2> QED BY <2>2, <2>3
  <1>3. IsFiniteSet(MayFill(entries)) /\ DOMAIN f = MayFill(entries) /\ DOMAIN h = MayFill(entries)
    BY OwedTerms
  <1>4. SumFunction(h) <= SumFunction(f)
    <2> HIDE DEF f, h
    <2> QED BY <1>2, <1>3, SumMonotone DEF SumFunction
  <1> QED BY <1>4 DEF Owed

\* Steps after which the same trades are seen and the same orders may fill.
LEMMA SlotsKept ==
    ASSUME MInv, Slots, Up, seen' = seen,
           MayFill(journal') = MayFill(journal),
           \A id \in MayFill(journal) : journal'[id].volume = journal[id].volume,
           \A id : seen \cap TradesOf(id)' = seen \cap TradesOf(id)
    PROVE  Slots'
  <1>1. MayFill(journal)' = MayFill(journal)
    BY DEF MayFill
  <1>2. Owed(journal, seen)' = Owed(journal, seen)
    BY <1>1 DEF Owed
  <1> QED BY <1>2 DEF Slots

\* A reservation owes its volume, and is only made when that many slots are free.
LEMMA ReserveSlots ==
    ASSUME MInv, Slots, NEW offset, NEW volume \in Nat, NEW back,
           at \in {"reduce", "rebalance"}, Reserve(offset, volume, back)
    PROVE  Slots'
  <1> DEFINE new == NextOrderId
             M == MayFill(journal)
             f == [id \in M |-> journal[id].volume - Cardinality(seen \cap TradesOf(id))]
             h == [id \in M \cup {new} |->
                      journal'[id].volume - Cardinality(seen \cap TradesOf(id))]
  <1>1. /\ new \notin DOMAIN journal /\ UNCHANGED <<trades, seen>>
        /\ Max({Cardinality(seen), Cardinality(FillsOf(journal))})
              + Reserved(journal) + volume <= Capacity
        /\ journal' = [id \in DOMAIN journal \cup {new} |->
                          IF id = new THEN [offset |-> offset, volume |-> volume,
                                            status |-> "prepared", fills |-> {}]
                          ELSE journal[id]]
    BY DEF Reserve, CanReserve, exchangeVars
  <1> HIDE DEF new
  <1>2. Up
    BY DEF Up
  <1>3. TypeInv /\ Counted(journal) /\ seen \subseteq DOMAIN trades
        /\ FillsOf(journal) \subseteq seen
    BY <1>2, JournalCounted, SeenHappened
  <1>4. TradesOf(new) = {}
    <2>1. session \in Nat /\ orderRef \in Nat /\ new = <<session, orderRef + 1>>
      BY <1>3 DEF TypeInv, NextOrderId, new
    <2>2. new # Foreign
      BY <2>1 DEF Foreign
    <2>3. new \notin DOMAIN orders
      BY <1>1 DEF MInv, EInv, IInv, WriteAhead
    <2> QED BY <2>2, <2>3 DEF MInv, RecordTypes, LotsTyped, TradesOf
  <1>5. MayFill(journal') = M \cup {new} /\ new \notin M
    BY <1>1 DEF MayFill
  <1>6. /\ \A id \in M : f[id] \in Int /\ h[id] = f[id] /\ h[id] \in Int
        /\ h[new] = volume
    <2>1. \A id \in M : journal[id].volume - Cardinality(seen \cap TradesOf(id)) \in Int
      BY <1>3, OwedTerms
    <2>2. \A id \in M : journal'[id] = journal[id] /\ id \in M \cup {new}
      BY <1>1, <1>5 DEF MayFill
    <2>3. journal'[new].volume = volume /\ seen \cap TradesOf(new) = {}
      BY <1>1, <1>4
    <2>4. h[new] = volume
      <3>1. h[new] = volume - Cardinality({})
        BY <2>3
      <3>2. volume - 0 = volume /\ Cardinality({}) = 0
        BY FS_EmptySet
      <3> HIDE DEF h
      <3> QED BY <3>1, <3>2
    <2>5. \A id \in M : f[id] = journal[id].volume - Cardinality(seen \cap TradesOf(id))
                        /\ h[id] = f[id]
      BY <2>2
    <2> HIDE DEF M, f, h
    <2> QED BY <2>1, <2>4, <2>5
  <1>7. SumFunction(h) = volume + SumFunction(f)
    <2>1. IsFiniteSet(M) /\ DOMAIN h = M \cup {new} /\ DOMAIN f = M
      BY <1>3, OwedTerms
    <2>2. volume \in Int
      OBVIOUS
    <2> HIDE DEF M, f, h
    <2>3. SumFunctionOnSet(h, M \cup {new}) = h[new] + SumFunctionOnSet(h, M)
      BY <1>5, <1>6, <2>1, <2>2, SumAdd
    <2>4. SumFunctionOnSet(h, M) = SumFunctionOnSet(f, M)
      BY <1>6, <2>1, SumSame
    <2> QED BY <1>6, <2>1, <2>3, <2>4 DEF SumFunction
  <1>8. Owed(journal, seen) = SumFunction(f) /\ Owed(journal, seen)' = SumFunction(h)
    <2>1. \A id : TradesOf(id)' = TradesOf(id)
      BY <1>1 DEF TradesOf
    <2>2. MayFill(journal)' = M \cup {new}
      BY <1>5 DEF MayFill
    <2>3. Owed(journal, seen)' = SumFunction(h)
      <3>1. [id \in MayFill(journal) |-> journal[id].volume - Cardinality(seen \cap TradesOf(id))]'
               = [id \in M \cup {new} |->
                     journal'[id].volume - Cardinality(seen' \cap TradesOf(id)')]
        BY <2>2, Zenon
      <3>2. seen' = seen
        BY <1>1
      <3>3. [id \in M \cup {new} |->
                     journal'[id].volume - Cardinality(seen' \cap TradesOf(id)')] = h
        BY <2>1, <3>2, Zenon
      <3> QED BY <3>1, <3>3 DEF Owed
    <2> QED BY <2>3 DEF Owed
  <1>9. Owed(journal, seen) <= Reserved(journal) /\ Reserved(journal) \in Int
    <2>1. FillsOf(journal) \subseteq DOMAIN trades
      BY <1>3
    <2> QED BY <1>3, <2>1, ReservedIsOwed, OwedMonotone, OwedTerms
  <1>10. Max({Cardinality(seen), Cardinality(FillsOf(journal))}) >= Cardinality(seen)
         /\ Max({Cardinality(seen), Cardinality(FillsOf(journal))}) \in Nat
    <2>1. Cardinality(seen) \in Nat /\ Cardinality(FillsOf(journal)) \in Nat
      <3>1. FillsOf(journal) \subseteq DOMAIN trades
        BY <1>3
      <3> QED BY <1>3, <3>1, OwedTerms
    <2> DEFINE a == Cardinality(seen)
               b == Cardinality(FillsOf(journal))
    <2>2. \E x \in {a, b} : \A y \in {a, b} : x >= y
      BY <2>1
    <2> HIDE DEF a, b
    <2>3. Max({a, b}) \in {a, b} /\ \A y \in {a, b} : Max({a, b}) >= y
      BY <2>2 DEF Max
    <2> QED BY <2>1, <2>3 DEF a, b
  <1> HIDE DEF f, h, M
  <1>11. Cardinality(seen) + Owed(journal, seen)' <= Capacity
    <2>1. Cardinality(seen) \in Nat /\ Owed(journal, seen) \in Int /\ Capacity \in Nat
      BY <1>3, OwedTerms, SubmissionAssumption
    <2> QED BY <1>1, <1>7, <1>8, <1>9, <1>10, <2>1
  <1> QED BY <1>1, <1>11 DEF Slots

\* A reservation that is withdrawn gives its slots back; one that went out keeps them.
LEMMA MarkSubmittedSlots ==
    ASSUME MInv, Slots, MarkSubmitted
    PROVE  Slots'
  <1>1. Up /\ ~Installing /\ seen' = seen /\ trades' = trades
        /\ journal' = WithStatus(journal, request.id, "submitted")
    BY DEF MarkSubmitted, Up, Installing, exchangeVars
  <1>2. journal[request.id].status = "prepared"
    BY DEF MarkSubmitted, MInv, EInv, Submitting
  <1>3. /\ DOMAIN journal' = DOMAIN journal
        /\ \A id \in DOMAIN journal :
              /\ journal'[id].volume = journal[id].volume
              /\ id # request.id => journal'[id] = journal[id]
              /\ id = request.id => journal'[id].status = "submitted"
    BY <1>1, WithStatusKeeps DEF MInv, EInv, IInv
  <1>4. MayFill(journal') = MayFill(journal)
    BY <1>2, <1>3 DEF MayFill
  <1>5. \A id : seen \cap TradesOf(id)' = seen \cap TradesOf(id)
    BY <1>1 DEF TradesOf
  <1> QED BY <1>1, <1>3, <1>4, <1>5, SlotsKept DEF MayFill

\* An order that was never sent owes nothing any more.
LEMMA AbortSlots ==
    ASSUME MInv, Slots, AbortBeforeSend
    PROVE  Slots'
  <1> DEFINE id == request.id
             M == MayFill(journal)
             f == [i \in M |-> journal[i].volume - Cardinality(seen \cap TradesOf(i))]
             h == [i \in M \ {id} |-> journal[i].volume - Cardinality(seen \cap TradesOf(i))]
  <1>1. Up /\ at = "prepared" /\ seen' = seen /\ trades' = trades
        /\ journal' = WithStatus(journal, id, "aborted_before_send")
    BY DEF AbortBeforeSend, Up, exchangeVars
  <1>2. id \in DOMAIN journal /\ id \notin DOMAIN orders /\ id # Foreign /\ id \in M
    BY <1>1, ForeignIsNotOwn DEF MInv, EInv, IInv, Submitting, ReservedOnly, TypeInv, MayFill
  <1> HIDE DEF id
  <1>3. /\ DOMAIN journal' = DOMAIN journal
        /\ \A i \in DOMAIN journal :
              /\ journal'[i].volume = journal[i].volume
              /\ i # id => journal'[i] = journal[i]
              /\ i = id => journal'[i].status = "aborted_before_send"
    BY <1>1, <1>2, WithStatusKeeps DEF MInv, EInv, IInv
  <1>4. MayFill(journal') = M \ {id}
    BY <1>3 DEF MayFill
  <1>5. TypeInv /\ Counted(journal) /\ seen \subseteq DOMAIN trades
    BY <1>1, JournalCounted, SeenHappened
  <1>6. f[id] \in Nat
    <2>1. seen \cap TradesOf(id) = {}
      BY <1>2 DEF MInv, RecordTypes, LotsTyped, TradesOf
    <2>2. f[id] = journal[id].volume - 0
      BY <1>2, <2>1, FS_EmptySet
    <2>3. journal[id].volume \in Nat
      BY <1>2, <1>5 DEF Counted
    <2> HIDE DEF f
    <2> QED BY <2>2, <2>3
  <1>7. SumFunction(f) = f[id] + SumFunction(h) /\ SumFunction(h) \in Int
    <2>1. IsFiniteSet(M) /\ IsFiniteSet(M \ {id}) /\ DOMAIN f = M /\ DOMAIN h = M \ {id}
      BY <1>5, OwedTerms, FS_Subset
    <2>2. /\ \A i \in M : f[i] \in Int
          /\ \A i \in M \ {id} : h[i] = f[i] /\ h[i] \in Int
      BY <1>5, OwedTerms
    <2> HIDE DEF f, h, M
    <2>3. SumFunctionOnSet(f, M) = f[id] + SumFunctionOnSet(f, M \ {id})
      BY <1>2, <2>1, <2>2, SumRemove
    <2>4. SumFunctionOnSet(f, M \ {id}) = SumFunctionOnSet(h, M \ {id})
      BY <2>1, <2>2, SumSame
    <2>5. SumFunctionOnSet(h, M \ {id}) \in Int
      BY <2>1, <2>2, SumType
    <2> QED BY <2>1, <2>3, <2>4, <2>5 DEF SumFunction
  <1>8. Owed(journal, seen) = SumFunction(f)
    BY DEF Owed
  <1>9. Owed(journal, seen)' = SumFunction(h)
    <2>1. \A i : TradesOf(i)' = TradesOf(i)
      BY <1>1 DEF TradesOf
    <2>2. MayFill(journal)' = M \ {id}
      BY <1>4 DEF MayFill
    <2>3. \A i \in M \ {id} : journal'[i].volume = journal[i].volume
      BY <1>3 DEF MayFill
    <2>4. Owed(journal, seen)' = SumFunction([i \in M \ {id} |->
                                  journal'[i].volume - Cardinality(seen' \cap TradesOf(i)')])
      BY <2>2, Zenon DEF Owed
    <2>5. seen' = seen
      BY <1>1
    <2>6. [i \in M \ {id} |-> journal'[i].volume - Cardinality(seen' \cap TradesOf(i)')] = h
      BY <2>1, <2>3, <2>5, Zenon
    <2> QED BY <2>4, <2>6
  <1> HIDE DEF f, h, M
  <1>10. Cardinality(seen) + Owed(journal, seen)' <= Capacity
    <2>1. Cardinality(seen) \in Nat /\ Capacity \in Nat
      BY <1>5, OwedTerms, SubmissionAssumption
    <2>2. Cardinality(seen) + Owed(journal, seen) <= Capacity
      BY <1>1 DEF Slots
    <2> QED BY <1>6, <1>7, <1>8, <1>9, <2>1, <2>2
  <1> QED BY <1>1, <1>10 DEF Slots

\* A checkpoint makes only orders final that went out.
LEMMA CheckpointSlots ==
    ASSUME MInv, Slots, CheckpointApply
    PROVE  Slots'
  <1>1. Up /\ seen' = seen /\ trades' = trades /\ journal' \in {journal, Applied(journal, pending)}
    BY DEF CheckpointApply, Up, exchangeVars
  <1>2. \A id : seen \cap TradesOf(id)' = seen \cap TradesOf(id)
    BY <1>1 DEF TradesOf
  <1>3. CASE journal' = journal
    BY <1>1, <1>2, <1>3, SlotsKept
  <1>4. CASE journal' = Applied(journal, pending)
    <2>1. WellFormed(journal)
      BY DEF MInv, EInv, IInv
    <2>2. DOMAIN journal' = DOMAIN journal
          /\ \A id \in DOMAIN journal : journal'[id].volume = journal[id].volume
      BY <1>4, <2>1, AppliedAre
    <2>3. \A id \in DOMAIN journal :
              /\ id \in pending.terminal => journal'[id].status = "terminal"
              /\ id \notin pending.terminal => journal'[id].status = journal[id].status
      BY <1>4, <2>1, AppliedStatus
    <2>4. \A id \in pending.terminal : journal[id].status # "aborted_before_send"
      BY DEF MInv, EInv, IInv, WriteAhead, TypeInv
    <2>5. MayFill(journal') = MayFill(journal)
      BY <2>2, <2>3, <2>4 DEF MayFill
    <2> QED BY <1>1, <1>2, <2>2, <2>5, SlotsKept DEF MayFill
  <1> QED BY <1>1, <1>3, <1>4

\* A process that has seen only what was seeded or is recorded fits if what is
\* reserved does.
LEMMA ReservedFits == MInv /\ Up /\ Cardinality(seen) + Reserved(journal) <= Capacity => Slots
  <1> SUFFICES ASSUME MInv, Up, Cardinality(seen) + Reserved(journal) <= Capacity
               PROVE  Slots
    OBVIOUS
  <1>1. TypeInv /\ Counted(journal) /\ seen \subseteq DOMAIN trades
        /\ FillsOf(journal) \subseteq seen /\ FillsOf(journal) \subseteq DOMAIN trades
    BY JournalCounted, SeenHappened
  <1>2. Owed(journal, seen) <= Owed(journal, FillsOf(journal))
    BY <1>1, OwedMonotone
  <1>3. /\ Cardinality(seen) \in Nat /\ Owed(journal, seen) \in Int
        /\ Owed(journal, FillsOf(journal)) \in Int
    BY <1>1, OwedTerms
  <1> QED BY <1>2, <1>3, ReservedIsOwed, SubmissionAssumption DEF Slots

\* ReservedFits of the next state.
LEMMA ReservedFitsNext ==
    MInv' /\ Up' /\ Cardinality(seen') + Reserved(journal)' <= Capacity => Slots'
  <1>1. MInv' /\ Up' /\ (Cardinality(seen) + Reserved(journal) <= Capacity)' => Slots'
    BY ReservedFits, PTL
  <1> QED BY <1>1

\* The recovery of a restart refuses a record that does not fit.
LEMMA VerifySessionSlots ==
    ASSUME MInv', VerifySession
    PROVE  Slots'
  <1>1. /\ journal' = Recovered /\ seen' = seeded \cup FillsOf(Recovered)
        /\ Cardinality(seeded \cup FillsOf(Recovered)) + Reserved(Recovered) <= Capacity
        /\ at' = "poll"
    BY DEF VerifySession, Install, Installable
  <1>2. Up'
    BY <1>1 DEF Up
  <1>3. Reserved(journal)' = Reserved(Recovered)
    BY <1>1 DEF Reserved, MayFill
  <1> QED BY <1>1, <1>2, <1>3, ReservedFitsNext

\* So does a start, which has the identities of the RuntimeState to fit in as well.
LEMMA StartSlots ==
    ASSUME MInv, Start
    PROVE  Slots'
  <1> DEFINE F == FillsOf(journal)
             X == engine.ids \ F
  <1>1. /\ UNCHANGED <<journal, trades, orders>> /\ seen' = engine.ids \cup F
        /\ Cardinality(F) + Reserved(journal) <= Capacity
    BY DEF Start, exchangeVars, diskVars
  <1>2. TypeInv /\ Counted(journal) /\ F \subseteq DOMAIN trades
        /\ X \subseteq DOMAIN trades \ F /\ engine.ids \cup F = F \cup X
    <2>1. engine.ids \subseteq DOMAIN trades
      BY DEF MInv, RecordTypes, EngineTyped
    <2>2. F \subseteq DOMAIN trades
      BY DEF MInv, EInv, Evidence, FillsOf, TradesOf
    <2> QED BY <2>1, <2>2, JournalCounted
  <1>3. \A n \in X : trades[n] \in MayFill(journal)
    BY DEF MInv, RecordTypes, EngineTyped, LotsTyped, EInv, IInv, WriteAhead, MayFill
  <1> HIDE DEF X, F
  <1>4. Cardinality(F \cup X) + Owed(journal, F \cup X) = Cardinality(F) + Owed(journal, F)
    BY <1>2, <1>3, SlotsMove
  <1>5. Owed(journal, F) = Reserved(journal)
    BY ReservedIsOwed DEF F
  <1>6. Owed(journal, seen)' = Owed(journal, F \cup X)
    BY <1>1, <1>2 DEF Owed, MayFill, TradesOf
  <1>7. Cardinality(seen)' = Cardinality(F \cup X)
    BY <1>1, <1>2
  <1> QED BY <1>1, <1>4, <1>5, <1>6, <1>7 DEF Slots

\* A callback of a trade takes the slot that was owed to it.
LEMMA EventThreadSlots ==
    ASSUME MInv, Slots, Up, EventThread
    PROVE  Slots'
  <1>1. UNCHANGED <<journal, trades, at>>
    BY EventThreadDoes
  <1>2. TypeInv /\ Counted(journal) /\ seen \subseteq DOMAIN trades
    BY JournalCounted, SeenHappened
  <1>3. CASE seen' = seen
    BY <1>1, <1>3, SlotsKept DEF TradesOf
  <1>4. ASSUME NEW n \in DOMAIN trades \ seen, Bookable(n), seen' = seen \cup {n}
        PROVE  Slots'
    <2>1. trades[n] \in DOMAIN known /\ known[trades[n]].status # "aborted_before_send"
      BY <1>4 DEF Bookable
    <2>2. trades[n] \in MayFill(journal)
      <3>1. CASE known = journal
        BY <2>1, <3>1 DEF MayFill
      <3>2. CASE journal = Applied(known, snapshot)
        <4>1. WellFormed(known)
          BY DEF MInv, FollowsDisk
        <4>2. trades[n] \in DOMAIN journal /\ journal[trades[n]].status # "aborted_before_send"
          BY <2>1, <3>2, <4>1, AppliedAre, AppliedStatus
        <4> QED BY <4>2 DEF MayFill
      <3> QED BY <3>1, <3>2 DEF MInv, FollowsDisk
    <2>3. /\ Owed(journal, seen \cup {n}) = Owed(journal, seen) - 1
          /\ Cardinality(seen \cup {n}) = Cardinality(seen) + 1
      BY <1>2, <2>2, SlotMoves
    <2>4. Owed(journal, seen)' = Owed(journal, seen \cup {n})
      BY <1>1, <1>4 DEF Owed, MayFill, TradesOf
    <2>5. Cardinality(seen)' = Cardinality(seen \cup {n})
      BY <1>4
    <2>6. Owed(journal, seen) \in Int /\ Cardinality(seen) \in Nat
      BY <1>2, OwedTerms
    <2> QED BY <2>3, <2>4, <2>5, <2>6, SubmissionAssumption DEF Slots
  <1>5. seen' = seen \/ \E n \in DOMAIN trades \ seen : Bookable(n) /\ seen' = seen \cup {n}
    <2>1. CASE TradeCallback
      <3>1. QueuedIn(upstream) \subseteq DOMAIN trades /\ upstream \in Seq(QueuedReturns)
        BY <1>2 DEF MInv, RecordTypes, QueuesTyped, TypeInv
      <3>2. upstream # <<>> /\ Head(upstream).type = "trade"
        BY <2>1 DEF TradeCallback, Dispatching
      <3>3. Head(upstream).trade \in DOMAIN trades
        BY <3>1, <3>2, QueuedTail
      <3> QED BY <2>1, <3>3 DEF TradeCallback
    <2>2. CASE OrderCallback \/ AccountCallback \/ TradeEnqueue
      BY <2>2 DEF OrderCallback, AccountCallback, TradeEnqueue, memoryVars
    <2> QED BY <2>1, <2>2 DEF EventThread
  <1> QED BY <1>3, <1>4, <1>5

\* The exchange does not change what the process has seen or owes.
LEMMA ExchangeSlots ==
    ASSUME MInv, Slots, Up, Exchange
    PROVE  Slots'
  <1>1. UNCHANGED <<journal, seen, at>>
    BY ExchangeDoes
  <1>2. seen \subseteq DOMAIN trades
    BY SeenHappened
  <1>3. CASE trades' = trades
    BY <1>1, <1>3, SlotsKept DEF TradesOf
  <1>4. ASSUME NEW o \in live \cup {Foreign}, trades' = Append(trades, o)
        PROVE  Slots'
    <2>1. TypeInv /\ o \in OwnId \cup {Foreign}
      BY DEF MInv, EInv, IInv, WriteAhead, TypeInv
    <2>2. Len(trades) + 1 \notin DOMAIN trades
          /\ \A id : TradesOf(id)' = IF id = o THEN TradesOf(id) \cup {Len(trades) + 1}
                                     ELSE TradesOf(id)
      BY <1>4, <2>1, TradeAdded
    <2>3. \A id : seen \cap TradesOf(id)' = seen \cap TradesOf(id)
      BY <1>2, <2>2
    <2> QED BY <1>1, <2>3, SlotsKept
  <1> QED BY <1>3, <1>4, ExchangeDoes DEF TradesAndQueue

-----------------------------------------------------------------------------

\* Every step keeps enough slots.
LEMMA StepSlots == MInv /\ Slots /\ [Next]_vars => Slots'
  <1> SUFFICES ASSUME MInv, Slots, [Next]_vars PROVE Slots'
    OBVIOUS
  <1>0. MInv'
    BY StepMInv
  <1>1. CASE UNCHANGED <<trades, journal, seen>> /\ (Up' => Up)
    <2>1. CASE Up
      BY <1>1, <2>1, SlotsKept DEF TradesOf
    <2> QED BY <1>1, <2>1 DEF Slots
  <1>2. CASE PollDone \/ Acknowledge \/ HandleEvent \/ OfficialSend \/ Snapshot
             \/ StartupOrdersSettled \/ UNCHANGED vars
    <2>1. UNCHANGED <<trades, journal, seen>> /\ (Up' => Up)
      BY <1>2 DEF PollDone, Acknowledge, HandleEvent, OfficialSend, Snapshot,
                  StartupOrdersSettled, vars, exchangeVars, diskVars, memoryVars, Up
    <2> QED BY <1>1, <2>1
  <1>3. CASE Reduce \/ Rebalance
    <2>1. at \in {"reduce", "rebalance"} /\ MaxVolume \in Nat /\ mirror \in Nat
      BY <1>3, SubmissionAssumption DEF Reduce, Rebalance, MInv, RecordTypes, LotsTyped
    <2>2. \/ \E offset, back : \E volume \in Nat : Reserve(offset, volume, back)
          \/ UNCHANGED <<trades, journal, seen>> /\ Up
      BY <1>3, <2>1
         DEF Reduce, Rebalance, SendRefused, exchangeVars, diskVars, memoryVars, Up
    <2> QED BY <1>1, <2>1, <2>2, ReserveSlots
  <1>4. CASE AbortBeforeSend \/ MarkSubmitted \/ CheckpointApply
    BY <1>4, AbortSlots, MarkSubmittedSlots, CheckpointSlots
  <1>5. CASE CheckpointInstall
    <2>1. UNCHANGED <<trades, journal, seen>> /\ Up
      BY <1>0, <1>5, CheckpointInstallMInv DEF CheckpointInstall, exchangeVars, Up, MInv
    <2> QED BY <1>1, <2>1
  <1>6. CASE VerifySession \/ Start
    BY <1>0, <1>6, VerifySessionSlots, StartSlots
  <1>7. CASE Down
    BY <1>7 DEF Down, Slots, Up
  <1>8. CASE (EventThread \/ Exchange) /\ Up
    BY <1>8, EventThreadSlots, ExchangeSlots
  <1>9. CASE (EventThread \/ Exchange) /\ ~Up
    <2>1. at' = at
      BY <1>9, EventThreadDoes, ExchangeDoes
    <2> QED BY <1>9, <2>1 DEF Up, Slots
  <1> QED BY <1>2, <1>3, <1>4, <1>5, <1>6, <1>7, <1>8, <1>9 DEF Next, RunOnce, Startup

\* Between the halves of a checkpoint the entries in memory may fill as much as
\* those on disk.
LEMMA MemoryMayFill ==
    ASSUME MInv, Up
    PROVE  /\ MayFill(known) = MayFill(journal)
           /\ \A id \in MayFill(known) : known[id].volume = journal[id].volume
  <1>1. CASE known = journal
    BY <1>1
  <1>2. CASE journal = Applied(known, snapshot)
    <2>1. WellFormed(known)
      BY DEF MInv, FollowsDisk
    <2>2. /\ DOMAIN journal = DOMAIN known
          /\ \A id \in DOMAIN known : journal[id].volume = known[id].volume
      BY <1>2, <2>1, AppliedAre
    <2>3. \A id \in DOMAIN known :
              /\ id \in snapshot.terminal => journal[id].status = "terminal"
              /\ id \notin snapshot.terminal => journal[id].status = known[id].status
      BY <1>2, <2>1, AppliedStatus
    <2>4. \A id \in snapshot.terminal \cap DOMAIN known :
              known[id].status # "aborted_before_send"
      BY DEF MInv, FollowsDisk, RecordTypes, EntriesTyped
    <2> QED BY <2>2, <2>3, <2>4 DEF MayFill
  <1> QED BY <1>1, <1>2 DEF MInv, FollowsDisk

\* Every lot an accepted reservation may still fill has a slot in the replay set:
\* a genuine fill is never refused for capacity, whatever is reserved, filled,
\* checkpointed, withdrawn or recovered in between (ctp_order_journal.py prepare,
\* ctp.py _on_trade, _install_order_journal_entries).
THEOREM EnoughSlotsHolds == Spec => []EnoughSlots
  <1>1. Init => Slots
    BY DEF Init, Slots, Up
  <1>2. MInv /\ Slots => EnoughSlots
    <2> SUFFICES ASSUME MInv, Slots, Up
                 PROVE  Cardinality(seen)
                          + SumFunction([id \in MayFill(known) |->
                              known[id].volume - Cardinality(seen \cap TradesOf(id))])
                             <= Capacity
      BY DEF EnoughSlots
    <2>1. [id \in MayFill(known) |-> known[id].volume - Cardinality(seen \cap TradesOf(id))]
          = [id \in MayFill(journal) |->
                journal[id].volume - Cardinality(seen \cap TradesOf(id))]
      BY MemoryMayFill
    <2> QED BY <2>1 DEF Slots, Owed
  <1> QED BY <1>1, <1>2, InitMInv, StepMInv, StepSlots, PTL DEF Spec

-----------------------------------------------------------------------------
(***************************************************************************)
(* When the loop's queues are empty, the engine's book is the exchange's     *)
(* position and the broker's mirror (RecordsAgreeAtBoundary), and an order   *)
(* is sent only when every fill has been handled (SendsOnHandledFills).      *)
(*                                                                           *)
(* A sound process has each uncounted trade in one of its two queues (Loud,  *)
(* Told); so with empty queues the book, which is the sum of what it has     *)
(* counted (Booked), is the sum of all trades.  The start is the hard part:  *)
(* the position is queried while orders fill, so the mirror is right only    *)
(* because at most one order works (OneOrder, Alone), which moves it one way *)
(* (Reckoned): mirror and book can then agree only when nothing is missing.  *)
(***************************************************************************)

\* An error event is queued that will halt the engine.
Alarmed == \E i \in DOMAIN fifo : fifo[i].type = "broker_error"

\* Nothing has gone wrong, or is known to.
Sound == engine.mode # "HALTED" /\ ~Alarmed

\* Trades the engine's book does not have, and trades the process has not seen.
Uncounted == DOMAIN trades \ engine.ids
Unseen    == DOMAIN trades \ seen

\* The loop has begun: the session is verified.
Trading == Up /\ ~Starting

\* The book is the sum of the trades it has counted.
Booked == engine.mode # "HALTED" => engine.lots = LotsOf(engine.ids)

\* A trade the process has not seen is still queued, unless an error is.
Loud == Up /\ Sound => Unseen \subseteq QueuedIn(upstream)

\* All that works or waits to be counted is of one order, or of somebody else's.
OneOrder ==
    engine.mode # "HALTED" =>
        \E id \in OwnId : /\ live \subseteq {id}
                          /\ \A n \in Uncounted : trades[n] \in {id, Foreign}

\* Nothing else works when an order is reserved, and only a reduction reduces.
Alone ==
    /\ at = "prepared" => live = {} /\ engine.mode # "HALTED"
    /\ at = "reduce" => engine.mode = "REDUCE_ONLY"

\* While the process starts, a mirror read at one moment and corrected by the trades
\* that came in since is never behind what the order at work can have done.
OpensOnly ==
    /\ \A n \in Uncounted : Lots(n) = 1
    /\ \A id \in live : orders[id].offset = "OPEN"
    /\ mirror + Cardinality(Unseen) >= ExchangeLots

ClosesOnly ==
    /\ \A n \in Uncounted : Lots(n) = -1
    /\ \A id \in live : orders[id].offset = "CLOSE"
    /\ mirror - Cardinality(Unseen) <= ExchangeLots

Reckoned ==
    Starting /\ engine.mode # "HALTED" /\ TradesOf(Foreign) = {} => OpensOnly \/ ClosesOnly

\* A trade that is seen and not counted is on its way to the engine.
Told == Trading /\ Sound => seen \cap Uncounted \subseteq QueuedIn(fifo) \cup {handling}

\* What a checkpoint leaves pending came in after it.
PendingTold ==
    at \in {"install", "acknowledge", "rebalance"} =>
        pending.fills \subseteq FillsOf(journal) \cup QueuedIn(fifo) \cup {handling}

\* The recovery has recorded every trade the engine knew at the start.
SeededRecorded == Trading => seeded \subseteq FillsOf(journal)

BInv == /\ Booked /\ Loud /\ OneOrder /\ Alone /\ Reckoned
        /\ Told /\ PendingTold /\ SeededRecorded

-----------------------------------------------------------------------------

\* The invariant holds before the first session.
LEMMA InitBInv == Init => BInv
  <1> SUFFICES ASSUME Init PROVE BInv
    OBVIOUS
  <1>1. DOMAIN trades = {} /\ engine.ids = {} /\ engine.lots = 0 /\ live = {} /\ at = "down"
    BY DEF Init
  <1>2. Booked
    BY <1>1, SumEmpty DEF Booked, LotsOf
  <1>3. OneOrder
    <2>1. <<0, 1>> \in OwnId
      BY DEF OwnId
    <2> QED BY <1>1, <2>1 DEF OneOrder, Uncounted
  <1>4. Loud /\ Alone /\ Reckoned /\ Told /\ PendingTold /\ SeededRecorded
    BY <1>1 DEF Loud, Alone, Reckoned, Told, PendingTold, SeededRecorded, Up, Trading, Starting
  <1> QED BY <1>2, <1>3, <1>4 DEF BInv

\* What the engine has not counted makes the difference between its book and the
\* exchange's position.
LEMMA LotsSplit ==
    ASSUME MInv
    PROVE  /\ ExchangeLots = LotsOf(engine.ids) + LotsOf(Uncounted)
           /\ LotsOf(engine.ids) \in Int
           /\ IsFiniteSet(Uncounted) /\ Cardinality(Uncounted) \in Nat
           /\ \A c \in {1, -1} : (\A n \in Uncounted : Lots(n) = c)
                                    => LotsOf(Uncounted) = c * Cardinality(Uncounted)
  <1> DEFINE f == [n \in DOMAIN trades |-> Lots(n)]
             S == engine.ids
             T == Uncounted
  <1>1. DOMAIN trades = S \cup T /\ S \cap T = {} /\ IsFiniteSet(S) /\ IsFiniteSet(T)
    <2>1. engine.ids \subseteq DOMAIN trades /\ IsFiniteSet(DOMAIN trades)
      BY TradesFinite DEF MInv, EInv, RecordTypes, EngineTyped
    <2> QED BY <2>1, FS_Subset DEF Uncounted
  <1>2. \A n \in S \cup T : f[n] = Lots(n) /\ f[n] \in Int
    BY <1>1, LotsInt
  <1>3. LotsOf(S) = SumFunctionOnSet(f, S) /\ LotsOf(T) = SumFunctionOnSet(f, T)
        /\ ExchangeLots = SumFunctionOnSet(f, S \cup T)
    BY <1>1, ExchangeLotsAre DEF LotsOf
  <1> HIDE DEF f, S, T
  <1>4. ExchangeLots = LotsOf(S) + LotsOf(T) /\ LotsOf(S) \in Int
    <2>1. SumFunctionOnSet(f, S \cup T) = SumFunctionOnSet(f, S) + SumFunctionOnSet(f, T)
      BY <1>1, <1>2, SumSplit
    <2>2. SumFunctionOnSet(f, S) \in Int
      BY <1>1, <1>2, SumType
    <2> QED BY <1>3, <2>1, <2>2
  <1>5. \A c \in {1, -1} : (\A n \in T : Lots(n) = c) => LotsOf(T) = c * Cardinality(T)
    BY <1>1, <1>2, <1>3, SumOfUnits
  <1> QED BY <1>1, <1>4, <1>5, FS_CardinalityType DEF S, T

\* At the boundary of a sound process every trade is counted.
LEMMA AllCounted ==
    ASSUME MInv, BInv, Trading, engine.mode # "HALTED", upstream = <<>>, handling = NoTrade,
           fifo = <<>>
    PROVE  Uncounted = {} /\ Unseen = {} /\ engine.lots = ExchangeLots
  <1>1. QueuedIn(upstream) = {} /\ QueuedIn(fifo) = {} /\ Sound
    BY DEF QueuedIn, Sound, Alarmed
  <1>2. Unseen = {}
    BY <1>1 DEF BInv, Loud, Trading
  <1>3. Uncounted \subseteq seen
    BY <1>2 DEF Uncounted, Unseen
  <1>4. NoTrade \notin DOMAIN trades
    BY TradesFinite, SubmissionAssumption DEF MInv, EInv
  <1>5. Uncounted = {}
    BY <1>1, <1>3, <1>4 DEF BInv, Told, Uncounted
  <1>6. engine.ids = DOMAIN trades
    BY <1>5 DEF Uncounted, MInv, RecordTypes, EngineTyped
  <1> QED BY <1>2, <1>5, <1>6, ExchangeLotsAre DEF BInv, Booked

\* Steps of the engine thread between two submissions or two halves of one.
LEMMA QuietBInv ==
    ASSUME MInv, BInv,
           UNCHANGED <<orders, trades, seen, seeded, mirror, upstream, handling, fifo, live>>,
           engine' \in {engine, Halted(engine)},
           FillsOf(journal) \subseteq FillsOf(journal'),
           Trading' => Trading, Starting' => Starting, Up' => Up, Alone', PendingTold'
    PROVE  BInv'
  <1>1. engine'.ids = engine.ids /\ engine'.lots = engine.lots
        /\ (engine'.mode # "HALTED" => engine.mode # "HALTED")
    BY HaltedTyped
  <1>2. Uncounted' = Uncounted /\ Unseen' = Unseen /\ ExchangeLots' = ExchangeLots
        /\ TradesOf(Foreign)' = TradesOf(Foreign) /\ (Sound' => Sound)
        /\ (\A n : Lots(n)' = Lots(n))
    BY <1>1 DEF Uncounted, Unseen, ExchangeLots, Lots, TradesOf, Sound, Alarmed
  <1>3. Booked'
    BY <1>1 DEF BInv, Booked, LotsOf, Lots
  <1>4. Loud' /\ Told'
    BY <1>2 DEF BInv, Loud, Told, QueuedIn
  <1>5. OneOrder'
    BY <1>1, <1>2 DEF BInv, OneOrder
  <1>6. Reckoned'
    BY <1>1, <1>2 DEF BInv, Reckoned, OpensOnly, ClosesOnly
  <1>7. SeededRecorded'
    BY DEF BInv, SeededRecorded, FillsOf
  <1> QED BY <1>3, <1>4, <1>5, <1>6, <1>7 DEF BInv

\* An event is handled: a trade of the FIFO is counted, or the engine halts.
LEMMA LotsOfAdd ==
    ASSUME TypeInv, NEW S, S \subseteq DOMAIN trades, NEW n \in DOMAIN trades \ S
    PROVE  LotsOf(S \cup {n}) = LotsOf(S) + Lots(n)
  <1> DEFINE f == [i \in DOMAIN trades |-> Lots(i)]
  <1>1. /\ f[n] = Lots(n) /\ f[n] \in Int
        /\ \A i \in S : f[i] \in Int
    BY LotsInt
  <1>2. IsFiniteSet(S)
    BY TradesFinite, FS_Subset
  <1> HIDE DEF f
  <1>3. SumFunctionOnSet(f, S \cup {n}) = f[n] + SumFunctionOnSet(f, S)
    BY <1>1, <1>2, SumAdd
  <1>4. SumFunctionOnSet(f, S) \in Int
    BY <1>1, <1>2, SumType
  <1>5. SumFunctionOnSet(f, S \cup {n}) = SumFunctionOnSet(f, S) + Lots(n)
    BY <1>1, <1>3, <1>4
  <1> QED BY <1>5 DEF f, LotsOf

\* The engine counts the trade of the event it handles, or stops.
LEMMA HandleEventBInv ==
    ASSUME MInv, BInv, HandleEvent
    PROVE  BInv'
  <1> DEFINE e == Head(fifo)
  <1>1. /\ UNCHANGED <<orders, live, trades, journal, seeded, seen, pending, mirror, upstream,
                       handling, at>>
        /\ at \in {"starting", "poll"} /\ fifo # <<>> /\ fifo' = Tail(fifo)
        /\ engine' = Handled(engine, e)
    BY DEF HandleEvent, exchangeVars, memoryVars
  <1>2. fifo \in Seq(Events)
    BY DEF MInv, RecordTypes, QueuesTyped
  <1>3. /\ QueuedIn(fifo) = QueuedIn(fifo') \cup (IF e.type = "trade" THEN {e.trade} ELSE {})
        /\ e \in Events
    BY <1>1, <1>2, QueuedTail
  <1>4. e.type = "trade" => e.trade \in DOMAIN trades
    BY <1>3 DEF MInv, RecordTypes, QueuesTyped
  <1>5. /\ \/ /\ engine'.ids = engine.ids
              /\ engine'.lots = engine.lots
              /\ e.type = "trade" => e.trade \in engine.ids \/ engine'.mode = "HALTED"
           \/ /\ e.type = "trade" /\ e.trade \notin engine.ids
              /\ engine'.ids = engine.ids \cup {e.trade}
              /\ \/ engine'.mode = "HALTED"
                 \/ engine'.lots = engine.lots + Lots(e.trade)
        /\ engine.mode = "HALTED" => engine'.mode = "HALTED"
        /\ e.type = "broker_error" => engine'.mode = "HALTED"
    BY <1>1, <1>3, <1>4, HandledIs
  <1>6. Sound' => Sound
    <2> SUFFICES ASSUME Alarmed, engine'.mode # "HALTED" PROVE Alarmed'
      BY <1>5 DEF Sound
    <2>1. PICK i \in DOMAIN fifo : fifo[i].type = "broker_error"
      BY DEF Alarmed
    <2>2. /\ DOMAIN fifo = 1..Len(fifo) /\ Len(fifo) \in Nat /\ e = fifo[1]
          /\ DOMAIN fifo' = 1..(Len(fifo) - 1)
          /\ \A j \in 1..(Len(fifo) - 1) : fifo'[j] = fifo[j + 1]
      BY <1>1, <1>2
    <2>3. i # 1
      BY <1>5, <2>1, <2>2
    <2>4. i - 1 \in DOMAIN fifo' /\ fifo'[i - 1] = fifo[i]
      BY <2>1, <2>2, <2>3
    <2> QED BY <2>1, <2>4 DEF Alarmed
  <1>7. /\ Unseen' = Unseen /\ ExchangeLots' = ExchangeLots /\ Up' = Up /\ Starting' = Starting
        /\ TradesOf(Foreign)' = TradesOf(Foreign) /\ QueuedIn(upstream)' = QueuedIn(upstream)
        /\ QueuedIn(fifo)' = QueuedIn(fifo') /\ FillsOf(journal)' = FillsOf(journal)
    BY <1>1 DEF Unseen, ExchangeLots, Lots, Up, Starting, TradesOf, QueuedIn, FillsOf
  <1>8. \A n : Lots(n)' = Lots(n)
    BY <1>1 DEF Lots
  <1>9. Uncounted' \subseteq Uncounted
    BY <1>1, <1>5 DEF Uncounted
  <1>10. Booked'
    <2>1. TypeInv /\ engine.ids \subseteq DOMAIN trades
      BY DEF MInv, EInv, RecordTypes, EngineTyped
    <2>2. LotsOf(engine.ids)' = LotsOf(engine'.ids)
      BY <1>1 DEF LotsOf, Lots
    <2>3. CASE engine'.ids = engine.ids /\ engine'.lots = engine.lots
      BY <1>5, <2>2, <2>3 DEF BInv, Booked
    <2>4. CASE /\ e.type = "trade" /\ e.trade \notin engine.ids
               /\ engine'.ids = engine.ids \cup {e.trade}
               /\ engine'.lots = engine.lots + Lots(e.trade)
      <3>1. LotsOf(engine'.ids) = LotsOf(engine.ids) + Lots(e.trade)
        BY <1>4, <2>1, <2>4, LotsOfAdd
      <3> QED BY <1>5, <2>2, <2>4, <3>1 DEF BInv, Booked
    <2> QED BY <1>5, <2>3, <2>4 DEF Booked
  <1>11. Loud' /\ SeededRecorded'
    BY <1>1, <1>6, <1>7 DEF BInv, Loud, SeededRecorded, Trading
  <1>12. OneOrder'
    BY <1>1, <1>5, <1>9 DEF BInv, OneOrder
  <1>13. Alone' /\ PendingTold'
    BY <1>1 DEF Alone, PendingTold
  <1>14. Reckoned'
    BY <1>1, <1>5, <1>7, <1>8, <1>9 DEF BInv, Reckoned, OpensOnly, ClosesOnly
  <1>15. Told'
    <2> SUFFICES ASSUME Trading', Sound', NEW n \in seen, n \in Uncounted'
                 PROVE  n \in QueuedIn(fifo') \cup {handling}
      BY <1>1, <1>7 DEF Told
    <2>1. n \in QueuedIn(fifo) \cup {handling}
      BY <1>6, <1>7, <1>9 DEF BInv, Told, Trading
    <2>2. e.type = "trade" => n # e.trade
      BY <1>5 DEF Uncounted, Sound
    <2> QED BY <1>3, <2>1, <2>2
  <1> QED BY <1>10, <1>11, <1>12, <1>13, <1>14, <1>15 DEF BInv

\* The callbacks: a trade that is booked is seen, has moved the mirror and will be
\* told to the engine; one that is refused is told as an error.
LEMMA EventThreadBInv ==
    ASSUME MInv, BInv, EventThread
    PROVE  BInv'
  <1>1. /\ UNCHANGED <<orders, live, trades, journal, engine, known, seeded, snapshot, at,
                       request>>
        /\ \A i \in DOMAIN fifo : i \in DOMAIN fifo' /\ fifo'[i] = fifo[i]
    BY EventThreadDoes
  <1>2. /\ ExchangeLots' = ExchangeLots /\ Up' = Up /\ Starting' = Starting
        /\ TradesOf(Foreign)' = TradesOf(Foreign) /\ QueuedIn(upstream)' = QueuedIn(upstream')
        /\ QueuedIn(fifo)' = QueuedIn(fifo') /\ FillsOf(journal)' = FillsOf(journal)
        /\ Uncounted' = Uncounted
    BY <1>1 DEF ExchangeLots, Lots, Up, Starting, TradesOf, QueuedIn, FillsOf, Uncounted
  <1>3. \A n : Lots(n)' = Lots(n)
    BY <1>1 DEF Lots
  <1>4. Sound' => Sound
    BY <1>1 DEF Sound, Alarmed
  <1>5. Booked' /\ OneOrder' /\ Alone' /\ SeededRecorded'
    <2>1. LotsOf(engine.ids)' = LotsOf(engine.ids)
      BY <1>1 DEF LotsOf, Lots
    <2> QED BY <1>1, <1>2, <2>1 DEF BInv, Booked, OneOrder, Alone, SeededRecorded, Trading
  <1>6. CASE /\ UNCHANGED <<seen, mirror, handling>>
             /\ pending'.fills = pending.fills
             /\ QueuedIn(fifo') = QueuedIn(fifo)
             /\ \/ QueuedIn(upstream) = QueuedIn(upstream')
                \/ /\ \E i \in DOMAIN fifo' : fifo'[i].type = "broker_error"
                   /\ QueuedIn(upstream') \subseteq QueuedIn(upstream)
                \/ \E n \in seen : QueuedIn(upstream) = QueuedIn(upstream') \cup {n}
    <2>1. Unseen' = Unseen
      BY <1>1, <1>6 DEF Unseen
    <2>2. Loud'
      BY <1>2, <1>4, <1>6, <2>1 DEF BInv, Loud, Unseen, Sound, Alarmed
    <2>3. Told' /\ PendingTold'
      BY <1>1, <1>2, <1>4, <1>6 DEF BInv, Told, PendingTold, Trading
    <2>4. Reckoned'
      BY <1>1, <1>2, <1>3, <1>6, <2>1 DEF BInv, Reckoned, OpensOnly, ClosesOnly
    <2> QED BY <1>5, <2>2, <2>3, <2>4 DEF BInv
  <1>7. ASSUME NEW n \in DOMAIN trades \ seen,
               seen' = seen \cup {n}, pending'.fills = pending.fills \cup {n},
               mirror' = mirror + Lots(n),
               handling = NoTrade, handling' = n, fifo' = fifo,
               QueuedIn(upstream) = QueuedIn(upstream') \cup {n}
        PROVE  BInv'
    <2>1. Unseen' = Unseen \ {n} /\ n \in Unseen
      BY <1>1, <1>7 DEF Unseen
    <2>2. Loud'
      BY <1>2, <1>4, <1>7, <2>1 DEF BInv, Loud
    <2>3. NoTrade \notin DOMAIN trades
      BY TradesFinite, SubmissionAssumption DEF MInv, EInv
    <2>4. Told'
      BY <1>1, <1>2, <1>4, <1>7, <2>3 DEF BInv, Told, Trading, Uncounted
    <2>5. PendingTold'
      <3>1. Up => NoTrade \notin pending.fills
        BY <2>3 DEF MInv, FollowsDisk
      <3> QED BY <1>1, <1>2, <1>7, <3>1 DEF BInv, PendingTold, Up
    <2>6. Reckoned'
      <3> SUFFICES ASSUME Starting, engine.mode # "HALTED", TradesOf(Foreign) = {}
                   PROVE  (OpensOnly \/ ClosesOnly)'
        BY <1>1, <1>2 DEF Reckoned
      <3>1. Up /\ (OpensOnly \/ ClosesOnly)
        BY DEF BInv, Reckoned, Starting, Up
      <3>2. n \in Uncounted
        BY <3>1 DEF MInv, FollowsDisk, Uncounted
      <3>3. IsFiniteSet(Unseen) /\ Cardinality(Unseen) \in Nat
            /\ Cardinality(Unseen') = Cardinality(Unseen) - 1
        <4>1. IsFiniteSet(Unseen)
          BY TradesFinite, FS_Subset DEF MInv, EInv, Unseen
        <4> QED BY <2>1, <4>1, FS_RemoveElement, FS_CardinalityType
      <3>4. mirror \in Nat /\ ExchangeLots \in Nat
        BY DEF MInv, RecordTypes, LotsTyped
      <3>5. CASE OpensOnly
        <4>1. mirror' + Cardinality(Unseen') >= ExchangeLots
          BY <1>7, <3>2, <3>3, <3>4, <3>5 DEF OpensOnly
        <4> QED BY <1>1, <1>2, <1>3, <3>5, <4>1 DEF OpensOnly
      <3>6. CASE ClosesOnly
        <4>1. mirror' - Cardinality(Unseen') <= ExchangeLots
          BY <1>7, <3>2, <3>3, <3>4, <3>6 DEF ClosesOnly
        <4> QED BY <1>1, <1>2, <1>3, <3>6, <4>1 DEF ClosesOnly
      <3> QED BY <3>1, <3>5, <3>6
    <2> QED BY <1>5, <2>2, <2>4, <2>5, <2>6 DEF BInv
  <1>8. CASE /\ UNCHANGED <<seen, mirror, pending, upstream>>
             /\ handling # NoTrade /\ handling' = NoTrade
             /\ QueuedIn(fifo') = QueuedIn(fifo) \cup {handling}
    <2>1. Unseen' = Unseen
      BY <1>1, <1>8 DEF Unseen
    <2>2. Loud'
      BY <1>2, <1>4, <1>8, <2>1 DEF BInv, Loud
    <2>3. Told' /\ PendingTold'
      BY <1>1, <1>2, <1>4, <1>8 DEF BInv, Told, PendingTold, Trading
    <2>4. Reckoned'
      BY <1>1, <1>2, <1>3, <1>8, <2>1 DEF BInv, Reckoned, OpensOnly, ClosesOnly
    <2> QED BY <1>5, <2>2, <2>3, <2>4 DEF BInv
  <1> QED BY <1>6, <1>7, <1>8, EventThreadDoes

-----------------------------------------------------------------------------

\* The unseen trades are finitely many.
LEMMA UnseenFinite ==
    ASSUME MInv
    PROVE  IsFiniteSet(Unseen) /\ Cardinality(Unseen) \in Nat
  <1>1. IsFiniteSet(Unseen)
    BY TradesFinite, FS_Subset DEF MInv, EInv, Unseen
  <1> QED BY <1>1, FS_CardinalityType

\* The exchange: a fill is unseen and queued at once.
LEMMA ExchangeBInv ==
    ASSUME MInv, MInv', BInv, Exchange
    PROVE  BInv'
  <1>1. /\ UNCHANGED <<orders, journal, engine, known, seeded, seen, pending, snapshot,
                      mirror, handling, fifo, at, request>>
        /\ live' \subseteq live
    BY ExchangeDoes
  <1>2. /\ Up' = Up /\ Starting' = Starting /\ Sound' = Sound
        /\ QueuedIn(fifo)' = QueuedIn(fifo) /\ FillsOf(journal)' = FillsOf(journal)
        /\ QueuedIn(upstream)' = QueuedIn(upstream')
    BY <1>1 DEF Up, Starting, Sound, Alarmed, QueuedIn, FillsOf
  <1>3. Alone' /\ PendingTold' /\ SeededRecorded'
    BY <1>1, <1>2 DEF BInv, Alone, PendingTold, SeededRecorded, Trading
  <1>4. CASE UNCHANGED trades /\ QueuedIn(upstream') = QueuedIn(upstream)
    <2>1. /\ Uncounted' = Uncounted /\ Unseen' = Unseen /\ ExchangeLots' = ExchangeLots
          /\ TradesOf(Foreign)' = TradesOf(Foreign)
      BY <1>1, <1>4 DEF Uncounted, Unseen, ExchangeLots, Lots, TradesOf
    <2>2. \A n : Lots(n)' = Lots(n)
      BY <1>1, <1>4 DEF Lots
    <2>3. Booked'
      BY <1>1, <1>4 DEF BInv, Booked, LotsOf, Lots
    <2>4. Loud' /\ Told' /\ OneOrder'
      BY <1>1, <1>2, <1>4, <2>1 DEF BInv, Loud, Told, OneOrder, Trading
    <2>5. Reckoned'
      BY <1>1, <1>2, <2>1, <2>2 DEF BInv, Reckoned, OpensOnly, ClosesOnly
    <2> QED BY <1>3, <2>3, <2>4, <2>5 DEF BInv
  <1>5. ASSUME NEW o \in live \cup {Foreign}, NEW n \in Nat, TradesAndQueue(o, n)
        PROVE  BInv'
    <2>1. TypeInv /\ LotsTyped /\ o \in OwnId \cup {Foreign} /\ n = Len(trades) + 1
          /\ trades' = Append(trades, o) /\ ExchangeLots' = ExchangeLots + Lots(n)'
          /\ QueuedIn(upstream') = QueuedIn(upstream) \cup (IF Up THEN {n} ELSE {})
      BY <1>5 DEF TradesAndQueue, MInv, EInv, IInv, WriteAhead, TypeInv, RecordTypes
    <2>2. /\ n \notin DOMAIN trades /\ DOMAIN trades' = DOMAIN trades \cup {n}
          /\ trades'[n] = o /\ \A i \in DOMAIN trades : trades'[i] = trades[i]
      BY <2>1, TradeAdded
    <2>3. TradesOf(Foreign)' = IF o = Foreign THEN TradesOf(Foreign) \cup {n}
                               ELSE TradesOf(Foreign)
      BY <2>1, TradeAdded
    <2>4. \A i \in DOMAIN trades : Lots(i)' = Lots(i)
      BY <1>1, <2>1, <2>2, LotsStay
    <2>5. engine.ids \subseteq DOMAIN trades /\ (Up => seen \subseteq DOMAIN trades)
      <3>1. Up => FillsOf(journal) \subseteq DOMAIN trades
        BY DEF MInv, EInv, Evidence, FillsOf, TradesOf
      <3> QED BY <3>1 DEF MInv, RecordTypes, EngineTyped, FollowsDisk
    <2>6. Uncounted' = Uncounted \cup {n} /\ (Up => Unseen' = Unseen \cup {n})
      BY <1>1, <2>2, <2>5 DEF Uncounted, Unseen
    <2>7. Booked'
      <3>1. LotsOf(engine.ids)' = LotsOf(engine.ids)
        <4>1. ASSUME NEW S, S \subseteq DOMAIN trades PROVE LotsOf(S)' = LotsOf(S)
          BY <1>1, <2>1, <2>2, <4>1, LotsOfStays
        <4>2. LotsOf(engine.ids)' = SumFunctionOnSet([i \in DOMAIN trades' |-> Lots(i)'], engine.ids)
          BY <1>1 DEF LotsOf
        <4>3. SumFunctionOnSet([i \in DOMAIN trades' |-> Lots(i)'], engine.ids) = LotsOf(engine.ids)
          BY <2>5, <4>1 DEF LotsOf
        <4> QED BY <4>2, <4>3
      <3> QED BY <1>1, <3>1 DEF BInv, Booked
    <2>8. Loud'
      BY <1>1, <1>2, <2>1, <2>6 DEF BInv, Loud
    <2>9. Told'
      BY <1>1, <1>2, <2>2, <2>5, <2>6 DEF BInv, Told, Trading
    <2>10. OneOrder'
      <3> SUFFICES ASSUME engine.mode # "HALTED" PROVE OneOrder'
        BY <1>1 DEF OneOrder
      <3>1. PICK id \in OwnId : /\ live \subseteq {id}
                                /\ \A i \in Uncounted : trades[i] \in {id, Foreign}
        BY DEF BInv, OneOrder
      <3>2. \A i \in Uncounted' : trades'[i] \in {id, Foreign}
        BY <2>2, <2>6, <3>1 DEF Uncounted
      <3> QED BY <1>1, <3>1, <3>2 DEF OneOrder
    <2>11. Reckoned'
      <3> SUFFICES ASSUME Starting, engine.mode # "HALTED", TradesOf(Foreign)' = {}
                   PROVE  (OpensOnly \/ ClosesOnly)'
        BY <1>1, <1>2 DEF Reckoned
      <3>1. Up /\ o # Foreign /\ TradesOf(Foreign) = {} /\ o \in live
        BY <2>3 DEF Starting, Up
      <3>2. OpensOnly \/ ClosesOnly
        BY <3>1 DEF BInv, Reckoned
      <3>3. n \notin Unseen /\ IsFiniteSet(Unseen) /\ Cardinality(Unseen) \in Nat
            /\ Cardinality(Unseen') = Cardinality(Unseen) + 1
        <4>1. IsFiniteSet(Unseen) /\ n \notin Unseen
          BY <2>2, UnseenFinite DEF Unseen
        <4> QED BY <2>6, <3>1, <4>1, FS_AddElement, FS_CardinalityType
      <3>4. mirror \in Nat /\ ExchangeLots \in Nat /\ mirror' = mirror
        BY <1>1 DEF MInv, RecordTypes, LotsTyped
      <3>5. \A i \in Uncounted : Lots(i)' = Lots(i)
        BY <2>4 DEF Uncounted
      <3>6. Lots(n)' = IF orders[o].offset = "OPEN" THEN 1 ELSE -1
        BY <1>1, <2>2, <3>1 DEF Lots
      <3>7. CASE OpensOnly
        <4>1. Lots(n)' = 1
          BY <3>1, <3>6, <3>7 DEF OpensOnly
        <4>2. mirror' + Cardinality(Unseen') >= ExchangeLots'
          BY <2>1, <3>3, <3>4, <3>7, <4>1 DEF OpensOnly
        <4>3. \A i \in Uncounted' : Lots(i)' = 1
          BY <2>6, <3>5, <3>7, <4>1 DEF OpensOnly
        <4> QED BY <1>1, <3>7, <4>2, <4>3 DEF OpensOnly
      <3>8. CASE ClosesOnly
        <4>1. Lots(n)' = -1
          BY <3>1, <3>6, <3>8 DEF ClosesOnly
        <4>2. mirror' - Cardinality(Unseen') <= ExchangeLots'
          BY <2>1, <3>3, <3>4, <3>8, <4>1 DEF ClosesOnly
        <4>3. \A i \in Uncounted' : Lots(i)' = -1
          BY <2>6, <3>5, <3>8, <4>1 DEF ClosesOnly
        <4> QED BY <1>1, <3>8, <4>2, <4>3 DEF ClosesOnly
      <3> QED BY <3>2, <3>7, <3>8
    <2> QED BY <1>3, <2>7, <2>8, <2>9, <2>10, <2>11 DEF BInv
  <1> QED BY <1>4, <1>5, ExchangeDoes

\* The official send: everything is counted, so the new order is the only one.
LEMMA OfficialSendBInv ==
    ASSUME MInv, BInv, OfficialSend
    PROVE  BInv'
  <1>1. /\ UNCHANGED <<trades, journal, engine, seeded, seen, pending, mirror, handling, fifo>>
        /\ at = "prepared" /\ upstream = <<>> /\ handling = NoTrade /\ fifo = <<>>
    BY DEF OfficialSend, Boundary, diskVars
  <1>2. Trading /\ request.back \in {"poll", "checkpoint"} /\ request.id \in OwnId
        /\ request.id \notin DOMAIN orders
    BY <1>1 DEF Trading, Up, Starting, MInv, EInv, IInv, Returns, ReservedOnly, TypeInv
  <1>3. CASE UNCHANGED <<orders, live, upstream>> /\ at' = request.back
    <2>1. Trading' /\ ~Starting' /\ Alone' /\ PendingTold'
      BY <1>2, <1>3 DEF Trading, Up, Starting, Alone, PendingTold
    <2>2. FillsOf(journal) \subseteq FillsOf(journal') /\ (Up' => Up)
      BY <1>1, <1>2 DEF Trading
    <2> QED BY <1>1, <1>2, <1>3, <2>1, <2>2, QuietBInv
  <1>4. CASE /\ orders' = [i \in DOMAIN orders \cup {request.id} |->
                              IF i = request.id THEN [offset |-> journal[request.id].offset,
                                                      volume |-> journal[request.id].volume]
                              ELSE orders[i]]
             /\ live' = live \cup {request.id} /\ at' = "sent"
             /\ upstream' = Append(upstream, OrderEvent(request.id, TRUE))
    <2>1. engine.mode # "HALTED" /\ live = {}
      BY <1>1 DEF BInv, Alone
    <2>2. Uncounted = {} /\ Unseen = {}
      BY <1>1, <1>2, <2>1, AllCounted
    <2>3. Uncounted' = {} /\ Unseen' = {} /\ ~Starting'
      BY <1>1, <1>4, <2>2 DEF Uncounted, Unseen, Starting
    <2>4. Booked'
      <3>1. TypeInv /\ LotsTyped /\ engine.ids \subseteq DOMAIN trades
        BY DEF MInv, EInv, RecordTypes, EngineTyped
      <3>2. \A id \in DOMAIN orders : orders'[id] = orders[id]
        BY <1>2, <1>4
      <3>3. \A n \in DOMAIN trades : Lots(n)' = Lots(n)
        BY <1>1, <3>1, <3>2, LotsStay
      <3>4. [n \in DOMAIN trades |-> Lots(n)]' = [n \in DOMAIN trades |-> Lots(n)]
        BY <1>1, <3>3
      <3>5. LotsOf(engine.ids)' = LotsOf(engine.ids)
        BY <1>1, <3>4 DEF LotsOf
      <3> QED BY <1>1, <3>5 DEF BInv, Booked
    <2>5. OneOrder'
      BY <1>2, <1>4, <2>1, <2>3 DEF OneOrder
    <2>6. Loud' /\ Told' /\ Reckoned'
      BY <2>3 DEF Loud, Told, Reckoned
    <2>7. Alone' /\ PendingTold'
      BY <1>4 DEF Alone, PendingTold
    <2>8. SeededRecorded'
      BY <1>1, <1>2 DEF BInv, SeededRecorded, FillsOf
    <2> QED BY <2>4, <2>5, <2>6, <2>7, <2>8 DEF BInv
  <1> QED BY <1>3, <1>4 DEF OfficialSend

\* A mirror just read is what the order at work is reckoned from.
LEMMA ReckonedAfresh ==
    MInv /\ OneOrder /\ mirror = ExchangeLots => Reckoned
  <1> SUFFICES ASSUME MInv, OneOrder, mirror = ExchangeLots, Starting,
                      engine.mode # "HALTED", TradesOf(Foreign) = {}
               PROVE  OpensOnly \/ ClosesOnly
    BY DEF Reckoned
  <1>1. PICK id \in OwnId : /\ live \subseteq {id}
                            /\ \A n \in Uncounted : trades[n] \in {id, Foreign}
    BY DEF OneOrder
  <1>2. \A n \in Uncounted : trades[n] = id /\ id \in DOMAIN orders /\ id # Foreign
    BY <1>1, ForeignIsNotOwn DEF Uncounted, TradesOf, MInv, RecordTypes, LotsTyped
  <1>3. /\ mirror + Cardinality(Unseen) >= ExchangeLots
        /\ mirror - Cardinality(Unseen) <= ExchangeLots
    BY UnseenFinite DEF MInv, RecordTypes, LotsTyped
  <1>4. live \subseteq DOMAIN orders
    BY DEF MInv, EInv, TypeInv
  <1>5. CASE id \notin DOMAIN orders
    BY <1>1, <1>2, <1>3, <1>4, <1>5 DEF OpensOnly
  <1>6. CASE id \in DOMAIN orders /\ orders[id].offset = "OPEN"
    BY <1>1, <1>2, <1>3, <1>6 DEF OpensOnly, Lots
  <1>7. CASE id \in DOMAIN orders /\ orders[id].offset = "CLOSE"
    BY <1>1, <1>2, <1>3, <1>7 DEF ClosesOnly, Lots
  <1>8. id \in DOMAIN orders => orders[id].offset \in {"OPEN", "CLOSE"}
    BY DEF MInv, EInv, IInv, WriteAhead, RecordTypes, EntriesTyped
  <1> QED BY <1>5, <1>6, <1>7, <1>8

\* ReckonedAfresh of the next state.
LEMMA ReckonedAfreshNext ==
    MInv' /\ OneOrder' /\ mirror' = ExchangeLots' => Reckoned'
  <1>1. MInv' /\ OneOrder' /\ (mirror = ExchangeLots)' => Reckoned'
    BY ReckonedAfresh, PTL
  <1> QED BY <1>1

\* A fresh position query.
LEMMA SnapshotBInv ==
    ASSUME MInv, MInv', BInv, Snapshot
    PROVE  BInv'
  <1>1. /\ UNCHANGED <<orders, live, trades, journal, engine, seeded, seen, pending, upstream,
                       handling, fifo, at>>
        /\ mirror' = ExchangeLots
    BY DEF Snapshot, exchangeVars, diskVars, queueVars
  <1>2. ExchangeLots' = ExchangeLots
    BY <1>1 DEF ExchangeLots, Lots
  <1>3. /\ Uncounted' = Uncounted /\ Unseen' = Unseen
        /\ Up' = Up /\ Trading' = Trading /\ Sound' = Sound
        /\ QueuedIn(upstream)' = QueuedIn(upstream) /\ QueuedIn(fifo)' = QueuedIn(fifo)
        /\ FillsOf(journal)' = FillsOf(journal)
    BY <1>1 DEF Uncounted, Unseen, Up, Trading, Starting, Sound, Alarmed, QueuedIn, FillsOf
  <1>4. Booked'
    <2>1. LotsOf(engine.ids)' = LotsOf(engine.ids)
      BY <1>1 DEF LotsOf, Lots
    <2> QED BY <1>1, <2>1 DEF BInv, Booked
  <1>5. Loud' /\ Told'
    BY <1>1, <1>3 DEF BInv, Loud, Told
  <1>6. OneOrder'
    BY <1>1, <1>3 DEF BInv, OneOrder
  <1>7. Alone' /\ PendingTold' /\ SeededRecorded'
    BY <1>1, <1>3 DEF BInv, Alone, PendingTold, SeededRecorded
  <1>8. Reckoned'
    BY <1>1, <1>2, <1>6, ReckonedAfreshNext
  <1> QED BY <1>4, <1>5, <1>6, <1>7, <1>8 DEF BInv

\* A start queues every trade of the day again.
LEMMA StartBInv ==
    ASSUME MInv, MInv', BInv, Start
    PROVE  BInv'
  <1>1. /\ UNCHANGED <<orders, live, trades, journal, engine>>
        /\ at' = "starting" /\ mirror' = ExchangeLots
    BY DEF Start, exchangeVars, diskVars
  <1>2. PICK ids \in Orderings(DOMAIN orders) : upstream' = Replayed(ids)
    BY DEF Start
  <1>3. QueuedIn(upstream') = DOMAIN trades
    BY <1>2, QueuedReplayed DEF MInv, EInv
  <1>4. Up' /\ Starting' /\ ~Trading'
    BY <1>1 DEF Up, Starting, Trading
  <1>5. Booked' /\ OneOrder' /\ Alone' /\ PendingTold'
    BY <1>1 DEF BInv, Booked, LotsOf, Lots, OneOrder, Uncounted, Alone, PendingTold
  <1>6. Loud'
    BY <1>1, <1>3 DEF Loud, Unseen, QueuedIn
  <1>7. Told' /\ SeededRecorded'
    BY <1>4 DEF Told, SeededRecorded
  <1>8. ExchangeLots' = ExchangeLots
    BY <1>1 DEF ExchangeLots, Lots
  <1>9. Reckoned'
    BY <1>1, <1>5, <1>8, ReckonedAfreshNext
  <1> QED BY <1>5, <1>6, <1>7, <1>9 DEF BInv

\* Once the session is verified and the book found equal to the mirror, nothing is
\* left uncounted: the order at work can only have moved the position one way.
LEMMA VerifiedIsCounted ==
    ASSUME MInv, BInv, VerifySession, engine'.mode # "HALTED", ~Alarmed
    PROVE  Uncounted = {}
  <1>1. engine' \in {engine, Halted(engine)} /\ (engine' = engine \/ engine.lots # mirror)
        /\ engine.lots = mirror
    <2>1. engine' = IF engine.lots = mirror THEN engine ELSE Halted(engine)
      BY DEF VerifySession
    <2>2. Halted(engine).mode = "HALTED"
      BY HaltedTyped
    <2> QED BY <2>1, <2>2
  <1>2. engine.mode # "HALTED" /\ Sound /\ Up /\ Starting /\ TradesOf(Foreign) = {}
    BY <1>1, HaltedTyped DEF VerifySession, Sound, Up, Starting
  <1>3. QueuedIn(upstream) = {}
    BY DEF VerifySession, OrderTradeQuiescent, QueuedIn
  <1>4. Unseen = {}
    BY <1>2, <1>3 DEF BInv, Loud
  <1>5. Cardinality(Unseen) = 0 /\ mirror \in Nat /\ ExchangeLots \in Nat
    BY <1>4, FS_EmptySet DEF MInv, RecordTypes, LotsTyped
  <1>6. engine.lots = LotsOf(engine.ids)
    BY <1>2 DEF BInv, Booked
  <1>7. /\ ExchangeLots = LotsOf(engine.ids) + LotsOf(Uncounted)
        /\ IsFiniteSet(Uncounted) /\ Cardinality(Uncounted) \in Nat
        /\ \A c \in {1, -1} : (\A n \in Uncounted : Lots(n) = c)
                                 => LotsOf(Uncounted) = c * Cardinality(Uncounted)
    BY LotsSplit
  <1>8. Cardinality(Uncounted) = 0
    <2>1. CASE OpensOnly
      <3>1. LotsOf(Uncounted) = 1 * Cardinality(Uncounted)
        BY <1>7, <2>1 DEF OpensOnly
      <3>2. mirror + 0 >= ExchangeLots
        BY <1>5, <2>1 DEF OpensOnly
      <3> QED BY <1>1, <1>5, <1>6, <1>7, <3>1, <3>2
    <2>2. CASE ClosesOnly
      <3>1. LotsOf(Uncounted) = -1 * Cardinality(Uncounted)
        BY <1>7, <2>2 DEF ClosesOnly
      <3>2. mirror - 0 <= ExchangeLots
        BY <1>5, <2>2 DEF ClosesOnly
      <3> QED BY <1>1, <1>5, <1>6, <1>7, <3>1, <3>2
    <2> QED BY <1>2, <2>1, <2>2 DEF BInv, Reckoned
  <1> QED BY <1>7, <1>8, FS_EmptySet

\* A verified session has counted what the exchange has traded.
LEMMA VerifySessionBInv ==
    ASSUME MInv, EInv', BInv, VerifySession
    PROVE  BInv'
  <1>1. /\ UNCHANGED <<orders, live, trades, seeded, pending, mirror, upstream, handling, fifo>>
        /\ at = "session query" /\ at' = "poll" /\ journal' = Recovered
        /\ engine' \in {engine, Halted(engine)}
    BY DEF VerifySession, exchangeVars
  <1>2. engine'.ids = engine.ids /\ engine'.lots = engine.lots
        /\ (engine'.mode # "HALTED" => engine.mode # "HALTED")
    BY <1>1, HaltedTyped
  <1>3. seen \subseteq seen' /\ seeded \subseteq FillsOf(Recovered)
    BY VerifySessionMInv
  <1>4. Uncounted' = Uncounted /\ Unseen' \subseteq Unseen /\ (Sound' => Sound) /\ Up
        /\ (Alarmed' <=> Alarmed) /\ ~Starting'
    BY <1>1, <1>2, <1>3 DEF Uncounted, Unseen, Sound, Alarmed, Up, Starting
  <1>5. Booked' /\ OneOrder' /\ Alone' /\ PendingTold' /\ Reckoned'
    BY <1>1, <1>2, <1>4 DEF BInv, Booked, LotsOf, Lots, OneOrder, Alone, PendingTold, Reckoned
  <1>6. Loud'
    BY <1>1, <1>4 DEF BInv, Loud, QueuedIn
  <1>7. Told'
    <2>1. Sound' => Uncounted' = {}
      BY <1>4, VerifiedIsCounted DEF Sound
    <2> QED BY <2>1 DEF Told
  <1>8. SeededRecorded'
    BY <1>1, <1>3 DEF SeededRecorded, FillsOf
  <1> QED BY <1>5, <1>6, <1>7, <1>8 DEF BInv

\* A process that is down owes nothing to its queues.
LEMMA DownBInv ==
    ASSUME MInv, BInv, Down
    PROVE  BInv'
  <1>1. UNCHANGED <<orders, live, trades, engine>> /\ at' = "down"
    BY DEF Down, exchangeVars, diskVars
  <1>2. Booked' /\ OneOrder'
    BY <1>1 DEF BInv, Booked, LotsOf, Lots, OneOrder, Uncounted
  <1>3. Loud' /\ Alone' /\ Reckoned' /\ Told' /\ PendingTold' /\ SeededRecorded'
    BY <1>1 DEF Loud, Alone, Reckoned, Told, PendingTold, SeededRecorded, Up, Trading, Starting
  <1> QED BY <1>2, <1>3 DEF BInv

-----------------------------------------------------------------------------
(* The engine thread. *)

\* No step loses a recorded fill.
LEMMA RecordsGrow ==
    ASSUME EInv, [Next]_vars
    PROVE  FillsOf(journal) \subseteq FillsOf(journal')
  BY StepEInv DEF Keeps, FillsOf

\* The reservation of an order.
LEMMA ReserveBInv ==
    ASSUME MInv, BInv, NEW offset, NEW volume, NEW back, Reserve(offset, volume, back),
           Trading, live = {}, engine.mode # "HALTED",
           FillsOf(journal) \subseteq FillsOf(journal')
    PROVE  BInv'
  <1>1. /\ UNCHANGED <<orders, live, trades, engine, seen, seeded, mirror, upstream, handling,
                       fifo>>
        /\ at' = "prepared"
    BY DEF Reserve, exchangeVars, queueVars
  <1>2. Alone' /\ PendingTold' /\ ~Starting'
    BY <1>1 DEF Alone, PendingTold, Starting
  <1>3. Up
    BY DEF Trading
  <1> QED BY <1>1, <1>2, <1>3, QuietBInv

\* The steps of the loop that neither trade nor handle an event.
LEMMA LoopBInv ==
    ASSUME MInv, BInv, PollDone \/ Acknowledge \/ StartupOrdersSettled \/ UNCHANGED vars
    PROVE  BInv'
  <1>1. UNCHANGED <<orders, live, trades, journal, engine, seen, seeded, pending, mirror,
                    upstream, handling, fifo>>
    BY DEF PollDone, Acknowledge, StartupOrdersSettled, vars, exchangeVars, diskVars,
           memoryVars, queueVars
  <1>2. (Trading' => Trading) /\ (Starting' => Starting) /\ (Up' => Up)
    BY DEF PollDone, Acknowledge, StartupOrdersSettled, vars, Trading, Starting, Up
  <1>3. Alone'
    BY <1>1 DEF PollDone, Acknowledge, StartupOrdersSettled, vars, BInv, Alone, diskVars,
                exchangeVars
  <1>4. PendingTold'
    <2>1. at' \in {"install", "acknowledge", "rebalance"}
             => at \in {"install", "acknowledge", "rebalance"}
      BY DEF PollDone, Acknowledge, StartupOrdersSettled, vars
    <2> QED BY <1>1, <2>1 DEF BInv, PendingTold, QueuedIn, FillsOf
  <1> QED BY <1>1, <1>2, <1>3, <1>4, QuietBInv

\* The steps that begin a submission.
LEMMA CallersBInv ==
    ASSUME MInv, BInv, Reduce \/ Rebalance, FillsOf(journal) \subseteq FillsOf(journal')
    PROVE  BInv'
  <1>1. Trading /\ Up
    BY DEF Reduce, Rebalance, Trading, Up, Starting
  <1>2. CASE \E offset, volume, back : Reserve(offset, volume, back) /\ ActiveOrders = {}
                                         /\ engine.mode # "HALTED"
    <2>1. live = {}
      BY <1>2 DEF ActiveOrders
    <2> QED BY <1>1, <1>2, <2>1, ReserveBInv
  <1>3. CASE /\ UNCHANGED <<orders, live, trades, seen, seeded, mirror, upstream, handling, fifo>>
             /\ engine' \in {engine, Halted(engine)} /\ at' \in {"checkpoint", "poll"}
    <2>1. Alone' /\ PendingTold' /\ ~Starting' /\ Up'
      BY <1>3 DEF Alone, PendingTold, Starting, Up
    <2> QED BY <1>1, <1>3, <2>1, QuietBInv
  <1>4. at = "reduce" => engine.mode = "REDUCE_ONLY"
    BY DEF BInv, Alone
  <1>5. CASE Reduce
    BY <1>2, <1>3, <1>4, <1>5
       DEF Reduce, SendRefused, exchangeVars, diskVars, memoryVars, queueVars
  <1>6. CASE Rebalance
    BY <1>2, <1>3, <1>6 DEF Rebalance, exchangeVars, diskVars, memoryVars, queueVars
  <1> QED BY <1>5, <1>6

\* The steps that disown an order or mark it submitted.
LEMMA StatusBInv ==
    ASSUME MInv, BInv, AbortBeforeSend \/ MarkSubmitted,
           FillsOf(journal) \subseteq FillsOf(journal')
    PROVE  BInv'
  <1>1. /\ UNCHANGED <<orders, live, trades, engine, seen, seeded, mirror, upstream, handling,
                       fifo>>
        /\ at \in {"prepared", "sent"} /\ at' = request.back
    BY DEF AbortBeforeSend, MarkSubmitted, exchangeVars, queueVars
  <1>2. at' \in {"poll", "checkpoint"}
    BY <1>1 DEF MInv, EInv, IInv, Returns
  <1>3. Trading /\ Up /\ ~Starting' /\ Alone' /\ PendingTold'
    BY <1>1, <1>2 DEF Trading, Up, Starting, Alone, PendingTold
  <1> QED BY <1>1, <1>3, QuietBInv

\* The two halves of a checkpoint.
LEMMA CheckpointBInv ==
    ASSUME MInv, EInv', BInv, CheckpointApply \/ CheckpointInstall,
           FillsOf(journal) \subseteq FillsOf(journal')
    PROVE  BInv'
  <1>1. CASE CheckpointApply
    <2>1. /\ UNCHANGED <<orders, live, trades, seen, seeded, pending, mirror, upstream, handling,
                         fifo>>
          /\ engine' \in {engine, Halted(engine)}
          /\ at \in {"checkpoint", "verify"}
          /\ \/ at' = "install" /\ journal' = Applied(journal, pending) /\ at = "checkpoint"
             \/ at' = "verify install" /\ at = "verify"
             \/ at' = "poll" /\ at = "checkpoint"
      BY <1>1 DEF CheckpointApply, exchangeVars, queueVars
    <2>2. (Trading' => Trading) /\ (Starting' => Starting) /\ Up /\ Alone'
      BY <2>1 DEF Trading, Starting, Up, Alone
    <2>3. PendingTold'
      <3>1. at' = "install" => FillsOf(journal') = FillsOf(journal) \cup pending.fills
        <4>1. CASE at' = "install"
          <5>1. /\ WellFormed(journal) /\ known = journal
                /\ pending.fills \subseteq {n \in DOMAIN trades : trades[n] \in DOMAIN known}
            BY <2>1, <2>2, <4>1 DEF MInv, EInv, IInv, FollowsDisk, Installing
          <5>2. FillsOf(Applied(journal, pending)) = FillsOf(journal) \cup pending.fills
            BY <5>1, FillsApplied
          <5> QED BY <2>1, <4>1, <5>2
        <4> QED BY <4>1
      <3>2. FillsOf(journal)' = FillsOf(journal')
        BY DEF FillsOf
      <3> QED BY <2>1, <3>1, <3>2 DEF PendingTold
    <2> QED BY <2>1, <2>2, <2>3, QuietBInv
  <1>2. CASE CheckpointInstall
    <2>1. /\ UNCHANGED <<orders, live, trades, journal, seeded, mirror, upstream, handling, fifo>>
          /\ engine' \in {engine, Halted(engine)} /\ seen' = seen
          /\ pending'.fills \subseteq pending.fills
          /\ \/ at = "install" /\ at' \in {"poll", "acknowledge"}
             \/ at = "verify install" /\ at' = "session query"
      BY <1>2, CheckpointInstallMInv DEF CheckpointInstall, exchangeVars, queueVars, Remaining
    <2>2. (Trading' => Trading) /\ (Starting' => Starting) /\ Up /\ Alone'
      BY <2>1 DEF Trading, Starting, Up, Alone
    <2>3. PendingTold'
      BY <2>1 DEF BInv, PendingTold, QueuedIn, FillsOf
    <2> QED BY <2>1, <2>2, <2>3, QuietBInv
  <1> QED BY <1>1, <1>2

\* Every step keeps the invariant.
LEMMA StepBInv == MInv /\ BInv /\ [Next]_vars => BInv'
  <1> SUFFICES ASSUME MInv, BInv, [Next]_vars PROVE BInv'
    OBVIOUS
  <1>1. MInv' /\ EInv' /\ FillsOf(journal) \subseteq FillsOf(journal')
    BY StepMInv, RecordsGrow DEF MInv
  <1>2. CASE RunOnce
    BY <1>1, <1>2, HandleEventBInv, LoopBInv, CallersBInv, OfficialSendBInv, StatusBInv,
       CheckpointBInv DEF RunOnce
  <1>3. CASE Startup \/ Down
    BY <1>1, <1>3, StartBInv, SnapshotBInv, LoopBInv, VerifySessionBInv, DownBInv DEF Startup
  <1>4. CASE EventThread \/ Exchange
    BY <1>1, <1>4, EventThreadBInv, ExchangeBInv
  <1>5. CASE UNCHANGED vars
    BY <1>5, LoopBInv
  <1> QED BY <1>2, <1>3, <1>4, <1>5 DEF Next

-----------------------------------------------------------------------------

\* At the boundary from which the strategy trades, the engine's book is the
\* exchange's position and the journal has evidence of every trade, whatever was
\* delayed, refused, checkpointed in part or recovered after a death
\* (directional_engine.py run_once, ctp.py acknowledge_critical_events).
THEOREM RecordsAgreeHolds == Spec => []RecordsAgreeAtBoundary
  <1>1. MInv /\ BInv => RecordsAgreeAtBoundary
    <2> SUFFICES ASSUME MInv, BInv, at = "rebalance", engine.mode = "RUNNING", Boundary
                 PROVE  engine.lots = ExchangeLots /\ FillsOf(journal) = DOMAIN trades
      BY DEF RecordsAgreeAtBoundary
    <2>1. Trading /\ Up /\ ~Installing
      BY DEF Trading, Up, Starting, Installing
    <2>2. Unseen = {} /\ engine.lots = ExchangeLots
      BY <2>1, AllCounted DEF Boundary
    <2>3. QueuedIn(fifo) = {} /\ handling = NoTrade
      BY DEF Boundary, QueuedIn
    <2>4. NoTrade \notin pending.fills
      BY <2>1, TradesFinite, SubmissionAssumption DEF MInv, EInv, FollowsDisk
    <2>5. pending.fills \cup seeded \subseteq FillsOf(journal)
      BY <2>1, <2>3, <2>4 DEF BInv, PendingTold, SeededRecorded
    <2>6. seen = FillsOf(journal)
      BY <2>1, <2>5 DEF MInv, FollowsDisk
    <2>7. FillsOf(journal) \subseteq DOMAIN trades
      BY DEF MInv, EInv, Evidence, FillsOf, TradesOf
    <2> QED BY <2>2, <2>6, <2>7 DEF Unseen
  <1> QED BY <1>1, InitMInv, InitBInv, StepMInv, StepBInv, PTL DEF Spec

\* Nothing is sent while the process has been told of a fill that the engine's book
\* does not have yet, however the returns interleave with the reservation's fsync
\* (ctp.py send_order, _critical_order_submission_scope).
THEOREM SendsOnHandledFillsHolds == Spec => SendsOnHandledFills
  <1>1. MInv /\ BInv /\ [Next]_vars
           => [DOMAIN orders' # DOMAIN orders => engine.lots = ExchangeLots]_vars
    <2> SUFFICES ASSUME MInv, BInv, Next, DOMAIN orders' # DOMAIN orders
                 PROVE  engine.lots = ExchangeLots
      OBVIOUS
    <2>1. OfficialSend
      BY DEF Next, RunOnce, Startup, HandleEvent, PollDone, Reduce, Reserve, SendRefused,
             AbortBeforeSend, MarkSubmitted, CheckpointApply, CheckpointInstall, Acknowledge,
             Rebalance, Start, Snapshot, StartupOrdersSettled, VerifySession, Down, EventThread,
             OrderCallback, AccountCallback, TradeCallback, TradeEnqueue, Dispatching, Exchange,
             ExFill, ExCancel, ExForeignFill, ExAccount, exchangeVars
    <2>2. at = "prepared" /\ Boundary
      BY <2>1 DEF OfficialSend
    <2>3. Trading /\ engine.mode # "HALTED"
      BY <2>2 DEF Trading, Up, Starting, BInv, Alone
    <2> QED BY <2>2, <2>3, AllCounted DEF Boundary
  <1> QED BY <1>1, InitMInv, InitBInv, StepMInv, StepBInv, PTL DEF Spec, SendsOnHandledFills

=============================================================================
