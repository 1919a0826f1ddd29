----------------------------- MODULE MCSimBroker -----------------------------
(***************************************************************************)
(* Requests for SimBroker: opens and closes of each kind, partly filled,     *)
(* all-or-none and resting.                                                  *)
(***************************************************************************)
EXTENDS SimBroker

Request(side, offset, volume, type) ==
    [side |-> side, offset |-> offset, volume |-> volume, type |-> type]

MCRequests ==
    { Request("BUY", "OPEN", 2, "LIMIT"), 
      Request("SELL", "CLOSE_TODAY", 1, "FAK"), Request("SELL", "CLOSE", 2, "FAK"), Request("BUY", "CLOSE_YESTERDAY", 2, "FOK") }

MCBooks == { [long |-> 1, short |-> 2] }
=============================================================================
