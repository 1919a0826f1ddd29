---------------------------- MODULE MCOiEvidence ----------------------------
(* Three days: the bridge, a live day on which a contract is listed, and its end.   *)
EXTENDS OiEvidence

ListingMC == <<{"a"}, {"a", "b"}, {"a", "b"}>>
OiMC == {"a", "b"}
ThinMC == {"b"}

=============================================================================
