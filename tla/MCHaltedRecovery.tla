-------------------------- MODULE MCHaltedRecovery --------------------------
(***************************************************************************)
(* Model checking of HaltedRecovery: the operator's ids are all alike.       *)
(***************************************************************************)
EXTENDS HaltedRecovery

RecoverySymmetry == Permutations(Nonces)
=============================================================================
