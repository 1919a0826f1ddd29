---------------------------- MODULE MCLifecycle -----------------------------
(***************************************************************************)
(* Model checking of Lifecycle: nothing tells two runtimes, two accounts or  *)
(* two nonces apart.                                                         *)
(***************************************************************************)
EXTENDS Lifecycle

LifecycleSymmetry ==
    Permutations(Runtimes) \cup Permutations(Accounts) \cup Permutations(Nonces)
=============================================================================
