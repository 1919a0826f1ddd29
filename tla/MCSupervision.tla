--------------------------- MODULE MCSupervision ---------------------------
(***************************************************************************)
(* Model checking of Supervision: nothing tells two live processes apart.    *)
(***************************************************************************)
EXTENDS Supervision, TLC

SupervisionSymmetry == Permutations(Procs)
=============================================================================
