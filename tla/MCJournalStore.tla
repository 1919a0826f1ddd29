--------------------------- MODULE MCJournalStore ---------------------------
(***************************************************************************)
(* Model checking of JournalStore: no action or property tells two orders   *)
(* apart, so behaviours that differ by a permutation of them are explored   *)
(* once.  Accounts are not interchangeable: one of them is Home.            *)
(***************************************************************************)
EXTENDS JournalStore, TLC

OrderSymmetry == Permutations(Orders)
=============================================================================
