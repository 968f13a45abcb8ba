-------------------------- MODULE MCStoreTransfer --------------------------
(* Small instances of StoreTransfer.                                       *)
EXTENDS StoreTransfer, TLC

AllRoutes == {"heap", "views", "framework", "to_sexp"}
SymmetryAll == Permutations(Chain) \cup Permutations(Addr) \cup Permutations(Ptr)
=============================================================================
