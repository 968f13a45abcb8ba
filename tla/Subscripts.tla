----------------------------- MODULE Subscripts -----------------------------
(***************************************************************************)
(* The subscripts R hands an Extract_subset method, and the element each   *)
(* one selects.  R has already dropped zero and negative subscripts, so    *)
(* what remains is an integer or a real of at least one, possibly past the *)
(* end, or NA.  A real is kept in halves (twice = 5 stands for 2.5), which *)
(* is enough to tell truncation from rounding and n + 0.5 from n + 1.      *)
(***************************************************************************)
EXTENDS Integers

CONSTANT NA_INDEX    \* NA_INTEGER, NA_real_ and every non-finite real

IntSubscript  == [type : {"int"},  value : Int]
RealSubscript == [type : {"real"}, twice : Int]
Subscript == IntSubscript \cup RealSubscript \cup {NA_INDEX}

ASSUME SubscriptsAssumption == NA_INDEX \notin IntSubscript \cup RealSubscript

NotSelected == -1

(* Mutated: a real subscript is compared with n before it is truncated, so *)
(* n + 0.5 is out of bounds.                                               *)
subset_elementUntruncated(s, n) ==
  CASE s \in IntSubscript ->
         IF s.value - 1 < 0 \/ s.value - 1 >= n THEN NotSelected ELSE s.value - 1
    [] s \in RealSubscript ->
         IF s.twice >= 2 /\ s.twice <= 2 * n THEN (s.twice \div 2) - 1 ELSE NotSelected
    [] OTHER -> NotSelected

(* The zero-based element a charvec subscript copies, of a source of n.    *)
(* The real bounds are compared as one_based >= 1 and one_based < n + 1,   *)
(* before the conversion to an integer truncates.                          *)
subset_element(s, n) ==
  CASE s \in IntSubscript ->
         IF s.value - 1 < 0 \/ s.value - 1 >= n THEN NotSelected ELSE s.value - 1
    [] s \in RealSubscript ->
         IF s.twice >= 2 /\ s.twice < 2 * n + 2 THEN (s.twice \div 2) - 1 ELSE NotSelected
    [] OTHER -> NotSelected

(* R's rule for the same subscripts: truncate, then an element or NA.      *)
RSubscript(s) ==
  CASE s \in IntSubscript  -> s.value
    [] s \in RealSubscript -> s.twice \div 2
    [] OTHER -> 0
=============================================================================
