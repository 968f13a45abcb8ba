------------------------------ MODULE MCWriter ------------------------------
(* Small instances of Writer.  Slices of 3 bytes, so that strings of one   *)
(* and of two bytes share one and leave room that is too small; blocks of  *)
(* 2, so that two records of a byte each compact into one slice and two    *)
(* of three bytes together into two.                                       *)
EXTENDS Writer, TLC

CONSTANTS x, y     \* bytes

Text(bytes) == [bytes |-> bytes, enc |-> "UTF8"]
ShortInputs == {NaView, Text(<<x>>), Text(<<y, x>>)}
SymmetryAll == Permutations(Slice) \cup Permutations(W)
=============================================================================
