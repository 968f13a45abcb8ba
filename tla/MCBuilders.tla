----------------------------- MODULE MCBuilders -----------------------------
(* Small instances of Builders.  With an alignment of 2, slices of 2 and 4 *)
(* bytes: strings of one byte share a slice, one of three needs the larger.*)
EXTENDS Builders, TLC

CONSTANTS x, y     \* bytes

Text(bytes) == [bytes |-> bytes, enc |-> "UTF8"]
ShortInputs == {NaView, Text(<<x>>), Text(<<y>>)}
MixedInputs == {Text(<< >>), Text(<<x>>), Text(<<y, x, y>>)}

SymmetrySlices  == Permutations(Slice)
SymmetryObjects == Permutations(Slice) \cup Permutations(Obj)
=============================================================================
