----------------------------- MODULE MCCharvec ------------------------------
(* Small instances of Charvec: one ASCII byte "a" and one other byte "e".  *)
EXTENDS Charvec, TLC

MCAscii == {"a"}
MCByte  == {"a", "e"}

AsciiShort == [bytes |-> <<"a">>, ce |-> "native"]
Utf8Short  == [bytes |-> <<"e">>, ce |-> "utf8"]
Latin1Short == [bytes |-> <<"e">>, ce |-> "latin1"]
Utf8Long   == [bytes |-> <<"a", "e">>, ce |-> "utf8"]

(* A record tagged ASCII-or-UTF-8, which only native producers write.      *)
EitherTag == [bytes |-> <<"a">>, enc |-> "ASCII_OR_UTF8"]

(* One vector of several chunks: missing, empty, short and long strings,   *)
(* and two strings that differ in their mark only.                         *)
CacheInput == {NA_STRING, R_BlankString, Utf8Short, Latin1Short, Utf8Long}
CacheViews == {NaView, charsxp_to_view(Utf8Long), EitherTag}

(* Several vectors, of at most two elements.                               *)
PairInput == {Utf8Short}
PairViews == {charsxp_to_view(Utf8Long)}

Int1   == [type |-> "int", value |-> 1]
Int2   == [type |-> "int", value |-> 2]
PastEnd == [type |-> "int", value |-> 3]
Real15 == [type |-> "real", twice |-> 3]   \* 1.5
Real25 == [type |-> "real", twice |-> 5]   \* n + 0.5 of a vector of two
Real3  == [type |-> "real", twice |-> 6]   \* n + 1

NoSubscripts   == {}
PairSubscripts == {Int2, Real25, Real3}

(* States that differ in their history only are checked once.              *)
CacheState == <<cls, size, records, slices, mem, chunks, cached, data2, borrow>>

SymmetryExt  == Permutations(Ext)
SymmetryBoth == Permutations(Ext) \cup Permutations(Vec)
=============================================================================
