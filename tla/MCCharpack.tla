----------------------------- MODULE MCCharpack -----------------------------
(* Small instances of Charpack: one ASCII byte "a" and one other byte "e"; *)
(* a narrow end offset counts up to 3 bytes, and a raw vector of two wide  *)
(* records leaves room for no more than 4.                                 *)
EXTENDS Charpack

MCAscii == {"a"}
MCByte  == {"a", "e"}

NativeShort == [bytes |-> <<"e">>, ce |-> "native"]
Utf8Pair    == [bytes |-> <<"e", "a">>, ce |-> "utf8"]

NativeView == [bytes |-> <<"e">>, enc |-> "NATIVE"]
Utf8View   == [bytes |-> <<"e", "a">>, enc |-> "UTF8"]

FalseAscii == [bytes |-> <<"e">>, enc |-> "ASCII"]

PackViews == {NaView, NativeView, Utf8View, FalseAscii}
TransitViews == {NativeView, Utf8View}
CopyViews == {NaView, Utf8View}
PackInput == {NativeShort}

(* Missing by length or by tag, short, long, and rejected records.         *)
PackRecords == {[len |-> NA_INTEGER, enc |-> "UTF8"], [len |-> 1, enc |-> "NA"],
                [len |-> 2, enc |-> "UTF8"], [len |-> -2, enc |-> "UTF8"],
                [len |-> 1, enc |-> "other"]}
PackSlices  == {<< >>, <<<<"e">>>>, <<<<"e">>, <<"a">>>>, <<<<"e", "a", "e">>, << >>, <<"a">>>>}
NoRecords == {}

Int1   == [type |-> "int", value |-> 1]
Int2   == [type |-> "int", value |-> 2]
Int3   == [type |-> "int", value |-> 3]
Real25 == [type |-> "real", twice |-> 5]   \* n + 0.5 of a vector of two
Real3  == [type |-> "real", twice |-> 6]   \* n + 1

PackSubscripts == {Int2, Int3, Real25, Real3}
OneSubscript   == {Int1}

(* States that differ in what the last operation was are checked once.     *)
PackState == <<home, cls, data1, data2, raw, native, stream, seen>>

SymmetryRaw  == Permutations(Raw)
SymmetryBoth == Permutations(Raw) \cup Permutations(Vec)
=============================================================================
