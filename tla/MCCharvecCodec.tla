--------------------------- MODULE MCCharvecCodec ---------------------------
(* Small instances of CharvecCodec: one ASCII byte "a" and one other byte  *)
(* "e"; the longest states hold two records, and two bytes of payload fit  *)
(* beside them but four do not.                                            *)
EXTENDS CharvecCodec

MCAscii == {"a"}
MCByte  == {"a", "e"}

NativeView == [bytes |-> <<"e">>, enc |-> "NATIVE"]
Utf8View   == [bytes |-> <<"e", "a">>, enc |-> "UTF8"]

FalseAscii == [bytes |-> <<"e">>, enc |-> "ASCII"]

TransitViews == {NaView, NativeView, Utf8View, FalseAscii}
=============================================================================
