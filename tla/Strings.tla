------------------------------ MODULE Strings -------------------------------
(***************************************************************************)
(* Strings as charport sees them: the view of a record (bytes and an       *)
(* extended encoding tag) on the native side, the CHARSXP on R's side, and *)
(* the conversions between the two.                                        *)
(*                                                                         *)
(* A byte is a member of Byte; AsciiByte are the bytes below 0x80.  A      *)
(* CHARSXP is a value, not an address: R interns CHARSXPs, so two equal    *)
(* strings with equal marks are one object.                                *)
(***************************************************************************)
EXTENDS Sequences, Naturals

CONSTANTS Byte, AsciiByte,  \* all bytes, and those an ASCII string is made of
          NA_STRING         \* R's missing string

Mark == {"native", "utf8", "latin1", "bytes"}

Tag  == {"NATIVE", "UTF8", "LATIN1", "BYTES", "ASCII_OR_UTF8", "ASCII"}

Str  == Seq(Byte)

ASSUME StringsAssumption ==
  /\ AsciiByte \subseteq Byte
  /\ NA_STRING \notin [bytes : Str, ce : Mark]

IsAscii(bytes) == \A k \in DOMAIN bytes : bytes[k] \in AsciiByte

(* R's interned strings: an all-ASCII one carries no encoding mark.        *)
CHARSXP == {NA_STRING} \cup
           {x \in [bytes : Str, ce : Mark] : IsAscii(x.bytes) => x.ce = "native"}

R_BlankString == [bytes |-> << >>, ce |-> "native"]

(* What a record of a Store, a charpack or a caller's arrays denotes.      *)
View   == [bytes : Str, enc : Tag] \cup {[bytes |-> << >>, enc |-> "NA"]}
NaView == [bytes |-> << >>, enc |-> "NA"]

to_base_encoding(enc) ==
  CASE enc \in {"UTF8", "ASCII_OR_UTF8"} -> "utf8"
    [] enc = "LATIN1" -> "latin1"
    [] enc = "BYTES"  -> "bytes"
    [] OTHER          -> "native"

(* R's interning constructor, as make_charsxp calls it: the mark of an     *)
(* all-ASCII string is dropped, and length zero gives R_BlankString.       *)
Rf_mkCharLenCE(bytes, ce) ==
  [bytes |-> bytes, ce |-> IF IsAscii(bytes) THEN "native" ELSE ce]

make_charsxp(view) ==
  IF view.enc = "NA" THEN NA_STRING
  ELSE Rf_mkCharLenCE(view.bytes, to_base_encoding(view.enc))

classify_charsxp(x) ==
  CASE x.ce = "utf8"   -> "UTF8"
    [] x.ce = "latin1" -> "LATIN1"
    [] x.ce = "bytes"  -> "BYTES"
    [] OTHER           -> IF IsAscii(x.bytes) THEN "ASCII" ELSE "NATIVE"

charsxp_to_view(x) ==
  IF x = NA_STRING THEN NaView
  ELSE [bytes |-> x.bytes, enc |-> classify_charsxp(x)]
=============================================================================
