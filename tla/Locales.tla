------------------------------ MODULE Locales -------------------------------
(***************************************************************************)
(* What a CHARSXP says under a native encoding, and what R's own reader of *)
(* serialized strings does when the native encodings of the two sessions   *)
(* differ (streams of version 3, which name the writer's encoding).        *)
(***************************************************************************)
EXTENDS Strings

Charset == {"utf8", "latin1"}

(* The text of a CHARSXP: what it says under a native encoding.            *)
Text(x, charset) ==
  IF x = NA_STRING THEN NaView
  ELSE [bytes |-> x.bytes,
        enc   |-> IF IsAscii(x.bytes) THEN "ascii"
                  ELSE IF x.ce = "native" THEN charset ELSE x.ce]

(* R's own reader of strings written under the native encoding from: a     *)
(* native string of another encoding is marked or translated.              *)
ReadString(x, from, to) ==
  IF x # NA_STRING /\ ~ IsAscii(x.bytes) /\ x.ce = "native" /\ from # to
  THEN [x EXCEPT !.ce = from] ELSE x
=============================================================================
