----------------------------- MODULE PackLayout -----------------------------
(***************************************************************************)
(* The contents of a charpack's raw vector (src/charpack_altrep.h):        *)
(*                                                                         *)
(*     [head: n and a wide bit][n end offsets][n tags][bytes]              *)
(*                                                                         *)
(* Record i spans the bytes from end[i-1] to end[i].  The head and the end *)
(* offsets are words of the byte order `order`; a narrow end offset keeps  *)
(* the low bits of the running total, modulo NarrowMod (2^32).             *)
(***************************************************************************)
EXTENDS Strings, SequencesExt, Integers

CONSTANTS NarrowMod,  \* 2^32: one more than the largest narrow end offset
          MaxRaw,     \* R_XLEN_T_MAX, the longest raw vector
          MaxString   \* the longest string R can hold

ASSUME PackLayoutAssumption ==
  /\ NarrowMod \in Nat \ {0}
  /\ MaxRaw \in Nat /\ MaxRaw >= 8
  /\ MaxString \in Nat

Order   == {"little", "big"}
TagByte == Tag \cup {"NA", "other"}     \* "other": no encoding charport knows
NA_INTEGER == -1                        \* the length of a missing record

(* A vector of n records has them at 0 .. n-1.  n is the count the head    *)
(* gives; a vector cut short has fewer end offsets than that.              *)
Layout ==
  UNION {[order : Order, wide : BOOLEAN, n : {n}, ends : [0 .. m-1 -> Nat],
          tags : [0 .. m-1 -> TagByte], bytes : Str] : n \in Nat, m \in Nat}

header_bytes == 8
offset_bytes(wide) == IF wide THEN 8 ELSE 4

(* Mutated: a payload of NarrowMod bytes still counts as narrow.           *)
needs_wideOffByOne(payload) == payload > NarrowMod

needs_wide(payload) == payload > NarrowMod - 1

(* The length of the raw vector, or 0 when R cannot hold it.               *)
total_bytes(n, payload, wide) ==
  LET meta == header_bytes + n * (offset_bytes(wide) + 1)
  IN  IF n > (MaxRaw - header_bytes) \div (offset_bytes(wide) + 1) THEN 0
      ELSE IF payload > MaxRaw - meta THEN 0 ELSE meta + payload

raw_bytes(raw) ==
  header_bytes + Cardinality(DOMAIN raw.ends) * (offset_bytes(raw.wide) + 1) + Len(raw.bytes)

(***************************************************************************)
(* Reading a record.                                                       *)
(***************************************************************************)
begin_at(raw, i) == IF i = 0 THEN 0 ELSE raw.ends[i-1]
len_at(raw, i)   == raw.ends[i] - begin_at(raw, i)

record_view(raw, i) ==
  IF raw.tags[i] = "NA" THEN NaView
  ELSE [bytes |-> SubSeq(raw.bytes, begin_at(raw, i) + 1, raw.ends[i]), enc |-> raw.tags[i]]

has_native(raw) == \E i \in DOMAIN raw.tags : raw.tags[i] = "NATIVE"

(***************************************************************************)
(* Writing one, from the lengths and encodings of its records.             *)
(***************************************************************************)
record_is_na(r) == r.len = NA_INTEGER \/ r.enc = "NA"
record_len(r)   == IF record_is_na(r) THEN 0 ELSE r.len

(* What checked_payload accepts, and the payload it returns.               *)
records_valid(recs) ==
  \A i \in DOMAIN recs :
    recs[i].enc \in Tag \cup {"NA"} /\ (~ record_is_na(recs[i]) => recs[i].len >= 0)

(* The bytes of the first k records, for every k.                          *)
running_total(recs) ==
  LET total[k \in 0 .. Cardinality(DOMAIN recs)] ==
        IF k = 0 THEN 0 ELSE total[k-1] + record_len(recs[k-1])
  IN  total

payload_of(recs) == running_total(recs)[Cardinality(DOMAIN recs)]

(* A sum kept in 32 bits is the running total modulo NarrowMod.            *)
write_ends(recs, wide) ==
  LET total == running_total(recs)
  IN  [i \in DOMAIN recs |-> IF wide THEN total[i+1] ELSE total[i+1] % NarrowMod]

alloc_data1(order, n, recs, wide, bytes) ==
  [order |-> order, wide |-> wide, n |-> n,
   ends  |-> write_ends(recs, wide),
   tags  |-> [i \in DOMAIN recs |-> IF record_is_na(recs[i]) THEN "NA" ELSE recs[i].enc],
   bytes |-> bytes]

record_of(view) ==
  [len |-> IF view.enc = "NA" THEN NA_INTEGER ELSE Len(view.bytes), enc |-> view.enc]

joined(n, vw) == FlattenSeq([k \in 1 .. n |-> vw[k-1].bytes])

(***************************************************************************)
(* Serialized states.                                                      *)
(***************************************************************************)
swap_words(raw) == [raw EXCEPT !.order = IF @ = "little" THEN "big" ELSE "little"]

(* Read in the wrong byte order, a head that is not zero counts more       *)
(* records than any state holds.                                           *)
truncated(raw, order) ==
  \/ raw.order # order /\ (raw.n > 0 \/ raw.wide)
  \/ raw.n > (raw_bytes(raw) - header_bytes) \div (offset_bytes(raw.wide) + 1)

(* Mutated: the end offsets need not reach the end of the state.           *)
state_validTrailing(raw, order) ==
  /\ ~ truncated(raw, order)
  /\ \A i \in 0 .. raw.n-1 :
       /\ raw.ends[i] \in begin_at(raw, i) .. Len(raw.bytes)
       /\ len_at(raw, i) <= MaxString
       /\ raw.tags[i] \in Tag \cup {"NA"}
       /\ raw.tags[i] = "NA" => len_at(raw, i) = 0

(* state_error returns nullptr.                                            *)
state_valid(raw, order) ==
  /\ ~ truncated(raw, order)
  /\ \A i \in 0 .. raw.n-1 :
       /\ raw.ends[i] \in begin_at(raw, i) .. Len(raw.bytes)
       /\ len_at(raw, i) <= MaxString
       /\ raw.tags[i] \in Tag \cup {"NA"}
       /\ raw.tags[i] = "NA" => len_at(raw, i) = 0
  /\ Len(raw.bytes) = IF raw.n = 0 THEN 0 ELSE raw.ends[raw.n-1]

retag_native(raw) ==
  [raw EXCEPT !.tags = [i \in DOMAIN @ |-> IF @[i] = "NATIVE" THEN "UTF8" ELSE @[i]]]
=============================================================================
