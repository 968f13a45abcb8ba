------------------------------- MODULE Slices -------------------------------
(***************************************************************************)
(* Payload slices and the records that point into them: what Builders and  *)
(* Writer share (store.h, detail.h and builder_detail in builder.h).       *)
(***************************************************************************)
EXTENDS Strings, FiniteSetsExt

CONSTANTS
  Slice,                         \* addresses of slices
  slice_alignment, max_slice_bytes,
  min_multi_string_slice_bytes, max_initial_slice_bytes, vector_len_scale,
  size_bits,                     \* the width of a size_t
  Junk,                          \* a byte that was never written
  Freed,                         \* the contents of memory not allocated
  Nil                            \* no slice

ASSUME SlicesAssumption ==
  /\ slice_alignment \in Nat \ {0} /\ max_slice_bytes \in Nat
  /\ min_multi_string_slice_bytes \in Nat /\ max_initial_slice_bytes \in Nat
  /\ vector_len_scale \in Nat /\ size_bits \in Nat \ {0}
  /\ Junk \notin Byte /\ Nil \notin Slice /\ Freed \notin Seq(Byte \cup {Junk})

Memory == [Slice -> Seq(Byte \cup {Junk}) \cup {Freed}]

Place  == [slice : Slice \cup {Nil}, off : Nat]
Record == [at : Place, len : Nat, enc : Tag \cup {"NA"}]

nowhere   == [slice |-> Nil, off |-> 0]
na_record == [at |-> nowhere, len |-> 0, enc |-> "NA"]

(* Where the pieces p, of m bytes, and q, of n, share a byte.              *)
Overlap(p, m, q, n) == p.slice = q.slice /\ p.off < q.off + n /\ q.off < p.off + m

(***************************************************************************)
(* Memory: allocating, writing, and reading a record.                      *)
(***************************************************************************)
FreeSlices(mem) == {s \in Slice : mem[s] = Freed}

Allocated(mem, s, size) == [mem EXCEPT ![s] = [j \in 1 .. size |-> Junk]]

(* Mutated: the bytes go to the start of the slice.                        *)
WrittenAtFront(mem, at, bytes) ==
  [mem EXCEPT ![at.slice] =
     [j \in DOMAIN @ |-> IF j \in DOMAIN bytes THEN bytes[j] ELSE @[j]]]

Written(mem, at, bytes) ==
  [mem EXCEPT ![at.slice] =
     [j \in DOMAIN @ |-> IF j - at.off \in DOMAIN bytes THEN bytes[j - at.off] ELSE @[j]]]

BytesAt(mem, at, len) == [j \in 1 .. len |-> mem[at.slice][at.off + j]]

ViewOf(mem, r) ==
  IF r.enc = "NA" THEN NaView
  ELSE [bytes |-> IF r.len = 0 THEN << >> ELSE BytesAt(mem, r.at, r.len), enc |-> r.enc]

(***************************************************************************)
(* The size of a new slice, for len bytes after total ones.                *)
(***************************************************************************)
Max2(a, b) == IF a >= b THEN a ELSE b
Min2(a, b) == IF a <= b THEN a ELSE b

round_up(value, multiple) ==
  IF value % multiple = 0 THEN value ELSE value + (multiple - (value % multiple))

(* The powers of two that fit a size_t.                                    *)
doubled[k \in 0 .. size_bits - 1] == IF k = 0 THEN 1 ELSE 2 * doubled[k - 1]

(* A value above every power that fits is returned itself.                 *)
next_power_of_two(value) ==
  LET enough == {k \in 0 .. size_bits - 1 : doubled[k] >= value}
  IN  IF enough # {} THEN doubled[Min(enough)] ELSE value

initial_slice_heuristic(n) ==
  IF n <= 1 THEN 0
  ELSE Min2(Max2(min_multi_string_slice_bytes, next_power_of_two(n * vector_len_scale)),
            max_initial_slice_bytes)

slice_bytes(initial, total, len) ==
  LET regular == Min2(round_up(Max2(initial, total \div 2), slice_alignment), max_slice_bytes)
  IN  round_up(Max2(regular, len), slice_alignment)
=============================================================================
