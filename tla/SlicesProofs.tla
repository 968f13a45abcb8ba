---------------------------- MODULE SlicesProofs ----------------------------
(***************************************************************************)
(* Facts about slices and records, for every set of slices and all sizes,  *)
(* and the induction they need, from the well-ordering of the naturals.    *)
(***************************************************************************)
EXTENDS Slices, Integers, FiniteSetTheorems, SequenceTheorems, TLAPS

(* A non-empty set of naturals has a least member, because the intervals   *)
(* from 0 to its members are ordered by inclusion.                         *)
LEMMA Least ==
  ASSUME NEW T, T \subseteq Nat, T # {}
  PROVE  \E x \in T : \A y \in T : x <= y
<1> DEFINE U == {0 .. t : t \in T}
           R == StrictSubsetOrdering(Nat)
<1>1. U \subseteq FiniteSubsetsOf(Nat) /\ U # {}
  <2>1. ASSUME NEW t \in T PROVE 0 .. t \in FiniteSubsetsOf(Nat)
    <3>1. t \in Int /\ 0 \in Int /\ 0 .. t \in SUBSET Nat
      OBVIOUS
    <3> QED BY <3>1, FS_Interval DEF FiniteSubsetsOf
  <2> QED BY <2>1
<1>2. IsWellFoundedOn(R, FiniteSubsetsOf(Nat))
  BY FS_StrictSubsetOrderingWellFounded
<1> HIDE DEF R
<1>3. \E u \in U : \A v \in U : <<v, u>> \notin R
  BY <1>1, <1>2, WFMin
<1>4. PICK x \in T : \A y \in T : <<0 .. y, 0 .. x>> \notin R
  BY <1>3
<1>5. ASSUME NEW y \in T, ~ (x <= y) PROVE FALSE
  <2>1. x \in Nat /\ y \in Nat /\ y < x
    BY <1>5
  <2>2. x \in 0 .. x /\ x \notin 0 .. y
    BY <2>1
  <2>3. 0 .. y \in SUBSET Nat /\ 0 .. x \in SUBSET Nat /\ 0 .. y \subseteq 0 .. x /\ 0 .. y # 0 .. x
    BY <2>1, <2>2
  <2>4. <<0 .. y, 0 .. x>> \in R
    BY <2>3 DEF R, StrictSubsetOrdering
  <2> QED BY <1>4, <2>4
<1> QED BY <1>5

LEMMA Greatest ==
  ASSUME NEW T, T \subseteq Nat, T # {}, NEW B \in Nat, \A x \in T : x <= B
  PROVE  \E x \in T : \A y \in T : y <= x
<1> DEFINE U == {B - x : x \in T}
<1>1. U \subseteq Nat /\ U # {}
  <2>1. ASSUME NEW x \in T PROVE B - x \in Nat
    <3>1. x \in Nat /\ x <= B
      OBVIOUS
    <3> QED BY <3>1
  <2> QED BY <2>1
<1>2. PICK u \in U : \A v \in U : u <= v
  BY <1>1, Least
<1>3. PICK x \in T : u = B - x
  OBVIOUS
<1>4. ASSUME NEW y \in T PROVE y <= x
  <2>1. B - y \in U /\ x \in Nat /\ y \in Nat
    OBVIOUS
  <2> QED BY <1>2, <1>3, <2>1
<1> QED BY <1>4

-----------------------------------------------------------------------------
(* The size of a new slice.                                                *)
LEMMA DoubledDef ==
  \A k \in 0 .. size_bits - 1 : doubled[k] = IF k = 0 THEN 1 ELSE 2 * doubled[k - 1]
<1> DEFINE K == 0 .. size_bits - 1
           Upto(f, m) == f = [k \in 0 .. m |-> IF k = 0 THEN 1 ELSE 2 * f[k - 1]]
           Bad == {m \in K : \A f : ~ Upto(f, m)}
<1>1. Bad = {}
  <2> SUFFICES ASSUME Bad # {} PROVE FALSE
    OBVIOUS
  <2>1. Bad \subseteq Nat
    OBVIOUS
  <2> HIDE DEF Bad
  <2>4. PICK m \in Bad : \A n \in Bad : m <= n
    BY <2>1, Least
  <2> USE DEF Bad
  <2>2. CASE m = 0
    <3>1. Upto([k \in 0 .. 0 |-> 1], 0)
      OBVIOUS
    <3> QED BY <2>2, <3>1
  <2>3. CASE m # 0
    <3>6. m \in K /\ m \in Nat /\ m > 0 /\ m - 1 \in K
      BY <2>3, SlicesAssumption
    <3>1. m - 1 \in K /\ m \in Nat /\ m - 1 \notin Bad
      <4> HIDE DEF Bad
      <4> QED BY <2>4, <3>6
    <3>2. PICK f : Upto(f, m - 1)
      BY <3>1
    <3> DEFINE g == [k \in 0 .. m |-> IF k = 0 THEN 1 ELSE 2 * f[k - 1]]
    <3>3. \A k \in 0 .. m - 1 : g[k] = f[k]
      BY <3>1, <3>2
    <3>4. \A k \in 0 .. m : k # 0 => k - 1 \in 0 .. m - 1
      BY <3>1
    <3>5. Upto(g, m)
      BY <3>3, <3>4
    <3> QED BY <3>5
  <2> QED BY <2>2, <2>3
<1>2. size_bits - 1 \in K
  BY SlicesAssumption
<1>3. PICK f : Upto(f, size_bits - 1)
  BY <1>1, <1>2
<1>4. doubled = [k \in K |-> IF k = 0 THEN 1 ELSE 2 * doubled[k - 1]]
  BY <1>3 DEF doubled
<1> QED BY <1>4

LEMMA DoubledType == \A k \in 0 .. size_bits - 1 : doubled[k] \in Nat
<1> DEFINE Bad == {k \in 0 .. size_bits - 1 : doubled[k] \notin Nat}
<1> SUFFICES ASSUME Bad # {} PROVE FALSE
  OBVIOUS
<1>3. Bad \subseteq Nat
  OBVIOUS
<1>1. PICK m \in Bad : \A n \in Bad : m <= n
  <2> HIDE DEF Bad
  <2> QED BY <1>3, Least
<1>2. m = 0 \/ (m - 1 \in 0 .. size_bits - 1 /\ m - 1 \notin Bad)
  BY <1>1, SlicesAssumption
<1> QED BY <1>2, DoubledDef, SlicesAssumption

LEMMA NextPowerType == ASSUME NEW v \in Nat PROVE next_power_of_two(v) \in Nat
<1> DEFINE enough == {k \in 0 .. size_bits - 1 : doubled[k] >= v}
<1>1. CASE enough # {}
  <2>3. enough \subseteq Nat
    OBVIOUS
  <2>1. \E x \in enough : \A y \in enough : x <= y
    <3> HIDE DEF enough
    <3> QED BY <1>1, <2>3, Least
  <2>2. Min(enough) \in enough
    BY <2>1 DEF Min
  <2> QED BY <1>1, <2>2, DoubledType DEF next_power_of_two
<1>2. CASE enough = {}
  BY <1>2 DEF next_power_of_two
<1> QED BY <1>1, <1>2

LEMMA HeuristicType == ASSUME NEW n \in Nat PROVE initial_slice_heuristic(n) \in Nat
<1>1. n * vector_len_scale \in Nat
  BY SlicesAssumption
<1>2. next_power_of_two(n * vector_len_scale) \in Nat
  BY <1>1, NextPowerType
<1> QED BY <1>2, SlicesAssumption DEF initial_slice_heuristic, Min2, Max2

LEMMA RoundUp ==
  ASSUME NEW v \in Nat
  PROVE  round_up(v, slice_alignment) \in Nat /\ round_up(v, slice_alignment) >= v
<1>1. v % slice_alignment \in 0 .. slice_alignment - 1
  BY SlicesAssumption
<1> QED BY <1>1, SlicesAssumption DEF round_up

(* A new slice has room for what it was allocated for, whatever its caps.  *)
THEOREM SizeFits ==
  ASSUME NEW n \in Nat, NEW total \in Nat, NEW len \in Nat
  PROVE  /\ slice_bytes(initial_slice_heuristic(n), total, len) \in Nat
         /\ slice_bytes(initial_slice_heuristic(n), total, len) >= len
<1> PICK i : i = initial_slice_heuristic(n)
  OBVIOUS
<1>1. i \in Nat /\ total \div 2 \in Nat
  BY HeuristicType
<1>2. Max2(i, total \div 2) \in Nat
  BY <1>1 DEF Max2
<1>3. round_up(Max2(i, total \div 2), slice_alignment) \in Nat
  BY <1>2, RoundUp
<1> DEFINE regular == Min2(round_up(Max2(i, total \div 2), slice_alignment), max_slice_bytes)
<1>4. regular \in Nat
  BY <1>3, SlicesAssumption DEF Min2
<1> HIDE DEF regular
<1>5. Max2(regular, len) \in Nat /\ Max2(regular, len) >= len
  BY <1>4 DEF Max2
<1>6. /\ round_up(Max2(regular, len), slice_alignment) \in Nat
      /\ round_up(Max2(regular, len), slice_alignment) >= Max2(regular, len)
  BY <1>5, RoundUp
<1>7. slice_bytes(i, total, len) = round_up(Max2(regular, len), slice_alignment)
  BY DEF slice_bytes, regular
<1> QED BY <1>5, <1>6, <1>7

-----------------------------------------------------------------------------
(* Memory.  A piece is n bytes at a place; InHeap says it is in a slice.   *)
InHeap(mem, at, n) ==
  n > 0 => at.slice \in Slice /\ mem[at.slice] # Freed /\ at.off + n <= Len(mem[at.slice])

Apart2(p, m, q, n) == m > 0 /\ n > 0 => ~ Overlap(p, m, q, n)

(* after is before with n bytes changed at a place, and perhaps slices     *)
(* that were free.                                                         *)
Patched(before, after, at, n) ==
  /\ after \in Memory
  /\ \A s \in Slice : before[s] # Freed =>
       /\ after[s] # Freed /\ Len(after[s]) = Len(before[s])
       /\ \A j \in 1 .. Len(before[s]) :
            s # at.slice \/ j <= at.off \/ j > at.off + n => after[s][j] = before[s][j]

LEMMA SliceType ==
  ASSUME NEW mem \in Memory, NEW s \in Slice, mem[s] # Freed
  PROVE  /\ mem[s] \in Seq(Byte \cup {Junk}) /\ Len(mem[s]) \in Nat
         /\ DOMAIN mem[s] = 1 .. Len(mem[s])
         /\ \A j \in 1 .. Len(mem[s]) : mem[s][j] \in Byte \cup {Junk}
<1>1. mem[s] \in Seq(Byte \cup {Junk})
  BY DEF Memory
<1> QED BY <1>1

LEMMA AllocatedOK ==
  ASSUME NEW mem \in Memory, NEW s \in FreeSlices(mem), NEW size \in Nat
  PROVE  /\ s \in Slice /\ mem[s] = Freed
         /\ Allocated(mem, s, size) \in Memory
         /\ Allocated(mem, s, size)[s] # Freed /\ Len(Allocated(mem, s, size)[s]) = size
         /\ \A u \in Slice \ {s} : Allocated(mem, s, size)[u] = mem[u]
         /\ \A at : Patched(mem, Allocated(mem, s, size), at, 0)
<1> DEFINE new == [j \in 1 .. size |-> Junk]
<1>1. new \in Seq(Byte \cup {Junk}) /\ Len(new) = size /\ new # Freed
  <2>1. new \in Seq(Byte \cup {Junk})
    OBVIOUS
  <2> QED BY <2>1, SlicesAssumption
<1>2. s \in Slice /\ mem[s] = Freed
  BY DEF FreeSlices
<1>3. Allocated(mem, s, size) = [mem EXCEPT ![s] = new]
  BY DEF Allocated
<1> HIDE DEF new
<1>4. Allocated(mem, s, size)[s] = new /\ \A u \in Slice \ {s} : Allocated(mem, s, size)[u] = mem[u]
  BY <1>2, <1>3 DEF Memory
<1>5. Allocated(mem, s, size) \in Memory
  BY <1>1, <1>2, <1>3 DEF Memory
<1> QED BY <1>1, <1>2, <1>4, <1>5 DEF Patched

LEMMA WrittenOK ==
  ASSUME NEW mem \in Memory, NEW at \in Place, NEW bytes \in Seq(Byte), Len(bytes) > 0,
         InHeap(mem, at, Len(bytes))
  PROVE  /\ Patched(mem, Written(mem, at, bytes), at, Len(bytes))
         /\ \A j \in 1 .. Len(bytes) : Written(mem, at, bytes)[at.slice][at.off + j] = bytes[j]
         /\ \A s \in Slice : Written(mem, at, bytes)[s] = Freed <=> mem[s] = Freed
         /\ \A s \in Slice : s # at.slice => Written(mem, at, bytes)[s] = mem[s]
<1> DEFINE s == at.slice
           old == mem[s]
           new == [j \in DOMAIN old |->
                     IF j - at.off \in DOMAIN bytes THEN bytes[j - at.off] ELSE old[j]]
<1>1. /\ s \in Slice /\ old # Freed /\ old \in Seq(Byte \cup {Junk}) /\ Len(old) \in Nat
      /\ DOMAIN old = 1 .. Len(old) /\ at.off + Len(bytes) <= Len(old) /\ at.off \in Nat
      /\ DOMAIN bytes = 1 .. Len(bytes) /\ Len(bytes) \in Nat
      /\ \A j \in 1 .. Len(old) : old[j] \in Byte \cup {Junk}
      /\ \A j \in 1 .. Len(bytes) : bytes[j] \in Byte
  BY SliceType DEF InHeap, Place
<1>2. Written(mem, at, bytes) = [mem EXCEPT ![s] = new]
  BY DEF Written
<1> HIDE DEF s, old
<1>3. /\ new \in Seq(Byte \cup {Junk}) /\ Len(new) = Len(old) /\ new # Freed
      /\ \A j \in 1 .. Len(old) : j <= at.off \/ j > at.off + Len(bytes) => new[j] = old[j]
      /\ \A j \in 1 .. Len(bytes) : new[at.off + j] = bytes[j]
  <2>1. \A j \in 1 .. Len(old) :
          (IF j - at.off \in DOMAIN bytes THEN bytes[j - at.off] ELSE old[j]) \in Byte \cup {Junk}
    BY <1>1
  <2>2. new \in [1 .. Len(old) -> Byte \cup {Junk}]
    BY <1>1, <2>1
  <2>3. new \in Seq(Byte \cup {Junk}) /\ Len(new) = Len(old)
    BY <1>1, <2>2
  <2>4. \A j \in 1 .. Len(old) : j <= at.off \/ j > at.off + Len(bytes) => new[j] = old[j]
    BY <1>1
  <2>5. \A j \in 1 .. Len(bytes) : new[at.off + j] = bytes[j]
    BY <1>1
  <2> QED BY <2>3, <2>4, <2>5, SlicesAssumption
<1> HIDE DEF new
<1>4. Written(mem, at, bytes)[s] = new /\ \A u \in Slice \ {s} : Written(mem, at, bytes)[u] = mem[u]
  BY <1>1, <1>2 DEF Memory
<1>5. Written(mem, at, bytes) \in Memory
  BY <1>1, <1>2, <1>3 DEF Memory
<1>6. s = at.slice /\ old = mem[s]
  BY DEF s, old
<1> QED BY <1>1, <1>3, <1>4, <1>5, <1>6 DEF Patched

(* What is elsewhere stays in the heap and reads as before.                *)
LEMMA PieceKept ==
  ASSUME NEW before \in Memory, NEW after, NEW at \in Place, NEW n \in Nat,
         Patched(before, after, at, n),
         NEW q \in Place, NEW len \in Nat, InHeap(before, q, len), Apart2(q, len, at, n)
  PROVE  /\ InHeap(after, q, len)
         /\ \A j \in 1 .. len : after[q.slice][q.off + j] = before[q.slice][q.off + j]
<1>1. CASE len = 0
  BY <1>1 DEF InHeap
<1>2. CASE len > 0
  <2>1. /\ q.slice \in Slice /\ before[q.slice] # Freed /\ q.off + len <= Len(before[q.slice])
        /\ Len(before[q.slice]) \in Nat /\ q.off \in Nat /\ at.off \in Nat
    BY <1>2, SliceType DEF InHeap, Place
  <2>2. InHeap(after, q, len)
    BY <2>1 DEF Patched, InHeap
  <2>3. ASSUME NEW j \in 1 .. len PROVE after[q.slice][q.off + j] = before[q.slice][q.off + j]
    <3>1. q.off + j \in 1 .. Len(before[q.slice])
      BY <2>1
    <3>2. q.slice # at.slice \/ q.off + j <= at.off \/ q.off + j > at.off + n
      BY <1>2, <2>1 DEF Apart2, Overlap
    <3> QED BY <2>1, <3>1, <3>2 DEF Patched
  <2> QED BY <2>2, <2>3
<1> QED BY <1>1, <1>2

LEMMA ViewSame ==
  ASSUME NEW before, NEW after, NEW r \in Record,
         \A j \in 1 .. r.len : after[r.at.slice][r.at.off + j] = before[r.at.slice][r.at.off + j]
  PROVE  ViewOf(after, r) = ViewOf(before, r)
BY DEF ViewOf, BytesAt

LEMMA ViewRead ==
  ASSUME NEW mem, NEW r \in Record, NEW view \in View, r.enc = view.enc,
         r.len = Len(view.bytes),
         \A j \in 1 .. r.len : mem[r.at.slice][r.at.off + j] = view.bytes[j]
  PROVE  ViewOf(mem, r) = view
<1>1. view.bytes \in Seq(Byte) /\ view = [bytes |-> view.bytes, enc |-> view.enc]
      /\ (view.enc = "NA" => view = NaView)
  <2>1. CASE view \in [bytes : Str, enc : Tag]
    BY <2>1 DEF Str, Tag
  <2>2. CASE view = [bytes |-> << >>, enc |-> "NA"]
    BY <2>2 DEF NaView
  <2> QED BY <2>1, <2>2 DEF View
<1>2. CASE view.enc = "NA"
  BY <1>1, <1>2 DEF ViewOf
<1>3. CASE view.enc # "NA" /\ r.len = 0
  <2>1. view.bytes = << >>
    <3> PICK bytes \in Seq(Byte) : bytes = view.bytes
      BY <1>1
    <3>1. Len(bytes) = 0
      BY <1>3
    <3> QED BY <3>1, EmptySeq
  <2> QED BY <1>1, <1>3, <2>1 DEF ViewOf
<1>4. CASE view.enc # "NA" /\ r.len # 0
  <2>1. BytesAt(mem, r.at, r.len) = view.bytes
    BY <1>1 DEF BytesAt
  <2> QED BY <1>1, <1>4, <2>1 DEF ViewOf
<1> QED BY <1>2, <1>3, <1>4, <1>1
=============================================================================
