--------------------------- MODULE CharpackProofs ---------------------------
(***************************************************************************)
(* Theorems of modules PackLayout and Charpack, for every number of        *)
(* vectors, sessions and raw vectors, every length, every limit of R and   *)
(* every set of strings.                                                   *)
(***************************************************************************)
EXTENDS Charpack, SequenceTheorems, FiniteSetTheorems, TLAPS

(* A non-empty set of naturals has a least member, because the intervals   *)
(* from 0 to its members are ordered by inclusion.                         *)
LEMMA Least ==
  ASSUME NEW T, T \subseteq Nat, T # {}
  PROVE  \E x \in T : \A y \in T : x <= y
<1> DEFINE U == {0 .. t : t \in T}
           R == StrictSubsetOrdering(Nat)
<1>1. U \subseteq FiniteSubsetsOf(Nat) /\ U # {}
  <2>1. ASSUME NEW t \in T PROVE 0 .. t \in FiniteSubsetsOf(Nat)
    <3>1. t \in Int /\ 0 \in Int /\ 0 .. t \in SUBSET Nat
      OBVIOUS
    <3> QED BY <3>1, FS_Interval DEF FiniteSubsetsOf
  <2> QED BY <2>1
<1>2. IsWellFoundedOn(R, FiniteSubsetsOf(Nat))
  BY FS_StrictSubsetOrderingWellFounded
<1> HIDE DEF R
<1>3. \E u \in U : \A v \in U : <<v, u>> \notin R
  BY <1>1, <1>2, WFMin
<1>4. PICK x \in T : \A y \in T : <<0 .. y, 0 .. x>> \notin R
  BY <1>3
<1>5. ASSUME NEW y \in T, ~ (x <= y) PROVE FALSE
  <2>1. x \in Nat /\ y \in Nat /\ y < x
    BY <1>5
  <2>2. x \in 0 .. x /\ x \notin 0 .. y
    BY <2>1
  <2>3. 0 .. y \in SUBSET Nat /\ 0 .. x \in SUBSET Nat /\ 0 .. y \subseteq 0 .. x /\ 0 .. y # 0 .. x
    BY <2>1, <2>2
  <2>4. <<0 .. y, 0 .. x>> \in R
    BY <2>3 DEF R, StrictSubsetOrdering
  <2> QED BY <1>4, <2>4
<1> QED BY <1>5

(* Induction up to n, over the members of a set.                           *)
LEMMA Induct ==
  ASSUME NEW n \in Nat, NEW T, 0 \in T, \A k \in 1 .. n : k - 1 \in T => k \in T
  PROVE  \A k \in 0 .. n : k \in T
<1> DEFINE Bad == {k \in 0 .. n : k \notin T}
<1> SUFFICES ASSUME Bad # {} PROVE FALSE
  OBVIOUS
<1>1. Bad \subseteq Nat
  OBVIOUS
<1>2. PICK m \in Bad : \A k \in Bad : m <= k
  <2> HIDE DEF Bad
  <2> QED BY <1>1, Least
<1>3. m \in 1 .. n /\ m - 1 \in 0 .. n /\ ~ (m <= m - 1)
  OBVIOUS
<1>4. m - 1 \in T
  BY <1>2, <1>3
<1> QED BY <1>3, <1>4

(* A step from each value to the next defines a function.                  *)
Follows(f, n, S, a, step) ==
  f \in [0 .. n -> S] /\ f[0] = a /\ \A k \in 1 .. n : f[k] = step[k][f[k-1]]

LEMMA Recursion ==
  ASSUME NEW n \in Nat, NEW S, NEW a \in S, NEW step \in [1 .. n -> [S -> S]]
  PROVE  \E f : Follows(f, n, S, a, step)
<1> DEFINE Upto(f, m) == f[0] = a /\ \A k \in 1 .. m : f[k] = step[k][f[k-1]]
           T == {m \in 0 .. n : \E f \in [0 .. m -> S] : Upto(f, m)}
<1>1. 0 \in T
  <2>1. [k \in 0 .. 0 |-> a] \in [0 .. 0 -> S] /\ Upto([k \in 0 .. 0 |-> a], 0)
    OBVIOUS
  <2>2. 0 \in 0 .. n
    OBVIOUS
  <2> QED BY <2>1, <2>2
<1>2. ASSUME NEW m \in 1 .. n, m - 1 \in T
      PROVE  m \in T
  <2>1. PICK f \in [0 .. m-1 -> S] : Upto(f, m - 1)
    BY <1>2
  <2> DEFINE x == step[m][f[m-1]]
             g == [k \in 0 .. m |-> IF k = m THEN x ELSE f[k]]
  <2>2. m - 1 \in 0 .. m-1 /\ x \in S
    OBVIOUS
  <2>3. \A k \in 0 .. m : k # m => k \in 0 .. m-1
    OBVIOUS
  <2> HIDE DEF x
  <2>4. g \in [0 .. m -> S]
    BY <2>2, <2>3
  <2>5. g[0] = a /\ g[m] = x /\ \A k \in 0 .. m-1 : g[k] = f[k]
    BY <2>1
  <2> HIDE DEF g
  <2>6. \A k \in 1 .. m : k - 1 \in 0 .. m-1 /\ (k # m => k \in 1 .. m-1)
    OBVIOUS
  <2>7. ASSUME NEW k \in 1 .. m
        PROVE  g[k] = step[k][g[k-1]]
    <3>1. CASE k = m
      BY <2>2, <2>5, <3>1 DEF x
    <3>2. CASE k # m
      <4>1. k \in 1 .. m-1 /\ k \in 0 .. m-1 /\ k - 1 \in 0 .. m-1
        BY <3>2
      <4> QED BY <2>1, <2>5, <4>1
    <3> QED BY <3>1, <3>2
  <2>8. m \in 0 .. n
    OBVIOUS
  <2>9. Upto(g, m)
    BY <2>1, <2>5, <2>7
  <2> QED BY <2>4, <2>8, <2>9
<1> HIDE DEF T
<1>3. \A m \in 0 .. n : m \in T
  BY <1>1, <1>2, Induct
<1> QED BY <1>3 DEF T, Follows

(* A function that never falls stays below its last value.                 *)
LEMMA Ascending ==
  ASSUME NEW n \in Nat, NEW f \in [0 .. n -> Nat], \A k \in 1 .. n : f[k-1] <= f[k],
         NEW j \in 0 .. n
  PROVE  f[j] <= f[n]
<1> DEFINE T == {m \in 0 .. n : j <= m => f[j] <= f[m]}
<1>1. 0 \in T
  OBVIOUS
<1>2. ASSUME NEW m \in 1 .. n, m - 1 \in T
      PROVE  m \in T
  <2>1. m \in 0 .. n /\ m - 1 \in 0 .. n /\ f[m-1] \in Nat /\ f[m] \in Nat /\ f[j] \in Nat
    OBVIOUS
  <2> QED BY <1>2, <2>1
<1> HIDE DEF T
<1>3. \A m \in 0 .. n : m \in T
  BY <1>1, <1>2, Induct
<1> QED BY <1>3 DEF T

-----------------------------------------------------------------------------
(* Running totals.                                                         *)

LEMMA CountRecords ==
  ASSUME NEW n \in Nat
  PROVE  Cardinality(0 .. n-1) = n
BY FS_Interval

LEMMA RunningTotal ==
  ASSUME NEW n \in Nat, NEW recs, DOMAIN recs = 0 .. n-1,
         \A i \in 0 .. n-1 : record_len(recs[i]) \in Nat
  PROVE  /\ running_total(recs) \in [0 .. n -> Nat]
         /\ running_total(recs)[0] = 0
         /\ \A k \in 1 .. n :
              running_total(recs)[k] = running_total(recs)[k-1] + record_len(recs[k-1])
         /\ payload_of(recs) = running_total(recs)[n]
<1> DEFINE len == [i \in 0 .. n-1 |-> record_len(recs[i])]
           step == [k \in 1 .. n |-> [x \in Nat |-> x + len[k-1]]]
           K == 0 .. n
<1>1. \A k \in 1 .. n : k - 1 \in 0 .. n-1
  OBVIOUS
<1>2. len \in [0 .. n-1 -> Nat]
  OBVIOUS
<1>3. /\ step \in [1 .. n -> [Nat -> Nat]]
      /\ \A k \in 1 .. n, x \in Nat : step[k][x] = x + len[k-1]
  <2> HIDE DEF len
  <2>1. \A k \in 1 .. n : \A x \in Nat : x + len[k-1] \in Nat
    BY <1>1, <1>2
  <2> QED BY <2>1
<1>4. PICK f \in [K -> Nat] : f[0] = 0 /\ \A k \in 1 .. n : f[k] = step[k][f[k-1]]
  <2>1. 0 \in Nat
    OBVIOUS
  <2> HIDE DEF step
  <2>2. step \in [1 .. n -> [Nat -> Nat]]
    BY <1>3
  <2>3. \E f : Follows(f, n, Nat, 0, step)
    BY ONLY <2>1, <2>2, n \in Nat, Recursion
  <2> QED BY <2>3 DEF Follows
<1>5. \A k \in 1 .. n : k - 1 \in K /\ f[k] = f[k-1] + len[k-1]
  <2> HIDE DEF step
  <2>1. \A k \in 1 .. n : k - 1 \in K /\ f[k-1] \in Nat
    OBVIOUS
  <2> QED BY <1>3, <1>4, <2>1
<1>6. \A k \in 1 .. n : f[k] = f[k-1] + record_len(recs[k-1])
  BY <1>1, <1>5
<1>7. f = [k \in K |-> IF k = 0 THEN 0 ELSE f[k-1] + record_len(recs[k-1])]
  <2>1. \A k \in K : k # 0 => k \in 1 .. n
    OBVIOUS
  <2> QED BY <1>4, <1>6, <2>1
<1>8. Cardinality(DOMAIN recs) = n
  BY CountRecords
<1>9. running_total(recs)
        = CHOOSE total : total = [k \in K |-> IF k = 0 THEN 0 ELSE total[k-1] + record_len(recs[k-1])]
  BY <1>8, Zenon DEF running_total
<1>10. PICK t : t = running_total(recs)
  OBVIOUS
<1>11. t = [k \in K |-> IF k = 0 THEN 0 ELSE t[k-1] + record_len(recs[k-1])]
  BY <1>7, <1>9, <1>10, Zenon
<1>12. DOMAIN t = K /\ t[0] = 0 /\ \A k \in 1 .. n : t[k] = t[k-1] + record_len(recs[k-1])
  <2>1. 0 \in K /\ \A k \in 1 .. n : k \in K /\ k # 0
    OBVIOUS
  <2> HIDE DEF K
  <2>2. DOMAIN t = K /\ \A k \in K : t[k] = IF k = 0 THEN 0 ELSE t[k-1] + record_len(recs[k-1])
    BY <1>11, Zenon
  <2> QED BY <2>1, <2>2
<1>13. \A k \in K : t[k] = f[k]
  <2> DEFINE T == {k \in K : t[k] = f[k]}
  <2>1. 0 \in T
    BY <1>4, <1>12
  <2>2. \A k \in 1 .. n : k - 1 \in T => k \in T
    BY <1>6, <1>12
  <2> HIDE DEF T
  <2>3. \A k \in 0 .. n : k \in T
    BY <2>1, <2>2, Induct
  <2> QED BY <2>3 DEF T
<1>14. t \in [K -> Nat]
  <2>1. t = [k \in K |-> t[k]]
    BY <1>11, <1>12
  <2>2. \A k \in K : t[k] \in Nat
    BY <1>13
  <2> QED BY <2>1, <2>2
<1>15. payload_of(recs) = t[n]
  BY <1>8, <1>10 DEF payload_of
<1> QED BY <1>10, <1>12, <1>14, <1>15

-----------------------------------------------------------------------------
(* Sequences of byte strings, one after the other.                         *)

LEMMA SequenceOf ==
  ASSUME NEW n \in Nat, NEW S, NEW s \in [1 .. n -> S]
  PROVE  s \in Seq(S) /\ Len(s) = n
<1>1. s \in Seq(S)
  BY SeqDef
<1> QED BY <1>1, LenProperties

LEMMA FlattenRecursion ==
  ASSUME NEW n \in Nat, n # 0, NEW s \in [1 .. n -> Str]
  PROVE  \E g : /\ g \in [1 .. n -> Str]
                /\ g[1] = s[1]
                /\ \A k \in 2 .. n : g[k] = g[k-1] \o s[k]
                /\ FlattenSeq(s) = g[n]
<1> DEFINE step == [k \in 1 .. n |-> [x \in Str |-> x \o s[k]]]
<1>1. step \in [1 .. n -> [Str -> Str]]
  <2>1. \A k \in 1 .. n : \A x \in Str : x \o s[k] \in Str
    BY ConcatProperties DEF Str
  <2> QED BY <2>1
<1>2. << >> \in Str
  BY EmptySeq DEF Str
<1> HIDE DEF step
<1>3. PICK f : Follows(f, n, Str, << >>, step)
  BY <1>1, <1>2, Recursion
<1>4. f \in [0 .. n -> Str] /\ f[0] = << >> /\ \A k \in 1 .. n : f[k] = f[k-1] \o s[k]
  <2>1. ASSUME NEW k \in 1 .. n
        PROVE  f[k-1] \in Str /\ f[k] = step[k][f[k-1]]
    BY <1>3 DEF Follows
  <2> QED BY <1>3, <2>1 DEF Follows, step
<1>5. << >> \o s[1] = s[1]
  BY ConcatEmptySeq DEF Str
<1>6. f[1] = s[1] /\ \A k \in 2 .. n : f[k] = f[k-1] \o s[k]
  <2>1. 1 \in 1 .. n /\ 1 - 1 = 0 /\ \A k \in 2 .. n : k \in 1 .. n
    OBVIOUS
  <2>2. f[1] = f[1-1] \o s[1]
    BY <1>4, <2>1
  <2> QED BY <1>4, <1>5, <2>1, <2>2
<1>7. Len(s) = n
  BY SequenceOf
<1> DEFINE R(h) == h = [i \in 1 .. n |-> IF i = 1 THEN s[i] ELSE h[i-1] \o s[i]]
           g == CHOOSE h : R(h)
           F == [i \in 1 .. n |-> f[i]]
<1>8. R(F)
  <2>1. ASSUME NEW i \in 1 .. n, i # 1
        PROVE  i \in 2 .. n /\ i - 1 \in 1 .. n
    BY <2>1
  <2> QED BY <1>6, <2>1
<1>9. R(g)
  <2> HIDE DEF R
  <2> QED BY <1>8
<1>10. FlattenSeq(s) = g[n]
  BY <1>7, Zenon DEF FlattenSeq
<1> HIDE DEF g
<1>11. DOMAIN g = 1 .. n /\ g[1] = s[1] /\ \A k \in 2 .. n : g[k] = g[k-1] \o s[k]
  <2>1. 1 \in 1 .. n /\ \A k \in 2 .. n : k \in 1 .. n /\ k # 1
    OBVIOUS
  <2>2. DOMAIN g = 1 .. n /\ \A k \in 1 .. n : g[k] = IF k = 1 THEN s[k] ELSE g[k-1] \o s[k]
    BY <1>9, Zenon
  <2> QED BY <2>1, <2>2
<1>12. \A k \in 1 .. n : g[k] = f[k]
  <2> DEFINE T == {k \in 0 .. n : k = 0 \/ g[k] = f[k]}
  <2>1. 0 \in T
    OBVIOUS
  <2>2. ASSUME NEW k \in 1 .. n, k - 1 \in T PROVE k \in T
    <3>1. CASE k = 1
      BY <1>6, <1>11, <3>1
    <3>2. CASE k # 1
      <4>1. k \in 2 .. n /\ g[k-1] = f[k-1]
        BY <2>2, <3>2
      <4>2. g[k] = f[k]
        BY ONLY <1>6, <1>11, <4>1
      <4> QED BY <4>2
    <3> QED BY <3>1, <3>2
  <2> HIDE DEF T
  <2>3. \A k \in 0 .. n : k \in T
    BY <2>1, <2>2, Induct
  <2> QED BY <2>3 DEF T
<1>13. g \in [1 .. n -> Str]
  <2>1. g = [k \in 1 .. n |-> g[k]]
    BY <1>9, <1>11
  <2>2. \A k \in 1 .. n : g[k] \in Str
    BY <1>4, <1>12
  <2> QED BY <2>1, <2>2
<1> QED BY <1>10, <1>11, <1>13

LEMMA Cut ==
  ASSUME NEW F \in Str, NEW a \in Nat, NEW b \in Nat, a <= b, b <= Len(F)
  PROVE  /\ SubSeq(F, a + 1, b) \in Str
         /\ Len(SubSeq(F, a + 1, b)) = b - a
         /\ \A m \in 1 .. b - a : SubSeq(F, a + 1, b)[m] = F[a + m]
<1>1. Len(F) \in Nat /\ \A i \in 1 .. Len(F) : F[i] \in Byte
  BY LenProperties, ElementOfSeq DEF Str
<1>2. a + 1 \in Int /\ b \in Int /\ \A i \in a + 1 .. b : F[i] \in Byte
  BY <1>1
<1>3. /\ SubSeq(F, a + 1, b) \in Seq(Byte)
      /\ Len(SubSeq(F, a + 1, b)) = IF a + 1 <= b THEN b - (a + 1) + 1 ELSE 0
      /\ \A i \in 1 .. b - (a + 1) + 1 : SubSeq(F, a + 1, b)[i] = F[(a + 1) + i - 1]
  BY <1>2, SubSeqProperties
<1>4. SubSeq(F, a + 1, b) \in Str /\ Len(SubSeq(F, a + 1, b)) = b - a
  BY <1>3 DEF Str
<1>5. ASSUME NEW m \in 1 .. b - a
      PROVE  SubSeq(F, a + 1, b)[m] = F[a + m]
  <2>1. m \in 1 .. b - (a + 1) + 1 /\ (a + 1) + m - 1 = a + m
    OBVIOUS
  <2> QED BY <1>3, <2>1
<1> QED BY <1>4, <1>5

(* F is the members of s, the k-th up to position tot[k].                  *)
Joins(F, s, n, tot) ==
  /\ F \in Str /\ Len(F) = tot[n]
  /\ \A k \in 1 .. n : SubSeq(F, tot[k-1] + 1, tot[k]) = s[k]

LEMMA Flattened ==
  ASSUME NEW n \in Nat, NEW s \in [1 .. n -> Str], NEW tot \in [0 .. n -> Nat],
         tot[0] = 0, \A k \in 1 .. n : tot[k] = tot[k-1] + Len(s[k])
  PROVE  Joins(FlattenSeq(s), s, n, tot)
<1>1. CASE n = 0
  <2>1. s \in Str /\ Len(s) = 0
    BY <1>1, SequenceOf DEF Str
  <2>2. FlattenSeq(s) = s
    BY <2>1 DEF FlattenSeq
  <2> QED BY <1>1, <2>1, <2>2 DEF Joins
<1>2. CASE n # 0
  <2>1. PICK g : /\ g \in [1 .. n -> Str]
                 /\ g[1] = s[1]
                 /\ \A k \in 2 .. n : g[k] = g[k-1] \o s[k]
                 /\ FlattenSeq(s) = g[n]
    BY <1>2, FlattenRecursion
  <2>2. ASSUME NEW k \in 1 .. n
        PROVE  /\ k - 1 \in 0 .. n /\ k \in 0 .. n /\ tot[k-1] \in Nat /\ tot[k] \in Nat
               /\ s[k] \in Str /\ Len(s[k]) \in Nat /\ tot[k] = tot[k-1] + Len(s[k])
    BY LenProperties DEF Str
  <2> DEFINE At(k) == /\ Len(g[k]) = tot[k]
                      /\ \A j \in 1 .. k :
                           /\ tot[j] <= tot[k]
                           /\ \A m \in 1 .. Len(s[j]) : g[k][tot[j-1] + m] = s[j][m]
             T == {k \in 0 .. n : k = 0 \/ At(k)}
  <2>3. 0 \in T
    OBVIOUS
  <2>4. ASSUME NEW k \in 1 .. n, k - 1 \in T PROVE k \in T
    <3>1. CASE k = 1
      <4>1. At(1)
        BY <2>1, <2>2, <3>1
      <4> QED BY <3>1, <4>1
    <3>2. CASE k # 1
      <4>1. k \in 2 .. n /\ k - 1 \in 1 .. n /\ At(k-1)
        BY <2>4, <3>2
      <4>2. g[k] = g[k-1] \o s[k] /\ g[k-1] \in Str /\ s[k] \in Str
        BY <2>1, <4>1
      <4>3. /\ Len(g[k]) = Len(g[k-1]) + Len(s[k])
            /\ \A i \in 1 .. Len(g[k-1]) : g[k][i] = g[k-1][i]
            /\ \A m \in 1 .. Len(s[k]) : g[k][Len(g[k-1]) + m] = s[k][m]
        BY <4>2, ConcatProperties, LenProperties DEF Str
      <4>4. Len(g[k-1]) = tot[k-1] /\ Len(g[k]) = tot[k]
        BY <2>2, <4>1, <4>3
      <4>5. ASSUME NEW j \in 1 .. k
            PROVE  /\ tot[j] <= tot[k]
                   /\ \A m \in 1 .. Len(s[j]) : g[k][tot[j-1] + m] = s[j][m]
        <5>1. CASE j = k
          BY <2>2, <4>3, <4>4, <5>1
        <5>2. CASE j # k
          <6>1. j \in 1 .. k-1 /\ j \in 1 .. n
            BY <5>2
          <6>5. /\ tot[k-1] \in Nat /\ tot[k] \in Nat /\ tot[k] = tot[k-1] + Len(s[k])
                /\ tot[j-1] \in Nat /\ tot[j] \in Nat /\ tot[j] = tot[j-1] + Len(s[j])
                /\ Len(s[k]) \in Nat /\ Len(s[j]) \in Nat
            BY <2>2, <6>1
          <6>2. /\ tot[j] <= tot[k-1]
                /\ \A m \in 1 .. Len(s[j]) : g[k-1][tot[j-1] + m] = s[j][m]
            BY <4>1, <6>1
          <6>3. tot[k-1] <= tot[k] /\ tot[j] <= tot[k]
            <7>1. tot[j] <= tot[k-1]
              BY <6>2
            <7>2. \A p \in Nat, q \in Nat, l \in Nat, e \in Nat :
                    p <= q /\ e = q + l => q <= e /\ p <= e
              OBVIOUS
            <7> QED BY ONLY <6>5, <7>1, <7>2, Zenon
          <6>4. ASSUME NEW m \in 1 .. Len(s[j])
                PROVE  tot[j-1] + m \in 1 .. Len(g[k-1])
            <7>1. tot[j] <= tot[k-1] /\ Len(g[k-1]) = tot[k-1] /\ m \in Nat /\ 1 <= m /\ m <= Len(s[j])
              BY <4>4, <6>2, <6>5
            <7>2. PICK p \in Nat, q \in Nat, l \in Nat, e \in Nat :
                    p = tot[j-1] /\ q = tot[k-1] /\ l = Len(s[j]) /\ e = tot[j]
              BY ONLY <6>5
            <7>3. e = p + l /\ e <= q /\ 1 <= m /\ m <= l
              BY ONLY <6>5, <7>1, <7>2
            <7>4. p + m \in 1 .. q
              BY ONLY <7>1, <7>3, p \in Nat, q \in Nat, l \in Nat
            <7> QED BY ONLY <7>1, <7>2, <7>4
          <6> QED BY <4>3, <6>2, <6>3, <6>4
        <5> QED BY <5>1, <5>2
      <4>6. At(k)
        BY <4>4, <4>5
      <4>7. k \in 0 .. n
        OBVIOUS
      <4> HIDE DEF At
      <4> QED BY ONLY <4>6, <4>7
    <3> QED BY <3>1, <3>2
  <2> HIDE DEF T
  <2>5. \A k \in 0 .. n : k \in T
    BY <2>3, <2>4, Induct
  <2>6. At(n)
    <3>1. n \in T
      BY <2>5
    <3> QED BY <1>2, <3>1 DEF T
  <2>7. g[n] \in Str /\ Len(g[n]) = tot[n]
    BY <1>2, <2>1, <2>6
  <2>8. ASSUME NEW k \in 1 .. n
        PROVE  SubSeq(g[n], tot[k-1] + 1, tot[k]) = s[k]
    <3> PICK F \in Str, a \in Nat, b \in Nat, u \in Str :
          F = g[n] /\ a = tot[k-1] /\ b = tot[k] /\ u = s[k]
      BY <2>2, <2>7
    <3>1. a <= b /\ b - a = Len(u) /\ b <= Len(F) /\ Len(u) \in Nat
      BY <2>2, <2>6, <2>7
    <3>2. \A m \in 1 .. Len(u) : F[a + m] = u[m]
      BY <2>6
    <3>3. /\ SubSeq(F, a + 1, b) \in Str
          /\ Len(SubSeq(F, a + 1, b)) = Len(u)
          /\ \A m \in 1 .. Len(u) : SubSeq(F, a + 1, b)[m] = u[m]
      <4>1. /\ SubSeq(F, a + 1, b) \in Str
            /\ Len(SubSeq(F, a + 1, b)) = b - a
            /\ \A m \in 1 .. b - a : SubSeq(F, a + 1, b)[m] = F[a + m]
        BY ONLY <3>1, F \in Str, a \in Nat, b \in Nat, Cut
      <4> QED BY <3>1, <3>2, <4>1
    <3>4. SubSeq(F, a + 1, b) = u
      BY ONLY <3>3, u \in Str, SeqEqual DEF Str
    <3> QED BY <3>4
  <2> QED BY <2>1, <2>7, <2>8 DEF Joins
<1> QED BY <1>1, <1>2

-----------------------------------------------------------------------------
(* Raw vectors that can be read in place.                                  *)

PackOf(n) == [order : Order, wide : BOOLEAN, n : {n}, ends : [0 .. n-1 -> Nat],
              tags : [0 .. n-1 -> TagByte], bytes : Str]

PackOK(r, order) == (\E n \in 0 .. MaxLen : r \in PackOf(n)) /\ well_laid(r, order)

(* What record i of a well-laid raw vector spans.                          *)
SpanOK(r, i) ==
  /\ begin_at(r, i) \in Nat /\ r.ends[i] \in Nat
  /\ begin_at(r, i) <= r.ends[i] /\ r.ends[i] <= Len(r.bytes)
  /\ len_at(r, i) <= MaxString
  /\ r.tags[i] \in Tag \cup {"NA"}
  /\ r.tags[i] = "NA" => len_at(r, i) = 0

LEMMA Spans ==
  ASSUME NEW r, NEW order, PackOK(r, order)
  PROVE  /\ r.n \in 0 .. MaxLen /\ r \in PackOf(r.n)
         /\ \A i \in 0 .. r.n-1 : SpanOK(r, i)
<1>1. PICK n \in 0 .. MaxLen : r \in PackOf(n)
  BY DEF PackOK
<1>2. /\ n \in Nat /\ n = r.n /\ r.bytes \in Str /\ Len(r.bytes) \in Nat
      /\ r.ends \in [0 .. n-1 -> Nat]
  <2>1. n \in Nat /\ n = r.n /\ r.bytes \in Str /\ r.ends \in [0 .. n-1 -> Nat]
    BY <1>1 DEF PackOf
  <2> QED BY <2>1, LenProperties DEF Str
<1>3. /\ \A i \in 0 .. n-1 :
           /\ begin_at(r, i) <= r.ends[i] /\ len_at(r, i) <= MaxString
           /\ r.tags[i] \in Tag \cup {"NA"}
           /\ r.tags[i] = "NA" => len_at(r, i) = 0
      /\ Len(r.bytes) = IF n = 0 THEN 0 ELSE r.ends[n-1]
  BY <1>2 DEF PackOK, well_laid
<1> DEFINE f == [k \in 0 .. n |-> begin_at(r, k)]
<1>4. ASSUME NEW k \in 0 .. n PROVE begin_at(r, k) \in Nat
  BY <1>2 DEF begin_at
<1>5. ASSUME NEW k \in 1 .. n
      PROVE  begin_at(r, k) = r.ends[k-1] /\ begin_at(r, k-1) <= begin_at(r, k)
  <2>1. k - 1 \in 0 .. n-1
    OBVIOUS
  <2>2. begin_at(r, k) = r.ends[k-1]
    BY DEF begin_at
  <2> QED BY <1>3, <2>1, <2>2
<1>6. f \in [0 .. n -> Nat] /\ \A k \in 1 .. n : f[k-1] <= f[k]
  <2>1. \A k \in 1 .. n : k - 1 \in 0 .. n /\ k \in 0 .. n
    OBVIOUS
  <2> QED BY <1>4, <1>5, <2>1
<1>7. f[n] = Len(r.bytes) /\ \A i \in 0 .. n-1 : f[i+1] = r.ends[i] /\ i + 1 \in 0 .. n
  BY <1>3 DEF begin_at
<1>8. ASSUME NEW i \in 0 .. n-1
      PROVE  r.ends[i] <= Len(r.bytes)
  <2> HIDE DEF f
  <2>1. i + 1 \in 0 .. n /\ f[i+1] <= f[n]
    BY <1>2, <1>6, <1>7, Ascending
  <2> QED BY <1>7, <2>1
<1>9. ASSUME NEW i \in 0 .. n-1
      PROVE  SpanOK(r, i)
  BY <1>2, <1>3, <1>4, <1>8 DEF SpanOK
<1> QED BY <1>1, <1>2, <1>9

(* Every record of it is a string of its own length.                       *)
LEMMA ViewOfRecord ==
  ASSUME NEW r, NEW order, PackOK(r, order), NEW i \in 0 .. r.n-1
  PROVE  /\ record_view(r, i) \in View
         /\ Len(record_view(r, i).bytes) <= MaxString
<1>1. r \in PackOf(r.n) /\ SpanOK(r, i)
  BY Spans
<1>2. r.bytes \in Str
  BY <1>1 DEF PackOf
<1>3. CASE r.tags[i] = "NA"
  <2>1. record_view(r, i) = NaView /\ Len(<< >>) = 0
    BY <1>3 DEF record_view
  <2> QED BY <2>1, PackLayoutAssumption DEF View, NaView
<1>4. CASE r.tags[i] # "NA"
  <2> PICK F \in Str, a \in Nat, b \in Nat :
        F = r.bytes /\ a = begin_at(r, i) /\ b = r.ends[i] /\ a <= b /\ b <= Len(F)
    BY <1>1, <1>2 DEF SpanOK
  <2>1. SubSeq(F, a + 1, b) \in Str /\ Len(SubSeq(F, a + 1, b)) = b - a
    BY Cut
  <2>2. b - a <= MaxString /\ r.tags[i] \in Tag
    BY <1>1, <1>4 DEF SpanOK, len_at
  <2>3. record_view(r, i) = [bytes |-> SubSeq(F, a + 1, b), enc |-> r.tags[i]]
    BY <1>4 DEF record_view
  <2> QED BY <2>1, <2>2, <2>3 DEF View
<1> QED BY <1>3, <1>4

-----------------------------------------------------------------------------
(* A raw vector written from records of the right lengths.                 *)

RecordsOK(recs, n) ==
  /\ recs \in [0 .. n-1 -> [len : Int, enc : TagByte]]
  /\ records_valid(recs)
  /\ \A i \in 0 .. n-1 : recs[i].len <= MaxString

LEMMA RecordLengths ==
  ASSUME NEW n \in Nat, NEW recs, RecordsOK(recs, n), NEW i \in 0 .. n-1
  PROVE  /\ record_len(recs[i]) \in Nat /\ record_len(recs[i]) <= MaxString
         /\ recs[i].enc \in Tag \cup {"NA"}
         /\ record_is_na(recs[i]) => record_len(recs[i]) = 0
<1>1. /\ recs[i].len \in Int /\ recs[i].len <= MaxString
      /\ recs[i].enc \in Tag \cup {"NA"}
      /\ ~ record_is_na(recs[i]) => recs[i].len >= 0
  BY DEF RecordsOK, records_valid
<1> QED BY <1>1, PackLayoutAssumption DEF record_len

LEMMA TotalsOf ==
  ASSUME NEW n \in Nat, NEW recs, RecordsOK(recs, n)
  PROVE  /\ running_total(recs) \in [0 .. n -> Nat]
         /\ running_total(recs)[0] = 0
         /\ payload_of(recs) = running_total(recs)[n]
         /\ \A i \in 0 .. n-1 :
              /\ running_total(recs)[i+1] = running_total(recs)[i] + record_len(recs[i])
              /\ running_total(recs)[i+1] <= running_total(recs)[n]
<1>1. DOMAIN recs = 0 .. n-1 /\ \A i \in 0 .. n-1 : record_len(recs[i]) \in Nat
  BY RecordLengths DEF RecordsOK
<1> PICK t : t = running_total(recs)
  OBVIOUS
<1>2. /\ t \in [0 .. n -> Nat] /\ t[0] = 0 /\ payload_of(recs) = t[n]
      /\ \A k \in 1 .. n : t[k] = t[k-1] + record_len(recs[k-1])
  <2>1. /\ running_total(recs) \in [0 .. n -> Nat]
        /\ running_total(recs)[0] = 0
        /\ \A k \in 1 .. n :
             running_total(recs)[k] = running_total(recs)[k-1] + record_len(recs[k-1])
        /\ payload_of(recs) = running_total(recs)[n]
    BY ONLY <1>1, n \in Nat, RunningTotal
  <2> QED BY <2>1
<1>3. ASSUME NEW k \in 1 .. n PROVE t[k-1] <= t[k]
  <2>1. k - 1 \in 0 .. n-1 /\ k - 1 \in 0 .. n /\ t[k-1] \in Nat
    BY <1>2
  <2>2. t[k] = t[k-1] + record_len(recs[k-1]) /\ record_len(recs[k-1]) \in Nat
    BY <1>1, <1>2, <2>1
  <2>3. \A a \in Nat, b \in Nat : a <= a + b
    OBVIOUS
  <2> QED BY ONLY <2>1, <2>2, <2>3
<1>4. \A k \in 0 .. n : t[k] <= t[n]
  BY <1>2, <1>3, Ascending
<1>5. \A i \in 0 .. n-1 : i + 1 \in 1 .. n /\ i + 1 \in 0 .. n /\ (i + 1) - 1 = i
  OBVIOUS
<1>6. ASSUME NEW i \in 0 .. n-1
      PROVE  t[i+1] = t[i] + record_len(recs[i]) /\ t[i+1] <= t[n]
  BY <1>2, <1>4, <1>5
<1> QED BY <1>2, <1>6

(* What alloc_data1 needs of its arguments.                                *)
AllocArgs(order, n, recs, wide, bytes) ==
  /\ order \in Order /\ n \in 0 .. MaxLen /\ RecordsOK(recs, n) /\ wide \in BOOLEAN
  /\ bytes \in Str /\ Len(bytes) = payload_of(recs)
  /\ needs_wide(payload_of(recs)) => wide
  /\ total_bytes(n, payload_of(recs), wide) # 0

LEMMA SmallRemainder ==
  ASSUME NEW m \in Nat \ {0}, NEW x \in Nat, x < m
  PROVE  x % m = x
OBVIOUS

LEMMA WrittenEnds ==
  ASSUME NEW n \in Nat, NEW recs, RecordsOK(recs, n), NEW wide \in BOOLEAN,
         needs_wide(payload_of(recs)) => wide
  PROVE  /\ write_ends(recs, wide) \in [0 .. n-1 -> Nat]
         /\ \A i \in 0 .. n-1 : write_ends(recs, wide)[i] = running_total(recs)[i+1]
<1> PICK t : t = running_total(recs)
  OBVIOUS
<1>1. /\ t \in [0 .. n -> Nat] /\ payload_of(recs) = t[n]
      /\ \A i \in 0 .. n-1 : t[i+1] <= t[n]
  BY TotalsOf
<1>2. DOMAIN recs = 0 .. n-1
  BY DEF RecordsOK
<1>3. write_ends(recs, wide) = [i \in 0 .. n-1 |-> IF wide THEN t[i+1] ELSE t[i+1] % NarrowMod]
  BY <1>2 DEF write_ends
<1>4. ASSUME NEW i \in 0 .. n-1
      PROVE  t[i+1] \in Nat /\ (~ wide => t[i+1] % NarrowMod = t[i+1])
  <2>1. i + 1 \in 0 .. n /\ t[i+1] \in Nat /\ t[n] \in Nat /\ t[i+1] <= t[n]
    BY <1>1
  <2>2. ~ wide => t[n] < NarrowMod
    BY <1>1, <2>1, PackLayoutAssumption DEF needs_wide
  <2>3. t[i+1] < NarrowMod => t[i+1] % NarrowMod = t[i+1]
    BY <2>1, SmallRemainder, PackLayoutAssumption
  <2>4. ~ wide => t[i+1] < NarrowMod
    BY <2>1, <2>2, PackLayoutAssumption
  <2> QED BY <2>1, <2>3, <2>4
<1>5. \A i \in 0 .. n-1 : write_ends(recs, wide)[i] = t[i+1]
  BY <1>3, <1>4
<1>6. write_ends(recs, wide) \in [0 .. n-1 -> Nat]
  <2>1. \A i \in 0 .. n-1 : (IF wide THEN t[i+1] ELSE t[i+1] % NarrowMod) \in Nat
    BY <1>4
  <2> QED BY <1>3, <2>1
<1> QED BY <1>5, <1>6

LEMMA AllocOK ==
  ASSUME NEW order, NEW n, NEW recs, NEW wide, NEW bytes,
         AllocArgs(order, n, recs, wide, bytes)
  PROVE  PackOK(alloc_data1(order, n, recs, wide, bytes), order)
<1> PICK r : r = alloc_data1(order, n, recs, wide, bytes)
  OBVIOUS
<1> PICK t : t = running_total(recs)
  OBVIOUS
<1>1. /\ n \in Nat /\ n <= MaxLen /\ RecordsOK(recs, n) /\ wide \in BOOLEAN /\ bytes \in Str
      /\ DOMAIN recs = 0 .. n-1 /\ Len(bytes) \in Nat
      /\ needs_wide(payload_of(recs)) => wide
  BY CharpackAssumption, LenProperties DEF AllocArgs, RecordsOK, Str
<1>2. /\ t \in [0 .. n -> Nat] /\ t[0] = 0 /\ payload_of(recs) = t[n]
      /\ \A i \in 0 .. n-1 : t[i+1] = t[i] + record_len(recs[i])
  <2>1. n \in Nat /\ RecordsOK(recs, n)
    BY <1>1
  <2> QED BY ONLY <2>1, t = running_total(recs), TotalsOf
<1>3. \A i \in 0 .. n-1 :
        /\ record_len(recs[i]) \in Nat /\ record_len(recs[i]) <= MaxString
        /\ recs[i].enc \in Tag \cup {"NA"}
        /\ record_is_na(recs[i]) => record_len(recs[i]) = 0
  BY <1>1, RecordLengths
<1> DEFINE tags == [i \in 0 .. n-1 |-> IF record_is_na(recs[i]) THEN "NA" ELSE recs[i].enc]
<1>4. /\ r = [order |-> order, wide |-> wide, n |-> n, ends |-> write_ends(recs, wide),
              tags |-> tags, bytes |-> bytes]
      /\ write_ends(recs, wide) \in [0 .. n-1 -> Nat]
      /\ \A i \in 0 .. n-1 : write_ends(recs, wide)[i] = t[i+1]
  <2>1. r = [order |-> order, wide |-> wide, n |-> n, ends |-> write_ends(recs, wide),
              tags |-> tags, bytes |-> bytes]
    BY <1>1 DEF alloc_data1
  <2>2. /\ write_ends(recs, wide) \in [0 .. n-1 -> Nat]
        /\ \A i \in 0 .. n-1 : write_ends(recs, wide)[i] = running_total(recs)[i+1]
    BY <1>1, WrittenEnds
  <2> QED BY <2>1, <2>2
<1>5. tags \in [0 .. n-1 -> Tag \cup {"NA"}]
  BY <1>3
<1> HIDE DEF tags
<1>6. r \in PackOf(n)
  BY <1>1, <1>4, <1>5 DEF PackOf, AllocArgs, TagByte
<1>7. /\ r.order = order /\ r.wide = wide /\ r.n = n /\ r.tags = tags /\ r.bytes = bytes
      /\ DOMAIN r.ends = 0 .. n-1 /\ \A i \in 0 .. n-1 : r.ends[i] = t[i+1]
  BY <1>4
<1>8. ASSUME NEW i \in 0 .. n-1
      PROVE  begin_at(r, i) = t[i] /\ t[i] \in Nat /\ len_at(r, i) = record_len(recs[i])
  <2>1. begin_at(r, i) = t[i]
    <3>1. CASE i = 0
      BY <1>2, <3>1 DEF begin_at
    <3>2. CASE i # 0
      <4>1. i - 1 \in 0 .. n-1 /\ (i - 1) + 1 = i
        BY <1>1, <3>2
      <4> QED BY <1>7, <3>2, <4>1 DEF begin_at
    <3> QED BY <3>1, <3>2
  <2>2. t[i] \in Nat /\ i \in 0 .. n
    BY <1>1, <1>2
  <2> QED BY <1>2, <1>3, <1>7, <2>1, <2>2 DEF len_at
<1>9. ASSUME NEW i \in 0 .. n-1
      PROVE  /\ begin_at(r, i) <= r.ends[i] /\ len_at(r, i) <= MaxString
             /\ r.tags[i] \in Tag \cup {"NA"}
             /\ r.tags[i] = "NA" => len_at(r, i) = 0
  <2>1. r.ends[i] = t[i] + record_len(recs[i])
    BY <1>2, <1>7
  <2>2. r.tags[i] = "NA" => record_is_na(recs[i])
    BY <1>3, <1>7 DEF tags, record_is_na
  <2>3. r.tags[i] \in Tag \cup {"NA"}
    BY <1>5, <1>7
  <2> QED BY <1>3, <1>8, <2>1, <2>2, <2>3
<1>10. Len(r.bytes) = IF n = 0 THEN 0 ELSE r.ends[n-1]
  <2>1. n # 0 => n - 1 \in 0 .. n-1 /\ (n - 1) + 1 = n
    BY <1>1
  <2> QED BY <1>2, <1>7, <2>1 DEF AllocArgs
<1>11. ~ r.wide => Len(r.bytes) < NarrowMod
  BY <1>1, <1>7, PackLayoutAssumption DEF AllocArgs, needs_wide
<1>12. raw_bytes(r) <= MaxRaw
  <2>1. Cardinality(DOMAIN r.ends) = n
    BY <1>1, <1>7, CountRecords
  <2>2. offset_bytes(wide) \in {4, 8}
    BY DEF offset_bytes
  <2>3. PICK w \in Nat : w = n * (offset_bytes(wide) + 1)
    BY <1>1, <2>2
  <2>4. Len(bytes) <= MaxRaw - (8 + w)
    BY <1>1, <2>3, PackLayoutAssumption DEF AllocArgs, total_bytes, header_bytes
  <2>5. raw_bytes(r) = 8 + w + Len(bytes)
    BY <1>7, <2>1, <2>3 DEF raw_bytes, header_bytes
  <2> QED BY <1>1, <2>4, <2>5, PackLayoutAssumption
<1>13. well_laid(r, order)
  <2>1. DOMAIN r.tags = 0 .. r.n-1
    BY <1>5, <1>7
  <2> QED BY <1>1, <1>7, <1>9, <1>10, <1>11, <1>12, <2>1 DEF well_laid
<1> QED BY <1>1, <1>6, <1>13 DEF PackOK

-----------------------------------------------------------------------------
(* A raw vector written from views reads back as those views.              *)

ViewsOK(vw, n) == vw \in [0 .. n-1 -> View] /\ \A i \in 0 .. n-1 : Len(vw[i].bytes) <= MaxString

ViewRecords(vw, n) == [i \in 0 .. n-1 |-> record_of(vw[i])]

LEMMA ViewFacts ==
  ASSUME NEW view \in View
  PROVE  /\ view.bytes \in Str /\ Len(view.bytes) \in Nat
         /\ view.enc \in Tag \cup {"NA"}
         /\ view.enc = "NA" => view = NaView
         /\ record_len(record_of(view)) = Len(view.bytes)
         /\ record_is_na(record_of(view)) <=> view.enc = "NA"
<1>1. << >> \in Str /\ Len(<< >>) = 0
  BY EmptySeq DEF Str
<1>2. view.bytes \in Str /\ view.enc \in Tag \cup {"NA"}
  BY <1>1 DEF View
<1>3. Len(view.bytes) \in Nat
  BY <1>2, LenProperties DEF Str
<1>4. view.enc = "NA" => view = NaView
  BY DEF View, Tag, NaView
<1>5. record_is_na(record_of(view)) <=> view.enc = "NA"
  BY <1>3 DEF record_is_na, record_of, NA_INTEGER
<1>6. record_len(record_of(view)) = Len(view.bytes)
  BY <1>1, <1>4, <1>5 DEF record_len, record_of, NaView
<1> QED BY <1>2, <1>3, <1>4, <1>5, <1>6

LEMMA RecordsOfViews ==
  ASSUME NEW n \in Nat, NEW vw, ViewsOK(vw, n)
  PROVE  RecordsOK(ViewRecords(vw, n), n)
<1>1. ASSUME NEW i \in 0 .. n-1
      PROVE  /\ record_of(vw[i]) \in [len : Int, enc : TagByte]
             /\ record_of(vw[i]).len <= MaxString
             /\ record_of(vw[i]).enc \in Tag \cup {"NA"}
             /\ ~ record_is_na(record_of(vw[i])) => record_of(vw[i]).len >= 0
  <2>1. /\ Len(vw[i].bytes) \in Nat /\ Len(vw[i].bytes) <= MaxString
        /\ vw[i].enc \in Tag \cup {"NA"}
        /\ record_is_na(record_of(vw[i])) <=> vw[i].enc = "NA"
    BY ViewFacts DEF ViewsOK
  <2> QED BY <2>1, PackLayoutAssumption DEF record_of, NA_INTEGER, TagByte
<1> QED BY <1>1 DEF RecordsOK, records_valid, ViewRecords

LEMMA JoinedViews ==
  ASSUME NEW n \in Nat, NEW vw, ViewsOK(vw, n), NEW t, t = running_total(ViewRecords(vw, n))
  PROVE  /\ joined(n, vw) \in Str /\ Len(joined(n, vw)) = payload_of(ViewRecords(vw, n))
         /\ \A i \in 0 .. n-1 : SubSeq(joined(n, vw), t[i] + 1, t[i+1]) = vw[i].bytes
<1> DEFINE s == [k \in 1 .. n |-> vw[k-1].bytes]
<1>1. /\ t \in [0 .. n -> Nat] /\ t[0] = 0 /\ payload_of(ViewRecords(vw, n)) = t[n]
      /\ \A i \in 0 .. n-1 : t[i+1] = t[i] + record_len(ViewRecords(vw, n)[i])
  BY RecordsOfViews, TotalsOf
<1>2. ASSUME NEW k \in 1 .. n
      PROVE  vw[k-1].bytes \in Str /\ t[k] = t[k-1] + Len(vw[k-1].bytes)
  <2>1. k - 1 \in 0 .. n-1 /\ (k - 1) + 1 = k /\ vw[k-1] \in View
    BY DEF ViewsOK
  <2>2. ViewRecords(vw, n)[k-1] = record_of(vw[k-1])
    BY <2>1 DEF ViewRecords
  <2> QED BY <1>1, <2>1, <2>2, ViewFacts
<1>3. s \in [1 .. n -> Str] /\ \A k \in 1 .. n : t[k] = t[k-1] + Len(s[k])
  BY <1>2
<1>4. joined(n, vw) = FlattenSeq(s)
  BY DEF joined
<1> HIDE DEF s
<1>5. Joins(FlattenSeq(s), s, n, t)
  BY <1>1, <1>3, Flattened
<1>6. ASSUME NEW i \in 0 .. n-1
      PROVE  SubSeq(joined(n, vw), t[i] + 1, t[i+1]) = vw[i].bytes
  <2>1. i + 1 \in 1 .. n /\ (i + 1) - 1 = i
    OBVIOUS
  <2>2. SubSeq(FlattenSeq(s), t[(i+1)-1] + 1, t[i+1]) = s[i+1]
    BY <1>5, <2>1 DEF Joins
  <2> QED BY <1>4, <2>1, <2>2 DEF s
<1> QED BY <1>1, <1>4, <1>5, <1>6 DEF Joins

LEMMA AllocReads ==
  ASSUME NEW order, NEW n, NEW vw, NEW wide, ViewsOK(vw, n),
         AllocArgs(order, n, ViewRecords(vw, n), wide, joined(n, vw)),
         NEW i \in 0 .. n-1
  PROVE  record_view(alloc_data1(order, n, ViewRecords(vw, n), wide, joined(n, vw)), i) = vw[i]
<1> PICK recs : recs = ViewRecords(vw, n)
  OBVIOUS
<1> PICK t : t = running_total(recs)
  OBVIOUS
<1> PICK r : r = alloc_data1(order, n, recs, wide, joined(n, vw))
  OBVIOUS
<1>1. /\ n \in Nat /\ RecordsOK(recs, n) /\ wide \in BOOLEAN
      /\ needs_wide(payload_of(recs)) => wide
  BY CharpackAssumption DEF AllocArgs
<1>2. /\ t \in [0 .. n -> Nat] /\ t[0] = 0
      /\ \A j \in 0 .. n-1 : write_ends(recs, wide)[j] = t[j+1]
  BY <1>1, TotalsOf, WrittenEnds
<1>3. /\ r.ends = write_ends(recs, wide) /\ r.bytes = joined(n, vw)
      /\ r.tags[i] = IF record_is_na(recs[i]) THEN "NA" ELSE recs[i].enc
      /\ recs[i] = record_of(vw[i])
  BY DEF alloc_data1, ViewRecords
<1>4. r.ends[i] = t[i+1] /\ begin_at(r, i) = t[i]
  <2>1. CASE i = 0
    BY <1>2, <1>3, <2>1 DEF begin_at
  <2>2. CASE i # 0
    <3>1. i - 1 \in 0 .. n-1 /\ (i - 1) + 1 = i
      BY <1>1, <2>2
    <3> QED BY <1>2, <1>3, <2>2, <3>1 DEF begin_at
  <2> QED BY <2>1, <2>2
<1>5. SubSeq(r.bytes, t[i] + 1, t[i+1]) = vw[i].bytes
  BY <1>1, <1>3, JoinedViews
<1>6. /\ vw[i] \in View
      /\ vw[i].enc = "NA" => vw[i] = NaView
      /\ record_is_na(record_of(vw[i])) <=> vw[i].enc = "NA"
  BY ViewFacts DEF ViewsOK
<1>7. r.tags[i] = vw[i].enc
  BY <1>3, <1>6 DEF record_of
<1>8. CASE vw[i].enc = "NA"
  BY <1>6, <1>7, <1>8 DEF record_view
<1>9. CASE vw[i].enc # "NA"
  <2>1. record_view(r, i) = [bytes |-> vw[i].bytes, enc |-> vw[i].enc]
    BY <1>4, <1>5, <1>7, <1>9 DEF record_view
  <2>2. vw[i] = [bytes |-> vw[i].bytes, enc |-> vw[i].enc]
    BY <1>6 DEF View
  <2> QED BY <2>1, <2>2
<1> QED BY <1>8, <1>9

-----------------------------------------------------------------------------
(* Changes of byte order and of native tags, and states altered on their   *)
(* way.                                                                    *)

LEMMA SameShape ==
  ASSUME NEW r, NEW order, PackOK(r, order), NEW x, NEW o \in Order,
         x.order = o, x.wide = r.wide, x.n = r.n, x.ends = r.ends, x.bytes = r.bytes,
         x \in PackOf(r.n), \A i \in 0 .. r.n-1 :
                              /\ x.tags[i] \in Tag \cup {"NA"}
                              /\ x.tags[i] = "NA" => r.tags[i] = "NA"
  PROVE  PackOK(x, o)
<1>1. r.n \in 0 .. MaxLen /\ DOMAIN x.tags = 0 .. r.n-1
  BY Spans DEF PackOf
<1>2. \A i \in 0 .. r.n-1 : begin_at(x, i) = begin_at(r, i) /\ len_at(x, i) = len_at(r, i)
  BY DEF begin_at, len_at
<1>3. raw_bytes(x) = raw_bytes(r)
  BY DEF raw_bytes
<1>4. well_laid(x, o)
  BY <1>1, <1>2, <1>3 DEF PackOK, well_laid
<1> QED BY <1>1, <1>4 DEF PackOK

LEMMA Swapped ==
  ASSUME NEW r, NEW order \in Order, PackOK(r, order)
  PROVE  /\ PackOK(swap_words(r), IF order = "little" THEN "big" ELSE "little")
         /\ swap_words(r).n = r.n /\ swap_words(r).ends = r.ends
         /\ swap_words(r).tags = r.tags /\ swap_words(r).bytes = r.bytes
<1> PICK x : x = swap_words(r)
  OBVIOUS
<1> PICK o \in Order : o = IF order = "little" THEN "big" ELSE "little"
  BY DEF Order
<1>1. r.n \in 0 .. MaxLen /\ r \in PackOf(r.n) /\ r.order = order
  BY Spans DEF PackOK, well_laid
<1>2. /\ x.order = o /\ x.wide = r.wide /\ x.n = r.n /\ x.ends = r.ends
      /\ x.bytes = r.bytes /\ x.tags = r.tags /\ x \in PackOf(r.n)
  BY <1>1 DEF swap_words, PackOf, Order
<1>3. \A i \in 0 .. r.n-1 : r.tags[i] \in Tag \cup {"NA"}
  BY DEF PackOK, well_laid
<1>4. PackOK(x, o)
  BY <1>2, <1>3, SameShape
<1> QED BY <1>2, <1>4

LEMMA Retagged ==
  ASSUME NEW r, NEW order \in Order, PackOK(r, order)
  PROVE  /\ PackOK(retag_native(r), order)
         /\ retag_native(r).n = r.n /\ retag_native(r).ends = r.ends
         /\ retag_native(r).bytes = r.bytes
         /\ \A i \in 0 .. r.n-1 :
              retag_native(r).tags[i] = IF r.tags[i] = "NATIVE" THEN "UTF8" ELSE r.tags[i]
<1> PICK x : x = retag_native(r)
  OBVIOUS
<1>1. r.n \in 0 .. MaxLen /\ r \in PackOf(r.n) /\ r.order = order
  BY Spans DEF PackOK, well_laid
<1>2. r.tags \in [0 .. r.n-1 -> TagByte]
  BY <1>1 DEF PackOf
<1> DEFINE tags == [i \in 0 .. r.n-1 |-> IF r.tags[i] = "NATIVE" THEN "UTF8" ELSE r.tags[i]]
<1>3. tags \in [0 .. r.n-1 -> TagByte]
  BY <1>2 DEF TagByte, Tag
<1>4. x = [r EXCEPT !.tags = tags]
  BY <1>2 DEF retag_native
<1> HIDE DEF tags
<1>5. /\ x.order = order /\ x.wide = r.wide /\ x.n = r.n /\ x.ends = r.ends
      /\ x.bytes = r.bytes /\ x.tags = tags /\ x \in PackOf(r.n)
  BY <1>1, <1>3, <1>4 DEF PackOf
<1>6. ASSUME NEW i \in 0 .. r.n-1
      PROVE  /\ x.tags[i] = IF r.tags[i] = "NATIVE" THEN "UTF8" ELSE r.tags[i]
             /\ x.tags[i] \in Tag \cup {"NA"}
             /\ x.tags[i] = "NA" => r.tags[i] = "NA"
  <2>1. r.tags[i] \in Tag \cup {"NA"}
    BY DEF PackOK, well_laid
  <2>2. x.tags[i] = IF r.tags[i] = "NATIVE" THEN "UTF8" ELSE r.tags[i]
    BY <1>5 DEF tags
  <2> QED BY <2>1, <2>2 DEF Tag
<1>7. PackOK(x, order)
  BY <1>5, <1>6, SameShape
<1> QED BY <1>5, <1>6, <1>7

LEMMA HostOrders ==
  ASSUME NEW s
  PROVE  /\ HostOrder(s) \in Order
         /\ HostOrder(s) = "little" \/ HostOrder(s) = "big"
BY DEF HostOrder, Order

(* What is installed for an accepted state.                                *)
LEMMA Adopted ==
  ASSUME NEW r, PackOK(r, "little"), NEW s
  PROVE  /\ PackOK(adopted(r, s), HostOrder(s))
         /\ adopted(r, s).n = r.n /\ adopted(r, s).ends = r.ends
         /\ adopted(r, s).bytes = r.bytes
         /\ \A i \in 0 .. r.n-1 :
              adopted(r, s).tags[i] = IF r.tags[i] = "NATIVE" /\ ~ native_is_utf8(s)
                                      THEN "UTF8" ELSE r.tags[i]
<1> PICK x : x = IF HostOrder(s) = "big" THEN swap_words(r) ELSE r
  OBVIOUS
<1>1. /\ PackOK(x, HostOrder(s))
      /\ x.n = r.n /\ x.ends = r.ends /\ x.bytes = r.bytes /\ x.tags = r.tags
  <2>1. CASE HostOrder(s) = "big"
    BY <2>1, Swapped DEF Order
  <2>2. CASE HostOrder(s) = "little"
    BY <2>2
  <2> QED BY <2>1, <2>2, HostOrders
<1>2. x.n \in 0 .. MaxLen /\ x \in PackOf(x.n)
  BY <1>1, Spans
<1>3. DOMAIN x.tags = 0 .. r.n-1
  BY <1>1, <1>2 DEF PackOf
<1>4. adopted(r, s) = IF has_native(x) /\ ~ native_is_utf8(s) THEN retag_native(x) ELSE x
  BY DEF adopted
<1>5. CASE has_native(x) /\ ~ native_is_utf8(s)
  BY <1>1, <1>4, <1>5, HostOrders, Retagged
<1>6. CASE ~ (has_native(x) /\ ~ native_is_utf8(s))
  <2>1. ASSUME NEW i \in 0 .. r.n-1
        PROVE  ~ (r.tags[i] = "NATIVE" /\ ~ native_is_utf8(s))
    BY <1>1, <1>3, <1>6 DEF has_native
  <2> QED BY <1>1, <1>4, <1>6, <2>1
<1> QED BY <1>5, <1>6

(* What is sent.                                                           *)
LEMMA Sent ==
  ASSUME NEW v \in Vec, PackOK(raw[data1[v]], HostOrder(home[v]))
  PROVE  /\ PackOK(packed_state(v), "little")
         /\ packed_state(v).n = raw[data1[v]].n /\ packed_state(v).ends = raw[data1[v]].ends
         /\ packed_state(v).bytes = raw[data1[v]].bytes
         /\ packed_state(v).tags = raw[data1[v]].tags
<1> PICK r : r = raw[data1[v]]
  OBVIOUS
<1>1. CASE HostOrder(home[v]) = "little"
  BY <1>1 DEF packed_state
<1>2. CASE HostOrder(home[v]) = "big"
  <2>1. packed_state(v) = swap_words(r)
    BY <1>2 DEF packed_state
  <2> QED BY <1>2, <2>1, Swapped DEF Order
<1> QED BY <1>1, <1>2, HostOrders

(* A state that state_error accepts and that is no longer than one R could *)
(* allocate is well laid.                                                  *)
LEMMA Checked ==
  ASSUME NEW n \in 0 .. MaxLen, NEW x \in PackOf(n), x.order = "little",
         state_valid(x, "little"), raw_bytes(x) <= MaxRaw,
         ~ x.wide => Len(x.bytes) < NarrowMod
  PROVE  PackOK(x, "little")
<1>1. /\ x.n = n /\ DOMAIN x.ends = 0 .. n-1 /\ DOMAIN x.tags = 0 .. n-1
      /\ n \in Nat /\ n <= MaxLen
      /\ x.bytes \in Str
  BY CharpackAssumption DEF PackOf
<1>2. Len(x.bytes) \in Nat
  BY <1>1, LenProperties DEF Str
<1>3. ASSUME NEW i \in 0 .. n-1
      PROVE  /\ begin_at(x, i) <= x.ends[i] /\ len_at(x, i) <= MaxString
             /\ x.tags[i] \in Tag \cup {"NA"}
             /\ x.tags[i] = "NA" => len_at(x, i) = 0
  <2>1. x.ends \in [0 .. n-1 -> Nat]
    BY DEF PackOf
  <2>2. begin_at(x, i) \in Nat
    BY <1>1, <2>1 DEF begin_at
  <2> QED BY <1>1, <1>2, <2>2 DEF state_valid
<1>4. Len(x.bytes) = IF n = 0 THEN 0 ELSE x.ends[n-1]
  BY <1>1 DEF state_valid
<1> QED BY <1>1, <1>3, <1>4 DEF PackOK, well_laid

LEMMA FewerEnds ==
  ASSUME NEW n \in Nat, n # 0, NEW w \in {4, 8}
  PROVE  n > ((8 + (n - 1) * (w + 1) + 0) - 8) \div (w + 1)
<1>1. CASE w = 4
  <2>1. ((8 + (n - 1) * (w + 1) + 0) - 8) \div (w + 1) = n - 1
    BY <1>1
  <2> QED BY <2>1
<1>2. CASE w = 8
  <2>1. ((8 + (n - 1) * (w + 1) + 0) - 8) \div (w + 1) = n - 1
    BY <1>2
  <2> QED BY <2>1
<1> QED BY <1>1, <1>2

(* Whatever happened to a state on its way, it is well laid if it is       *)
(* accepted: state_error misses nothing that a read relies on.             *)
LEMMA AcceptedIsLaid ==
  ASSUME NEW r, PackOK(r, "little"), NEW x \in Alterations(r), state_valid(x, "little")
  PROVE  PackOK(x, "little")
<1> PICK n \in 0 .. MaxLen : n = r.n /\ r \in PackOf(n)
  BY Spans
<1>1. /\ n \in Nat /\ n <= MaxLen
      /\ r.ends \in [0 .. n-1 -> Nat] /\ r.tags \in [0 .. n-1 -> TagByte]
      /\ r.bytes \in Str /\ r.wide \in BOOLEAN /\ r.order = "little"
  BY CharpackAssumption DEF PackOf, PackOK, well_laid
<1>2. Len(r.bytes) \in Nat
  BY <1>1, LenProperties DEF Str
<1>3. /\ raw_bytes(r) <= MaxRaw
      /\ ~ r.wide => Len(r.bytes) < NarrowMod
      /\ Len(r.bytes) = IF n = 0 THEN 0 ELSE r.ends[n-1]
  BY DEF PackOK, well_laid
<1>4. offset_bytes(r.wide) \in {4, 8}
  BY DEF offset_bytes
<1> PICK meta \in Nat : meta = 8 + n * (offset_bytes(r.wide) + 1)
  BY <1>1, <1>4
<1>10. raw_bytes(r) = meta + Len(r.bytes)
  BY <1>1, CountRecords DEF raw_bytes, header_bytes
<1>5. CASE x = [r EXCEPT !.bytes = SubSeq(@, 1, Len(@) - 1)]
  <2> PICK b : b = SubSeq(r.bytes, 1, Len(r.bytes) - 1)
    OBVIOUS
  <2>1. b \in Str /\ Len(b) \in Nat /\ Len(b) <= Len(r.bytes)
    <3>1. CASE Len(r.bytes) = 0
      <4>1. PICK e \in Int : e = Len(r.bytes) - 1 /\ e < 1
        BY ONLY <1>2, <3>1
      <4>2. SubSeq(r.bytes, 1, e) = << >>
        <5>1. 1 \in Int
          OBVIOUS
        <5> QED BY ONLY <4>1, <5>1, e \in Int, SubSeqEmpty
      <4>3. << >> \in Str /\ Len(<< >>) = 0
        BY EmptySeq DEF Str
      <4>4. b = << >>
        BY <4>1, <4>2
      <4> QED BY ONLY <3>1, <4>3, <4>4
    <3>2. CASE Len(r.bytes) # 0
      <4> PICK e \in Nat : e = Len(r.bytes) - 1
        BY ONLY <1>2, <3>2
      <4>1. 0 \in Nat /\ 0 <= e /\ e <= Len(r.bytes) /\ e - 0 = e /\ 0 + 1 = 1
        BY <1>2
      <4>2. SubSeq(r.bytes, 0 + 1, e) \in Str /\ Len(SubSeq(r.bytes, 0 + 1, e)) = e - 0
        BY <1>1, <4>1, Cut
      <4> QED BY <4>1, <4>2
    <3> QED BY <3>1, <3>2
  <2>2. /\ x \in PackOf(n) /\ x.order = "little" /\ x.bytes = b
        /\ x.ends = r.ends /\ x.wide = r.wide
    BY <1>1, <1>5, <2>1 DEF PackOf
  <2>3. raw_bytes(x) = meta + Len(b)
    BY <1>1, <2>2, CountRecords DEF raw_bytes, header_bytes
  <2>4. raw_bytes(x) <= MaxRaw /\ (~ x.wide => Len(x.bytes) < NarrowMod)
    BY <1>2, <1>3, <1>10, <2>1, <2>2, <2>3, PackLayoutAssumption
  <2> QED BY <2>2, <2>4, Checked
<1>6. CASE x = [r EXCEPT !.ends = Restrict(@, 0 .. r.n-2), !.tags = Restrict(@, 0 .. r.n-2),
                         !.bytes = << >>]
  <2> PICK ends, tags : ends = Restrict(r.ends, 0 .. n-2) /\ tags = Restrict(r.tags, 0 .. n-2)
    OBVIOUS
  <2>1. /\ x = [r EXCEPT !.ends = ends, !.tags = tags, !.bytes = << >>]
        /\ DOMAIN ends = 0 .. n-2
    BY <1>6 DEF Restrict
  <2>2. x.ends = ends /\ x.bytes = << >> /\ x.order = r.order /\ x.wide = r.wide /\ x.n = n
    BY <2>1 DEF PackOf
  <2>3. Len(<< >>) = 0 /\ << >> \in Str
    BY EmptySeq DEF Str
  <2>4. CASE n = 0
    <3>1. ends \in [0 .. n-1 -> Nat] /\ tags \in [0 .. n-1 -> TagByte]
      BY <2>4 DEF Restrict
    <3>2. x \in PackOf(n)
      BY <2>1, <2>3, <3>1 DEF PackOf
    <3>3. raw_bytes(x) = 8
      <4>1. DOMAIN x.ends = 0 .. n-1 /\ Cardinality(DOMAIN x.ends) = 0
        BY <2>2, <2>4, <3>1, CountRecords
      <4> QED BY <2>2, <2>3, <4>1 DEF raw_bytes, header_bytes, offset_bytes
    <3> QED BY <1>1, <2>2, <2>3, <3>2, <3>3, Checked, PackLayoutAssumption
  <2>5. CASE n # 0
    <3>1. n - 1 \in Nat /\ (n - 1) - 1 = n - 2
      BY <2>5
    <3>2. Cardinality(DOMAIN x.ends) = n - 1
      BY <2>1, <2>2, <3>1, CountRecords
    <3>3. raw_bytes(x) = 8 + (n - 1) * (offset_bytes(x.wide) + 1) + 0
      BY <2>2, <2>3, <3>2 DEF raw_bytes, header_bytes
    <3>4. n > (raw_bytes(x) - 8) \div (offset_bytes(x.wide) + 1)
      BY <1>4, <2>2, <2>5, <3>3, FewerEnds
    <3> QED BY <2>2, <3>4 DEF state_valid, truncated, header_bytes
  <2> QED BY <2>4, <2>5
<1>7. ASSUME NEW b \in Byte, x = [r EXCEPT !.bytes = Append(@, b)]
      PROVE  FALSE
  <2>1. x.bytes = Append(r.bytes, b) /\ x.n = n /\ x.ends = r.ends
    BY <1>7 DEF PackOf
  <2>2. Len(x.bytes) = Len(r.bytes) + 1
    BY <1>1, <2>1, AppendProperties DEF Str
  <2> QED BY <1>2, <1>3, <2>1, <2>2 DEF state_valid
<1>8. ASSUME NEW i \in DOMAIN r.ends, NEW e \in 0 .. Len(r.bytes) + 1,
             x = [r EXCEPT !.ends[i] = e]
      PROVE  PackOK(x, "little")
  <2> PICK ends : ends = [r.ends EXCEPT ![i] = e]
    OBVIOUS
  <2>1. ends \in [0 .. n-1 -> Nat] /\ x = [r EXCEPT !.ends = ends]
    BY <1>1, <1>2, <1>8
  <2>2. /\ x \in PackOf(n) /\ x.order = "little" /\ x.bytes = r.bytes
        /\ x.ends = ends /\ x.wide = r.wide
    BY <1>1, <2>1 DEF PackOf
  <2>3. raw_bytes(x) = raw_bytes(r)
    BY <1>1, <2>1, <2>2 DEF raw_bytes
  <2> QED BY <1>3, <2>2, <2>3, Checked
<1>9. ASSUME NEW i \in DOMAIN r.tags, NEW t \in {"NA", "other"}, x = [r EXCEPT !.tags[i] = t]
      PROVE  PackOK(x, "little")
  <2> PICK tags : tags = [r.tags EXCEPT ![i] = t]
    OBVIOUS
  <2>1. tags \in [0 .. n-1 -> TagByte] /\ x = [r EXCEPT !.tags = tags]
    BY <1>1, <1>9 DEF TagByte
  <2>2. /\ x \in PackOf(n) /\ x.order = "little" /\ x.bytes = r.bytes
        /\ x.ends = r.ends /\ x.wide = r.wide
    BY <1>1, <2>1 DEF PackOf
  <2>3. raw_bytes(x) = raw_bytes(r)
    BY <2>2 DEF raw_bytes
  <2> QED BY <1>3, <2>2, <2>3, Checked
<1> QED BY <1>5, <1>6, <1>7, <1>8, <1>9 DEF Alterations

-----------------------------------------------------------------------------
(* The invariant.                                                          *)

IsStrings(x) == \E n \in 0 .. MaxLen : x \in [0 .. n-1 -> CHARSXP]

(* A vector alone: at most one of data1 and data2 is there, and what is    *)
(* there can be read.                                                      *)
VecOK(v) ==
  /\ data2[v] = Nil \/ IsStrings(data2[v])
  /\ Filled(v) => IsPack(v) /\ data2[v] = Nil
  /\ IF cls[v] = "none" THEN data2[v] = Nil /\ home[v] = Nil ELSE home[v] \in Session
  /\ Filled(v) => PackOK(raw[data1[v]], HostOrder(home[v]))

Shape ==
  /\ cls \in [Vec -> {"none", "charpack", "plain"}]
  /\ data1 \in [Vec -> Raw \cup {NoRaw}]
  /\ home \in [Vec -> Session \cup {Nil}]
  /\ DOMAIN data2 = Vec /\ DOMAIN raw = Raw
  /\ native \in [Session -> Charset]
  /\ seen \subseteq Vec

Undamaged(t) == t.texts # Damaged

(* An ordinary state in transit.                                           *)
PlainState(t) ==
  /\ IsStrings(t.state)
  /\ Undamaged(t) => t.texts = [i \in DOMAIN t.state |-> Text(t.state[i], t.native)]

(* A packed one is well laid if it is accepted, and until it is altered;   *)
(* then a native tag in it was written where native is UTF-8.              *)
PackedState(t) ==
  /\ state_valid(t.state, "little") => PackOK(t.state, "little")
  /\ Undamaged(t) =>
       /\ PackOK(t.state, "little")
       /\ has_native(t.state) => t.native = "utf8"
       /\ t.texts = [i \in 0 .. t.state.n-1 |-> Text(packed_strings(t.state)[i], t.native)]

StreamOK ==
  stream # NoStream =>
    /\ DOMAIN stream = {"packed", "state", "native", "texts"}
    /\ stream.native \in Charset
    /\ stream.packed => PackedState(stream)
    /\ ~ stream.packed => PlainState(stream)

IInv == Shape /\ (\A v \in Vec : VecOK(v)) /\ StreamOK

(* The invariants that the runs check.                                     *)
LEMMA Established == IInv => TypeOK /\ LayoutOK
<1> SUFFICES ASSUME IInv PROVE TypeOK /\ LayoutOK
  OBVIOUS
<1>1. ASSUME NEW v \in Vec
      PROVE  /\ data2[v] = Nil \/ \E n \in 0 .. MaxLen : data2[v] \in [0 .. n-1 -> CHARSXP]
             /\ data1[v] # NoRaw => IsPack(v) /\ data2[v] = Nil
             /\ IF cls[v] = "none" THEN data2[v] = Nil /\ home[v] = Nil
                ELSE home[v] \in Session
             /\ Filled(v) => well_laid(raw[data1[v]], HostOrder(home[v]))
  BY DEF IInv, VecOK, IsStrings, PackOK, Filled
<1> QED BY <1>1 DEF IInv, Shape, TypeOK, LayoutOK

-----------------------------------------------------------------------------
(* The strings of a vector.                                                *)

LEMMA MakeType ==
  ASSUME NEW view \in View
  PROVE  make_charsxp(view) \in CHARSXP
<1>1. CASE view.enc = "NA"
  BY <1>1 DEF make_charsxp, CHARSXP
<1>2. CASE view.enc # "NA"
  <2>1. view.bytes \in Str /\ to_base_encoding(view.enc) \in Mark
    BY <1>2 DEF View, to_base_encoding, Mark
  <2>2. "native" \in Mark
    BY DEF Mark
  <2> QED
    BY <1>2, <2>1, <2>2 DEF make_charsxp, Rf_mkCharLenCE, CHARSXP
<1> QED BY <1>1, <1>2

LEMMA PackedStrings ==
  ASSUME NEW r, NEW order, PackOK(r, order)
  PROVE  /\ packed_strings(r) \in [0 .. r.n-1 -> CHARSXP]
         /\ IsStrings(packed_strings(r))
<1>1. \A i \in 0 .. r.n-1 : make_charsxp(record_view(r, i)) \in CHARSXP
  BY ViewOfRecord, MakeType
<1>2. packed_strings(r) \in [0 .. r.n-1 -> CHARSXP]
  BY <1>1 DEF packed_strings
<1> QED BY <1>2, Spans DEF IsStrings

LEMMA EmptyStrings ==
  ASSUME NEW x \in CHARSXP
  PROVE  IsStrings([i \in {} |-> x])
<1>1. 0 \in 0 .. MaxLen /\ 0 .. 0-1 = {}
  BY CharpackAssumption
<1>2. [i \in {} |-> x] \in [{} -> CHARSXP]
  OBVIOUS
<1> QED BY <1>1, <1>2 DEF IsStrings

LEMMA StringsOf ==
  ASSUME NEW v \in Vec, VecOK(v)
  PROVE  IsStrings(strings(v))
<1>1. CASE data2[v] # Nil
  BY <1>1 DEF strings, VecOK
<1>2. CASE data2[v] = Nil /\ Filled(v)
  BY <1>2, PackedStrings DEF strings, VecOK
<1>3. CASE data2[v] = Nil /\ ~ Filled(v)
  <2>1. NA_STRING \in CHARSXP
    BY DEF CHARSXP
  <2> QED BY <1>3, <2>1, EmptyStrings DEF strings
<1> QED BY <1>1, <1>2, <1>3

LEMMA NotNil ==
  ASSUME NEW x, IsStrings(x)
  PROVE  x # Nil
BY CharpackAssumption DEF IsStrings

-----------------------------------------------------------------------------
(* What a step leaves alone of a vector.                                   *)

Kept(u) ==
  /\ cls'[u] = cls[u] /\ home'[u] = home[u]
  /\ data1'[u] = data1[u] /\ data2'[u] = data2[u]
  /\ Filled(u) => raw'[data1[u]] = raw[data1[u]]

OnlyAt(w) == \A u \in Vec \ {w} : Kept(u)

LEMMA Frame ==
  ASSUME NEW u \in Vec, VecOK(u), Kept(u)
  PROVE  /\ VecOK(u)'
         /\ Filled(u)' <=> Filled(u)
         /\ strings(u)' = strings(u)
         /\ Value(u)' = Value(u)
<1>1. Filled(u)' <=> Filled(u)
  BY DEF Kept, Filled
<1>2. VecOK(u)'
  BY <1>1 DEF Kept, VecOK, IsPack, Filled
<1>3. strings(u)' = strings(u)
  BY <1>1 DEF Kept, strings, Filled
<1>4. Value(u)' = Value(u)
  BY <1>3 DEF Kept, Value, Unfilled, IsPack
<1> QED BY <1>1, <1>2, <1>3, <1>4

(* A step that works on one vector and leaves the stream alone.            *)
LEMMA OneVector ==
  ASSUME IInv, NEW w \in Vec, Shape', VecOK(w)', OnlyAt(w), stream' = stream
  PROVE  IInv'
<1>1. \A u \in Vec : VecOK(u)'
  BY Frame DEF IInv, OnlyAt
<1>2. StreamOK'
  BY DEF IInv, StreamOK, PackedState, PlainState, Undamaged
<1> QED BY <1>1, <1>2 DEF IInv

(* An ordinary vector under an unused handle.                              *)
LEMMA PlainMade ==
  ASSUME IInv, NEW w \in Vec, cls[w] = "none", NEW s, IsStrings(s), NewPlain(w, s),
         NEW h \in Session, home' = [home EXCEPT ![w] = h],
         native' = native, seen' \subseteq Vec
  PROVE  Shape' /\ VecOK(w)' /\ OnlyAt(w) /\ Value(w) = Nil /\ Value(w)' = s
<1>1. Shape /\ VecOK(w) /\ data1[w] = NoRaw /\ Value(w) = Nil
  BY DEF IInv, VecOK, Filled, IsPack, Value
<1>2. /\ cls' = [cls EXCEPT ![w] = "plain"] /\ data2' = [data2 EXCEPT ![w] = s]
      /\ data1' = data1 /\ raw' = raw
  BY DEF NewPlain
<1>3. Shape'
  BY <1>1, <1>2 DEF Shape
<1>4. /\ cls'[w] = "plain" /\ data2'[w] = s /\ home'[w] = h /\ data1'[w] = NoRaw
      /\ s # Nil
  BY <1>1, <1>2, NotNil DEF Shape
<1>5. VecOK(w)'
  BY <1>4 DEF VecOK, Filled
<1>6. OnlyAt(w)
  BY <1>2 DEF OnlyAt, Kept
<1>7. Value(w)' = s
  BY <1>4 DEF Value, Unfilled, IsPack, strings
<1> QED BY <1>1, <1>3, <1>5, <1>6, <1>7

(* A raw vector installed in a placeholder or under an unused handle.      *)
LEMMA PackMade ==
  ASSUME IInv, NEW w \in Vec, data1[w] = NoRaw, data2[w] = Nil,
         NEW r \in FreeRaw, NEW c, NewPack(w, r, c),
         NEW h \in Session, home' = [home EXCEPT ![w] = h],
         PackOK(c, HostOrder(h)), native' = native, seen' \subseteq Vec
  PROVE  Shape' /\ VecOK(w)' /\ OnlyAt(w) /\ Value(w)' = packed_strings(c)
<1>1. Shape /\ r \in Raw /\ r # NoRaw /\ \A u \in Vec : data1[u] # r
  BY CharpackAssumption DEF IInv, FreeRaw
<1>2. /\ cls' = [cls EXCEPT ![w] = "charpack"] /\ data1' = [data1 EXCEPT ![w] = r]
      /\ raw' = [raw EXCEPT ![r] = c] /\ data2' = data2
  BY DEF NewPack
<1>3. Shape'
  BY <1>1, <1>2 DEF Shape
<1>4. /\ cls'[w] = "charpack" /\ data2'[w] = Nil /\ home'[w] = h /\ data1'[w] = r
      /\ raw'[r] = c
  BY <1>1, <1>2 DEF Shape
<1>5. VecOK(w)'
  BY <1>1, <1>4 DEF VecOK, Filled, IsPack, HostOrder
<1>6. OnlyAt(w)
  BY <1>1, <1>2 DEF OnlyAt, Kept, Filled, Shape
<1>7. Value(w)' = packed_strings(c)
  BY <1>1, <1>4 DEF Value, Unfilled, IsPack, strings, Filled
<1> QED BY <1>3, <1>5, <1>6, <1>7

(* data1 let go.                                                           *)
LEMMA Dropped ==
  ASSUME IInv, NEW v \in Vec, DropData1(v)
  PROVE  /\ data1' \in [Vec -> Raw \cup {NoRaw}] /\ DOMAIN raw' = Raw /\ data1'[v] = NoRaw
         /\ \A u \in Vec \ {v} : /\ data1'[u] = data1[u]
                                 /\ Filled(u) => raw'[data1[u]] = raw[data1[u]]
<1>1. Shape /\ data1' = [data1 EXCEPT ![v] = NoRaw]
  BY DEF IInv, DropData1
<1>2. data1' \in [Vec -> Raw \cup {NoRaw}] /\ data1'[v] = NoRaw
  BY <1>1 DEF Shape
<1>3. DOMAIN raw' = Raw
  BY <1>1 DEF Shape, DropData1
<1>4. ASSUME NEW u \in Vec \ {v}
      PROVE  data1'[u] = data1[u] /\ (Filled(u) => raw'[data1[u]] = raw[data1[u]])
  <2>1. data1'[u] = data1[u]
    BY <1>1 DEF Shape
  <2>2. CASE raw' = raw
    BY <2>1, <2>2
  <2>3. CASE /\ raw' = [raw EXCEPT ![data1[v]] = Blank]
             /\ \A x \in Vec \ {v} : data1[x] # data1[v]
    <3>1. Filled(u) => data1[u] \in DOMAIN raw /\ data1[u] # data1[v]
      BY <1>1, <2>3 DEF Shape, Filled
    <3> QED BY <2>1, <2>3, <3>1
  <2> QED BY <2>2, <2>3 DEF DropData1
<1> QED BY <1>2, <1>3, <1>4

-----------------------------------------------------------------------------
(* One lemma per operation: it keeps the invariant and the raw vectors     *)
(* that are installed, and what it does to the value of its vector.        *)

Immutable(u) ==
  Filled(u) /\ Filled(u)' => data1'[u] = data1[u] /\ raw'[data1[u]] = raw[data1[u]]

Stepped == IInv' /\ \A u \in Vec : Immutable(u)

LEMMA Stepping ==
  ASSUME IInv, NEW w \in Vec, Shape', VecOK(w)', OnlyAt(w), stream' = stream,
         ~ Filled(w) \/ ~ Filled(w)'
  PROVE  /\ Stepped
         /\ \A u \in Vec \ {w} : Value(u)' = Value(u)
<1>1. IInv'
  BY OneVector
<1>2. \A u \in Vec : Immutable(u)
  BY DEF Immutable, OnlyAt, Kept
<1>3. \A u \in Vec \ {w} : Value(u)' = Value(u)
  BY Frame DEF IInv, OnlyAt
<1> QED BY <1>1, <1>2, <1>3 DEF Stepped

(* The value of a vector.                                                  *)
LEMMA ValueOf ==
  ASSUME IInv, NEW v \in Vec
  PROVE  /\ Value(v) = IF cls[v] = "none" \/ Unfilled(v) THEN Nil ELSE strings(v)
         /\ IsStrings(strings(v)) /\ strings(v) # Nil
         /\ cls[v] = "none" \/ Unfilled(v) <=> data1[v] = NoRaw /\ data2[v] = Nil /\ cls[v] # "plain"
         /\ cls[v] = "plain" => data1[v] = NoRaw
         /\ Filled(v) => /\ strings(v) = packed_strings(raw[data1[v]])
                         /\ cls[v] = "charpack" /\ data2[v] = Nil /\ home[v] \in Session
                         /\ PackOK(raw[data1[v]], HostOrder(home[v]))
<1>1. Shape /\ VecOK(v) /\ cls[v] \in {"none", "charpack", "plain"}
  BY DEF IInv, Shape
<1>2. IsStrings(strings(v)) /\ strings(v) # Nil
  BY <1>1, StringsOf, NotNil
<1>3. cls[v] = "plain" => data1[v] = NoRaw
  BY <1>1 DEF VecOK, Filled, IsPack
<1>4. cls[v] = "none" \/ Unfilled(v) <=> data1[v] = NoRaw /\ data2[v] = Nil /\ cls[v] # "plain"
  BY <1>1 DEF VecOK, Filled, IsPack, Unfilled
<1>5. Filled(v) => /\ strings(v) = packed_strings(raw[data1[v]])
                   /\ cls[v] = "charpack" /\ data2[v] = Nil /\ home[v] \in Session
                   /\ PackOK(raw[data1[v]], HostOrder(home[v]))
  BY <1>1 DEF VecOK, strings, IsPack
<1> QED BY <1>2, <1>3, <1>4, <1>5 DEF Value

LEMMA PlaceholderStep ==
  ASSUME IInv, NEW w \in Vec, Placeholder(w)
  PROVE  Stepped /\ \A u \in Vec : Value(u)' = Value(u)
<1>1. PICK s \in Session : home' = [home EXCEPT ![w] = s]
  BY DEF Placeholder
<1>2. /\ cls[w] = "none" /\ cls' = [cls EXCEPT ![w] = "charpack"]
      /\ UNCHANGED <<data1, data2, raw, native, stream, seen>>
  BY DEF Placeholder
<1>3. Shape /\ VecOK(w) /\ data1[w] = NoRaw /\ data2[w] = Nil
  BY <1>2 DEF IInv, VecOK, Filled, IsPack
<1>4. Shape'
  BY <1>1, <1>2, <1>3 DEF Shape
<1>5. cls'[w] = "charpack" /\ home'[w] = s /\ data1'[w] = NoRaw /\ data2'[w] = Nil
  BY <1>1, <1>2, <1>3 DEF Shape
<1>6. VecOK(w)'
  BY <1>5 DEF VecOK, Filled
<1>7. OnlyAt(w)
  BY <1>1, <1>2 DEF OnlyAt, Kept
<1>8. ~ Filled(w)
  BY <1>3 DEF Filled
<1>9. Stepped /\ \A u \in Vec \ {w} : Value(u)' = Value(u)
  BY <1>2, <1>4, <1>6, <1>7, <1>8, Stepping
<1>10. Value(w)' = Nil /\ Value(w) = Nil
  BY <1>2, <1>5 DEF Value, Unfilled, IsPack
<1> QED BY <1>9, <1>10

(* What a step that makes a vector of new strings does.                    *)
Created(w) ==
  /\ Stepped
  /\ \A u \in Vec \ {w} : Value(u)' = Value(u)
  /\ Value(w) = Nil /\ IsStrings(Value(w)')
  /\ ret' = NewStrings

LEMMA UnfilledFacts ==
  ASSUME IInv, NEW v \in Vec, Unfilled(v)
  PROVE  /\ data1[v] = NoRaw /\ data2[v] = Nil /\ cls[v] = "charpack"
         /\ home[v] \in Session /\ home = [home EXCEPT ![v] = home[v]]
         /\ Value(v) = Nil /\ ~ Filled(v)
<1>1. data1[v] = NoRaw /\ data2[v] = Nil /\ cls[v] = "charpack" /\ ~ Filled(v)
  BY DEF Unfilled, IsPack, Filled
<1>2. home[v] \in Session
  BY <1>1 DEF IInv, VecOK
<1>3. home = [home EXCEPT ![v] = home[v]]
  BY DEF IInv, Shape
<1>4. Value(v) = Nil
  BY DEF Value
<1> QED BY <1>1, <1>2, <1>3, <1>4

LEMMA FillStep ==
  ASSUME IInv, NEW v \in Vec, Unfilled(v), NEW n \in 0 .. MaxLen, NEW recs, NEW bytes,
         RecordsOK(recs, n), bytes \in Str, Len(bytes) = payload_of(recs),
         Fill(v, n, recs, bytes)
  PROVE  Created(v)
<1>1. PICK r \in FreeRaw, force_wide \in ForceWide :
        LET wide == force_wide \/ needs_wide(payload_of(recs)) IN
        /\ total_bytes(n, payload_of(recs), wide) # 0
        /\ NewPack(v, r, alloc_data1(HostOrder(home[v]), n, recs, wide, bytes))
  BY DEF Fill
<1> PICK wide \in BOOLEAN : wide = (force_wide \/ needs_wide(payload_of(recs)))
  OBVIOUS
<1> PICK c : c = alloc_data1(HostOrder(home[v]), n, recs, wide, bytes)
  OBVIOUS
<1>2. total_bytes(n, payload_of(recs), wide) # 0 /\ NewPack(v, r, c)
  BY <1>1
<1>3. AllocArgs(HostOrder(home[v]), n, recs, wide, bytes)
  BY <1>2, HostOrders DEF AllocArgs
<1>4. PackOK(c, HostOrder(home[v]))
  BY <1>3, AllocOK
<1>5. /\ data1[v] = NoRaw /\ data2[v] = Nil /\ home[v] \in Session
      /\ home = [home EXCEPT ![v] = home[v]]
      /\ Value(v) = Nil /\ ~ Filled(v)
  BY UnfilledFacts
<1>6. /\ home' = home /\ native' = native /\ stream' = stream /\ ret' = NewStrings
      /\ seen' \subseteq Vec
  BY DEF Fill, IInv, Shape
<1>7. home' = [home EXCEPT ![v] = home[v]]
  BY <1>5, <1>6
<1>8. Shape' /\ VecOK(v)' /\ OnlyAt(v) /\ Value(v)' = packed_strings(c)
  BY <1>2, <1>4, <1>5, <1>6, <1>7, PackMade
<1>9. Stepped /\ \A u \in Vec \ {v} : Value(u)' = Value(u)
  BY <1>5, <1>6, <1>8, Stepping
<1> QED BY <1>4, <1>5, <1>6, <1>8, <1>9, PackedStrings DEF Created

LEMMA fill_viewsStep ==
  ASSUME IInv, NEW v \in Vec, fill_views(v)
  PROVE  Created(v)
<1>1. PICK n \in 0 .. MaxLen : \E vw \in [0 .. n-1 -> InputView] :
        Fill(v, n, [i \in 0 .. n-1 |-> record_of(vw[i])], joined(n, vw))
  BY DEF fill_views
<1>2. PICK vw \in [0 .. n-1 -> InputView] : Fill(v, n, ViewRecords(vw, n), joined(n, vw))
  BY <1>1 DEF ViewRecords
<1>3. n \in Nat /\ ViewsOK(vw, n)
  BY CharpackAssumption DEF ViewsOK
<1>4. /\ RecordsOK(ViewRecords(vw, n), n)
      /\ joined(n, vw) \in Str /\ Len(joined(n, vw)) = payload_of(ViewRecords(vw, n))
  BY <1>3, RecordsOfViews, JoinedViews
<1>5. Unfilled(v)
  BY DEF fill_views
<1> QED BY <1>2, <1>4, <1>5, FillStep

LEMMA SlicesJoined ==
  ASSUME NEW slices \in Seq(Str)
  PROVE  FlattenSeq(slices) \in Str
<1>1. PICK n \in Nat : n = Len(slices) /\ slices \in [1 .. n -> Str]
  BY LenProperties
<1>2. CASE n = 0
  <2>1. slices \in Str /\ FlattenSeq(slices) = slices
    BY <1>1, <1>2, SequenceOf DEF FlattenSeq, Str
  <2> QED BY <2>1
<1>3. CASE n # 0
  <2>0. slices \in [1 .. n -> Str]
    BY <1>1
  <2>1. PICK g : /\ g \in [1 .. n -> Str]
                 /\ g[1] = slices[1]
                 /\ \A k \in 2 .. n : g[k] = g[k-1] \o slices[k]
                 /\ FlattenSeq(slices) = g[n]
    BY ONLY <1>3, <2>0, n \in Nat, FlattenRecursion
  <2>2. n \in 1 .. n
    BY <1>3
  <2> QED BY <2>1, <2>2
<1> QED BY <1>2, <1>3

LEMMA fill_slicesStep ==
  ASSUME IInv, NEW v \in Vec, fill_slices(v)
  PROVE  Created(v)
<1>1. PICK n \in 0 .. MaxLen : \E recs \in [0 .. n-1 -> InputRecord] : \E slices \in InputSlices :
        /\ records_valid(recs) /\ slices_fit(recs, slices)
        /\ Fill(v, n, recs, FlattenSeq(slices))
  BY DEF fill_slices
<1>2. PICK recs \in [0 .. n-1 -> InputRecord], slices \in InputSlices :
        /\ records_valid(recs) /\ slices_fit(recs, slices)
        /\ Fill(v, n, recs, FlattenSeq(slices))
  BY <1>1
<1>3. RecordsOK(recs, n)
  BY <1>2, CharpackAssumption DEF RecordsOK
<1>4. FlattenSeq(slices) \in Str /\ Len(FlattenSeq(slices)) = payload_of(recs)
  BY <1>2, CharpackAssumption, SlicesJoined DEF slices_fit
<1>5. Unfilled(v)
  BY DEF fill_slices
<1> QED BY <1>2, <1>3, <1>4, <1>5, FillStep

(* Any strings, as data2 of a charpack or an ordinary vector.              *)
LEMMA Data2Made ==
  ASSUME IInv, NEW v \in Vec, cls[v] # "none", NEW s, IsStrings(s),
         data2' = [data2 EXCEPT ![v] = s], DropData1(v), cls' = cls, home' = home,
         native' = native, stream' = stream, seen' \subseteq Vec
  PROVE  Stepped /\ Value(v)' = s /\ \A u \in Vec \ {v} : Value(u)' = Value(u)
<1>1. Shape /\ VecOK(v) /\ s # Nil
  BY NotNil DEF IInv
<1>2. /\ data1' \in [Vec -> Raw \cup {NoRaw}] /\ DOMAIN raw' = Raw /\ data1'[v] = NoRaw
      /\ \A u \in Vec \ {v} : /\ data1'[u] = data1[u]
                              /\ Filled(u) => raw'[data1[u]] = raw[data1[u]]
  BY Dropped
<1>3. Shape'
  BY <1>1, <1>2 DEF Shape
<1>4. data2'[v] = s /\ cls'[v] = cls[v] /\ home'[v] = home[v] /\ ~ Filled(v)'
  BY <1>1, <1>2 DEF Shape, Filled
<1>5. VecOK(v)'
  BY <1>1, <1>4 DEF VecOK
<1>6. OnlyAt(v)
  BY <1>2 DEF OnlyAt, Kept
<1>7. Value(v)' = s
  BY <1>1, <1>4 DEF Value, Unfilled, strings
<1> QED BY <1>3, <1>4, <1>5, <1>6, <1>7, Stepping

LEMMA fill_materialized_naStep ==
  ASSUME IInv, NEW v \in Vec, fill_materialized_na(v)
  PROVE  Created(v)
<1>1. PICK n \in 0 .. MaxLen : data2' = [data2 EXCEPT ![v] = [i \in 0 .. n-1 |-> NA_STRING]]
  BY DEF fill_materialized_na
<1> PICK s : s = [i \in 0 .. n-1 |-> NA_STRING]
  OBVIOUS
<1>2. IsStrings(s)
  BY DEF IsStrings, CHARSXP
<1>3. /\ data1[v] = NoRaw /\ cls[v] = "charpack" /\ Value(v) = Nil /\ ~ Filled(v)
  BY UnfilledFacts DEF fill_materialized_na
<1>4. /\ UNCHANGED <<home, cls, data1, raw, native, stream>> /\ ret' = NewStrings
      /\ seen' \subseteq Vec
  BY DEF fill_materialized_na, IInv, Shape
<1>5. DropData1(v)
  BY <1>3, <1>4 DEF DropData1, IInv, Shape
<1>6. Stepped /\ Value(v)' = s /\ \A u \in Vec \ {v} : Value(u)' = Value(u)
  BY <1>1, <1>2, <1>3, <1>4, <1>5, Data2Made
<1> QED BY <1>2, <1>3, <1>4, <1>6 DEF Created

LEMMA MaterializeStep ==
  ASSUME IInv, NEW v \in Vec, cls[v] # "none", NEW s, IsStrings(s), Materialize(v, s)
  PROVE  Stepped /\ Value(v)' = s /\ \A u \in Vec \ {v} : Value(u)' = Value(u)
<1>1. /\ data2' = [data2 EXCEPT ![v] = s] /\ DropData1(v) /\ cls' = cls /\ home' = home
      /\ native' = native /\ stream' = stream /\ seen' \subseteq Vec
  BY DEF Materialize, IInv, Shape
<1> QED BY <1>1, Data2Made

(* What a step that leaves every vector alone does.                        *)
Stays == Stepped /\ \A u \in Vec : Value(u)' = Value(u)

LEMMA UnchangedStep ==
  ASSUME IInv, UNCHANGED <<home, cls, data1, data2, raw>>, StreamOK',
         native' \in [Session -> Charset], seen' \subseteq Vec
  PROVE  Stays
<1>1. Shape'
  BY DEF IInv, Shape
<1>2. \A u \in Vec : Kept(u)
  BY DEF Kept
<1>3. \A u \in Vec : VecOK(u)' /\ Value(u)' = Value(u)
  BY <1>2, Frame DEF IInv
<1>4. \A u \in Vec : Immutable(u)
  BY DEF Immutable
<1> QED BY <1>1, <1>3, <1>4 DEF IInv, Stepped, Stays

LEMMA SameStream ==
  ASSUME IInv, stream' = stream
  PROVE  StreamOK'
BY DEF IInv, StreamOK, PackedState, PlainState, Undamaged

(* A vector that has an element is not a placeholder.                      *)
LEMMA Indexed ==
  ASSUME IInv, NEW v \in Vec, NEW i \in DOMAIN strings(v)
  PROVE  /\ cls[v] # "none" /\ ~ Unfilled(v)
         /\ Value(v) = strings(v) /\ Value(v) # Nil
         /\ IsStrings(strings(v)) /\ strings(v)[i] \in CHARSXP
<1>1. /\ Value(v) = IF cls[v] = "none" \/ Unfilled(v) THEN Nil ELSE strings(v)
      /\ IsStrings(strings(v)) /\ strings(v) # Nil
      /\ cls[v] = "none" \/ Unfilled(v) <=> data1[v] = NoRaw /\ data2[v] = Nil /\ cls[v] # "plain"
  BY ValueOf
<1>2. CASE data1[v] = NoRaw /\ data2[v] = Nil
  <2>1. strings(v) = [j \in {} |-> NA_STRING]
    BY <1>2 DEF strings, Filled
  <2> QED BY <2>1
<1>3. CASE ~ (data1[v] = NoRaw /\ data2[v] = Nil)
  BY <1>1, <1>3 DEF IsStrings
<1> QED BY <1>2, <1>3

LEMMA No_NAStep ==
  ASSUME IInv, NEW v \in Vec, No_NA(v)
  PROVE  Stays /\ ret' = NoResult
<1>1. seen' \subseteq Vec /\ native' \in [Session -> Charset]
  BY DEF No_NA, Seen, IInv, Shape
<1> QED BY <1>1, SameStream, UnchangedStep DEF No_NA

LEMMA SetLocaleStep ==
  ASSUME IInv, NEW s \in Session, SetLocale(s)
  PROVE  Stays /\ ret' = NoResult
<1>1. seen' \subseteq Vec /\ native' \in [Session -> Charset]
  BY DEF SetLocale, IInv, Shape
<1> QED BY <1>1, SameStream, UnchangedStep DEF SetLocale

(* A read answers the vector's current string.                             *)
WasRead(v, i) == Value(v) # Nil /\ i \in DOMAIN Value(v) /\ ret' = <<"read", v, i, Value(v)[i]>>

LEMMA reader_strviewStep ==
  ASSUME IInv, NEW v \in Vec, NEW i \in DOMAIN strings(v), reader_strview(v, i)
  PROVE  Stays /\ WasRead(v, i)
<1>1. seen' \subseteq Vec /\ native' \in [Session -> Charset]
  BY DEF reader_strview, IInv, Shape
<1>2. Stays
  BY <1>1, SameStream, UnchangedStep DEF reader_strview
<1>3. Value(v) = strings(v) /\ Value(v) # Nil
  BY Indexed
<1>4. strings(v) = packed_strings(raw[data1[v]])
  BY ValueOf DEF reader_strview
<1>5. strings(v)[i] = make_charsxp(record_view(raw[data1[v]], i))
  BY <1>4 DEF packed_strings
<1> QED BY <1>2, <1>3, <1>5 DEF reader_strview, WasRead

LEMMA EltStep ==
  ASSUME IInv, NEW v \in Vec, NEW i \in DOMAIN strings(v), Elt(v, i)
  PROVE  Stays /\ WasRead(v, i)
<1>1. /\ cls[v] # "none" /\ Value(v) = strings(v) /\ Value(v) # Nil
      /\ IsStrings(strings(v))
  BY Indexed
<1>2. Stepped /\ Value(v)' = strings(v) /\ \A u \in Vec \ {v} : Value(u)' = Value(u)
  BY <1>1, MaterializeStep DEF Elt
<1> QED BY <1>1, <1>2 DEF Elt, Stays, WasRead

LEMMA DataptrStep ==
  ASSUME IInv, NEW v \in Vec, Dataptr(v)
  PROVE  Created(v) \/ (Stays /\ ret' = NoResult)
<1>1. /\ Value(v) = IF cls[v] = "none" \/ Unfilled(v) THEN Nil ELSE strings(v)
      /\ IsStrings(strings(v))
  BY ValueOf
<1>2. Stepped /\ Value(v)' = strings(v) /\ \A u \in Vec \ {v} : Value(u)' = Value(u)
  BY <1>1, MaterializeStep DEF Dataptr
<1>3. CASE Unfilled(v)
  BY <1>1, <1>2, <1>3 DEF Dataptr, Created
<1>4. CASE ~ Unfilled(v)
  BY <1>1, <1>2, <1>4 DEF Dataptr, Stays
<1> QED BY <1>3, <1>4

LEMMA Set_eltStep ==
  ASSUME IInv, NEW v \in Vec, NEW i \in DOMAIN strings(v), NEW x \in Input, Set_elt(v, i, x)
  PROVE  /\ Stepped /\ Value(v) # Nil /\ i \in DOMAIN Value(v)
         /\ IsStrings(Value(v)) /\ x \in CHARSXP
         /\ Value(v)' = [Value(v) EXCEPT ![i] = x]
         /\ \A u \in Vec \ {v} : Value(u)' = Value(u)
         /\ ret' = <<"assign", v, i, x>>
<1>1. /\ cls[v] # "none" /\ Value(v) = strings(v) /\ Value(v) # Nil
      /\ IsStrings(strings(v)) /\ x \in CHARSXP
  BY Indexed, CharpackAssumption
<1>2. IsStrings([strings(v) EXCEPT ![i] = x])
  BY <1>1 DEF IsStrings
<1>3. /\ Stepped /\ Value(v)' = [strings(v) EXCEPT ![i] = x]
      /\ \A u \in Vec \ {v} : Value(u)' = Value(u)
  BY <1>1, <1>2, MaterializeStep DEF Set_elt
<1> QED BY <1>1, <1>3 DEF Set_elt

(* A vector that shares another's raw vector.                              *)
LEMMA SharedMade ==
  ASSUME IInv, NEW v \in Vec, NEW w \in Vec, Filled(v), cls[w] = "none",
         home' = [home EXCEPT ![w] = home[v]],
         cls' = [cls EXCEPT ![w] = "charpack"],
         data1' = [data1 EXCEPT ![w] = data1[v]],
         data2' = data2, raw' = raw, native' = native, stream' = stream, seen' \subseteq Vec
  PROVE  /\ Stepped /\ Value(w)' = Value(v) /\ Value(w) = Nil
         /\ \A u \in Vec \ {w} : Value(u)' = Value(u)
<1>1. /\ Shape /\ VecOK(w) /\ data1[w] = NoRaw /\ data2[w] = Nil /\ Value(w) = Nil
  BY DEF IInv, VecOK, Filled, IsPack, Value
<1>2. /\ strings(v) = packed_strings(raw[data1[v]])
      /\ cls[v] = "charpack" /\ home[v] \in Session
      /\ PackOK(raw[data1[v]], HostOrder(home[v]))
  BY ValueOf
<1>3. Value(v) = packed_strings(raw[data1[v]])
  BY <1>2 DEF Value, Unfilled, Filled
<1>4. data1[v] \in Raw /\ data1[v] # NoRaw /\ NoRaw \notin Raw
  BY <1>1, CharpackAssumption DEF Shape, Filled
<1>5. Shape'
  BY <1>1, <1>2, <1>4 DEF Shape
<1>6. /\ cls'[w] = "charpack" /\ data2'[w] = Nil /\ home'[w] = home[v] /\ data1'[w] = data1[v]
  BY <1>1 DEF Shape
<1>7. VecOK(w)'
  BY <1>2, <1>4, <1>6 DEF VecOK, Filled, IsPack, HostOrder
<1>8. OnlyAt(w)
  BY DEF OnlyAt, Kept
<1>9. Value(w)' = packed_strings(raw[data1[v]])
  BY <1>4, <1>6 DEF Value, Unfilled, IsPack, strings, Filled
<1>10. Stepped /\ \A u \in Vec \ {w} : Value(u)' = Value(u)
  BY <1>1, <1>5, <1>7, <1>8, Stepping DEF Filled
<1> QED BY <1>1, <1>3, <1>9, <1>10

(* Asking a placeholder about its contents leaves it one.                  *)
LEMMA SeenType ==
  ASSUME IInv, NEW v \in Vec, Seen(v)
  PROVE  seen' \subseteq Vec
BY DEF IInv, Shape, Seen

LEMMA DuplicateStep ==
  ASSUME IInv, NEW v \in Vec, NEW w \in Vec, Duplicate(v, w)
  PROVE  \/ Created(w)
         \/ /\ Stepped /\ Value(v) # Nil /\ Value(w) = Nil /\ Value(w)' = Value(v)
            /\ \A u \in Vec \ {w} : Value(u)' = Value(u)
            /\ ret' = <<"copy", v, w>>
<1>1. /\ cls[v] # "none" /\ cls[w] = "none" /\ home' = [home EXCEPT ![w] = home[v]]
      /\ native' = native /\ stream' = stream /\ seen' \subseteq Vec
      /\ ret' = IF Unfilled(v) THEN NewStrings ELSE <<"copy", v, w>>
  BY SeenType DEF Duplicate, Answer
<1>2. /\ Value(v) = IF cls[v] = "none" \/ Unfilled(v) THEN Nil ELSE strings(v)
      /\ IsStrings(strings(v)) /\ strings(v) # Nil
  BY ValueOf
<1>3. CASE Filled(v)
  <2>1. /\ Stepped /\ Value(w)' = Value(v) /\ Value(w) = Nil
        /\ \A u \in Vec \ {w} : Value(u)' = Value(u)
    BY <1>1, <1>3, SharedMade DEF Duplicate
  <2>2. ~ Unfilled(v)
    BY <1>3 DEF Filled, Unfilled
  <2> QED BY <1>1, <1>2, <2>1, <2>2
<1>4. CASE ~ Filled(v)
  <2>1. NewPlain(w, strings(v)) /\ home[v] \in Session
    BY <1>1, <1>4 DEF Duplicate, IInv, VecOK
  <2>2. Shape' /\ VecOK(w)' /\ OnlyAt(w) /\ Value(w) = Nil /\ Value(w)' = strings(v)
    BY <1>1, <1>2, <2>1, PlainMade
  <2>3. ~ Filled(w)
    BY <1>1 DEF IInv, VecOK, IsPack
  <2>4. Stepped /\ \A u \in Vec \ {w} : Value(u)' = Value(u)
    BY <1>1, <2>2, <2>3, Stepping
  <2> QED BY <1>1, <1>2, <2>2, <2>4 DEF Created
<1> QED BY <1>3, <1>4

(* The method's bounds check, made before a real subscript is truncated,   *)
(* selects what R selects after truncating it.                             *)
LEMMA SelectedFollowsR ==
  ASSUME NEW s \in Subscript, NEW n \in Nat
  PROVE  selected(s, n) = IF RSubscript(s) - 1 \in 0 .. n-1 THEN RSubscript(s) - 1 ELSE n
<1>1. CASE s \in IntSubscript
  <2>0. s \notin RealSubscript
    BY <1>1 DEF IntSubscript, RealSubscript
  <2>1. /\ selected(s, n) = IF s.value < 1 \/ s.value > n THEN n ELSE s.value - 1
        /\ RSubscript(s) = s.value /\ s.value \in Int
    BY <1>1, <2>0 DEF IntSubscript, selected, RSubscript
  <2> QED BY <2>1
<1>2. CASE s \in RealSubscript
  <2>1. s \notin IntSubscript
    BY <1>2 DEF IntSubscript, RealSubscript
  <2>2. /\ selected(s, n) = IF s.twice >= 2 /\ s.twice < 2 * n + 2
                            THEN (s.twice \div 2) - 1 ELSE n
        /\ RSubscript(s) = s.twice \div 2 /\ s.twice \in Int
    BY <1>2, <2>1 DEF RealSubscript, selected, RSubscript
  <2> QED BY <2>2
<1>3. CASE s = NA_INDEX
  <2>1. selected(s, n) = n /\ RSubscript(s) = 0
    BY <1>3, SubscriptsAssumption DEF selected, RSubscript
  <2> QED BY <2>1
<1> QED BY <1>1, <1>2, <1>3 DEF Subscript

LEMMA SubsetViewsOK ==
  ASSUME NEW r, NEW order, PackOK(r, order), NEW m \in Nat, NEW s \in [0 .. m-1 -> Inputs]
  PROVE  /\ ViewsOK(SubsetViews(r, m, s), m)
         /\ \A j \in 0 .. m-1 :
              SubsetViews(r, m, s)[j] = IF RSubscript(s[j]) - 1 \in 0 .. r.n-1
                                        THEN record_view(r, RSubscript(s[j]) - 1) ELSE NaView
<1>1. r.n \in Nat
  BY Spans, CharpackAssumption
<1>2. ASSUME NEW j \in 0 .. m-1
      PROVE  /\ SubsetViews(r, m, s)[j] = IF RSubscript(s[j]) - 1 \in 0 .. r.n-1
                                          THEN record_view(r, RSubscript(s[j]) - 1) ELSE NaView
             /\ SubsetViews(r, m, s)[j] \in View
             /\ Len(SubsetViews(r, m, s)[j].bytes) <= MaxString
  <2>1. s[j] \in Subscript
    BY CharpackAssumption
  <2>2. selected(s[j], r.n) = IF RSubscript(s[j]) - 1 \in 0 .. r.n-1
                              THEN RSubscript(s[j]) - 1 ELSE r.n
    BY <1>1, <2>1, SelectedFollowsR
  <2>3. SubsetViews(r, m, s)[j] = IF selected(s[j], r.n) = r.n THEN NaView
                                  ELSE record_view(r, selected(s[j], r.n))
    BY DEF SubsetViews
  <2>4. NaView \in View /\ Len(NaView.bytes) <= MaxString
    BY PackLayoutAssumption DEF NaView, View
  <2>5. r.n \notin 0 .. r.n-1
    BY <1>1
  <2>6. CASE RSubscript(s[j]) - 1 \in 0 .. r.n-1
    <3>1. SubsetViews(r, m, s)[j] = record_view(r, RSubscript(s[j]) - 1)
      BY <2>2, <2>3, <2>5, <2>6
    <3> QED BY <2>6, <3>1, ViewOfRecord
  <2>7. CASE RSubscript(s[j]) - 1 \notin 0 .. r.n-1
    BY <2>2, <2>3, <2>4, <2>7
  <2> QED BY <2>6, <2>7
<1>3. SubsetViews(r, m, s) \in [0 .. m-1 -> View]
  BY <1>2 DEF SubsetViews
<1> QED BY <1>2, <1>3 DEF ViewsOK

(* The packed form of a subset, and R's own subset of the strings.         *)
LEMMA SubsetReads ==
  ASSUME IInv, NEW v \in Vec, Filled(v), NEW m \in 0 .. MaxLen, NEW s \in [0 .. m-1 -> Inputs],
         NEW vw, vw = SubsetViews(raw[data1[v]], m, s),
         NEW wide \in BOOLEAN, needs_wide(payload_of(ViewRecords(vw, m))) => wide,
         total_bytes(m, payload_of(ViewRecords(vw, m)), wide) # 0,
         NEW order \in Order, NEW c, c = alloc_data1(order, m, ViewRecords(vw, m), wide, joined(m, vw))
  PROVE  PackOK(c, order) /\ packed_strings(c) = DefaultSubset(v, m, s)
<1>1. m \in Nat
  BY CharpackAssumption
<1> PICK r : r = raw[data1[v]]
  OBVIOUS
<1>2. strings(v) = packed_strings(r) /\ PackOK(r, HostOrder(home[v]))
  BY ValueOf
<1>3. /\ ViewsOK(vw, m)
      /\ \A j \in 0 .. m-1 : vw[j] = IF RSubscript(s[j]) - 1 \in 0 .. r.n-1
                                     THEN record_view(r, RSubscript(s[j]) - 1) ELSE NaView
  BY <1>1, <1>2, SubsetViewsOK
<1>4. /\ RecordsOK(ViewRecords(vw, m), m)
      /\ joined(m, vw) \in Str /\ Len(joined(m, vw)) = payload_of(ViewRecords(vw, m))
  BY <1>1, <1>3, RecordsOfViews, JoinedViews
<1>5. AllocArgs(order, m, ViewRecords(vw, m), wide, joined(m, vw))
  BY <1>4 DEF AllocArgs
<1>6. PackOK(c, order) /\ c.n = m
  BY <1>5, AllocOK DEF alloc_data1
<1>7. ASSUME NEW j \in 0 .. m-1
      PROVE  make_charsxp(record_view(c, j)) =
               IF RSubscript(s[j]) - 1 \in DOMAIN strings(v)
               THEN strings(v)[RSubscript(s[j]) - 1] ELSE NA_STRING
  <2>1. record_view(c, j) = vw[j]
    BY <1>3, <1>5, AllocReads
  <2>2. make_charsxp(NaView) = NA_STRING
    BY DEF make_charsxp, NaView
  <2>3. DOMAIN strings(v) = 0 .. r.n-1
    BY <1>2 DEF packed_strings
  <2>4. \A i \in 0 .. r.n-1 : strings(v)[i] = make_charsxp(record_view(r, i))
    BY <1>2 DEF packed_strings
  <2> QED BY <1>3, <2>1, <2>2, <2>3, <2>4
<1>8. packed_strings(c) = DefaultSubset(v, m, s)
  BY <1>6, <1>7 DEF packed_strings, DefaultSubset
<1> QED BY <1>6, <1>8

LEMMA DefaultSubsetType ==
  ASSUME NEW v \in Vec, VecOK(v), NEW m \in 0 .. MaxLen, NEW s
  PROVE  IsStrings(DefaultSubset(v, m, s))
<1>1. PICK n \in 0 .. MaxLen : strings(v) \in [0 .. n-1 -> CHARSXP]
  BY StringsOf DEF IsStrings
<1>2. NA_STRING \in CHARSXP
  BY DEF CHARSXP
<1>3. DefaultSubset(v, m, s) \in [0 .. m-1 -> CHARSXP]
  BY <1>1, <1>2 DEF DefaultSubset
<1> QED BY <1>3 DEF IsStrings

LEMMA Extract_subsetStep ==
  ASSUME IInv, NEW v \in Vec, NEW w \in Vec, Extract_subset(v, w)
  PROVE  \/ Created(w)
         \/ /\ Stepped /\ Value(v) # Nil /\ Value(v) = strings(v) /\ Value(w) = Nil
            /\ \A u \in Vec \ {w} : Value(u)' = Value(u)
            /\ \E m \in 0 .. MaxLen : \E s \in [0 .. m-1 -> Inputs] :
                 ret' = <<"subset", v, w, s>> /\ Value(w)' = DefaultSubset(v, m, s)
<1>1. /\ cls[v] # "none" /\ cls[w] = "none" /\ home' = [home EXCEPT ![w] = home[v]]
      /\ native' = native /\ stream' = stream /\ seen' \subseteq Vec
  BY SeenType DEF Extract_subset
<1>2. PICK m \in 0 .. MaxLen : \E s \in [0 .. m-1 -> Inputs] :
        /\ IF Filled(v)
           THEN \E r \in FreeRaw :
                  LET vw   == SubsetViews(raw[data1[v]], m, s)
                      recs == ViewRecords(vw, m)
                      wide == needs_wide(payload_of(recs))
                  IN  /\ total_bytes(m, payload_of(recs), wide) # 0
                      /\ NewPack(w, r, alloc_data1(HostOrder(home[v]), m, recs, wide, joined(m, vw)))
           ELSE NewPlain(w, DefaultSubset(v, m, s))
        /\ Answer(v, <<"subset", v, w, s>>)
  BY DEF Extract_subset, ViewRecords
<1>3. PICK s \in [0 .. m-1 -> Inputs] :
        /\ IF Filled(v)
           THEN \E r \in FreeRaw :
                  LET vw   == SubsetViews(raw[data1[v]], m, s)
                      recs == ViewRecords(vw, m)
                      wide == needs_wide(payload_of(recs))
                  IN  /\ total_bytes(m, payload_of(recs), wide) # 0
                      /\ NewPack(w, r, alloc_data1(HostOrder(home[v]), m, recs, wide, joined(m, vw)))
           ELSE NewPlain(w, DefaultSubset(v, m, s))
        /\ Answer(v, <<"subset", v, w, s>>)
  BY <1>2
<1>4. /\ Value(v) = IF cls[v] = "none" \/ Unfilled(v) THEN Nil ELSE strings(v)
      /\ strings(v) # Nil
  BY ValueOf
<1>5. /\ VecOK(v) /\ VecOK(w) /\ home[v] \in Session
      /\ data1[w] = NoRaw /\ data2[w] = Nil /\ ~ Filled(w) /\ Value(w) = Nil
  BY <1>1 DEF IInv, VecOK, Filled, IsPack, Value
<1>6. ret' = IF Unfilled(v) THEN NewStrings ELSE <<"subset", v, w, s>>
  BY <1>3 DEF Answer
<1>7. Shape' /\ VecOK(w)' /\ OnlyAt(w) /\ Value(w)' = DefaultSubset(v, m, s)
  <2>1. CASE Filled(v)
    <3> PICK vw : vw = SubsetViews(raw[data1[v]], m, s)
      OBVIOUS
    <3>0. needs_wide(payload_of(ViewRecords(vw, m))) \in BOOLEAN
      BY DEF needs_wide
    <3> PICK wide \in BOOLEAN : wide = needs_wide(payload_of(ViewRecords(vw, m)))
      BY <3>0
    <3> PICK c : c = alloc_data1(HostOrder(home[v]), m, ViewRecords(vw, m), wide, joined(m, vw))
      OBVIOUS
    <3>1. PICK r \in FreeRaw : /\ total_bytes(m, payload_of(ViewRecords(vw, m)), wide) # 0
                               /\ NewPack(w, r, c)
      BY <1>3, <2>1
    <3>2. PackOK(c, HostOrder(home[v])) /\ packed_strings(c) = DefaultSubset(v, m, s)
      BY <2>1, <3>1, HostOrders, SubsetReads
    <3> QED BY <1>1, <1>5, <3>1, <3>2, PackMade
  <2>2. CASE ~ Filled(v)
    <3>1. NewPlain(w, DefaultSubset(v, m, s)) /\ IsStrings(DefaultSubset(v, m, s))
      BY <1>3, <1>5, <2>2, DefaultSubsetType
    <3> QED BY <1>1, <1>5, <3>1, PlainMade
  <2> QED BY <2>1, <2>2
<1>8. Stepped /\ \A u \in Vec \ {w} : Value(u)' = Value(u)
  BY <1>1, <1>5, <1>7, Stepping
<1>9. CASE Unfilled(v)
  <2>1. IsStrings(DefaultSubset(v, m, s))
    BY <1>5, DefaultSubsetType
  <2> QED BY <1>5, <1>6, <1>7, <1>8, <1>9, <2>1 DEF Created
<1>10. CASE ~ Unfilled(v)
  BY <1>1, <1>4, <1>5, <1>6, <1>7, <1>8, <1>10
<1> QED BY <1>9, <1>10

LEMMA CollectStep ==
  ASSUME IInv, NEW v \in Vec, Collect(v)
  PROVE  /\ Stepped /\ Value(v)' = Nil /\ \A u \in Vec \ {v} : Value(u)' = Value(u)
         /\ \/ Value(v) = Nil /\ ret' = NoResult
            \/ Value(v) # Nil /\ ret' = <<"drop", v>>
<1>1. /\ cls[v] # "none" /\ cls' = [cls EXCEPT ![v] = "none"] /\ home' = [home EXCEPT ![v] = Nil]
      /\ DropData1(v) /\ data2' = [data2 EXCEPT ![v] = Nil]
      /\ seen' = seen \ {v} /\ native' = native /\ stream' = stream
      /\ ret' = IF Unfilled(v) THEN NoResult ELSE <<"drop", v>>
  BY DEF Collect
<1>2. /\ data1' \in [Vec -> Raw \cup {NoRaw}] /\ DOMAIN raw' = Raw /\ data1'[v] = NoRaw
      /\ \A u \in Vec \ {v} : /\ data1'[u] = data1[u]
                              /\ Filled(u) => raw'[data1[u]] = raw[data1[u]]
  BY <1>1, Dropped
<1>3. Shape
  BY DEF IInv
<1>4. Shape'
  BY <1>1, <1>2, <1>3 DEF Shape
<1>5. cls'[v] = "none" /\ home'[v] = Nil /\ data2'[v] = Nil /\ ~ Filled(v)'
  BY <1>1, <1>2, <1>3 DEF Shape, Filled
<1>6. VecOK(v)' /\ Value(v)' = Nil
  BY <1>5 DEF VecOK, Value
<1>7. OnlyAt(v)
  BY <1>1, <1>2, <1>3 DEF OnlyAt, Kept, Shape
<1>8. Stepped /\ \A u \in Vec \ {v} : Value(u)' = Value(u)
  BY <1>1, <1>4, <1>5, <1>6, <1>7, Stepping
<1>9. /\ Value(v) = IF cls[v] = "none" \/ Unfilled(v) THEN Nil ELSE strings(v)
      /\ strings(v) # Nil
  BY ValueOf
<1> QED BY <1>1, <1>6, <1>8, <1>9

(* The same records read the same, whatever the words' order.              *)
LEMMA SameReads ==
  ASSUME NEW r, NEW x, x.n = r.n, x.ends = r.ends, x.tags = r.tags, x.bytes = r.bytes
  PROVE  packed_strings(x) = packed_strings(r) /\ (has_native(x) <=> has_native(r))
<1>1. \A i : record_view(x, i) = record_view(r, i)
  BY DEF record_view, begin_at
<1> QED BY <1>1 DEF packed_strings, has_native

LEMMA Serialized_stateStep ==
  ASSUME IInv, NEW v \in Vec, Serialized_state(v)
  PROVE  Stays /\ ret' = NoResult
<1>1. /\ cls[v] # "none" /\ seen' \subseteq Vec /\ native' \in [Session -> Charset]
      /\ UNCHANGED <<home, cls, data1, data2, raw>> /\ ret' = NoResult
  BY SeenType DEF Serialized_state, IInv, Shape
<1>2. stream' = [packed |-> sends_packed(v),
                 state  |-> IF sends_packed(v) THEN packed_state(v) ELSE strings(v),
                 native |-> native[home[v]],
                 texts  |-> Texts(v)]
  BY DEF Serialized_state
<1>3. native[home[v]] \in Charset /\ IsStrings(strings(v))
  BY <1>1, ValueOf DEF IInv, Shape, VecOK
<1>4. /\ DOMAIN stream' = {"packed", "state", "native", "texts"}
      /\ stream'.packed = sends_packed(v) /\ stream'.native = native[home[v]]
      /\ stream'.state = IF sends_packed(v) THEN packed_state(v) ELSE strings(v)
      /\ stream'.texts = [i \in DOMAIN strings(v) |-> Text(strings(v)[i], native[home[v]])]
  BY <1>2 DEF Texts
<1>5. CASE sends_packed(v)
  <2>1. /\ Filled(v) /\ strings(v) = packed_strings(raw[data1[v]])
        /\ PackOK(raw[data1[v]], HostOrder(home[v]))
    BY <1>5, ValueOf DEF sends_packed
  <2> PICK x : x = packed_state(v)
    OBVIOUS
  <2>2. /\ PackOK(x, "little")
        /\ packed_strings(x) = packed_strings(raw[data1[v]])
        /\ has_native(x) <=> has_native(raw[data1[v]])
    BY <2>1, Sent, SameReads
  <2>3. has_native(x) => native[home[v]] = "utf8"
    BY <1>5, <2>2 DEF sends_packed, native_is_utf8
  <2>4. DOMAIN strings(v) = 0 .. x.n-1
    BY <2>1, <2>2 DEF packed_strings
  <2>5. stream'.texts = [i \in 0 .. x.n-1 |-> Text(packed_strings(x)[i], native[home[v]])]
    BY <1>4, <2>1, <2>2, <2>4
  <2>6. stream'.state = x
    BY <1>4, <1>5
  <2>7. PackedState(stream')
    BY <1>4, <2>2, <2>3, <2>5, <2>6 DEF PackedState
  <2>8. StreamOK'
    BY <1>3, <1>4, <1>5, <2>7 DEF StreamOK, PackedState, PlainState, Undamaged
  <2> QED BY <1>1, <2>8, UnchangedStep
<1>6. CASE ~ sends_packed(v)
  <2>1. stream'.state = strings(v)
    BY <1>4, <1>6
  <2>2. PlainState(stream')
    BY <1>3, <1>4, <2>1 DEF PlainState
  <2>3. StreamOK'
    BY <1>3, <1>4, <1>6, <2>2 DEF StreamOK, PackedState, PlainState, Undamaged
  <2> QED BY <1>1, <2>3, UnchangedStep
<1> QED BY <1>5, <1>6

LEMMA AlterStep ==
  ASSUME IInv, Alter
  PROVE  Stays /\ ret' = NoResult
<1>1. /\ stream # NoStream /\ stream.packed /\ stream.texts # Damaged
      /\ UNCHANGED <<home, cls, data1, data2, raw, native, seen>> /\ ret' = NoResult
  BY DEF Alter
<1>2. PICK r \in Alterations(stream.state) :
        stream' = [stream EXCEPT !.state = r, !.texts = Damaged]
  BY DEF Alter
<1>3. /\ DOMAIN stream = {"packed", "state", "native", "texts"}
      /\ stream.native \in Charset /\ PackOK(stream.state, "little")
  BY <1>1 DEF IInv, StreamOK, PackedState, Undamaged
<1>4. /\ DOMAIN stream' = {"packed", "state", "native", "texts"}
      /\ stream'.packed = stream.packed /\ stream'.native = stream.native
      /\ stream'.state = r /\ stream'.texts = Damaged
  BY <1>2, <1>3
<1>5. state_valid(r, "little") => PackOK(r, "little")
  BY <1>3, AcceptedIsLaid
<1>6. StreamOK'
  BY <1>1, <1>3, <1>4, <1>5 DEF StreamOK, PackedState, Undamaged
<1>7. seen' \subseteq Vec /\ native' \in [Session -> Charset]
  BY <1>1 DEF IInv, Shape
<1> QED BY <1>1, <1>6, <1>7, UnchangedStep

LEMMA ReadType ==
  ASSUME NEW x \in CHARSXP, NEW from \in Charset, NEW to \in Charset
  PROVE  ReadString(x, from, to) \in CHARSXP
<1>1. CASE x # NA_STRING /\ ~ IsAscii(x.bytes) /\ x.ce = "native" /\ from # to
  <2>1. x \in [bytes : Str, ce : Mark] /\ from \in Mark
    BY <1>1 DEF CHARSXP, Charset, Mark
  <2>2. [x EXCEPT !.ce = from] \in [bytes : Str, ce : Mark]
    BY <2>1
  <2>3. [x EXCEPT !.ce = from].bytes = x.bytes
    BY <2>1
  <2>4. ReadString(x, from, to) = [x EXCEPT !.ce = from]
    BY <1>1 DEF ReadString
  <2> QED BY <1>1, <2>2, <2>3, <2>4 DEF CHARSXP
<1>2. CASE ~ (x # NA_STRING /\ ~ IsAscii(x.bytes) /\ x.ce = "native" /\ from # to)
  BY <1>2 DEF ReadString
<1> QED BY <1>1, <1>2

(* The strings that session s reads from the stream.                       *)
ReadBy(s) ==
  IF stream.packed THEN packed_strings(adopted(stream.state, s))
  ELSE [i \in DOMAIN stream.state |-> ReadString(stream.state[i], stream.native, native[s])]

LEMMA UnserializeStep ==
  ASSUME IInv, NEW w \in Vec, Unserialize(w)
  PROVE  /\ Created(w)
         /\ stream # NoStream
         /\ stream.packed => PackOK(stream.state, "little")
         /\ native' = native
         /\ \E s \in Session : home'[w] = s /\ strings(w)' = ReadBy(s)
<1>1. /\ stream # NoStream /\ cls[w] = "none"
      /\ ret' = NewStrings /\ native' = native /\ stream' = stream /\ seen' \subseteq Vec
  BY DEF Unserialize, IInv, Shape
<1>2. PICK s \in Session :
        /\ home' = [home EXCEPT ![w] = s]
        /\ IF stream.packed
           THEN /\ state_valid(stream.state, "little")
                /\ \E r \in FreeRaw : NewPack(w, r, adopted(stream.state, s))
           ELSE NewPlain(w, [i \in DOMAIN stream.state |->
                               ReadString(stream.state[i], stream.native, native[s])])
  BY DEF Unserialize
<1>3. /\ stream.native \in Charset /\ native[s] \in Charset
      /\ stream.packed => PackedState(stream)
      /\ ~ stream.packed => PlainState(stream)
  BY <1>1 DEF IInv, Shape, StreamOK
<1>4. data1[w] = NoRaw /\ data2[w] = Nil /\ ~ Filled(w) /\ Value(w) = Nil
  BY <1>1 DEF IInv, VecOK, Filled, IsPack, Value
<1>5. stream.packed => PackOK(stream.state, "little")
  BY <1>2, <1>3 DEF PackedState
<1>6. Shape' /\ VecOK(w)' /\ OnlyAt(w) /\ Value(w)' = ReadBy(s) /\ IsStrings(ReadBy(s))
  <2>1. CASE stream.packed
    <3>1. PICK r \in FreeRaw : NewPack(w, r, adopted(stream.state, s))
      BY <1>2, <2>1
    <3>2. PackOK(adopted(stream.state, s), HostOrder(s))
      BY <1>5, <2>1, Adopted
    <3>3. Shape' /\ VecOK(w)' /\ OnlyAt(w) /\ Value(w)' = packed_strings(adopted(stream.state, s))
      BY <1>1, <1>2, <1>4, <3>1, <3>2, PackMade
    <3> QED BY <2>1, <3>2, <3>3, PackedStrings DEF ReadBy
  <2>2. CASE ~ stream.packed
    <3>1. PICK n \in 0 .. MaxLen : stream.state \in [0 .. n-1 -> CHARSXP]
      BY <1>3, <2>2 DEF PlainState, IsStrings
    <3>2. ReadBy(s) = [i \in 0 .. n-1 |-> ReadString(stream.state[i], stream.native, native[s])]
      BY <2>2, <3>1 DEF ReadBy
    <3>3. IsStrings(ReadBy(s))
      BY <1>3, <3>1, <3>2, ReadType DEF IsStrings
    <3>4. NewPlain(w, ReadBy(s))
      BY <1>2, <2>2 DEF ReadBy
    <3> QED BY <1>1, <1>2, <3>3, <3>4, PlainMade
  <2> QED BY <2>1, <2>2
<1>7. Stepped /\ \A u \in Vec \ {w} : Value(u)' = Value(u)
  BY <1>1, <1>4, <1>6, Stepping
<1>8. strings(w)' = Value(w)'
  BY <1>6, NotNil DEF Value
<1>9. home'[w] = s
  BY <1>2 DEF IInv, Shape
<1> QED BY <1>1, <1>4, <1>5, <1>6, <1>7, <1>8, <1>9 DEF Created

-----------------------------------------------------------------------------
(* The invariant holds.                                                    *)

LEMMA InvInit == Init => IInv
<1> SUFFICES ASSUME Init PROVE IInv
  OBVIOUS
<1>1. Shape
  BY DEF Init, Shape
<1>2. ASSUME NEW v \in Vec PROVE VecOK(v)
  BY DEF Init, VecOK, Filled
<1>3. StreamOK
  BY DEF Init, StreamOK
<1> QED BY <1>1, <1>2, <1>3 DEF IInv

LEMMA StutterStep ==
  ASSUME IInv, UNCHANGED vars
  PROVE  Stays
<1>1. native' \in [Session -> Charset] /\ seen' \subseteq Vec
  BY DEF vars, IInv, Shape
<1> QED BY <1>1, SameStream, UnchangedStep DEF vars

LEMMA NextStep == IInv /\ [Next]_vars => Stepped
<1> SUFFICES ASSUME IInv, [Next]_vars PROVE Stepped
  OBVIOUS
<1>1. ASSUME NEW v \in Vec, Placeholder(v) PROVE Stepped
  BY <1>1, PlaceholderStep
<1>2. ASSUME NEW v \in Vec, fill_views(v) PROVE Stepped
  BY <1>2, fill_viewsStep DEF Created
<1>3. ASSUME NEW v \in Vec, fill_slices(v) PROVE Stepped
  BY <1>3, fill_slicesStep DEF Created
<1>4. ASSUME NEW v \in Vec, fill_materialized_na(v) PROVE Stepped
  BY <1>4, fill_materialized_naStep DEF Created
<1>5. ASSUME NEW v \in Vec, Dataptr(v) PROVE Stepped
  BY <1>5, DataptrStep DEF Created, Stays
<1>6. ASSUME NEW v \in Vec, No_NA(v) PROVE Stepped
  BY <1>6, No_NAStep DEF Stays
<1>7. ASSUME NEW v \in Vec, Unserialize(v) PROVE Stepped
  BY <1>7, UnserializeStep DEF Created
<1>8. ASSUME NEW v \in Vec, Collect(v) PROVE Stepped
  BY <1>8, CollectStep
<1>9. ASSUME NEW v \in Exports, Serialized_state(v) PROVE Stepped
  BY <1>9, Serialized_stateStep, CharpackAssumption DEF Stays
<1>10. ASSUME NEW v \in Vec, NEW i \in DOMAIN strings(v), Elt(v, i) PROVE Stepped
  BY <1>10, EltStep DEF Stays
<1>11. ASSUME NEW v \in Vec, NEW i \in DOMAIN strings(v), reader_strview(v, i) PROVE Stepped
  BY <1>11, reader_strviewStep DEF Stays
<1>12. ASSUME NEW v \in Vec, NEW i \in DOMAIN strings(v), NEW x \in Input, Set_elt(v, i, x)
       PROVE  Stepped
  BY <1>12, Set_eltStep
<1>13. ASSUME NEW v \in Vec, NEW w \in Vec, Duplicate(v, w) PROVE Stepped
  BY <1>13, DuplicateStep DEF Created
<1>14. ASSUME NEW v \in Vec, NEW w \in Vec, Extract_subset(v, w) PROVE Stepped
  BY <1>14, Extract_subsetStep DEF Created
<1>15. ASSUME NEW s \in Session, SetLocale(s) PROVE Stepped
  BY <1>15, SetLocaleStep DEF Stays
<1>16. CASE Alter
  BY <1>16, AlterStep DEF Stays
<1>17. CASE UNCHANGED vars
  BY <1>17, StutterStep DEF Stays
<1> QED
  BY <1>1, <1>2, <1>3, <1>4, <1>5, <1>6, <1>7, <1>8, <1>9, <1>10, <1>11, <1>12,
     <1>13, <1>14, <1>15, <1>16, <1>17
  DEF Next

LEMMA Invariance == Spec => []IInv
<1>1. IInv /\ [Next]_vars => IInv'
  BY NextStep DEF Stepped
<1> QED BY InvInit, <1>1, PTL DEF Spec

(* Every variable keeps its type, and a charpack never holds both a raw    *)
(* vector and its materialized strings (Materialize, charpack_altrep.h).   *)
THEOREM TypeCorrect == Spec => []TypeOK
<1>1. IInv => TypeOK
  BY Established
<1> QED BY <1>1, Invariance, PTL

(* Every raw vector that is installed, by a fill, by Extract_subset or     *)
(* from a serialized state that may have been altered on its way, can be   *)
(* read in place with no check.                                            *)
THEOREM AlwaysWellLaid == Spec => []LayoutOK
<1>1. IInv => LayoutOK
  BY Established
<1> QED BY <1>1, Invariance, PTL

(* "data1 is the RAWSXP, immutable once installed" (charpack_altrep.h).    *)
THEOREM Data1Immutable == Spec => DataImmutable
<1>1. ASSUME IInv, [Next]_vars
      PROVE  [\A v \in Vec : Filled(v) /\ Filled(v)' =>
                data1'[v] = data1[v] /\ raw'[data1[v]] = raw[data1[v]]]_vars
  BY <1>1, NextStep DEF Stepped, Immutable
<1> QED BY <1>1, Invariance, PTL DEF Spec, DataImmutable

-----------------------------------------------------------------------------
(* What the strings say, here and there.                                   *)

LEMMA TextOfView ==
  ASSUME NEW view \in View, NEW charset
  PROVE  Text(make_charsxp(view), charset) =
           IF view.enc = "NA" THEN NaView
           ELSE [bytes |-> view.bytes,
                 enc   |-> IF IsAscii(view.bytes) THEN "ascii"
                           ELSE IF to_base_encoding(view.enc) = "native" THEN charset
                           ELSE to_base_encoding(view.enc)]
<1>1. CASE view.enc = "NA"
  BY <1>1 DEF make_charsxp, Text
<1>2. CASE view.enc # "NA"
  <2>1. view.bytes \in Str /\ to_base_encoding(view.enc) \in Mark /\ "native" \in Mark
    BY <1>2 DEF View, to_base_encoding, Mark
  <2> PICK x : x = make_charsxp(view)
    OBVIOUS
  <2>2. x = [bytes |-> view.bytes,
             ce |-> IF IsAscii(view.bytes) THEN "native" ELSE to_base_encoding(view.enc)]
    BY <1>2 DEF make_charsxp, Rf_mkCharLenCE
  <2>3. x # NA_STRING
    BY <2>1, <2>2, StringsAssumption
  <2>4. x.bytes = view.bytes
        /\ x.ce = IF IsAscii(view.bytes) THEN "native" ELSE to_base_encoding(view.enc)
    BY <2>2
  <2> QED BY <1>2, <2>3, <2>4 DEF Text
<1> QED BY <1>1, <1>2

(* R's own strings say the same where they are read.                       *)
LEMMA TextRead ==
  ASSUME NEW x \in CHARSXP, NEW from \in Charset, NEW to \in Charset
  PROVE  Text(ReadString(x, from, to), to) = Text(x, from)
<1>1. CASE x # NA_STRING /\ ~ IsAscii(x.bytes) /\ x.ce = "native" /\ from # to
  <2> PICK y : y = ReadString(x, from, to)
    OBVIOUS
  <2>1. x \in [bytes : Str, ce : Mark] /\ from \in Mark /\ from # "native"
    BY <1>1 DEF CHARSXP, Charset, Mark
  <2>2. y = [x EXCEPT !.ce = from]
    BY <1>1 DEF ReadString
  <2>3. y.bytes = x.bytes /\ y.ce = from /\ y \in [bytes : Str, ce : Mark]
    BY <2>1, <2>2
  <2>4. y # NA_STRING
    BY <2>3, StringsAssumption
  <2> QED BY <1>1, <2>1, <2>3, <2>4 DEF Text
<1>2. CASE ~ (x # NA_STRING /\ ~ IsAscii(x.bytes) /\ x.ce = "native" /\ from # to)
  <2>1. ReadString(x, from, to) = x
    BY <1>2 DEF ReadString
  <2> QED BY <1>2, <2>1 DEF Text
<1> QED BY <1>1, <1>2

(* So do packed records, retagged where native is another encoding.        *)
LEMMA TextAdopted ==
  ASSUME NEW r, PackOK(r, "little"), NEW from, has_native(r) => from = "utf8",
         NEW s \in Session, NEW i \in 0 .. r.n-1,
         falsely_ascii(r, i) => from = native[s]
  PROVE  Text(make_charsxp(record_view(adopted(r, s), i)), native[s])
           = Text(make_charsxp(record_view(r, i)), from)
<1> PICK x : x = adopted(r, s)
  OBVIOUS
<1>1. /\ x.n = r.n /\ x.ends = r.ends /\ x.bytes = r.bytes
      /\ x.tags[i] = IF r.tags[i] = "NATIVE" /\ native[s] # "utf8" THEN "UTF8" ELSE r.tags[i]
      /\ PackOK(x, HostOrder(s))
  BY Adopted DEF native_is_utf8
<1>2. /\ r.tags[i] \in Tag \cup {"NA"}
      /\ r.tags[i] = "NATIVE" => from = "utf8"
  <2>1. r.tags[i] \in Tag \cup {"NA"} /\ DOMAIN r.tags = 0 .. r.n-1
    BY DEF PackOK, well_laid
  <2> QED BY <2>1 DEF has_native
<1>3. record_view(r, i) \in View /\ record_view(x, i) \in View
  BY <1>1, ViewOfRecord
<1> PICK b : b = SubSeq(r.bytes, begin_at(r, i) + 1, r.ends[i])
  OBVIOUS
<1>4. /\ record_view(r, i) = IF r.tags[i] = "NA" THEN NaView ELSE [bytes |-> b, enc |-> r.tags[i]]
      /\ record_view(x, i) = IF x.tags[i] = "NA" THEN NaView ELSE [bytes |-> b, enc |-> x.tags[i]]
  BY <1>1 DEF record_view, begin_at
<1>5. /\ Text(make_charsxp(record_view(r, i)), from) =
           IF record_view(r, i).enc = "NA" THEN NaView
           ELSE [bytes |-> record_view(r, i).bytes,
                 enc   |-> IF IsAscii(record_view(r, i).bytes) THEN "ascii"
                           ELSE IF to_base_encoding(record_view(r, i).enc) = "native" THEN from
                           ELSE to_base_encoding(record_view(r, i).enc)]
      /\ Text(make_charsxp(record_view(x, i)), native[s]) =
           IF record_view(x, i).enc = "NA" THEN NaView
           ELSE [bytes |-> record_view(x, i).bytes,
                 enc   |-> IF IsAscii(record_view(x, i).bytes) THEN "ascii"
                           ELSE IF to_base_encoding(record_view(x, i).enc) = "native" THEN native[s]
                           ELSE to_base_encoding(record_view(x, i).enc)]
  BY <1>3, TextOfView
<1>6. CASE r.tags[i] = "NA"
  <2>1. x.tags[i] = "NA"
    BY <1>1, <1>6
  <2>2. record_view(r, i) = NaView /\ record_view(x, i) = NaView
    BY <1>4, <1>6, <2>1
  <2> QED BY <2>2 DEF make_charsxp, NaView, Text
<1>7. CASE r.tags[i] # "NA"
  <2>1. /\ record_view(r, i).bytes = b /\ record_view(r, i).enc = r.tags[i]
        /\ record_view(x, i).bytes = b /\ record_view(x, i).enc = x.tags[i]
        /\ x.tags[i] # "NA"
    <3>1. x.tags[i] # "NA"
      BY <1>1, <1>7
    <3>2. /\ record_view(r, i) = [bytes |-> b, enc |-> r.tags[i]]
          /\ record_view(x, i) = [bytes |-> b, enc |-> x.tags[i]]
      BY <1>4, <1>7, <3>1
    <3>3. \A e : [bytes |-> b, enc |-> e].bytes = b /\ [bytes |-> b, enc |-> e].enc = e
      OBVIOUS
    <3> QED BY ONLY <3>1, <3>2, <3>3, Zenon
  <2>2. CASE IsAscii(b)
    BY <1>5, <1>7, <2>1, <2>2
  <2>3. CASE ~ IsAscii(b)
    <3>1. r.tags[i] \in Tag
      BY <1>2, <1>7
    <3>2. CASE r.tags[i] = "NATIVE"
      <4>1. from = "utf8" /\ to_base_encoding(r.tags[i]) = "native"
        BY <1>2, <3>2 DEF to_base_encoding
      <4>2. CASE native[s] = "utf8"
        BY <1>1, <1>5, <1>7, <2>1, <2>3, <4>1, <4>2
      <4>3. CASE native[s] # "utf8"
        <5>1. x.tags[i] = "UTF8" /\ to_base_encoding(x.tags[i]) = "utf8"
          BY <1>1, <3>2, <4>3 DEF to_base_encoding
        <5> QED BY <1>5, <1>7, <2>1, <2>3, <4>1, <5>1
      <4> QED BY <4>2, <4>3
    <3>3. CASE r.tags[i] = "ASCII"
      <4>1. x.tags[i] = r.tags[i] /\ to_base_encoding(r.tags[i]) = "native"
        BY <1>1, <3>3 DEF to_base_encoding
      <4>2. from = native[s]
        BY <2>1, <2>3, <3>3 DEF falsely_ascii
      <4> QED BY <1>5, <1>7, <2>1, <2>3, <4>1, <4>2
    <3>4. CASE r.tags[i] \notin {"NATIVE", "ASCII"}
      <4>1. x.tags[i] = r.tags[i]
        BY <1>1, <3>4
      <4>2. to_base_encoding(r.tags[i]) # "native"
        BY <3>1, <3>4 DEF to_base_encoding, Tag
      <4> QED BY <1>5, <1>7, <2>1, <2>3, <4>1, <4>2
    <3> QED BY <3>2, <3>3, <3>4
  <2> QED BY <2>2, <2>3
<1> QED BY <1>6, <1>7

LEMMA UnserializeSays ==
  ASSUME IInv, NEW w \in Vec, Unserialize(w), stream.texts # Damaged
  PROVE  /\ DOMAIN Texts(w)' = DOMAIN stream.texts
         /\ \A i \in DOMAIN stream.texts :
              (stream.packed /\ falsely_ascii(stream.state, i) => stream.native = native[home'[w]])
                => Texts(w)'[i] = stream.texts[i]
<1>1. stream # NoStream /\ native' = native /\ (stream.packed => PackOK(stream.state, "little"))
  BY UnserializeStep
<1>2. PICK s \in Session : home'[w] = s /\ strings(w)' = ReadBy(s)
  BY UnserializeStep
<1>3. Texts(w)' = [i \in DOMAIN ReadBy(s) |-> Text(ReadBy(s)[i], native[s])]
  BY <1>1, <1>2 DEF Texts
<1>4. /\ stream.native \in Charset /\ native[s] \in Charset
      /\ stream.packed => PackedState(stream)
      /\ ~ stream.packed => PlainState(stream)
  BY <1>1 DEF IInv, Shape, StreamOK
<1>5. CASE stream.packed
  <2> PICK r : r = stream.state
    OBVIOUS
  <2> PICK x : x = adopted(r, s)
    OBVIOUS
  <2>1. /\ PackOK(r, "little") /\ (has_native(r) => stream.native = "utf8")
        /\ stream.texts = [i \in 0 .. r.n-1 |-> Text(packed_strings(r)[i], stream.native)]
    BY <1>1, <1>4, <1>5 DEF PackedState, Undamaged
  <2>2. ReadBy(s) = packed_strings(x) /\ x.n = r.n
    BY <1>5, <2>1, Adopted DEF ReadBy
  <2>3. Texts(w)' = [i \in 0 .. r.n-1 |-> Text(packed_strings(x)[i], native[s])]
    BY <1>3, <2>2 DEF packed_strings
  <2>4. ASSUME NEW i \in 0 .. r.n-1, falsely_ascii(r, i) => stream.native = native[s]
        PROVE  Texts(w)'[i] = stream.texts[i]
    <3>1. /\ packed_strings(x)[i] = make_charsxp(record_view(x, i))
          /\ packed_strings(r)[i] = make_charsxp(record_view(r, i))
      BY <2>2 DEF packed_strings
    <3>2. Text(make_charsxp(record_view(x, i)), native[s])
            = Text(make_charsxp(record_view(r, i)), stream.native)
      BY <2>1, <2>4, TextAdopted
    <3> QED BY <2>1, <2>3, <3>1, <3>2
  <2> QED BY <1>2, <1>5, <2>1, <2>3, <2>4
<1>6. CASE ~ stream.packed
  <2>1. PICK n \in 0 .. MaxLen : stream.state \in [0 .. n-1 -> CHARSXP]
    BY <1>4, <1>6 DEF PlainState, IsStrings
  <2>2. stream.texts = [i \in 0 .. n-1 |-> Text(stream.state[i], stream.native)]
    BY <1>4, <1>6, <2>1 DEF PlainState, Undamaged
  <2>3. ReadBy(s) = [i \in 0 .. n-1 |-> ReadString(stream.state[i], stream.native, native[s])]
    BY <1>6, <2>1 DEF ReadBy
  <2>4. Texts(w)' = [i \in 0 .. n-1 |->
                       Text(ReadString(stream.state[i], stream.native, native[s]), native[s])]
    BY <1>3, <2>3
  <2>5. \A i \in 0 .. n-1 :
          Text(ReadString(stream.state[i], stream.native, native[s]), native[s])
            = Text(stream.state[i], stream.native)
    BY <1>4, <2>1, TextRead
  <2> QED BY <2>2, <2>4, <2>5
<1> QED BY <1>5, <1>6

(* Whatever the byte orders and the native encodings of the two sessions,  *)
(* an undamaged vector says the same text where it is read: Serialized_    *)
(* state sends the packed form only when native is UTF-8, and Unserialize  *)
(* retags what it adopts.                                                  *)
THEOREM TextSurvives == Spec => TextSurvivesTransit
<1>1. ASSUME IInv, [Next]_vars
      PROVE  [\A w \in Vec : Unserialize(w) /\ stream.texts # Damaged =>
                /\ DOMAIN Texts(w)' = DOMAIN stream.texts
                /\ \A i \in DOMAIN stream.texts :
                     (stream.packed /\ falsely_ascii(stream.state, i)
                        => stream.native = native[home'[w]])
                       => Texts(w)'[i] = stream.texts[i]]_vars
  BY <1>1, UnserializeSays
<1> QED BY <1>1, Invariance, PTL DEF Spec, TextSurvivesTransit

-----------------------------------------------------------------------------
(* Values: what R sees of each vector.                                     *)

bar == [v \in Vec |-> Value(v)]

(* The abstract module's own copies of the strings and the subscripts.     *)
LEMMA SameStrings ==
  /\ Abstract!CHARSXP = CHARSXP
  /\ \A s : Abstract!RSubscript(s) = RSubscript(s)
<1>1. Abstract!CHARSXP = CHARSXP
  BY DEF Abstract!CHARSXP, Abstract!Str, Abstract!Mark, Abstract!IsAscii,
         CHARSXP, Str, Mark, IsAscii
<1>2. Abstract!IntSubscript = IntSubscript /\ Abstract!RealSubscript = RealSubscript
  BY DEF Abstract!IntSubscript, Abstract!RealSubscript, IntSubscript, RealSubscript
<1>3. \A s : Abstract!RSubscript(s) = RSubscript(s)
  BY <1>2, Zenon DEF Abstract!RSubscript, RSubscript
<1> QED BY <1>1, <1>3

LEMMA InitRefines == Init => Abstract!Init
BY DEF Init, Abstract!Init, Value

LEMMA CreateRefines ==
  ASSUME NEW w \in Vec, Created(w)
  PROVE  Abstract!Next
<1>1. /\ ret' = NewStrings /\ Value(w) = Nil
      /\ \A u \in Vec \ {w} : Value(u)' = Value(u)
  BY DEF Created
<1>2. \E n \in 0 .. MaxLen : Value(w)' \in [0 .. n-1 -> Abstract!CHARSXP]
  BY SameStrings DEF Created, IsStrings
<1>3. /\ bar[w] = Nil /\ bar'[w] = Value(w)'
      /\ \A u \in Vec \ {w} : bar'[u] = bar[u]
  BY <1>1 DEF bar
<1>4. Abstract!Create(w)
  BY <1>1, <1>2, <1>3 DEF Abstract!Create, Abstract!OnlyChanges, bar
<1> QED BY <1>4 DEF Abstract!Next

LEMMA InternalRefines ==
  ASSUME Stays, ret' = NoResult
  PROVE  Abstract!Next
BY DEF Stays, Abstract!Next, Abstract!Internal

LEMMA ReadRefines ==
  ASSUME Stays, NEW v \in Vec, NEW i, WasRead(v, i)
  PROVE  Abstract!Next
<1>1. bar' = bar /\ bar[v] = Value(v)
  BY DEF Stays, bar
<1>2. Abstract!Read(v)
  BY <1>1 DEF WasRead, Abstract!Read, bar
<1> QED BY <1>2 DEF Abstract!Next

LEMMA AssignRefines ==
  ASSUME IInv, NEW v \in Vec, NEW i \in DOMAIN strings(v), NEW x \in Input, Set_elt(v, i, x)
  PROVE  Abstract!Next
<1>1. /\ Value(v) # Nil /\ i \in DOMAIN Value(v)
      /\ IsStrings(Value(v)) /\ x \in CHARSXP
      /\ Value(v)' = [Value(v) EXCEPT ![i] = x]
      /\ \A u \in Vec \ {v} : Value(u)' = Value(u)
      /\ ret' = <<"assign", v, i, x>>
  BY Set_eltStep
<1>2. Value(v)' # Nil
  <2>1. IsStrings([Value(v) EXCEPT ![i] = x])
    BY <1>1 DEF IsStrings
  <2> QED BY <1>1, <2>1, NotNil
<1>3. /\ bar[v] = Value(v) /\ bar'[v] = Value(v)'
      /\ bar' = [bar EXCEPT ![v] = [Value(v) EXCEPT ![i] = x]]
  BY <1>1 DEF bar
<1>4. bar'[v][i] = x /\ DOMAIN bar'[v] = DOMAIN bar[v]
  BY <1>1, <1>3
<1>5. bar' = [bar EXCEPT ![v][i] = bar'[v][i]]
  BY <1>3, <1>4
<1>6. bar'[v][i] \in Abstract!CHARSXP
  BY <1>1, <1>4, SameStrings
<1>7. Abstract!Assign(v)
  BY <1>1, <1>2, <1>3, <1>4, <1>5, <1>6 DEF Abstract!Assign, bar
<1> QED BY <1>7 DEF Abstract!Next

LEMMA DuplicateRefines ==
  ASSUME IInv, NEW v \in Vec, NEW w \in Vec, Duplicate(v, w)
  PROVE  Abstract!Next
<1>1. CASE Created(w)
  BY <1>1, CreateRefines
<1>2. CASE /\ Value(v) # Nil /\ Value(w) = Nil /\ Value(w)' = Value(v)
           /\ \A u \in Vec \ {w} : Value(u)' = Value(u)
           /\ ret' = <<"copy", v, w>>
  <2>1. bar[v] # Nil /\ bar[w] = Nil /\ bar' = [bar EXCEPT ![w] = bar[v]]
    BY <1>2 DEF bar
  <2>2. Abstract!Copy(v, w)
    BY <1>2, <2>1 DEF Abstract!Copy, bar
  <2> QED BY <2>2 DEF Abstract!Next
<1> QED BY <1>1, <1>2, DuplicateStep

LEMMA AbstractLength ==
  ASSUME NEW v \in Vec, NEW n \in 0 .. MaxLen, DOMAIN Value(v) = 0 .. n-1
  PROVE  Abstract!Length(v) = n
<1>1. bar[v] = Value(v) /\ n \in Nat
  BY CharpackAssumption DEF bar
<1>2. \A k \in 0 .. MaxLen : 0 .. n-1 = 0 .. k-1 => k = n
  BY <1>1, CharpackAssumption
<1>3. Abstract!Length(v) = CHOOSE k \in 0 .. MaxLen : DOMAIN bar[v] = 0 .. k-1
  BY DEF Abstract!Length, bar
<1> QED BY <1>1, <1>2, <1>3

LEMMA Extract_subsetRefines ==
  ASSUME IInv, NEW v \in Vec, NEW w \in Vec, Extract_subset(v, w)
  PROVE  Abstract!Next
<1>1. CASE Created(w)
  BY <1>1, CreateRefines
<1>2. CASE /\ Value(v) # Nil /\ Value(v) = strings(v) /\ Value(w) = Nil
           /\ \A u \in Vec \ {w} : Value(u)' = Value(u)
           /\ \E m \in 0 .. MaxLen : \E s \in [0 .. m-1 -> Inputs] :
                ret' = <<"subset", v, w, s>> /\ Value(w)' = DefaultSubset(v, m, s)
  <2>0. PICK m \in 0 .. MaxLen : \E s \in [0 .. m-1 -> Inputs] :
          ret' = <<"subset", v, w, s>> /\ Value(w)' = DefaultSubset(v, m, s)
    BY <1>2
  <2>1. PICK s \in [0 .. m-1 -> Inputs] :
          ret' = <<"subset", v, w, s>> /\ Value(w)' = DefaultSubset(v, m, s)
    BY <2>0
  <2>2. PICK n \in 0 .. MaxLen : strings(v) \in [0 .. n-1 -> CHARSXP]
    BY ValueOf DEF IsStrings
  <2>3. n \in Nat /\ DOMAIN strings(v) = 0 .. n-1 /\ Abstract!Length(v) = n
    BY <1>2, <2>2, AbstractLength, CharpackAssumption
  <2>4. ASSUME NEW j \in 0 .. m-1
        PROVE  RSubscript(s[j]) - 1 \in 0 .. n-1 <=> RSubscript(s[j]) \in 1 .. n
    <3>1. RSubscript(s[j]) \in Int
      <4>1. s[j] \in Subscript
        BY CharpackAssumption
      <4>2. CASE s[j] \in IntSubscript
        BY <4>2 DEF RSubscript, IntSubscript, RealSubscript
      <4>3. CASE s[j] \in RealSubscript
        <5>1. s[j] \notin IntSubscript /\ s[j].twice \in Int
          BY <4>3 DEF IntSubscript, RealSubscript
        <5> QED BY <4>3, <5>1 DEF RSubscript
      <4>4. CASE s[j] = NA_INDEX
        BY <4>4, SubscriptsAssumption DEF RSubscript
      <4> QED BY <4>1, <4>2, <4>3, <4>4 DEF Subscript
    <3> QED BY <2>3, <3>1
  <2>5. DefaultSubset(v, m, s) =
          [j \in 0 .. m-1 |-> IF RSubscript(s[j]) \in 1 .. n
                              THEN Value(v)[RSubscript(s[j]) - 1] ELSE NA_STRING]
    BY <1>2, <2>3, <2>4 DEF DefaultSubset
  <2>6. bar[v] # Nil /\ bar[w] = Nil /\ bar[v] = Value(v)
    BY <1>2 DEF bar
  <2>7. bar' = [bar EXCEPT ![w] =
                  [j \in 0 .. m-1 |->
                     IF Abstract!RSubscript(s[j]) \in 1 .. Abstract!Length(v)
                     THEN bar[v][Abstract!RSubscript(s[j]) - 1] ELSE NA_STRING]]
    BY <1>2, <2>1, <2>3, <2>5, <2>6, SameStrings DEF bar
  <2>8. Abstract!Subset(v, w)
    BY <2>1, <2>6, <2>7 DEF Abstract!Subset, bar
  <2> QED BY <2>8 DEF Abstract!Next
<1> QED BY <1>1, <1>2, Extract_subsetStep

LEMMA CollectRefines ==
  ASSUME IInv, NEW v \in Vec, Collect(v)
  PROVE  Abstract!Next
<1>1. Value(v)' = Nil /\ \A u \in Vec \ {v} : Value(u)' = Value(u)
  BY CollectStep
<1>2. CASE Value(v) = Nil /\ ret' = NoResult
  BY <1>1, <1>2 DEF Abstract!Next, Abstract!Internal
<1>3. CASE Value(v) # Nil /\ ret' = <<"drop", v>>
  <2>0. bar' = [u \in Vec |-> IF u = v THEN Nil ELSE Value(u)]
    BY <1>1 DEF bar
  <2>1. bar[v] # Nil /\ bar' = [bar EXCEPT ![v] = Nil]
    BY <1>3, <2>0 DEF bar
  <2>2. Abstract!Drop(v)
    BY <1>3, <2>1 DEF Abstract!Drop, bar
  <2> QED BY <2>2 DEF Abstract!Next
<1> QED BY <1>2, <1>3, CollectStep

LEMMA PlaceholderRefines ==
  ASSUME IInv, NEW w \in Vec, Placeholder(w)
  PROVE  Abstract!Next
<1>1. ret' = NoResult
  BY DEF Placeholder
<1> QED BY <1>1, PlaceholderStep, InternalRefines DEF Stays

LEMMA NextRefines == IInv /\ [Next]_vars => [Abstract!Next]_(Abstract!vars)
<1> SUFFICES ASSUME IInv, [Next]_vars
             PROVE  Abstract!Next \/ UNCHANGED Abstract!vars
  OBVIOUS
<1>1. ASSUME NEW v \in Vec, Placeholder(v) PROVE Abstract!Next
  BY <1>1, PlaceholderRefines
<1>2. ASSUME NEW v \in Vec, fill_views(v) PROVE Abstract!Next
  BY <1>2, fill_viewsStep, CreateRefines
<1>3. ASSUME NEW v \in Vec, fill_slices(v) PROVE Abstract!Next
  BY <1>3, fill_slicesStep, CreateRefines
<1>4. ASSUME NEW v \in Vec, fill_materialized_na(v) PROVE Abstract!Next
  BY <1>4, fill_materialized_naStep, CreateRefines
<1>5. ASSUME NEW v \in Vec, Dataptr(v) PROVE Abstract!Next
  BY <1>5, DataptrStep, CreateRefines, InternalRefines
<1>6. ASSUME NEW v \in Vec, No_NA(v) PROVE Abstract!Next
  BY <1>6, No_NAStep, InternalRefines
<1>7. ASSUME NEW v \in Vec, Unserialize(v) PROVE Abstract!Next
  BY <1>7, UnserializeStep, CreateRefines
<1>8. ASSUME NEW v \in Vec, Collect(v) PROVE Abstract!Next
  BY <1>8, CollectRefines
<1>9. ASSUME NEW v \in Exports, Serialized_state(v) PROVE Abstract!Next
  BY <1>9, Serialized_stateStep, InternalRefines, CharpackAssumption
<1>10. ASSUME NEW v \in Vec, NEW i \in DOMAIN strings(v), Elt(v, i) PROVE Abstract!Next
  BY <1>10, EltStep, ReadRefines
<1>11. ASSUME NEW v \in Vec, NEW i \in DOMAIN strings(v), reader_strview(v, i)
       PROVE  Abstract!Next
  BY <1>11, reader_strviewStep, ReadRefines
<1>12. ASSUME NEW v \in Vec, NEW i \in DOMAIN strings(v), NEW x \in Input, Set_elt(v, i, x)
       PROVE  Abstract!Next
  BY <1>12, AssignRefines
<1>13. ASSUME NEW v \in Vec, NEW w \in Vec, Duplicate(v, w) PROVE Abstract!Next
  BY <1>13, DuplicateRefines
<1>14. ASSUME NEW v \in Vec, NEW w \in Vec, Extract_subset(v, w) PROVE Abstract!Next
  BY <1>14, Extract_subsetRefines
<1>15. ASSUME NEW s \in Session, SetLocale(s) PROVE Abstract!Next
  BY <1>15, SetLocaleStep, InternalRefines
<1>16. CASE Alter
  BY <1>16, AlterStep, InternalRefines
<1>17. CASE UNCHANGED vars
  <2>1. (\A u \in Vec : Value(u)' = Value(u)) /\ ret' = ret
    BY <1>17, StutterStep DEF Stays, vars
  <2> QED BY <2>1 DEF Abstract!vars
<1> QED
  BY <1>1, <1>2, <1>3, <1>4, <1>5, <1>6, <1>7, <1>8, <1>9, <1>10, <1>11, <1>12,
     <1>13, <1>14, <1>15, <1>16, <1>17
  DEF Next

(* Every behaviour of the charpack class is a behaviour of independent     *)
(* character vectors: placeholders, shared raw vectors, packed subsets,    *)
(* materialization, transit and collection are invisible to R.             *)
THEOREM Refinement == Spec => RefinesStringVector
BY InitRefines, NextRefines, Invariance, PTL DEF Spec, RefinesStringVector, Abstract!Spec
=============================================================================
