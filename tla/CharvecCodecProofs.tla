------------------------- MODULE CharvecCodecProofs -------------------------
(***************************************************************************)
(* Theorems of module CharvecCodec, for every number of vectors and        *)
(* sessions, every length, every limit of R and every set of strings.      *)
(***************************************************************************)
EXTENDS CharvecCodec, SequenceTheorems, FiniteSetTheorems, TLAPS

(* A non-empty set of naturals has a least member, because the intervals   *)
(* from 0 to its members are ordered by inclusion.                         *)
LEMMA Least ==
  ASSUME NEW T, T \subseteq Nat, T # {}
  PROVE  \E x \in T : \A y \in T : x <= y
<1> DEFINE U == {0 .. t : t \in T}
           R == StrictSubsetOrdering(Nat)
<1>1. U \subseteq FiniteSubsetsOf(Nat) /\ U # {}
  <2>1. ASSUME NEW t \in T PROVE 0 .. t \in FiniteSubsetsOf(Nat)
    <3>1. t \in Int /\ 0 \in Int /\ 0 .. t \in SUBSET Nat
      OBVIOUS
    <3> QED BY <3>1, FS_Interval DEF FiniteSubsetsOf
  <2> QED BY <2>1
<1>2. IsWellFoundedOn(R, FiniteSubsetsOf(Nat))
  BY FS_StrictSubsetOrderingWellFounded
<1> HIDE DEF R
<1>3. \E u \in U : \A v \in U : <<v, u>> \notin R
  BY <1>1, <1>2, WFMin
<1>4. PICK x \in T : \A y \in T : <<0 .. y, 0 .. x>> \notin R
  BY <1>3
<1>5. ASSUME NEW y \in T, ~ (x <= y) PROVE FALSE
  <2>1. x \in Nat /\ y \in Nat /\ y < x
    BY <1>5
  <2>2. x \in 0 .. x /\ x \notin 0 .. y
    BY <2>1
  <2>3. 0 .. y \in SUBSET Nat /\ 0 .. x \in SUBSET Nat /\ 0 .. y \subseteq 0 .. x /\ 0 .. y # 0 .. x
    BY <2>1, <2>2
  <2>4. <<0 .. y, 0 .. x>> \in R
    BY <2>3 DEF R, StrictSubsetOrdering
  <2> QED BY <1>4, <2>4
<1> QED BY <1>5

(* Induction up to n, over the members of a set.                           *)
LEMMA Induct ==
  ASSUME NEW n \in Nat, NEW T, 0 \in T, \A k \in 1 .. n : k - 1 \in T => k \in T
  PROVE  \A k \in 0 .. n : k \in T
<1> DEFINE Bad == {k \in 0 .. n : k \notin T}
<1> SUFFICES ASSUME Bad # {} PROVE FALSE
  OBVIOUS
<1>1. Bad \subseteq Nat
  OBVIOUS
<1>2. PICK m \in Bad : \A k \in Bad : m <= k
  <2> HIDE DEF Bad
  <2> QED BY <1>1, Least
<1>3. m \in 1 .. n /\ m - 1 \in 0 .. n /\ ~ (m <= m - 1)
  OBVIOUS
<1>4. m - 1 \in T
  BY <1>2, <1>3
<1> QED BY <1>3, <1>4

(* A step from each value to the next defines a function.                  *)
Follows(f, n, S, a, step) ==
  f \in [0 .. n -> S] /\ f[0] = a /\ \A k \in 1 .. n : f[k] = step[k][f[k-1]]

LEMMA Recursion ==
  ASSUME NEW n \in Nat, NEW S, NEW a \in S, NEW step \in [1 .. n -> [S -> S]]
  PROVE  \E f : Follows(f, n, S, a, step)
<1> DEFINE Upto(f, m) == f[0] = a /\ \A k \in 1 .. m : f[k] = step[k][f[k-1]]
           T == {m \in 0 .. n : \E f \in [0 .. m -> S] : Upto(f, m)}
<1>1. 0 \in T
  <2>1. [k \in 0 .. 0 |-> a] \in [0 .. 0 -> S] /\ Upto([k \in 0 .. 0 |-> a], 0)
    OBVIOUS
  <2>2. 0 \in 0 .. n
    OBVIOUS
  <2> QED BY <2>1, <2>2
<1>2. ASSUME NEW m \in 1 .. n, m - 1 \in T
      PROVE  m \in T
  <2>1. PICK f \in [0 .. m-1 -> S] : Upto(f, m - 1)
    BY <1>2
  <2> DEFINE x == step[m][f[m-1]]
             g == [k \in 0 .. m |-> IF k = m THEN x ELSE f[k]]
  <2>2. m - 1 \in 0 .. m-1 /\ x \in S
    OBVIOUS
  <2>3. \A k \in 0 .. m : k # m => k \in 0 .. m-1
    OBVIOUS
  <2> HIDE DEF x
  <2>4. g \in [0 .. m -> S]
    BY <2>2, <2>3
  <2>5. g[0] = a /\ g[m] = x /\ \A k \in 0 .. m-1 : g[k] = f[k]
    BY <2>1
  <2> HIDE DEF g
  <2>6. \A k \in 1 .. m : k - 1 \in 0 .. m-1 /\ (k # m => k \in 1 .. m-1)
    OBVIOUS
  <2>7. ASSUME NEW k \in 1 .. m
        PROVE  g[k] = step[k][g[k-1]]
    <3>1. CASE k = m
      BY <2>2, <2>5, <3>1 DEF x
    <3>2. CASE k # m
      <4>1. k \in 1 .. m-1 /\ k \in 0 .. m-1 /\ k - 1 \in 0 .. m-1
        BY <3>2
      <4> QED BY <2>1, <2>5, <4>1
    <3> QED BY <3>1, <3>2
  <2>8. m \in 0 .. n
    OBVIOUS
  <2>9. Upto(g, m)
    BY <2>1, <2>5, <2>7
  <2> QED BY <2>4, <2>8, <2>9
<1> HIDE DEF T
<1>3. \A m \in 0 .. n : m \in T
  BY <1>1, <1>2, Induct
<1> QED BY <1>3 DEF T, Follows

(* A function that never falls stays below its last value.                 *)
LEMMA Ascending ==
  ASSUME NEW n \in Nat, NEW f \in [0 .. n -> Nat], \A k \in 1 .. n : f[k-1] <= f[k],
         NEW j \in 0 .. n
  PROVE  f[j] <= f[n]
<1> DEFINE T == {m \in 0 .. n : j <= m => f[j] <= f[m]}
<1>1. 0 \in T
  OBVIOUS
<1>2. ASSUME NEW m \in 1 .. n, m - 1 \in T
      PROVE  m \in T
  <2>1. m \in 0 .. n /\ m - 1 \in 0 .. n /\ f[m-1] \in Nat /\ f[m] \in Nat /\ f[j] \in Nat
    OBVIOUS
  <2> QED BY <1>2, <2>1
<1> HIDE DEF T
<1>3. \A m \in 0 .. n : m \in T
  BY <1>1, <1>2, Induct
<1> QED BY <1>3 DEF T

LEMMA CountRecords ==
  ASSUME NEW n \in Nat
  PROVE  Cardinality(0 .. n-1) = n
BY FS_Interval

(* The running totals of the sizes.                                        *)
LEMMA RunningTotal ==
  ASSUME NEW n \in Nat, NEW sizes, DOMAIN sizes = 0 .. n-1,
         \A i \in 0 .. n-1 : sizes[i] \in Nat
  PROVE  /\ running_total(sizes) \in [0 .. n -> Nat]
         /\ running_total(sizes)[0] = 0
         /\ \A k \in 1 .. n :
              running_total(sizes)[k] = running_total(sizes)[k-1] + sizes[k-1]
<1> DEFINE len == [i \in 0 .. n-1 |-> sizes[i]]
           step == [k \in 1 .. n |-> [x \in Nat |-> x + len[k-1]]]
           K == 0 .. n
<1>1. \A k \in 1 .. n : k - 1 \in 0 .. n-1
  OBVIOUS
<1>2. len \in [0 .. n-1 -> Nat]
  OBVIOUS
<1>3. /\ step \in [1 .. n -> [Nat -> Nat]]
      /\ \A k \in 1 .. n, x \in Nat : step[k][x] = x + len[k-1]
  <2> HIDE DEF len
  <2>1. \A k \in 1 .. n : \A x \in Nat : x + len[k-1] \in Nat
    BY <1>1, <1>2
  <2> QED BY <2>1
<1>4. PICK f \in [K -> Nat] : f[0] = 0 /\ \A k \in 1 .. n : f[k] = step[k][f[k-1]]
  <2>1. 0 \in Nat
    OBVIOUS
  <2> HIDE DEF step
  <2>2. step \in [1 .. n -> [Nat -> Nat]]
    BY <1>3
  <2>3. \E f : Follows(f, n, Nat, 0, step)
    BY ONLY <2>1, <2>2, n \in Nat, Recursion
  <2> QED BY <2>3 DEF Follows
<1>5. \A k \in 1 .. n : k - 1 \in K /\ f[k] = f[k-1] + len[k-1]
  <2> HIDE DEF step
  <2>1. \A k \in 1 .. n : k - 1 \in K /\ f[k-1] \in Nat
    OBVIOUS
  <2> QED BY <1>3, <1>4, <2>1
<1>6. \A k \in 1 .. n : f[k] = f[k-1] + sizes[k-1]
  BY <1>1, <1>5
<1>7. f = [k \in K |-> IF k = 0 THEN 0 ELSE f[k-1] + sizes[k-1]]
  <2>1. \A k \in K : k # 0 => k \in 1 .. n
    OBVIOUS
  <2> QED BY <1>4, <1>6, <2>1
<1>8. Cardinality(DOMAIN sizes) = n
  BY CountRecords
<1>9. running_total(sizes)
        = CHOOSE total : total = [k \in K |-> IF k = 0 THEN 0 ELSE total[k-1] + sizes[k-1]]
  BY <1>8, Zenon DEF running_total
<1>10. PICK t : t = running_total(sizes)
  OBVIOUS
<1>11. t = [k \in K |-> IF k = 0 THEN 0 ELSE t[k-1] + sizes[k-1]]
  BY <1>7, <1>9, <1>10, Zenon
<1>12. DOMAIN t = K /\ t[0] = 0 /\ \A k \in 1 .. n : t[k] = t[k-1] + sizes[k-1]
  <2>1. 0 \in K /\ \A k \in 1 .. n : k \in K /\ k # 0
    OBVIOUS
  <2> HIDE DEF K
  <2>2. DOMAIN t = K /\ \A k \in K : t[k] = IF k = 0 THEN 0 ELSE t[k-1] + sizes[k-1]
    BY <1>11, Zenon
  <2> QED BY <2>1, <2>2
<1>13. \A k \in K : t[k] = f[k]
  <2> DEFINE T == {k \in K : t[k] = f[k]}
  <2>1. 0 \in T
    BY <1>4, <1>12
  <2>2. \A k \in 1 .. n : k - 1 \in T => k \in T
    BY <1>6, <1>12
  <2> HIDE DEF T
  <2>3. \A k \in 0 .. n : k \in T
    BY <2>1, <2>2, Induct
  <2> QED BY <2>3 DEF T
<1>14. t \in [K -> Nat]
  <2>1. t = [k \in K |-> t[k]]
    BY <1>11, <1>12
  <2>2. \A k \in K : t[k] \in Nat
    BY <1>13
  <2> QED BY <2>1, <2>2
<1> QED BY <1>10, <1>12, <1>14
-----------------------------------------------------------------------------
(* Sequences of byte strings, one after the other.                         *)

LEMMA SequenceOf ==
  ASSUME NEW n \in Nat, NEW S, NEW s \in [1 .. n -> S]
  PROVE  s \in Seq(S) /\ Len(s) = n
<1>1. s \in Seq(S)
  BY SeqDef
<1> QED BY <1>1, LenProperties

LEMMA FlattenRecursion ==
  ASSUME NEW n \in Nat, n # 0, NEW s \in [1 .. n -> Str]
  PROVE  \E g : /\ g \in [1 .. n -> Str]
                /\ g[1] = s[1]
                /\ \A k \in 2 .. n : g[k] = g[k-1] \o s[k]
                /\ FlattenSeq(s) = g[n]
<1> DEFINE step == [k \in 1 .. n |-> [x \in Str |-> x \o s[k]]]
<1>1. step \in [1 .. n -> [Str -> Str]]
  <2>1. \A k \in 1 .. n : \A x \in Str : x \o s[k] \in Str
    BY ConcatProperties DEF Str
  <2> QED BY <2>1
<1>2. << >> \in Str
  BY EmptySeq DEF Str
<1> HIDE DEF step
<1>3. PICK f : Follows(f, n, Str, << >>, step)
  BY <1>1, <1>2, Recursion
<1>4. f \in [0 .. n -> Str] /\ f[0] = << >> /\ \A k \in 1 .. n : f[k] = f[k-1] \o s[k]
  <2>1. ASSUME NEW k \in 1 .. n
        PROVE  f[k-1] \in Str /\ f[k] = step[k][f[k-1]]
    BY <1>3 DEF Follows
  <2> QED BY <1>3, <2>1 DEF Follows, step
<1>5. << >> \o s[1] = s[1]
  BY ConcatEmptySeq DEF Str
<1>6. f[1] = s[1] /\ \A k \in 2 .. n : f[k] = f[k-1] \o s[k]
  <2>1. 1 \in 1 .. n /\ 1 - 1 = 0 /\ \A k \in 2 .. n : k \in 1 .. n
    OBVIOUS
  <2>2. f[1] = f[1-1] \o s[1]
    BY <1>4, <2>1
  <2> QED BY <1>4, <1>5, <2>1, <2>2
<1>7. Len(s) = n
  BY SequenceOf
<1> DEFINE R(h) == h = [i \in 1 .. n |-> IF i = 1 THEN s[i] ELSE h[i-1] \o s[i]]
           g == CHOOSE h : R(h)
           F == [i \in 1 .. n |-> f[i]]
<1>8. R(F)
  <2>1. ASSUME NEW i \in 1 .. n, i # 1
        PROVE  i \in 2 .. n /\ i - 1 \in 1 .. n
    BY <2>1
  <2> QED BY <1>6, <2>1
<1>9. R(g)
  <2> HIDE DEF R
  <2> QED BY <1>8
<1>10. FlattenSeq(s) = g[n]
  BY <1>7, Zenon DEF FlattenSeq
<1> HIDE DEF g
<1>11. DOMAIN g = 1 .. n /\ g[1] = s[1] /\ \A k \in 2 .. n : g[k] = g[k-1] \o s[k]
  <2>1. 1 \in 1 .. n /\ \A k \in 2 .. n : k \in 1 .. n /\ k # 1
    OBVIOUS
  <2>2. DOMAIN g = 1 .. n /\ \A k \in 1 .. n : g[k] = IF k = 1 THEN s[k] ELSE g[k-1] \o s[k]
    BY <1>9, Zenon
  <2> QED BY <2>1, <2>2
<1>12. \A k \in 1 .. n : g[k] = f[k]
  <2> DEFINE T == {k \in 0 .. n : k = 0 \/ g[k] = f[k]}
  <2>1. 0 \in T
    OBVIOUS
  <2>2. ASSUME NEW k \in 1 .. n, k - 1 \in T PROVE k \in T
    <3>1. CASE k = 1
      BY <1>6, <1>11, <3>1
    <3>2. CASE k # 1
      <4>1. k \in 2 .. n /\ g[k-1] = f[k-1]
        BY <2>2, <3>2
      <4>2. g[k] = f[k]
        BY ONLY <1>6, <1>11, <4>1
      <4> QED BY <4>2
    <3> QED BY <3>1, <3>2
  <2> HIDE DEF T
  <2>3. \A k \in 0 .. n : k \in T
    BY <2>1, <2>2, Induct
  <2> QED BY <2>3 DEF T
<1>13. g \in [1 .. n -> Str]
  <2>1. g = [k \in 1 .. n |-> g[k]]
    BY <1>9, <1>11
  <2>2. \A k \in 1 .. n : g[k] \in Str
    BY <1>4, <1>12
  <2> QED BY <2>1, <2>2
<1> QED BY <1>10, <1>11, <1>13

LEMMA Cut ==
  ASSUME NEW F \in Str, NEW a \in Nat, NEW b \in Nat, a <= b, b <= Len(F)
  PROVE  /\ SubSeq(F, a + 1, b) \in Str
         /\ Len(SubSeq(F, a + 1, b)) = b - a
         /\ \A m \in 1 .. b - a : SubSeq(F, a + 1, b)[m] = F[a + m]
<1>1. Len(F) \in Nat /\ \A i \in 1 .. Len(F) : F[i] \in Byte
  BY LenProperties, ElementOfSeq DEF Str
<1>2. a + 1 \in Int /\ b \in Int /\ \A i \in a + 1 .. b : F[i] \in Byte
  BY <1>1
<1>3. /\ SubSeq(F, a + 1, b) \in Seq(Byte)
      /\ Len(SubSeq(F, a + 1, b)) = IF a + 1 <= b THEN b - (a + 1) + 1 ELSE 0
      /\ \A i \in 1 .. b - (a + 1) + 1 : SubSeq(F, a + 1, b)[i] = F[(a + 1) + i - 1]
  BY <1>2, SubSeqProperties
<1>4. SubSeq(F, a + 1, b) \in Str /\ Len(SubSeq(F, a + 1, b)) = b - a
  BY <1>3 DEF Str
<1>5. ASSUME NEW m \in 1 .. b - a
      PROVE  SubSeq(F, a + 1, b)[m] = F[a + m]
  <2>1. m \in 1 .. b - (a + 1) + 1 /\ (a + 1) + m - 1 = a + m
    OBVIOUS
  <2> QED BY <1>3, <2>1
<1> QED BY <1>4, <1>5

(* F is the members of s, the k-th up to position tot[k].                  *)
Joins(F, s, n, tot) ==
  /\ F \in Str /\ Len(F) = tot[n]
  /\ \A k \in 1 .. n : SubSeq(F, tot[k-1] + 1, tot[k]) = s[k]

LEMMA Flattened ==
  ASSUME NEW n \in Nat, NEW s \in [1 .. n -> Str], NEW tot \in [0 .. n -> Nat],
         tot[0] = 0, \A k \in 1 .. n : tot[k] = tot[k-1] + Len(s[k])
  PROVE  Joins(FlattenSeq(s), s, n, tot)
<1>1. CASE n = 0
  <2>1. s \in Str /\ Len(s) = 0
    BY <1>1, SequenceOf DEF Str
  <2>2. FlattenSeq(s) = s
    BY <2>1 DEF FlattenSeq
  <2> QED BY <1>1, <2>1, <2>2 DEF Joins
<1>2. CASE n # 0
  <2>1. PICK g : /\ g \in [1 .. n -> Str]
                 /\ g[1] = s[1]
                 /\ \A k \in 2 .. n : g[k] = g[k-1] \o s[k]
                 /\ FlattenSeq(s) = g[n]
    BY <1>2, FlattenRecursion
  <2>2. ASSUME NEW k \in 1 .. n
        PROVE  /\ k - 1 \in 0 .. n /\ k \in 0 .. n /\ tot[k-1] \in Nat /\ tot[k] \in Nat
               /\ s[k] \in Str /\ Len(s[k]) \in Nat /\ tot[k] = tot[k-1] + Len(s[k])
    BY LenProperties DEF Str
  <2> DEFINE At(k) == /\ Len(g[k]) = tot[k]
                      /\ \A j \in 1 .. k :
                           /\ tot[j] <= tot[k]
                           /\ \A m \in 1 .. Len(s[j]) : g[k][tot[j-1] + m] = s[j][m]
             T == {k \in 0 .. n : k = 0 \/ At(k)}
  <2>3. 0 \in T
    OBVIOUS
  <2>4. ASSUME NEW k \in 1 .. n, k - 1 \in T PROVE k \in T
    <3>1. CASE k = 1
      <4>1. At(1)
        BY <2>1, <2>2, <3>1
      <4> QED BY <3>1, <4>1
    <3>2. CASE k # 1
      <4>1. k \in 2 .. n /\ k - 1 \in 1 .. n /\ At(k-1)
        BY <2>4, <3>2
      <4>2. g[k] = g[k-1] \o s[k] /\ g[k-1] \in Str /\ s[k] \in Str
        BY <2>1, <4>1
      <4>3. /\ Len(g[k]) = Len(g[k-1]) + Len(s[k])
            /\ \A i \in 1 .. Len(g[k-1]) : g[k][i] = g[k-1][i]
            /\ \A m \in 1 .. Len(s[k]) : g[k][Len(g[k-1]) + m] = s[k][m]
        BY <4>2, ConcatProperties, LenProperties DEF Str
      <4>4. Len(g[k-1]) = tot[k-1] /\ Len(g[k]) = tot[k]
        BY <2>2, <4>1, <4>3
      <4>5. ASSUME NEW j \in 1 .. k
            PROVE  /\ tot[j] <= tot[k]
                   /\ \A m \in 1 .. Len(s[j]) : g[k][tot[j-1] + m] = s[j][m]
        <5>1. CASE j = k
          BY <2>2, <4>3, <4>4, <5>1
        <5>2. CASE j # k
          <6>1. j \in 1 .. k-1 /\ j \in 1 .. n
            BY <5>2
          <6>5. /\ tot[k-1] \in Nat /\ tot[k] \in Nat /\ tot[k] = tot[k-1] + Len(s[k])
                /\ tot[j-1] \in Nat /\ tot[j] \in Nat /\ tot[j] = tot[j-1] + Len(s[j])
                /\ Len(s[k]) \in Nat /\ Len(s[j]) \in Nat
            BY <2>2, <6>1
          <6>2. /\ tot[j] <= tot[k-1]
                /\ \A m \in 1 .. Len(s[j]) : g[k-1][tot[j-1] + m] = s[j][m]
            BY <4>1, <6>1
          <6>3. tot[k-1] <= tot[k] /\ tot[j] <= tot[k]
            <7>1. tot[j] <= tot[k-1]
              BY <6>2
            <7>2. \A p \in Nat, q \in Nat, l \in Nat, e \in Nat :
                    p <= q /\ e = q + l => q <= e /\ p <= e
              OBVIOUS
            <7> QED BY ONLY <6>5, <7>1, <7>2, Zenon
          <6>4. ASSUME NEW m \in 1 .. Len(s[j])
                PROVE  tot[j-1] + m \in 1 .. Len(g[k-1])
            <7>1. tot[j] <= tot[k-1] /\ Len(g[k-1]) = tot[k-1] /\ m \in Nat /\ 1 <= m /\ m <= Len(s[j])
              BY <4>4, <6>2, <6>5
            <7>2. PICK p \in Nat, q \in Nat, l \in Nat, e \in Nat :
                    p = tot[j-1] /\ q = tot[k-1] /\ l = Len(s[j]) /\ e = tot[j]
              BY ONLY <6>5
            <7>3. e = p + l /\ e <= q /\ 1 <= m /\ m <= l
              BY ONLY <6>5, <7>1, <7>2
            <7>4. p + m \in 1 .. q
              BY ONLY <7>1, <7>3, p \in Nat, q \in Nat, l \in Nat
            <7> QED BY ONLY <7>1, <7>2, <7>4
          <6> QED BY <4>3, <6>2, <6>3, <6>4
        <5> QED BY <5>1, <5>2
      <4>6. At(k)
        BY <4>4, <4>5
      <4>7. k \in 0 .. n
        OBVIOUS
      <4> HIDE DEF At
      <4> QED BY ONLY <4>6, <4>7
    <3> QED BY <3>1, <3>2
  <2> HIDE DEF T
  <2>5. \A k \in 0 .. n : k \in T
    BY <2>3, <2>4, Induct
  <2>6. At(n)
    <3>1. n \in T
      BY <2>5
    <3> QED BY <1>2, <3>1 DEF T
  <2>7. g[n] \in Str /\ Len(g[n]) = tot[n]
    BY <1>2, <2>1, <2>6
  <2>8. ASSUME NEW k \in 1 .. n
        PROVE  SubSeq(g[n], tot[k-1] + 1, tot[k]) = s[k]
    <3> PICK F \in Str, a \in Nat, b \in Nat, u \in Str :
          F = g[n] /\ a = tot[k-1] /\ b = tot[k] /\ u = s[k]
      BY <2>2, <2>7
    <3>1. a <= b /\ b - a = Len(u) /\ b <= Len(F) /\ Len(u) \in Nat
      BY <2>2, <2>6, <2>7
    <3>2. \A m \in 1 .. Len(u) : F[a + m] = u[m]
      BY <2>6
    <3>3. /\ SubSeq(F, a + 1, b) \in Str
          /\ Len(SubSeq(F, a + 1, b)) = Len(u)
          /\ \A m \in 1 .. Len(u) : SubSeq(F, a + 1, b)[m] = u[m]
      <4>1. /\ SubSeq(F, a + 1, b) \in Str
            /\ Len(SubSeq(F, a + 1, b)) = b - a
            /\ \A m \in 1 .. b - a : SubSeq(F, a + 1, b)[m] = F[a + m]
        BY ONLY <3>1, F \in Str, a \in Nat, b \in Nat, Cut
      <4> QED BY <3>1, <3>2, <4>1
    <3>4. SubSeq(F, a + 1, b) = u
      BY ONLY <3>3, u \in Str, SeqEqual DEF Str
    <3> QED BY <3>4
  <2> QED BY <2>1, <2>7, <2>8 DEF Joins
<1> QED BY <1>1, <1>2

-----------------------------------------------------------------------------
(* States.                                                                 *)

(* A record that R can hold the string of.                                 *)
Held == {view \in View : Len(view.bytes) <= MaxString}

StateOf(m) ==
  [magic : {"CPV1", "CPV2", "other"}, flag : Order \cup {"other"}, order : Order, n : 0 .. MaxLen,
   sizes : [0 .. m-1 -> Nat], encs : [0 .. m-1 -> TagByte], bytes : Str]

(* A state that holds fewer records than it counts has no payload.         *)
StateOK(s) ==
  \E m \in 0 .. MaxLen : s \in StateOf(m) /\ (m = s.n \/ (m < s.n /\ s.bytes = << >>))

LEMMA HeldView ==
  ASSUME NEW view \in Held
  PROVE  /\ view \in View /\ view.bytes \in Str /\ view.enc \in Tag \cup {"NA"}
         /\ Len(view.bytes) \in Nat /\ Len(view.bytes) <= MaxString
         /\ view.enc = "NA" => view = NaView /\ Len(view.bytes) = 0
<1>1. view \in View /\ Len(view.bytes) <= MaxString
  BY DEF Held
<1>2. << >> \in Str /\ Len(<< >>) = 0
  BY EmptySeq DEF Str
<1>3. CASE view \in [bytes : Str, enc : Tag]
  <2>1. view.bytes \in Str /\ view.enc \in Tag /\ view.enc # "NA"
    BY <1>3 DEF Tag
  <2> QED BY <1>1, <2>1, LenProperties DEF Str
<1>4. CASE view = NaView
  <2>1. view.bytes = << >> /\ view.enc = "NA"
    BY <1>4 DEF NaView
  <2> QED BY <1>1, <1>2, <1>4, <2>1
<1> QED BY <1>1, <1>3, <1>4 DEF View, NaView

LEMMA SerializedLength ==
  ASSUME NEW n \in Nat, NEW payload \in Nat
  PROVE  serialized_length(n, payload) = 13 + 5 * n + payload
BY DEF serialized_length, prefix_bytes

LEMMA StateType ==
  ASSUME NEW m \in Nat, NEW s \in StateOf(m)
  PROVE  /\ s.n \in 0 .. MaxLen /\ s.bytes \in Str /\ Len(s.bytes) \in Nat
         /\ s.sizes \in [0 .. m-1 -> Nat] /\ s.encs \in [0 .. m-1 -> TagByte]
         /\ DOMAIN s.sizes = 0 .. m-1 /\ DOMAIN s.encs = 0 .. m-1
         /\ raw_len(s) = 13 + 5 * m + Len(s.bytes)
<1>1. /\ s.n \in 0 .. MaxLen /\ s.bytes \in Str
      /\ s.sizes \in [0 .. m-1 -> Nat] /\ s.encs \in [0 .. m-1 -> TagByte]
  BY DEF StateOf
<1>2. Len(s.bytes) \in Nat
  BY <1>1, LenProperties DEF Str
<1>3. DOMAIN s.sizes = 0 .. m-1 /\ DOMAIN s.encs = 0 .. m-1
  BY <1>1
<1>4. Cardinality(DOMAIN s.sizes) = m
  BY <1>3, CountRecords
<1>5. raw_len(s) = 13 + 5 * m + Len(s.bytes)
  <2>1. raw_len(s) = serialized_length(m, Len(s.bytes))
    BY <1>4 DEF raw_len
  <2> QED BY <1>2, <2>1, SerializedLength
<1> QED BY <1>1, <1>2, <1>3, <1>5

(* A state that is long enough for its count holds that many records.      *)
LEMMA ParsedIsWhole ==
  ASSUME NEW s, StateOK(s), NEW h, parsed(s, h)
  PROVE  s \in StateOf(s.n)
<1>1. PICK m \in 0 .. MaxLen : s \in StateOf(m) /\ (m = s.n \/ (m < s.n /\ s.bytes = << >>))
  BY DEF StateOK
<1>2. m \in Nat /\ s.n \in Nat /\ raw_len(s) = 13 + 5 * m + Len(s.bytes) /\ Len(s.bytes) \in Nat
  <2>1. m \in Nat /\ s \in StateOf(m)
    BY <1>1, CodecAssumption
  <2>2. /\ s.n \in 0 .. MaxLen /\ Len(s.bytes) \in Nat
        /\ raw_len(s) = 13 + 5 * m + Len(s.bytes)
    BY ONLY <2>1, StateType
  <2> QED BY <2>1, <2>2, CodecAssumption
<1>3. 13 + 5 * s.n + 0 <= raw_len(s)
  <2>1. serialized_length(s.n, 0) <= raw_len(s)
    BY DEF parsed
  <2>2. 0 \in Nat
    OBVIOUS
  <2> QED BY <1>2, <2>1, <2>2, SerializedLength
<1>4. CASE m < s.n /\ s.bytes = << >>
  <2>1. Len(s.bytes) = 0
    BY <1>4, EmptySeq
  <2> QED BY <1>2, <1>3, <1>4, <2>1
<1> QED BY <1>1, <1>4

LEMMA Used ==
  ASSUME NEW n \in Nat, NEW s \in StateOf(n)
  PROVE  \E tot \in [0 .. n -> Nat] :
           /\ tot[0] = 0 /\ \A k \in 1 .. n : tot[k] = tot[k-1] + s.sizes[k-1]
           /\ \A i \in 0 .. n : used(s, i) = tot[i]
<1>1. DOMAIN s.sizes = 0 .. n-1 /\ \A i \in 0 .. n-1 : s.sizes[i] \in Nat
  BY StateType
<1>2. /\ running_total(s.sizes) \in [0 .. n -> Nat]
      /\ running_total(s.sizes)[0] = 0
      /\ \A k \in 1 .. n :
           running_total(s.sizes)[k] = running_total(s.sizes)[k-1] + s.sizes[k-1]
  BY <1>1, RunningTotal
<1> QED BY <1>2 DEF used

-----------------------------------------------------------------------------
(* States that are accepted.                                               *)

(* tot is what the first records of the state add up to.                   *)
Totals(s, n, tot) ==
  /\ \A k \in 1 .. n : tot[k] = tot[k-1] + s.sizes[k-1]
  /\ \A i \in 0 .. n : used(s, i) = tot[i]

(* Every record of an accepted state lies within its payload.              *)
LEMMA RecordBytes ==
  ASSUME NEW n \in Nat, NEW s \in StateOf(n), NEW tot \in [0 .. n -> Nat], s.n = n,
         Totals(s, n, tot), check_records(s), NEW i \in 0 .. n-1
  PROVE  /\ record_bytes(s, i) = SubSeq(s.bytes, tot[i] + 1, tot[i+1])
         /\ record_bytes(s, i) \in Str /\ Len(record_bytes(s, i)) = s.sizes[i]
         /\ s.sizes[i] <= MaxString /\ s.encs[i] \in Tag \cup {"NA"}
         /\ s.encs[i] = "NA" => s.sizes[i] = 0
         /\ tot[i] <= tot[i+1] /\ tot[i+1] <= Len(s.bytes) /\ tot[i+1] = tot[i] + s.sizes[i]
<1> USE DEF Totals
<1>1. /\ s.bytes \in Str /\ Len(s.bytes) \in Nat /\ DOMAIN s.bytes = 1 .. Len(s.bytes)
      /\ s.sizes[i] \in Nat
  <2>1. s.bytes \in Str /\ Len(s.bytes) \in Nat /\ s.sizes \in [0 .. n-1 -> Nat]
    BY ONLY n \in Nat, s \in StateOf(n), StateType
  <2>2. DOMAIN s.bytes = 1 .. Len(s.bytes)
    BY <2>1, LenProperties DEF Str
  <2> QED BY <2>1, <2>2
<1>2. i \in 0 .. n /\ i + 1 \in 0 .. n /\ i + 1 \in 1 .. n /\ (i + 1) - 1 = i
  OBVIOUS
<1>3. tot[i] \in Nat /\ tot[i+1] \in Nat /\ tot[i+1] = tot[i] + s.sizes[i] /\ used(s, i) = tot[i]
  BY <1>2
<1>4. /\ s.sizes[i] <= MaxString /\ s.encs[i] \in Tag \cup {"NA"}
      /\ s.encs[i] = "NA" => s.sizes[i] = 0
      /\ s.sizes[i] <= Len(s.bytes) - used(s, i)
  BY DEF check_records
<1> PICK a \in Nat, b \in Nat, l \in Nat, e \in Nat :
      a = tot[i] /\ b = tot[i+1] /\ l = s.sizes[i] /\ e = Len(s.bytes)
  BY <1>1, <1>3
<1>5. b = a + l /\ a <= b /\ b <= e /\ b - a = l
  <2>1. b = a + l /\ l <= e - a
    BY <1>3, <1>4
  <2> QED BY ONLY <2>1, a \in Nat, b \in Nat, l \in Nat, e \in Nat
<1> PICK F \in Str : F = s.bytes
  BY <1>1
<1>6. /\ SubSeq(F, a + 1, b) \in Str
      /\ Len(SubSeq(F, a + 1, b)) = b - a
      /\ \A m \in 1 .. b - a : SubSeq(F, a + 1, b)[m] = F[a + m]
  <2>1. a <= b /\ b <= Len(F)
    BY <1>5
  <2> QED BY ONLY <2>1, F \in Str, a \in Nat, b \in Nat, Cut
<1>7. record_bytes(s, i) = [k \in 1 .. l |-> F[a + k]]
  <2>1. \A k \in 1 .. l : a + k \in 1 .. e
    BY ONLY <1>5, a \in Nat, b \in Nat, l \in Nat, e \in Nat
  <2>2. record_bytes(s, i) = [k \in 1 .. l |-> IF a + k \in DOMAIN F THEN F[a + k] ELSE Junk]
    BY <1>3 DEF record_bytes
  <2>3. DOMAIN F = 1 .. e
    BY <1>1
  <2> QED BY <2>1, <2>2, <2>3
<1>8. [k \in 1 .. l |-> F[a + k]] = SubSeq(F, a + 1, b)
  <2> PICK q \in Str : q = SubSeq(F, a + 1, b)
    BY <1>6
  <2>1. Len(q) = l /\ \A m \in 1 .. l : q[m] = F[a + m]
    BY <1>5, <1>6
  <2>2. DOMAIN q = 1 .. l /\ q = [k \in DOMAIN q |-> q[k]]
    <3>1. \A f \in Seq(Byte) : DOMAIN f = 1 .. Len(f) /\ f = [k \in DOMAIN f |-> f[k]]
      BY LenProperties
    <3> QED BY <2>1, <3>1 DEF Str
  <2> QED BY <2>1, <2>2
<1> QED BY <1>3, <1>4, <1>5, <1>6, <1>7, <1>8

LEMMA EncodingType ==
  ASSUME NEW s, NEW i, NEW h, s.encs[i] \in Tag
  PROVE  encoding_of(s, i, h) \in Tag
BY DEF encoding_of, Tag

(* "Untrusted input": the records of an accepted state are ones R can hold.*)
LEMMA AcceptedAreHeld ==
  ASSUME NEW s, StateOK(s), NEW h \in Session, parsed(s, h), check_records(s)
  PROVE  /\ s.n \in 0 .. MaxLen
         /\ unserialize_store(s, h) \in [0 .. s.n-1 -> Held]
<1> PICK n : n = s.n
  OBVIOUS
<1>1. s \in StateOf(n) /\ n \in Nat /\ n \in 0 .. MaxLen
  <2>1. s \in StateOf(s.n)
    BY ParsedIsWhole
  <2> QED BY <2>1 DEF StateOf
<1>2. PICK tot \in [0 .. n -> Nat] :
        /\ tot[0] = 0 /\ \A k \in 1 .. n : tot[k] = tot[k-1] + s.sizes[k-1]
        /\ \A i \in 0 .. n : used(s, i) = tot[i]
  BY <1>1, Used
<1>3. NaView \in Held
  <2>1. NaView.bytes = << >>
    BY DEF NaView
  <2>2. Len(NaView.bytes) = 0 /\ MaxString \in Nat
    BY <2>1, EmptySeq, CodecAssumption
  <2> QED BY <2>2 DEF Held, View, NaView
<1>4. ASSUME NEW i \in 0 .. n-1
      PROVE  (IF s.encs[i] = "NA" THEN NaView
              ELSE [bytes |-> record_bytes(s, i), enc |-> encoding_of(s, i, h)]) \in Held
  <2>1. /\ record_bytes(s, i) \in Str /\ Len(record_bytes(s, i)) <= MaxString
        /\ s.encs[i] \in Tag \cup {"NA"}
    <3>1. /\ record_bytes(s, i) \in Str /\ Len(record_bytes(s, i)) = s.sizes[i]
          /\ s.sizes[i] <= MaxString /\ s.encs[i] \in Tag \cup {"NA"}
      <4>1. s.n = n /\ s \in StateOf(n) /\ n \in Nat
        BY ONLY <1>1, n = s.n
      <4>2. Totals(s, n, tot)
        BY ONLY <1>2 DEF Totals
      <4> QED BY ONLY <4>1, <4>2, check_records(s), i \in 0 .. n-1,
                      tot \in [0 .. n -> Nat], RecordBytes
    <3> QED BY <3>1
  <2>2. CASE s.encs[i] # "NA"
    <3> PICK x : x = [bytes |-> record_bytes(s, i), enc |-> encoding_of(s, i, h)]
      OBVIOUS
    <3>1. encoding_of(s, i, h) \in Tag
      BY <2>1, <2>2, EncodingType
    <3>2. x.bytes = record_bytes(s, i) /\ x \in [bytes : Str, enc : Tag]
      BY <2>1, <3>1
    <3> QED BY <2>1, <2>2, <3>2 DEF Held, View
  <2> QED BY <1>3, <2>2
<1>5. unserialize_store(s, h) =
        [i \in 0 .. n-1 |->
           IF s.encs[i] = "NA" THEN NaView
           ELSE [bytes |-> record_bytes(s, i), enc |-> encoding_of(s, i, h)]]
  BY DEF unserialize_store
<1> QED BY <1>1, <1>4, <1>5

(* They lie side by side in the payload, from its first byte to its last.  *)
LEMMA AcceptedIsExact ==
  ASSUME NEW s, StateOK(s), NEW h \in Session, parsed(s, h), check_records(s)
  PROVE  FlattenSeq([k \in 1 .. s.n |-> unserialize_store(s, h)[k-1].bytes]) = s.bytes
<1> PICK n : n = s.n
  OBVIOUS
<1>1. s \in StateOf(n) /\ n \in Nat
  <2>1. s \in StateOf(s.n)
    BY ParsedIsWhole
  <2> QED BY <2>1 DEF StateOf
<1>2. PICK tot \in [0 .. n -> Nat] :
        /\ tot[0] = 0 /\ \A k \in 1 .. n : tot[k] = tot[k-1] + s.sizes[k-1]
        /\ \A i \in 0 .. n : used(s, i) = tot[i]
  BY <1>1, Used
<1> PICK P : P = [k \in 1 .. n |-> unserialize_store(s, h)[k-1].bytes]
  OBVIOUS
<1>3. ASSUME NEW k \in 1 .. n
      PROVE  /\ P[k] = SubSeq(s.bytes, tot[k-1] + 1, tot[k])
             /\ P[k] \in Str /\ Len(P[k]) = s.sizes[k-1]
             /\ tot[k-1] \in Nat /\ tot[k] \in Nat
             /\ tot[k-1] <= tot[k] /\ tot[k] <= Len(s.bytes) /\ tot[k] = tot[k-1] + s.sizes[k-1]
  <2> PICK i \in 0 .. n-1 : i = k - 1
    BY <1>1
  <2>1. i + 1 = k /\ i \in 0 .. n /\ k \in 0 .. n
    BY <1>1
  <2>2. /\ record_bytes(s, i) = SubSeq(s.bytes, tot[i] + 1, tot[i+1])
        /\ record_bytes(s, i) \in Str /\ Len(record_bytes(s, i)) = s.sizes[i]
        /\ s.sizes[i] <= MaxString /\ s.encs[i] \in Tag \cup {"NA"}
        /\ s.encs[i] = "NA" => s.sizes[i] = 0
        /\ tot[i] <= tot[i+1] /\ tot[i+1] <= Len(s.bytes) /\ tot[i+1] = tot[i] + s.sizes[i]
    <3>1. s.n = n /\ s \in StateOf(n) /\ n \in Nat
      BY ONLY <1>1, n = s.n
    <3>2. Totals(s, n, tot)
      BY ONLY <1>2 DEF Totals
    <3> QED BY ONLY <3>1, <3>2, check_records(s), i \in 0 .. n-1,
                    tot \in [0 .. n -> Nat], RecordBytes
  <2>3. unserialize_store(s, h)[i] =
          IF s.encs[i] = "NA" THEN NaView
          ELSE [bytes |-> record_bytes(s, i), enc |-> encoding_of(s, i, h)]
    BY DEF unserialize_store
  <2>4. unserialize_store(s, h)[i].bytes = record_bytes(s, i)
    <3>1. CASE s.encs[i] = "NA"
      <4>1. Len(record_bytes(s, i)) = 0
        BY <2>2, <3>1
      <4>2. record_bytes(s, i) = << >>
        BY <2>2, <4>1, EmptySeq DEF Str
      <4> QED BY <2>3, <3>1, <4>2 DEF NaView
    <3>2. CASE s.encs[i] # "NA"
      <4>1. \A b, e : [bytes |-> b, enc |-> e].bytes = b
        OBVIOUS
      <4> QED BY <2>3, <3>2, <4>1, Zenon
    <3> QED BY <3>1, <3>2
  <2>5. P[k] = record_bytes(s, i)
    BY <2>4
  <2>6. tot[i] \in Nat /\ tot[k] \in Nat
    BY <2>1
  <2> QED BY <2>1, <2>2, <2>5, <2>6
<1>4. P \in [1 .. n -> Str]
  BY <1>3
<1> PICK G : G = FlattenSeq(P)
  OBVIOUS
<1>5. Joins(G, P, n, tot)
  <2>1. tot[0] = 0 /\ \A k \in 1 .. n : tot[k] = tot[k-1] + Len(P[k])
    BY <1>2, <1>3
  <2>2. Joins(FlattenSeq(P), P, n, tot)
    BY ONLY <1>1, <1>4, <2>1, tot \in [0 .. n -> Nat], Flattened
  <2> QED BY <2>2
<1> PICK F : F = s.bytes
  OBVIOUS
<1>6. /\ F \in Str /\ Len(F) \in Nat /\ tot[n] = Len(F)
      /\ G \in Str /\ Len(G) = Len(F)
  <2>1. F \in Str /\ Len(F) \in Nat
    BY <1>1, StateType
  <2>2. tot[n] = Len(F)
    <3>1. n \in 0 .. n
      BY <1>1
    <3> QED BY <1>2, <3>1 DEF check_records
  <2> QED BY <1>5, <2>1, <2>2 DEF Joins
<1> DEFINE T == {k \in 0 .. n : \A p \in 1 .. tot[k] : G[p] = F[p]}
<1>7. 0 \in T
  BY <1>1, <1>2
<1>8. ASSUME NEW k \in 1 .. n, k - 1 \in T
      PROVE  k \in T
  <2> PICK a \in Nat, b \in Nat : a = tot[k-1] /\ b = tot[k]
    BY <1>3
  <2>1. a <= b /\ b <= Len(F) /\ b <= Len(G)
    BY <1>3, <1>6
  <2>2. \A m \in 1 .. b - a : SubSeq(F, a + 1, b)[m] = F[a + m]
    BY ONLY <1>6, <2>1, a \in Nat, b \in Nat, Cut
  <2>3. \A m \in 1 .. b - a : SubSeq(G, a + 1, b)[m] = G[a + m]
    BY ONLY <1>6, <2>1, a \in Nat, b \in Nat, Cut
  <2>4. SubSeq(G, a + 1, b) = SubSeq(F, a + 1, b)
    BY <1>3, <1>5 DEF Joins
  <2>5. \A p \in 1 .. a : G[p] = F[p]
    BY <1>8
  <2>6. ASSUME NEW p \in 1 .. b
        PROVE  G[p] = F[p]
    <3>1. CASE p <= a
      BY <2>5, <3>1
    <3>2. CASE ~ (p <= a)
      <4> PICK m \in 1 .. b - a : p = a + m
        <5>1. p - a \in 1 .. b - a /\ p = a + (p - a)
          BY <3>2
        <5> QED BY <5>1
      <4>1. SubSeq(G, a + 1, b)[m] = G[a + m] /\ SubSeq(F, a + 1, b)[m] = F[a + m]
        BY ONLY <2>2, <2>3, m \in 1 .. b - a
      <4> QED BY ONLY <2>4, <4>1, p = a + m, Zenon
    <3> QED BY <3>1, <3>2
  <2>7. k \in 0 .. n
    OBVIOUS
  <2> QED BY <2>6, <2>7
<1> HIDE DEF T
<1>9. \A k \in 0 .. n : k \in T
  BY <1>1, <1>7, <1>8, Induct
<1>10. \A p \in 1 .. Len(F) : G[p] = F[p]
  <2>1. n \in T
    BY <1>1, <1>9
  <2> QED BY <1>6, <2>1 DEF T
<1>11. G = F
  BY ONLY <1>6, <1>10, SeqEqual DEF Str
<1> QED BY <1>11

-----------------------------------------------------------------------------
(* States that were written.                                               *)

LEMMA HostOrderType ==
  ASSUME NEW h
  PROVE  HostOrder(h) \in Order
BY DEF HostOrder, Order

(* A state that was written is in no session taken for one of the other    *)
(* byte order.                                                             *)
LEMMA FlagTellsOrder ==
  ASSUME NEW s, NEW h, s.flag = s.order, s.order \in Order
  PROVE  read_order(s, h) = s.order
<1>1. HostOrder(h) \in Order
  BY HostOrderType
<1>2. CASE s.order = HostOrder(h)
  BY <1>2 DEF read_order, swap
<1>3. CASE s.order # HostOrder(h)
  <2>1. \A o \in Order : o # HostOrder(h) <=> o = s.order
    BY <1>1, <1>3 DEF Order
  <2>2. (CHOOSE o \in Order : o # HostOrder(h)) = s.order
    BY <2>1
  <2> QED BY <1>3, <2>2 DEF read_order, swap
<1> QED BY <1>2, <1>3

Pieces(n, f) == [k \in 1 .. n |-> f[k-1].bytes]

WrittenAs(s, magic, order, n, f) ==
  /\ n \in 0 .. MaxLen /\ f \in [0 .. n-1 -> Held]
  /\ magic \in {"CPV1", "CPV2"} /\ order \in Order
  /\ s = Packed(magic, order, f)

Unpacks(s, magic, order, n, f) ==
  /\ s \in StateOf(n) /\ s.n = n /\ s.magic = magic /\ s.flag = order /\ s.order = order
  /\ \A i \in 0 .. n-1 : s.sizes[i] = Len(f[i].bytes) /\ s.encs[i] = f[i].enc
  /\ Pieces(n, f) \in [1 .. n -> Str]
  /\ \E tot \in [0 .. n -> Nat] :
       /\ tot[0] = 0 /\ \A k \in 1 .. n : tot[k] = tot[k-1] + s.sizes[k-1]
       /\ \A i \in 0 .. n : used(s, i) = tot[i]
       /\ Joins(s.bytes, Pieces(n, f), n, tot)

LEMMA PackedFields ==
  ASSUME NEW s, NEW magic, NEW order, NEW n, NEW f, WrittenAs(s, magic, order, n, f)
  PROVE  Unpacks(s, magic, order, n, f)
<1> n \in 0 .. MaxLen /\ f \in [0 .. n-1 -> Held]
    /\ magic \in {"CPV1", "CPV2"} /\ order \in Order
    /\ s = Packed(magic, order, f)
  BY DEF WrittenAs
<1> PICK P : P = Pieces(n, f)
  OBVIOUS
<1>0. P = [k \in 1 .. n |-> f[k-1].bytes]
  BY DEF Pieces
<1>1. n \in Nat /\ DOMAIN f = 0 .. n-1 /\ Cardinality(DOMAIN f) = n
  BY CodecAssumption, CountRecords
<1>2. \A i \in 0 .. n-1 :
        f[i].bytes \in Str /\ Len(f[i].bytes) \in Nat /\ f[i].enc \in TagByte
  BY HeldView DEF TagByte
<1>3. P \in [1 .. n -> Str]
  <2>1. \A k \in 1 .. n : k - 1 \in 0 .. n-1
    BY <1>1
  <2> QED BY <1>0, <1>2, <2>1
<1> DEFINE sizes == [i \in 0 .. n-1 |-> Len(f[i].bytes)]
           encs == [i \in 0 .. n-1 |-> f[i].enc]
<1>4. sizes \in [0 .. n-1 -> Nat] /\ encs \in [0 .. n-1 -> TagByte]
  BY <1>2
<1>5. FlattenSeq(P) \in Str
  <2>1. PICK tot \in [0 .. n -> Nat] :
          tot[0] = 0 /\ \A k \in 1 .. n : tot[k] = tot[k-1] + sizes[k-1]
    <3>1. DOMAIN sizes = 0 .. n-1 /\ \A i \in 0 .. n-1 : sizes[i] \in Nat
      BY <1>4
    <3> HIDE DEF sizes
    <3> QED BY <1>1, <3>1, RunningTotal
  <2>2. \A k \in 1 .. n : k - 1 \in 0 .. n-1 /\ sizes[k-1] = Len(P[k])
    BY <1>0, <1>1
  <2>3. \A k \in 1 .. n : tot[k] = tot[k-1] + Len(P[k])
    BY <2>1, <2>2
  <2>4. Joins(FlattenSeq(P), P, n, tot)
    BY ONLY <1>1, <1>3, <2>1, <2>3, tot \in [0 .. n -> Nat], Flattened
  <2> QED BY <2>4 DEF Joins
<1>6. s = [magic |-> magic, flag |-> order, order |-> order, n |-> n,
           sizes |-> sizes, encs |-> encs, bytes |-> FlattenSeq(P)]
  BY <1>0, <1>1 DEF Packed
<1> HIDE DEF sizes, encs
<1>7. /\ s.magic = magic /\ s.flag = order /\ s.order = order /\ s.n = n
      /\ s.sizes = sizes /\ s.encs = encs /\ s.bytes = FlattenSeq(P)
  BY <1>6
<1>8. s \in StateOf(n)
  BY <1>4, <1>5, <1>6 DEF StateOf
<1>9. \A i \in 0 .. n-1 : s.sizes[i] = Len(f[i].bytes) /\ s.encs[i] = f[i].enc
  BY <1>7 DEF sizes, encs
<1>10. PICK tot \in [0 .. n -> Nat] :
         /\ tot[0] = 0 /\ \A k \in 1 .. n : tot[k] = tot[k-1] + s.sizes[k-1]
         /\ \A i \in 0 .. n : used(s, i) = tot[i]
  BY <1>1, <1>8, Used
<1>11. Joins(s.bytes, P, n, tot)
  <2>1. \A k \in 1 .. n : k - 1 \in 0 .. n-1 /\ P[k] = f[k-1].bytes
    BY <1>0, <1>1
  <2>2. \A k \in 1 .. n : tot[k] = tot[k-1] + Len(P[k])
    BY <1>9, <1>10, <2>1
  <2>3. Joins(FlattenSeq(P), P, n, tot)
    BY ONLY <1>1, <1>3, <1>10, <2>2, tot \in [0 .. n -> Nat], Flattened
  <2> QED BY <1>7, <2>3
<1> QED BY <1>3, <1>7, <1>8, <1>9, <1>10, <1>11 DEF Unpacks

LEMMA PackedReads ==
  ASSUME NEW s, NEW magic, NEW order, NEW n, NEW f, WrittenAs(s, magic, order, n, f)
  PROVE  /\ \A h \in Session : parsed(s, h)
         /\ check_records(s)
         /\ \A i \in 0 .. n-1 : record_bytes(s, i) = f[i].bytes
<1> n \in 0 .. MaxLen /\ f \in [0 .. n-1 -> Held]
    /\ magic \in {"CPV1", "CPV2"} /\ order \in Order
  BY DEF WrittenAs
<1>0. Unpacks(s, magic, order, n, f)
  BY PackedFields
<1>1. /\ s \in StateOf(n) /\ s.n = n /\ s.magic = magic /\ s.flag = order /\ s.order = order
      /\ \A i \in 0 .. n-1 : s.sizes[i] = Len(f[i].bytes) /\ s.encs[i] = f[i].enc
  BY <1>0 DEF Unpacks
<1> PICK P : P = Pieces(n, f)
  OBVIOUS
<1>2. PICK tot \in [0 .. n -> Nat] :
        /\ tot[0] = 0 /\ \A k \in 1 .. n : tot[k] = tot[k-1] + s.sizes[k-1]
        /\ \A i \in 0 .. n : used(s, i) = tot[i]
        /\ Joins(s.bytes, P, n, tot)
  BY <1>0 DEF Unpacks
<1>3. n \in Nat /\ s.bytes \in Str /\ Len(s.bytes) = tot[n] /\ s.sizes \in [0 .. n-1 -> Nat]
  <2>1. n \in Nat
    BY CodecAssumption
  <2>2. s.sizes \in [0 .. n-1 -> Nat]
    BY ONLY <1>1, <2>1, StateType
  <2> QED BY <1>2, <2>1, <2>2 DEF Joins
<1>4. ASSUME NEW h \in Session
      PROVE  parsed(s, h)
  <2>1. read_order(s, h) = s.order
    BY <1>1, FlagTellsOrder
  <2>2. serialized_length(s.n, 0) <= raw_len(s)
    <3>1. raw_len(s) = 13 + 5 * n + Len(s.bytes) /\ Len(s.bytes) \in Nat
      BY ONLY <1>1, <1>3, StateType
    <3>2. serialized_length(n, 0) = 13 + 5 * n + 0
      <4>1. 0 \in Nat
        OBVIOUS
      <4> QED BY ONLY <1>3, <4>1, SerializedLength
    <3> QED BY <1>1, <1>3, <3>1, <3>2
  <2> QED BY <1>1, <2>1, <2>2 DEF parsed
<1>5. ASSUME NEW i \in 0 .. n-1
      PROVE  /\ s.sizes[i] <= MaxString /\ s.encs[i] \in Tag \cup {"NA"}
             /\ s.encs[i] = "NA" => s.sizes[i] = 0
             /\ s.sizes[i] <= Len(s.bytes) - used(s, i)
  <2>1. f[i] \in Held /\ s.sizes[i] = Len(f[i].bytes) /\ s.encs[i] = f[i].enc
    BY <1>1
  <2>2. i \in 0 .. n /\ i + 1 \in 0 .. n /\ i + 1 \in 1 .. n /\ (i + 1) - 1 = i
    BY <1>3
  <2>3. /\ tot[i] \in Nat /\ tot[i+1] \in Nat /\ s.sizes[i] \in Nat /\ tot[n] \in Nat
        /\ tot[i+1] = tot[i] + s.sizes[i] /\ used(s, i) = tot[i]
    BY <1>2, <1>3, <2>2
  <2>4. tot[i+1] <= tot[n]
    <3>1. \A k \in 1 .. n : tot[k-1] <= tot[k]
      <4>1. \A k \in 1 .. n : k - 1 \in 0 .. n /\ k \in 0 .. n /\ k - 1 \in 0 .. n-1
        BY <1>3
      <4>2. \A k \in 1 .. n :
              tot[k-1] \in Nat /\ s.sizes[k-1] \in Nat /\ tot[k] = tot[k-1] + s.sizes[k-1]
        BY <1>2, <1>3, <4>1
      <4>3. \A p \in Nat, q \in Nat : p <= p + q
        OBVIOUS
      <4> QED BY ONLY <4>2, <4>3
    <3> PICK j \in 0 .. n : j = i + 1
      BY <2>2
    <3>2. tot[j] <= tot[n]
      BY ONLY <1>3, <3>1, tot \in [0 .. n -> Nat], j \in 0 .. n, Ascending
    <3> QED BY <3>2
  <2>5. s.sizes[i] <= Len(s.bytes) - used(s, i)
    <3>1. \A p \in Nat, q \in Nat, m \in Nat : p + q <= m => q <= m - p
      OBVIOUS
    <3>2. tot[i] + s.sizes[i] <= tot[n]
      BY ONLY <2>3, <2>4
    <3>3. s.sizes[i] <= tot[n] - tot[i]
      BY ONLY <2>3, <3>1, <3>2
    <3> QED BY ONLY <1>3, <2>3, <3>3
  <2> QED BY <2>1, <2>5, HeldView
<1>6. used(s, n) = Len(s.bytes)
  <2>1. n \in 0 .. n
    BY <1>3
  <2> QED BY <1>2, <1>3, <2>1
<1>7. check_records(s)
  BY <1>1, <1>5, <1>6 DEF check_records
<1>8. ASSUME NEW i \in 0 .. n-1
      PROVE  record_bytes(s, i) = f[i].bytes
  <2>1. record_bytes(s, i) = SubSeq(s.bytes, tot[i] + 1, tot[i+1])
    <3>1. s.n = n /\ s \in StateOf(n) /\ n \in Nat
      BY ONLY <1>1, <1>3
    <3>2. Totals(s, n, tot)
      BY ONLY <1>2 DEF Totals
    <3> QED BY ONLY <3>1, <3>2, <1>7, i \in 0 .. n-1, tot \in [0 .. n -> Nat], RecordBytes
  <2> PICK k \in 1 .. n : k = i + 1
    BY <1>3
  <2>2. k - 1 = i
    BY <1>3
  <2>3. SubSeq(s.bytes, tot[k-1] + 1, tot[k]) = P[k]
    BY <1>2 DEF Joins
  <2>4. P[k] = f[k-1].bytes
    BY DEF Pieces
  <2> QED BY <2>1, <2>2, <2>3, <2>4
<1> QED BY <1>4, <1>7, <1>8

-----------------------------------------------------------------------------
(* What the strings say, here and there.                                   *)

LEMMA MakeType ==
  ASSUME NEW view \in View
  PROVE  make_charsxp(view) \in CHARSXP
<1>1. CASE view.enc = "NA"
  BY <1>1 DEF make_charsxp, CHARSXP
<1>2. CASE view.enc # "NA"
  <2>1. view.bytes \in Str /\ to_base_encoding(view.enc) \in Mark
    BY <1>2 DEF View, to_base_encoding, Mark
  <2>2. "native" \in Mark
    BY DEF Mark
  <2> QED
    BY <1>2, <2>1, <2>2 DEF make_charsxp, Rf_mkCharLenCE, CHARSXP
<1> QED BY <1>1, <1>2

LEMMA TextOfView ==
  ASSUME NEW view \in View, NEW charset
  PROVE  Text(make_charsxp(view), charset) =
           IF view.enc = "NA" THEN NaView
           ELSE [bytes |-> view.bytes,
                 enc   |-> IF IsAscii(view.bytes) THEN "ascii"
                           ELSE IF to_base_encoding(view.enc) = "native" THEN charset
                           ELSE to_base_encoding(view.enc)]
<1>1. CASE view.enc = "NA"
  BY <1>1 DEF make_charsxp, Text
<1>2. CASE view.enc # "NA"
  <2>1. view.bytes \in Str /\ to_base_encoding(view.enc) \in Mark /\ "native" \in Mark
    BY <1>2 DEF View, to_base_encoding, Mark
  <2> PICK x : x = make_charsxp(view)
    OBVIOUS
  <2>2. x = [bytes |-> view.bytes,
             ce |-> IF IsAscii(view.bytes) THEN "native" ELSE to_base_encoding(view.enc)]
    BY <1>2 DEF make_charsxp, Rf_mkCharLenCE
  <2>3. x # NA_STRING
    BY <2>1, <2>2, StringsAssumption
  <2>4. x.bytes = view.bytes
        /\ x.ce = IF IsAscii(view.bytes) THEN "native" ELSE to_base_encoding(view.enc)
    BY <2>2
  <2> QED BY <1>2, <2>3, <2>4 DEF Text
<1> QED BY <1>1, <1>2

(* R's own strings say the same where they are read.                       *)
LEMMA TextRead ==
  ASSUME NEW x \in CHARSXP, NEW from \in Charset, NEW to \in Charset
  PROVE  Text(ReadString(x, from, to), to) = Text(x, from)
<1>1. CASE x # NA_STRING /\ ~ IsAscii(x.bytes) /\ x.ce = "native" /\ from # to
  <2> PICK y : y = ReadString(x, from, to)
    OBVIOUS
  <2>1. x \in [bytes : Str, ce : Mark] /\ from \in Mark /\ from # "native"
    BY <1>1 DEF CHARSXP, Charset, Mark
  <2>2. y = [x EXCEPT !.ce = from]
    BY <1>1 DEF ReadString
  <2>3. y.bytes = x.bytes /\ y.ce = from /\ y \in [bytes : Str, ce : Mark]
    BY <2>1, <2>2
  <2>4. y # NA_STRING
    BY <2>3, StringsAssumption
  <2> QED BY <1>1, <2>1, <2>3, <2>4 DEF Text
<1>2. CASE ~ (x # NA_STRING /\ ~ IsAscii(x.bytes) /\ x.ce = "native" /\ from # to)
  <2>1. ReadString(x, from, to) = x
    BY <1>2 DEF ReadString
  <2> QED BY <1>2, <2>1 DEF Text
<1> QED BY <1>1, <1>2

LEMMA ReadType ==
  ASSUME NEW x \in CHARSXP, NEW from \in Charset, NEW to \in Charset
  PROVE  ReadString(x, from, to) \in CHARSXP
<1>1. CASE x # NA_STRING /\ ~ IsAscii(x.bytes) /\ x.ce = "native" /\ from # to
  <2>1. x \in [bytes : Str, ce : Mark] /\ from \in Mark
    BY <1>1 DEF CHARSXP, Charset, Mark
  <2>2. [x EXCEPT !.ce = from] \in [bytes : Str, ce : Mark]
    BY <2>1
  <2>3. [x EXCEPT !.ce = from].bytes = x.bytes
    BY <2>1
  <2>4. ReadString(x, from, to) = [x EXCEPT !.ce = from]
    BY <1>1 DEF ReadString
  <2> QED BY <1>1, <2>2, <2>3, <2>4 DEF CHARSXP
<1>2. CASE ~ (x # NA_STRING /\ ~ IsAscii(x.bytes) /\ x.ce = "native" /\ from # to)
  BY <1>2 DEF ReadString
<1> QED BY <1>1, <1>2

(* So do packed records, but for those that are bound to the locale of     *)
(* their writer: unserialize_store retags what a UTF-8 session wrote.      *)
LEMMA PackedSays ==
  ASSUME NEW s, NEW magic, NEW order, NEW n, NEW f, WrittenAs(s, magic, order, n, f),
         NEW from, magic = "CPV2" /\ has_native(f) => from = "utf8",
         NEW h \in Session, NEW i \in 0 .. n-1, locale_bound(s, i) => from = native[h]
  PROVE  Text(make_charsxp(unserialize_store(s, h)[i]), native[h])
           = Text(make_charsxp(f[i]), from)
<1> /\ n \in 0 .. MaxLen /\ f \in [0 .. n-1 -> Held]
    /\ magic \in {"CPV1", "CPV2"}
  BY DEF WrittenAs
<1>1. s.n = n /\ s.magic = magic /\ s.encs[i] = f[i].enc /\ record_bytes(s, i) = f[i].bytes
  <2>1. Unpacks(s, magic, order, n, f)
    BY PackedFields
  <2>2. \A j \in 0 .. n-1 : record_bytes(s, j) = f[j].bytes
    BY PackedReads
  <2> QED BY <2>1, <2>2 DEF Unpacks
<1>2. /\ f[i] \in View /\ f[i].bytes \in Str /\ f[i].enc \in Tag \cup {"NA"}
      /\ f[i].enc = "NA" => f[i] = NaView
  BY HeldView
<1> PICK b, t, e, x :
      b = f[i].bytes /\ t = f[i].enc /\ e = encoding_of(s, i, h) /\ x = unserialize_store(s, h)[i]
  OBVIOUS
<1>3. x = IF t = "NA" THEN NaView ELSE [bytes |-> b, enc |-> e]
  BY <1>1 DEF unserialize_store
<1>4. CASE t = "NA"
  BY <1>2, <1>3, <1>4 DEF make_charsxp, NaView, Text
<1>5. CASE t # "NA"
  <2>1. e = IF t = "NATIVE" /\ magic = "CPV2" /\ native[h] # "utf8" THEN "UTF8" ELSE t
    BY <1>1 DEF encoding_of, native_is_utf8
  <2>2. e \in Tag /\ t \in Tag /\ e # "NA"
    BY <1>2, <1>5, <2>1 DEF Tag
  <2>3. x \in View /\ x.bytes = b /\ x.enc = e
    <3>1. x = [bytes |-> b, enc |-> e] /\ b \in Str
      BY <1>2, <1>3, <1>5
    <3>2. x.bytes = b /\ x.enc = e
      BY <3>1
    <3> QED BY <2>2, <3>1, <3>2 DEF View
  <2>4. Text(make_charsxp(x), native[h]) =
          [bytes |-> b, enc |-> IF IsAscii(b) THEN "ascii"
                                ELSE IF to_base_encoding(e) = "native" THEN native[h]
                                ELSE to_base_encoding(e)]
    BY <2>2, <2>3, TextOfView
  <2>5. Text(make_charsxp(f[i]), from) =
          [bytes |-> b, enc |-> IF IsAscii(b) THEN "ascii"
                                ELSE IF to_base_encoding(t) = "native" THEN from
                                ELSE to_base_encoding(t)]
    BY <1>2, <1>5, TextOfView
  <2>6. CASE IsAscii(b)
    BY <2>4, <2>5, <2>6
  <2>7. CASE ~ IsAscii(b)
    <3>1. CASE t = "NATIVE" /\ magic = "CPV2"
      <4>1. from = "utf8" /\ to_base_encoding(t) = "native"
        BY <3>1 DEF has_native, to_base_encoding
      <4>2. CASE native[h] = "utf8"
        BY <2>1, <2>4, <2>5, <2>7, <4>1, <4>2
      <4>3. CASE native[h] # "utf8"
        <5>1. to_base_encoding(e) = "utf8"
          BY <2>1, <3>1, <4>3 DEF to_base_encoding
        <5> QED BY <2>4, <2>5, <2>7, <4>1, <5>1
      <4> QED BY <4>2, <4>3
    <3>2. CASE t = "ASCII" \/ (t = "NATIVE" /\ magic = "CPV1")
      <4>1. e = t /\ from = native[h]
        BY <1>1, <2>1, <2>7, <3>2 DEF locale_bound
      <4> QED BY <2>4, <2>5, <4>1
    <3>3. CASE t \notin {"ASCII", "NATIVE"}
      <4>1. e = t /\ to_base_encoding(t) # "native"
        BY <2>1, <2>2, <3>3 DEF to_base_encoding, Tag
      <4> QED BY <2>4, <2>5, <4>1
    <3> QED BY <3>1, <3>2, <3>3
  <2> QED BY <2>6, <2>7
<1> QED BY <1>4, <1>5

-----------------------------------------------------------------------------
(* The invariant.                                                          *)

Vectors(form, S) == UNION {[form : {form}, elts : [0 .. n-1 -> S]] : n \in 0 .. MaxLen}

Value == Vectors("records", Held) \cup Vectors("strings", CHARSXP)

Shape ==
  /\ val \in [Vec -> Value \cup {Absent}]
  /\ home \in [Vec -> Session \cup {Absent}]
  /\ native \in [Session -> Charset]
  /\ \A v \in Vec : home[v] = Absent <=> val[v] = Absent

(* A packed state that nothing altered holds records that were written     *)
(* where native was UTF-8, or none that depend on it, or is of version 1.  *)
PackedState(t) ==
  \E magic, order, n, f :
    /\ WrittenAs(t.state, magic, order, n, f)
    /\ raw_len(t.state) <= MaxRaw
    /\ magic = "CPV2" /\ has_native(f) => t.native = "utf8"
    /\ t.texts = [i \in 0 .. n-1 |-> Text(make_charsxp(f[i]), t.native)]

PlainState(t) ==
  \E n \in 0 .. MaxLen :
    /\ t.state \in [0 .. n-1 -> CHARSXP]
    /\ t.texts # Damaged => t.texts = [i \in 0 .. n-1 |-> Text(t.state[i], t.native)]

StreamOK ==
  stream # NoStream =>
    /\ DOMAIN stream = {"form", "state", "native", "texts"}
    /\ stream.form \in {"packed", "strings"} /\ stream.native \in Charset
    /\ stream.form = "packed" => /\ StateOK(stream.state)
                                 /\ stream.texts # Damaged => PackedState(stream)
    /\ stream.form = "strings" => PlainState(stream)

IInv == Shape /\ StreamOK

LEMMA MakeVector ==
  ASSUME NEW form, NEW S, NEW n \in 0 .. MaxLen, NEW f \in [0 .. n-1 -> S]
  PROVE  [form |-> form, elts |-> f] \in Vectors(form, S)
<1>1. [form |-> form, elts |-> f] \in [form : {form}, elts : [0 .. n-1 -> S]]
  OBVIOUS
<1> QED BY <1>1 DEF Vectors

LEMMA OfVector ==
  ASSUME NEW form, NEW S, NEW x \in Vectors(form, S)
  PROVE  x.form = form /\ \E n \in 0 .. MaxLen : /\ x \in [form : {form}, elts : [0 .. n-1 -> S]]
                                                 /\ x.elts \in [0 .. n-1 -> S]
                                                 /\ DOMAIN x.elts = 0 .. n-1
<1>1. PICK n \in 0 .. MaxLen : x \in [form : {form}, elts : [0 .. n-1 -> S]]
  BY DEF Vectors
<1>2. x.form = form /\ x.elts \in [0 .. n-1 -> S]
  BY <1>1
<1>3. DOMAIN x.elts = 0 .. n-1
  BY <1>2
<1> QED BY <1>1, <1>2, <1>3

LEMMA ValueIsPresent == Absent \notin Value
<1>1. ASSUME Absent \in Vectors("records", Held)
      PROVE  FALSE
  <2>1. PICK n \in 0 .. MaxLen : Absent \in [form : {"records"}, elts : [0 .. n-1 -> Held]]
    BY <1>1, OfVector
  <2>2. [0 .. n-1 -> Held] \subseteq [0 .. n-1 -> View]
    BY DEF Held
  <2>3. Absent \in [form : {"records"}, elts : [0 .. n-1 -> View]]
    BY <2>1, <2>2
  <2> QED BY <2>3, CodecAssumption
<1>2. ASSUME Absent \in Vectors("strings", CHARSXP)
      PROVE  FALSE
  <2>1. PICK n \in 0 .. MaxLen : Absent \in [form : {"strings"}, elts : [0 .. n-1 -> CHARSXP]]
    BY <1>2, OfVector
  <2> QED BY <2>1, CodecAssumption
<1> QED BY <1>1, <1>2 DEF Value

(* The strings of a vector and what they say.                              *)
LEMMA StringsType ==
  ASSUME Shape, NEW v \in Vec, val[v] # Absent
  PROVE  \E n \in 0 .. MaxLen :
           /\ DOMAIN val[v].elts = 0 .. n-1
           /\ strings(v) \in [0 .. n-1 -> CHARSXP]
           /\ IsCharvec(v) => /\ val[v].elts \in [0 .. n-1 -> Held]
                              /\ \A i \in 0 .. n-1 : strings(v)[i] = make_charsxp(val[v].elts[i])
           /\ Texts(v) = [i \in 0 .. n-1 |-> Text(strings(v)[i], native[home[v]])]
<1>1. val[v] \in Value
  BY DEF Shape
<1>2. CASE val[v] \in Vectors("records", Held)
  <2>1. PICK n \in 0 .. MaxLen : val[v].elts \in [0 .. n-1 -> Held] /\ DOMAIN val[v].elts = 0 .. n-1
    BY <1>2, OfVector
  <2>2. IsCharvec(v)
    <3>1. val[v].form = "records"
      BY <1>2, OfVector
    <3> QED BY <3>1 DEF IsCharvec
  <2>3. strings(v) = [i \in 0 .. n-1 |-> make_charsxp(val[v].elts[i])]
    BY <2>1, <2>2 DEF strings
  <2>4. \A i \in 0 .. n-1 : make_charsxp(val[v].elts[i]) \in CHARSXP
    <3>1. \A i \in 0 .. n-1 : val[v].elts[i] \in View
      BY <2>1 DEF Held
    <3> QED BY <3>1, MakeType
  <2>5. Texts(v) = [i \in 0 .. n-1 |-> Text(strings(v)[i], native[home[v]])]
    BY <2>1 DEF Texts
  <2>6. strings(v) \in [0 .. n-1 -> CHARSXP]
        /\ \A i \in 0 .. n-1 : strings(v)[i] = make_charsxp(val[v].elts[i])
    BY <2>3, <2>4
  <2> QED BY <2>1, <2>2, <2>5, <2>6
<1>3. CASE val[v] \in Vectors("strings", CHARSXP)
  <2>1. PICK n \in 0 .. MaxLen :
          val[v].elts \in [0 .. n-1 -> CHARSXP] /\ DOMAIN val[v].elts = 0 .. n-1
    BY <1>3, OfVector
  <2>2. ~ IsCharvec(v)
    <3>1. val[v].form = "strings"
      BY <1>3, OfVector
    <3> QED BY <3>1 DEF IsCharvec
  <2>3. strings(v) = [i \in 0 .. n-1 |-> val[v].elts[i]]
    BY <2>1, <2>2 DEF strings
  <2>4. Texts(v) = [i \in 0 .. n-1 |-> Text(strings(v)[i], native[home[v]])]
    BY <2>1 DEF Texts
  <2>5. strings(v) \in [0 .. n-1 -> CHARSXP]
    BY <2>1, <2>3
  <2> QED BY <2>1, <2>2, <2>4, <2>5
<1> QED BY <1>1, <1>2, <1>3 DEF Value

-----------------------------------------------------------------------------
(* Steps that leave the stream.                                            *)

LEMMA Made ==
  ASSUME Shape, NEW v \in Vec, NEW s \in Session, NEW x \in Value,
         home' = [home EXCEPT ![v] = s], val' = [val EXCEPT ![v] = x], native' = native
  PROVE  Shape' /\ val'[v] = x /\ home'[v] = s
<1>1. val'[v] = x /\ home'[v] = s /\ \A u \in Vec \ {v} : val'[u] = val[u] /\ home'[u] = home[u]
  BY DEF Shape
<1>2. x # Absent /\ s # Absent
  BY ValueIsPresent, CodecAssumption
<1>3. /\ val' \in [Vec -> Value \cup {Absent}]
      /\ home' \in [Vec -> Session \cup {Absent}]
      /\ native' \in [Session -> Charset]
  BY DEF Shape
<1>4. \A u \in Vec : home'[u] = Absent <=> val'[u] = Absent
  BY <1>1, <1>2 DEF Shape
<1> QED BY <1>1, <1>3, <1>4 DEF Shape

LEMMA SameStream ==
  ASSUME StreamOK, stream' = stream
  PROVE  StreamOK'
BY DEF StreamOK

LEMMA MakeStep ==
  ASSUME IInv, NEW v \in Vec, Make(v)
  PROVE  IInv'
<1>1. PICK h \in Session : home' = [home EXCEPT ![v] = h]
  BY DEF Make
<1>2. PICK n \in 0 .. MaxLen : \E f \in [0 .. n-1 -> InputView] : val' = [val EXCEPT ![v] = Records(f)]
  BY DEF Make
<1>3. PICK f \in [0 .. n-1 -> InputView] : val' = [val EXCEPT ![v] = Records(f)]
  BY <1>2
<1>4. f \in [0 .. n-1 -> Held]
  BY CodecAssumption DEF Held
<1>5. Records(f) \in Value
  BY <1>4, MakeVector DEF Records, Value
<1>6. stream' = stream /\ native' = native /\ Shape /\ StreamOK
  BY DEF Make, IInv
<1>7. Shape'
  BY <1>1, <1>3, <1>5, <1>6, Made
<1> QED BY <1>6, <1>7, SameStream DEF IInv

LEMMA materializeStep ==
  ASSUME IInv, NEW v \in Vec, materialize(v)
  PROVE  IInv'
<1>1. /\ val' = [val EXCEPT ![v] = Plain(strings(v))] /\ UNCHANGED <<home, native, stream>>
      /\ val[v] # Absent /\ Shape /\ StreamOK
  BY DEF materialize, IInv, IsCharvec
<1>2. PICK n \in 0 .. MaxLen : strings(v) \in [0 .. n-1 -> CHARSXP]
  BY <1>1, StringsType
<1>3. Plain(strings(v)) \in Value
  BY <1>2, MakeVector DEF Plain, Value
<1>4. home[v] \in Session /\ home' = [home EXCEPT ![v] = home[v]]
  BY <1>1 DEF Shape
<1>5. Shape'
  BY <1>1, <1>3, <1>4, Made
<1> QED BY <1>1, <1>5, SameStream DEF IInv

LEMMA CollectStep ==
  ASSUME IInv, NEW v \in Vec, Collect(v)
  PROVE  IInv'
<1>1. /\ val' = [val EXCEPT ![v] = Absent] /\ home' = [home EXCEPT ![v] = Absent]
      /\ native' = native /\ stream' = stream /\ Shape /\ StreamOK
  BY DEF Collect, IInv
<1>2. Shape'
  BY <1>1 DEF Shape
<1> QED BY <1>1, <1>2, SameStream DEF IInv

LEMMA SetLocaleStep ==
  ASSUME IInv, NEW s \in Session, SetLocale(s)
  PROVE  IInv'
<1>1. /\ \E charset \in Charset : native' = [native EXCEPT ![s] = charset]
      /\ val' = val /\ home' = home /\ stream' = stream /\ Shape /\ StreamOK
  BY DEF SetLocale, IInv
<1>2. Shape'
  BY <1>1 DEF Shape
<1> QED BY <1>1, <1>2, SameStream DEF IInv

LEMMA StutterStep ==
  ASSUME IInv, UNCHANGED vars
  PROVE  IInv'
<1>1. val' = val /\ home' = home /\ native' = native /\ stream' = stream /\ Shape /\ StreamOK
  BY DEF vars, IInv
<1>2. Shape'
  BY <1>1 DEF Shape
<1> QED BY <1>1, <1>2, SameStream DEF IInv

-----------------------------------------------------------------------------
(* Steps that write a state or alter one.                                  *)

LEMMA WrittenIsOK ==
  ASSUME NEW s, NEW magic, NEW order, NEW n, NEW f, WrittenAs(s, magic, order, n, f)
  PROVE  StateOK(s) /\ s.n = n /\ n \in 0 .. MaxLen /\ s \in StateOf(n)
<1>1. Unpacks(s, magic, order, n, f) /\ n \in 0 .. MaxLen
  BY PackedFields DEF WrittenAs
<1> QED BY <1>1 DEF Unpacks, StateOK

LEMMA Sent ==
  ASSUME NEW v \in Vec, NEW form, NEW s, Send(v, form, s)
  PROVE  /\ DOMAIN stream' = {"form", "state", "native", "texts"}
         /\ stream'.form = form /\ stream'.state = s
         /\ stream'.native = native[home[v]] /\ stream'.texts = Texts(v)
         /\ val' = val /\ home' = home /\ native' = native
<1>1. stream' = [form |-> form, state |-> s, native |-> native[home[v]], texts |-> Texts(v)]
  BY DEF Send
<1> QED BY <1>1 DEF Send

LEMMA PackedStep ==
  ASSUME IInv, NEW v \in Vec, NEW magic \in {"CPV1", "CPV2"}, NEW order \in Order,
         IsCharvec(v), magic = "CPV2" => sends_packed(v),
         state_fits(Packed(magic, order, val[v].elts)),
         Send(v, "packed", Packed(magic, order, val[v].elts))
  PROVE  IInv'
<1> PICK s, f : s = Packed(magic, order, f) /\ f = val[v].elts
  OBVIOUS
<1>1. Shape /\ val[v] # Absent
  BY DEF IInv, IsCharvec
<1>2. PICK n \in 0 .. MaxLen :
        /\ f \in [0 .. n-1 -> Held]
        /\ \A i \in 0 .. n-1 : strings(v)[i] = make_charsxp(f[i])
        /\ Texts(v) = [i \in 0 .. n-1 |-> Text(strings(v)[i], native[home[v]])]
  BY <1>1, StringsType
<1>3. WrittenAs(s, magic, order, n, f)
  BY <1>2 DEF WrittenAs
<1>4. /\ DOMAIN stream' = {"form", "state", "native", "texts"}
      /\ stream'.form = "packed" /\ stream'.state = s
      /\ stream'.native = native[home[v]] /\ stream'.texts = Texts(v)
      /\ val' = val /\ home' = home /\ native' = native
  BY Sent
<1>5. native[home[v]] \in Charset
  BY <1>1 DEF Shape
<1>6. magic = "CPV2" /\ has_native(f) => stream'.native = "utf8"
  BY <1>4 DEF sends_packed, native_is_utf8
<1>7. stream'.texts = [i \in 0 .. n-1 |-> Text(make_charsxp(f[i]), stream'.native)]
  BY <1>2, <1>4
<1>8. raw_len(stream'.state) <= MaxRaw
  BY <1>4 DEF state_fits
<1>9. PackedState(stream') /\ StateOK(stream'.state)
  BY <1>3, <1>4, <1>6, <1>7, <1>8, WrittenIsOK DEF PackedState
<1>10. StreamOK'
  BY <1>4, <1>5, <1>9 DEF StreamOK, PackedState, StateOK, PlainState
<1>11. Shape'
  BY <1>1, <1>4 DEF Shape
<1> QED BY <1>10, <1>11 DEF IInv

LEMMA PlainStep ==
  ASSUME IInv, NEW v \in Vec, val[v] # Absent, Send(v, "strings", strings(v))
  PROVE  IInv'
<1>1. Shape
  BY DEF IInv
<1>2. PICK n \in 0 .. MaxLen :
        /\ strings(v) \in [0 .. n-1 -> CHARSXP]
        /\ Texts(v) = [i \in 0 .. n-1 |-> Text(strings(v)[i], native[home[v]])]
  BY <1>1, StringsType
<1>3. /\ DOMAIN stream' = {"form", "state", "native", "texts"}
      /\ stream'.form = "strings" /\ stream'.state = strings(v)
      /\ stream'.native = native[home[v]] /\ stream'.texts = Texts(v)
      /\ val' = val /\ home' = home /\ native' = native
  BY Sent
<1>4. native[home[v]] \in Charset
  BY <1>1 DEF Shape
<1>5. PlainState(stream')
  BY <1>2, <1>3 DEF PlainState
<1>6. StreamOK'
  BY <1>3, <1>4, <1>5 DEF StreamOK, PackedState, StateOK, PlainState
<1>7. Shape'
  BY <1>1, <1>3 DEF Shape
<1> QED BY <1>6, <1>7 DEF IInv

LEMMA Serialized_stateStep ==
  ASSUME IInv, NEW v \in Vec, Serialized_state(v)
  PROVE  IInv'
<1>1. CASE /\ sends_packed(v)
           /\ state_fits(Packed("CPV2", "little", val[v].elts))
           /\ Send(v, "packed", Packed("CPV2", "little", val[v].elts))
  <2>1. IsCharvec(v) /\ "little" \in Order
    BY <1>1 DEF sends_packed, Order
  <2> QED BY <1>1, <2>1, PackedStep
<1>2. CASE ~ sends_packed(v) /\ Send(v, "strings", strings(v))
  BY <1>2, PlainStep DEF Serialized_state
<1> QED BY <1>1, <1>2 DEF Serialized_state

LEMMA OlderStateStep ==
  ASSUME IInv, NEW v \in Vec, OlderState(v)
  PROVE  IInv'
<1>1. PICK magic \in Older : \E order \in Order :
        /\ magic = "CPV2" => sends_packed(v)
        /\ state_fits(Packed(magic, order, val[v].elts))
        /\ Send(v, "packed", Packed(magic, order, val[v].elts))
  BY DEF OlderState
<1>2. PICK order \in Order :
        /\ magic = "CPV2" => sends_packed(v)
        /\ state_fits(Packed(magic, order, val[v].elts))
        /\ Send(v, "packed", Packed(magic, order, val[v].elts))
  BY <1>1
<1>3. magic \in {"CPV1", "CPV2"} /\ IsCharvec(v)
  BY CodecAssumption DEF OlderState
<1> QED BY <1>2, <1>3, PackedStep

(* However a state is altered, it counts no fewer records than it holds.   *)
LEMMA AlteredIsOK ==
  ASSUME NEW n \in 0 .. MaxLen, NEW s \in StateOf(n), s.n = n, NEW x \in Alterations(s)
  PROVE  StateOK(x)
<1>1. /\ s.bytes \in Str /\ Len(s.bytes) \in Nat /\ n \in Nat
      /\ s.sizes \in [0 .. n-1 -> Nat] /\ s.encs \in [0 .. n-1 -> TagByte]
      /\ DOMAIN s.sizes = 0 .. n-1 /\ DOMAIN s.encs = 0 .. n-1
  <2>1. n \in Nat
    BY CodecAssumption
  <2> QED BY <2>1, StateType
<1>2. \A a \in StateOf(n) : a.n = n => StateOK(a)
  BY DEF StateOK
<1>3. CASE x = [s EXCEPT !.bytes = SubSeq(@, 1, Len(@) - 1)]
  <2>1. SubSeq(s.bytes, 1, Len(s.bytes) - 1) \in Str
    <3>1. \A i \in 1 .. Len(s.bytes) - 1 : s.bytes[i] \in Byte
      BY <1>1, ElementOfSeq DEF Str
    <3>2. 1 \in Int /\ Len(s.bytes) - 1 \in Int
      BY <1>1
    <3> QED BY <3>1, <3>2, SubSeqProperties DEF Str
  <2>2. x \in StateOf(n) /\ x.n = n
    BY <1>3, <2>1 DEF StateOf
  <2> QED BY <1>2, <2>2
<1>4. CASE x = [s EXCEPT !.sizes = Restrict(@, 0 .. s.n-2), !.encs = Restrict(@, 0 .. s.n-2),
                         !.bytes = << >>]
  <2> PICK m \in 0 .. MaxLen : m = IF n = 0 THEN 0 ELSE n - 1
    <3>1. n = 0 => 0 \in 0 .. MaxLen
      OBVIOUS
    <3>2. n # 0 => n - 1 \in 0 .. MaxLen
      BY <1>1, CodecAssumption
    <3> QED BY <3>1, <3>2
  <2>1. 0 .. n-2 = 0 .. m-1 /\ \A i \in 0 .. m-1 : i \in 0 .. n-1
    BY <1>1
  <2>2. /\ Restrict(s.sizes, 0 .. s.n-2) \in [0 .. m-1 -> Nat]
        /\ Restrict(s.encs, 0 .. s.n-2) \in [0 .. m-1 -> TagByte]
    BY <1>1, <2>1 DEF Restrict
  <2>3. << >> \in Str
    BY EmptySeq DEF Str
  <2>4. x \in StateOf(m) /\ x.n = n /\ x.bytes = << >>
    BY <1>4, <2>2, <2>3 DEF StateOf
  <2>5. m = x.n \/ m < x.n
    BY <1>1, <2>4
  <2> QED BY <2>4, <2>5 DEF StateOK
<1>5. ASSUME NEW b \in Byte, x = [s EXCEPT !.bytes = Append(@, b)]
      PROVE  StateOK(x)
  <2>1. Append(s.bytes, b) \in Str
    BY <1>1, AppendProperties DEF Str
  <2>2. x \in StateOf(n) /\ x.n = n
    BY <1>5, <2>1 DEF StateOf
  <2> QED BY <1>2, <2>2
<1>6. ASSUME NEW f \in [DOMAIN s.sizes -> 0 .. MaxString + 1], x = [s EXCEPT !.sizes = f]
      PROVE  StateOK(x)
  <2>1. f \in [0 .. n-1 -> Nat]
    BY <1>1, CodecAssumption
  <2>2. x \in StateOf(n) /\ x.n = n
    BY <1>6, <2>1 DEF StateOf
  <2> QED BY <1>2, <2>2
<1>7. ASSUME NEW i \in DOMAIN s.encs, NEW t \in {"NA", "other"}, x = [s EXCEPT !.encs[i] = t]
      PROVE  StateOK(x)
  <2>1. [s.encs EXCEPT ![i] = t] \in [0 .. n-1 -> TagByte]
    BY <1>1 DEF TagByte
  <2>2. x = [s EXCEPT !.encs = [s.encs EXCEPT ![i] = t]]
    BY <1>7
  <2>3. x \in StateOf(n) /\ x.n = n
    BY <2>1, <2>2 DEF StateOf
  <2> QED BY <1>2, <2>3
<1>8. ASSUME NEW p \in {"CPV1", "CPV2", "other"} \X (Order \cup {"other"}),
             x = [s EXCEPT !.magic = p[1], !.flag = p[2]]
      PROVE  StateOK(x)
  <2>1. p[1] \in {"CPV1", "CPV2", "other"} /\ p[2] \in Order \cup {"other"}
    OBVIOUS
  <2>2. x \in StateOf(n) /\ x.n = n
    BY <1>8, <2>1 DEF StateOf
  <2> QED BY <1>2, <2>2
<1>9. PICK fault \in {"cut", "lengthened", "sizes", "encoding", "prefix"} : x \in AlteredBy(fault, s)
  BY CodecAssumption DEF Alterations
<1>10. CASE fault = "cut"
  BY <1>3, <1>4, <1>9, <1>10 DEF AlteredBy
<1>11. CASE fault = "lengthened"
  BY <1>5, <1>9, <1>11 DEF AlteredBy
<1>12. CASE fault = "sizes"
  BY <1>6, <1>9, <1>12 DEF AlteredBy
<1>13. CASE fault = "encoding"
  BY <1>7, <1>9, <1>13 DEF AlteredBy
<1>14. CASE fault = "prefix"
  <2> DEFINE X == {[s EXCEPT !.magic = p[1], !.flag = p[2]] :
                     p \in {"CPV1", "CPV2", "other"} \X (Order \cup {"other"})}
  <2>1. AlteredBy(fault, s) = X
    BY <1>14 DEF AlteredBy
  <2>2. x \in X
    BY <1>9, <2>1
  <2>3. PICK p \in {"CPV1", "CPV2", "other"} \X (Order \cup {"other"}) :
          x = [s EXCEPT !.magic = p[1], !.flag = p[2]]
    BY ONLY <2>2
  <2> QED BY <1>8, <2>3
<1> QED BY <1>9, <1>10, <1>11, <1>12, <1>13, <1>14

LEMMA AlterStep ==
  ASSUME IInv, Alter
  PROVE  IInv'
<1>1. /\ stream # NoStream /\ stream.form = "packed" /\ stream.texts # Damaged
      /\ val' = val /\ home' = home /\ native' = native /\ Shape /\ StreamOK
  BY DEF Alter, IInv
<1>2. PICK a \in Alterations(stream.state) :
        stream' = [stream EXCEPT !.state = a, !.texts = Damaged]
  BY DEF Alter
<1>3. /\ DOMAIN stream = {"form", "state", "native", "texts"}
      /\ stream.native \in Charset /\ PackedState(stream)
  BY <1>1 DEF StreamOK
<1>4. /\ DOMAIN stream' = {"form", "state", "native", "texts"}
      /\ stream'.form = "packed" /\ stream'.native = stream.native
      /\ stream'.state = a /\ stream'.texts = Damaged
  BY <1>1, <1>2, <1>3
<1>5. StateOK(a)
  <2> PICK s : s = stream.state
    OBVIOUS
  <2>1. PICK n : s.n = n /\ n \in 0 .. MaxLen /\ s \in StateOf(n)
    BY <1>3, WrittenIsOK DEF PackedState
  <2> QED BY <2>1, AlteredIsOK
<1>6. StreamOK'
  BY <1>3, <1>4, <1>5 DEF StreamOK, PackedState, StateOK, PlainState
<1>7. Shape'
  BY <1>1 DEF Shape
<1> QED BY <1>6, <1>7 DEF IInv

-----------------------------------------------------------------------------
(* A step that reads a state.                                              *)

LEMMA PlainRead ==
  ASSUME NEW h \in Session, native \in [Session -> Charset], stream.native \in Charset,
         PlainState(stream)
  PROVE  \E n \in 0 .. MaxLen :
           \E f \in [0 .. n-1 -> CHARSXP] :
             /\ f = [i \in DOMAIN stream.state |-> ReadString(stream.state[i], stream.native, native[h])]
             /\ stream.texts # Damaged => stream.texts = [i \in 0 .. n-1 |-> Text(f[i], native[h])]
<1>1. PICK n \in 0 .. MaxLen :
        /\ stream.state \in [0 .. n-1 -> CHARSXP]
        /\ stream.texts # Damaged =>
             stream.texts = [i \in 0 .. n-1 |-> Text(stream.state[i], stream.native)]
  BY DEF PlainState
<1> DEFINE f == [i \in 0 .. n-1 |-> ReadString(stream.state[i], stream.native, native[h])]
<1>2. /\ f \in [0 .. n-1 -> CHARSXP]
      /\ \A i \in 0 .. n-1 : Text(f[i], native[h]) = Text(stream.state[i], stream.native)
  <2>1. native[h] \in Charset
    OBVIOUS
  <2>2. \A i \in 0 .. n-1 :
          /\ ReadString(stream.state[i], stream.native, native[h]) \in CHARSXP
          /\ Text(ReadString(stream.state[i], stream.native, native[h]), native[h])
               = Text(stream.state[i], stream.native)
    BY <1>1, <2>1, ReadType, TextRead
  <2> QED BY <2>2
<1>3. f = [i \in DOMAIN stream.state |-> ReadString(stream.state[i], stream.native, native[h])]
  BY <1>1
<1> HIDE DEF f
<1>4. stream.texts # Damaged => stream.texts = [i \in 0 .. n-1 |-> Text(f[i], native[h])]
  BY ONLY <1>1, <1>2
<1> QED BY ONLY <1>2, <1>3, <1>4

LEMMA UnserializeStep ==
  ASSUME IInv, NEW w \in Vec, Unserialize(w)
  PROVE  /\ IInv' /\ native' = native /\ stream # NoStream
         /\ \E h \in Session :
              /\ home'[w] = h
              /\ stream.form = "packed" =>
                   /\ StateOK(stream.state) /\ parsed(stream.state, h) /\ check_records(stream.state)
                   /\ val'[w] = Records(unserialize_store(stream.state, h))
              /\ stream.form = "strings" =>
                   val'[w] = Plain([i \in DOMAIN stream.state |->
                                      ReadString(stream.state[i], stream.native, native[h])])
<1>1. /\ stream # NoStream /\ native' = native /\ stream' = stream /\ Shape /\ StreamOK
  BY DEF Unserialize, IInv
<1>2. PICK h \in Session :
        /\ home' = [home EXCEPT ![w] = h]
        /\ \/ /\ stream.form = "packed"
              /\ parsed(stream.state, h) /\ check_records(stream.state)
              /\ val' = [val EXCEPT ![w] = Records(unserialize_store(stream.state, h))]
           \/ /\ stream.form = "strings"
              /\ val' = [val EXCEPT ![w] =
                           Plain([i \in DOMAIN stream.state |->
                              ReadString(stream.state[i], stream.native, native[h])])]
  BY DEF Unserialize
<1>3. /\ stream.native \in Charset /\ native \in [Session -> Charset]
      /\ stream.form = "packed" => StateOK(stream.state)
      /\ stream.form = "strings" => PlainState(stream)
  BY <1>1 DEF StreamOK, Shape
<1>4. CASE /\ stream.form = "packed"
           /\ parsed(stream.state, h) /\ check_records(stream.state)
           /\ val' = [val EXCEPT ![w] = Records(unserialize_store(stream.state, h))]
  <2> PICK s : s = stream.state
    OBVIOUS
  <2>1. s.n \in 0 .. MaxLen /\ unserialize_store(s, h) \in [0 .. s.n-1 -> Held]
    BY <1>3, <1>4, AcceptedAreHeld
  <2>2. Records(unserialize_store(s, h)) \in Value
    BY <2>1, MakeVector DEF Records, Value
  <2>3. Shape' /\ val'[w] = Records(unserialize_store(s, h)) /\ home'[w] = h
    BY <1>1, <1>2, <1>4, <2>2, Made
  <2> QED BY <1>1, <1>3, <1>4, <2>3, SameStream DEF IInv
<1>5. CASE /\ stream.form = "strings"
           /\ val' = [val EXCEPT ![w] =
                        Plain([i \in DOMAIN stream.state |->
                           ReadString(stream.state[i], stream.native, native[h])])]
  <2> PICK g : g = [i \in DOMAIN stream.state |->
                      ReadString(stream.state[i], stream.native, native[h])]
    OBVIOUS
  <2>1. PICK n \in 0 .. MaxLen : g \in [0 .. n-1 -> CHARSXP]
    BY <1>3, <1>5, PlainRead
  <2>2. Plain(g) \in Value
    BY <2>1, MakeVector DEF Plain, Value
  <2>3. val' = [val EXCEPT ![w] = Plain(g)]
    BY <1>5
  <2>4. Shape' /\ val'[w] = Plain(g) /\ home'[w] = h
    BY <1>1, <1>2, <2>2, <2>3, Made
  <2> QED BY <1>1, <1>5, <2>4, SameStream DEF IInv
<1> QED BY <1>2, <1>4, <1>5

-----------------------------------------------------------------------------
(* The invariant holds.                                                    *)

LEMMA InvInit == Init => IInv
<1> SUFFICES ASSUME Init PROVE IInv
  OBVIOUS
<1>1. Shape
  BY DEF Init, Shape
<1>2. StreamOK
  BY DEF Init, StreamOK
<1> QED BY <1>1, <1>2 DEF IInv

LEMMA NextStep == IInv /\ [Next]_vars => IInv'
<1> SUFFICES ASSUME IInv, [Next]_vars PROVE IInv'
  OBVIOUS
<1>1. ASSUME NEW v \in Vec, Make(v) PROVE IInv'
  BY <1>1, MakeStep
<1>2. ASSUME NEW v \in Vec, materialize(v) PROVE IInv'
  BY <1>2, materializeStep
<1>3. ASSUME NEW v \in Vec, Collect(v) PROVE IInv'
  BY <1>3, CollectStep
<1>4. ASSUME NEW v \in Vec, Serialized_state(v) PROVE IInv'
  BY <1>4, Serialized_stateStep
<1>5. ASSUME NEW v \in Vec, OlderState(v) PROVE IInv'
  BY <1>5, OlderStateStep
<1>6. ASSUME NEW v \in Vec, Unserialize(v) PROVE IInv'
  BY <1>6, UnserializeStep
<1>7. ASSUME NEW s \in Session, SetLocale(s) PROVE IInv'
  BY <1>7, SetLocaleStep
<1>8. CASE Alter
  BY <1>8, AlterStep
<1>9. CASE UNCHANGED vars
  BY <1>9, StutterStep
<1> QED BY <1>1, <1>2, <1>3, <1>4, <1>5, <1>6, <1>7, <1>8, <1>9 DEF Next

LEMMA Invariance == Spec => []IInv
BY InvInit, NextStep, PTL DEF Spec

LEMMA TypeEstablished == IInv => TypeOK
<1> SUFFICES ASSUME IInv PROVE TypeOK
  OBVIOUS
<1>1. Shape /\ StreamOK
  BY DEF IInv
<1>2. ASSUME NEW v \in Vec, val[v] # Absent
      PROVE  \E n \in 0 .. MaxLen : \/ val[v] \in [form : {"strings"}, elts : [0 .. n-1 -> CHARSXP]]
                                    \/ val[v] \in [form : {"records"}, elts : [0 .. n-1 -> View]]
  <2>1. CASE val[v] \in Vectors("records", Held)
    <3>1. PICK n \in 0 .. MaxLen : val[v] \in [form : {"records"}, elts : [0 .. n-1 -> Held]]
      BY <2>1, OfVector
    <3>2. [0 .. n-1 -> Held] \subseteq [0 .. n-1 -> View]
      BY DEF Held
    <3>3. val[v] \in [form : {"records"}, elts : [0 .. n-1 -> View]]
      BY <3>1, <3>2
    <3> QED BY <3>3
  <2>2. CASE val[v] \in Vectors("strings", CHARSXP)
    BY <2>2, OfVector
  <2> QED BY <1>1, <1>2, <2>1, <2>2 DEF Shape, Value
<1>3. \A v \in Vec : home[v] \in IF val[v] = Absent THEN {Absent} ELSE Session
  BY <1>1 DEF Shape
<1>4. ASSUME stream # NoStream, stream.form = "packed"
      PROVE  /\ stream.state.n \in 0 .. MaxLen
             /\ DOMAIN stream.state.sizes = DOMAIN stream.state.encs
             /\ stream.texts # Damaged => raw_len(stream.state) <= MaxRaw
  <2> PICK s : s = stream.state
    OBVIOUS
  <2>1. StateOK(s) /\ (stream.texts # Damaged => raw_len(s) <= MaxRaw)
    BY <1>1, <1>4 DEF StreamOK, PackedState
  <2>2. PICK m \in 0 .. MaxLen : s \in StateOf(m)
    BY <2>1 DEF StateOK
  <2>3. m \in Nat
    BY CodecAssumption
  <2>4. s.n \in 0 .. MaxLen /\ DOMAIN s.sizes = 0 .. m-1 /\ DOMAIN s.encs = 0 .. m-1
    BY ONLY <2>2, <2>3, StateType
  <2> QED BY <2>1, <2>4
<1>5. /\ native \in [Session -> Charset]
      /\ stream # NoStream => stream.form \in {"packed", "strings"} /\ stream.native \in Charset
  BY <1>1 DEF Shape, StreamOK
<1> QED BY <1>2, <1>3, <1>4, <1>5 DEF TypeOK

(* Every variable keeps its type, and what Serialized_state writes fits a  *)
(* raw vector.                                                             *)
THEOREM TypeCorrect == Spec => []TypeOK
BY Invariance, TypeEstablished, PTL

(* Whatever this charport or an earlier one wrote, every session reads it: *)
(* the checks of charvec_parse_serialized and charvec_check_records refuse *)
(* no state that was not altered.                                          *)
THEOREM Readable == Spec => []StatesAreReadable
<1>1. IInv => StatesAreReadable
  <2> SUFFICES ASSUME IInv, stream # NoStream, stream.form = "packed", stream.texts # Damaged
               PROVE  \A h \in Session : parsed(stream.state, h) /\ check_records(stream.state)
    BY DEF StatesAreReadable
  <2>1. PICK magic, order, n, f : WrittenAs(stream.state, magic, order, n, f)
    BY DEF IInv, StreamOK, PackedState
  <2> QED BY <2>1, PackedReads
<1> QED BY <1>1, Invariance, PTL

LEMMA UnserializeSays ==
  ASSUME IInv, NEW w \in Vec, Unserialize(w), stream.texts # Damaged
  PROVE  /\ DOMAIN Texts(w)' = DOMAIN stream.texts
         /\ \A i \in DOMAIN stream.texts :
              (stream.form = "packed" /\ locale_bound(stream.state, i)
                 => stream.native = native[home'[w]])
                => Texts(w)'[i] = stream.texts[i]
<1>1. Shape /\ StreamOK /\ native' = native /\ stream # NoStream
  BY UnserializeStep DEF IInv
<1>2. PICK h \in Session :
        /\ home'[w] = h
        /\ stream.form = "packed" =>
             /\ StateOK(stream.state) /\ parsed(stream.state, h) /\ check_records(stream.state)
             /\ val'[w] = Records(unserialize_store(stream.state, h))
        /\ stream.form = "strings" =>
             val'[w] = Plain([i \in DOMAIN stream.state |->
                                ReadString(stream.state[i], stream.native, native[h])])
  BY UnserializeStep
<1>3. /\ stream.native \in Charset /\ native \in [Session -> Charset]
      /\ stream.form \in {"packed", "strings"}
      /\ stream.form = "packed" => PackedState(stream)
      /\ stream.form = "strings" => PlainState(stream)
  BY <1>1 DEF StreamOK, Shape
<1>4. CASE stream.form = "packed"
  <2>a. PICK s : s = stream.state
    OBVIOUS
  <2>b. PackedState(stream)
    BY <1>3, <1>4
  <2>1. PICK magic, order, n, f :
          /\ WrittenAs(s, magic, order, n, f)
          /\ magic = "CPV2" /\ has_native(f) => stream.native = "utf8"
          /\ stream.texts = [i \in 0 .. n-1 |-> Text(make_charsxp(f[i]), stream.native)]
    BY ONLY <2>a, <2>b DEF PackedState
  <2>c. PICK g : g = unserialize_store(s, h)
    OBVIOUS
  <2> USE <2>a, <2>c
  <2>2. s.n = n /\ DOMAIN g = 0 .. n-1
    <3>1. s.n = n
      BY <2>1, WrittenIsOK
    <3>2. DOMAIN unserialize_store(s, h) = 0 .. s.n-1
      BY ONLY DEF unserialize_store
    <3> QED BY ONLY <2>c, <3>1, <3>2
  <2>3. val'[w].elts = g /\ val'[w] # Absent /\ val'[w].form = "records"
    <3>1. val'[w] = [form |-> "records", elts |-> g]
      BY <1>2, <1>4 DEF Records
    <3>2. val'[w] \in Value
      <4>1. s.n \in 0 .. MaxLen /\ g \in [0 .. s.n-1 -> Held]
        <5>1. StateOK(s) /\ parsed(s, h) /\ check_records(s)
          BY <1>2, <1>4
        <5> QED BY <5>1, AcceptedAreHeld
      <4> QED BY <3>1, <4>1, MakeVector DEF Value
    <3> QED BY <3>1, <3>2, ValueIsPresent
  <2>4. Texts(w)' = [i \in 0 .. n-1 |-> Text(make_charsxp(g[i]), native[h])]
    <3>1. strings(w)' = [i \in 0 .. n-1 |-> make_charsxp(g[i])]
      BY <2>2, <2>3 DEF strings, IsCharvec
    <3> QED BY <1>1, <1>2, <2>2, <2>3, <3>1 DEF Texts
  <2>5. ASSUME NEW i \in 0 .. n-1, locale_bound(s, i) => stream.native = native[h]
        PROVE  Text(make_charsxp(g[i]), native[h]) = Text(make_charsxp(f[i]), stream.native)
    BY <2>1, <2>5, PackedSays
  <2> QED BY <1>2, <1>4, <2>1, <2>4, <2>5
<1>5. CASE stream.form = "strings"
  <2>1. PICK n \in 0 .. MaxLen :
          \E f \in [0 .. n-1 -> CHARSXP] :
            /\ f = [i \in DOMAIN stream.state |-> ReadString(stream.state[i], stream.native, native[h])]
            /\ stream.texts # Damaged => stream.texts = [i \in 0 .. n-1 |-> Text(f[i], native[h])]
    BY <1>3, <1>5, PlainRead
  <2>2. PICK f \in [0 .. n-1 -> CHARSXP] :
          /\ f = [i \in DOMAIN stream.state |-> ReadString(stream.state[i], stream.native, native[h])]
          /\ stream.texts = [i \in 0 .. n-1 |-> Text(f[i], native[h])]
    BY <2>1
  <2>3. val'[w].elts = f /\ val'[w].form = "strings"
    <3>1. val'[w] = [form |-> "strings", elts |-> f]
      BY <1>2, <1>5, <2>2 DEF Plain
    <3> QED BY <3>1
  <2>4. Texts(w)' = [i \in 0 .. n-1 |-> Text(f[i], native[h])]
    <3>1. strings(w)' = [i \in 0 .. n-1 |-> f[i]]
      BY <2>2, <2>3 DEF strings, IsCharvec
    <3> QED BY <1>1, <1>2, <2>2, <2>3, <3>1 DEF Texts
  <2> QED BY <2>2, <2>4
<1> QED BY <1>3, <1>4, <1>5

(* Whatever the byte orders and the native encodings of the two sessions,  *)
(* an undamaged vector says the same text where it is read: Serialized_    *)
(* state packs native records only where native is UTF-8, and              *)
(* unserialize_store retags what it reads of such a state elsewhere.       *)
THEOREM TextSurvives == Spec => TextSurvivesTransit
<1>1. ASSUME IInv, [Next]_vars
      PROVE  [\A w \in Vec : Unserialize(w) /\ stream.texts # Damaged =>
                /\ DOMAIN Texts(w)' = DOMAIN stream.texts
                /\ \A i \in DOMAIN stream.texts :
                     (stream.form = "packed" /\ locale_bound(stream.state, i)
                        => stream.native = native[home'[w]])
                       => Texts(w)'[i] = stream.texts[i]]_vars
  BY <1>1, UnserializeSays
<1> QED BY <1>1, Invariance, PTL DEF Spec, TextSurvivesTransit

(* "Untrusted input": whatever happened to a state on its way, the records *)
(* that unserialize_store makes of it are ones R can hold, and they lie    *)
(* side by side in the payload, from its first byte to its last.           *)
THEOREM AcceptedExactly == Spec => AcceptedStatesAreExact
<1> DEFINE Exact(w) ==
      LET f == val'[w].elts
          n == Cardinality(DOMAIN f) IN
      /\ FlattenSeq([k \in 1 .. n |-> f[k-1].bytes]) = stream.state.bytes
      /\ \A i \in DOMAIN f : f[i] \in View /\ Len(f[i].bytes) <= MaxString
<1>1. ASSUME IInv, NEW w \in Vec, Unserialize(w), stream.form = "packed"
      PROVE  Exact(w)
  <2> PICK s : s = stream.state
    OBVIOUS
  <2>1. PICK h \in Session :
          /\ StateOK(s) /\ parsed(s, h) /\ check_records(s)
          /\ val'[w] = Records(unserialize_store(s, h))
    BY <1>1, UnserializeStep
  <2> PICK g : g = unserialize_store(s, h)
    OBVIOUS
  <2>2. val'[w].elts = g
    BY <2>1 DEF Records
  <2>3. s.n \in 0 .. MaxLen /\ g \in [0 .. s.n-1 -> Held]
    BY <2>1, AcceptedAreHeld
  <2>4. DOMAIN g = 0 .. s.n-1 /\ Cardinality(DOMAIN g) = s.n
    <3>1. s.n \in Nat
      BY <2>3, CodecAssumption
    <3> QED BY <2>3, <3>1, CountRecords
  <2>5. FlattenSeq([k \in 1 .. s.n |-> g[k-1].bytes]) = s.bytes
    BY <2>1, AcceptedIsExact
  <2>6. \A i \in DOMAIN g : g[i] \in View /\ Len(g[i].bytes) <= MaxString
    BY <2>3, <2>4 DEF Held
  <2> QED BY <2>2, <2>4, <2>5, <2>6
<1>2. ASSUME IInv, [Next]_vars
      PROVE  [\A w \in Vec : Unserialize(w) /\ stream.form = "packed" => Exact(w)]_vars
  BY <1>1, <1>2
<1>3. IInv /\ [Next]_vars =>
        [\A w \in Vec :
           Unserialize(w) /\ stream.form = "packed" =>
             LET f == val'[w].elts
                 n == Cardinality(DOMAIN f) IN
             /\ FlattenSeq([k \in 1 .. n |-> f[k-1].bytes]) = stream.state.bytes
             /\ \A i \in DOMAIN f : f[i] \in View /\ Len(f[i].bytes) <= MaxString]_vars
  BY <1>2
<1> QED BY <1>3, Invariance, PTL DEF Spec, AcceptedStatesAreExact
=============================================================================
