--------------------------- MODULE CharvecProofs ---------------------------
(***************************************************************************)
(* Theorems of module Charvec, for every number of vectors, extents and    *)
(* elements, every chunk size and every set of strings.                    *)
(*                                                                         *)
(* The inductive invariant is a statement about each vector alone, plus    *)
(* the disjointness of the slices of different Stores, so a step has to be *)
(* followed for the vector it works on only: Frame says that every other   *)
(* vector keeps what it had.                                               *)
(***************************************************************************)
EXTENDS Charvec, SequenceTheorems, TLAPS

(* A view of any encoding gives an R string that respects R's interning.   *)
LEMMA MakeType ==
  ASSUME NEW view \in View
  PROVE  make_charsxp(view) \in CHARSXP
<1>1. CASE view.enc = "NA"
  BY <1>1 DEF make_charsxp, CHARSXP
<1>2. CASE view.enc # "NA"
  <2>1. view.bytes \in Str /\ to_base_encoding(view.enc) \in Mark
    BY <1>2 DEF View, to_base_encoding, Mark
  <2>2. "native" \in Mark
    BY DEF Mark
  <2> QED
    BY <1>2, <2>1, <2>2 DEF make_charsxp, Rf_mkCharLenCE, CHARSXP
<1> QED BY <1>1, <1>2

(* What charport writes for an R string is a valid view, and reading it    *)
(* back gives the same interned string: no encoding is lost or changed     *)
(* (charsxp_to_view and make_charsxp).                                     *)
THEOREM RoundTrip ==
  ASSUME NEW x \in CHARSXP
  PROVE  /\ charsxp_to_view(x) \in View
         /\ make_charsxp(charsxp_to_view(x)) = x
<1>1. CASE x = NA_STRING
  BY <1>1 DEF charsxp_to_view, make_charsxp, NaView, View
<1>2. CASE x # NA_STRING
  <2>1. /\ x \in [bytes : Str, ce : Mark]
        /\ IsAscii(x.bytes) => x.ce = "native"
    BY <1>2 DEF CHARSXP
  <2>2. charsxp_to_view(x) = [bytes |-> x.bytes, enc |-> classify_charsxp(x)]
    BY <1>2 DEF charsxp_to_view
  <2>3. classify_charsxp(x) \in Tag /\ classify_charsxp(x) # "NA"
    BY <2>1 DEF classify_charsxp, Tag
  <2>4. to_base_encoding(classify_charsxp(x)) = x.ce
    BY <2>1 DEF classify_charsxp, to_base_encoding, Mark
  <2>5. x = [bytes |-> x.bytes, ce |-> x.ce]
    BY <2>1
  <2>6. make_charsxp(charsxp_to_view(x))
          = Rf_mkCharLenCE(x.bytes, to_base_encoding(classify_charsxp(x)))
    BY <2>2, <2>3 DEF make_charsxp
  <2>7. Rf_mkCharLenCE(x.bytes, x.ce) = x
    BY <2>1, <2>5 DEF Rf_mkCharLenCE
  <2> QED
    BY <2>1, <2>2, <2>3, <2>4, <2>6, <2>7 DEF View
<1> QED BY <1>1, <1>2

-----------------------------------------------------------------------------

(* What the handle, the Store and the borrowed pointer have to do with     *)
(* each other.  A Writer's pointer excludes an Elt cache.                  *)
HandleOK(v) ==
  /\ cls[v] = "plain" => data2[v] # Nil
  /\ cls[v] = "none"  => data2[v] = Nil /\ size[v] = 0
  /\ borrow[v] # "none"  => HasStore(v)
  /\ borrow[v] = "writer" => ~ chunks[v]
  /\ ~ HasStore(v) => slices[v] = {} /\ ~ chunks[v]

(* A record without payload has no pointer, NA has no payload, and a       *)
(* payload lies within an extent of the vector's own slices that no other  *)
(* record of the vector uses.                                              *)
RecordOK(v, i) ==
  LET r == records[v][i] IN
  /\ r.enc = "NA" => r.len = 0
  /\ r.len > 0 => r.ptr \in slices[v] /\ r.len <= Len(mem[r.ptr])

StoreOK(v) ==
  HasStore(v) =>
    /\ \A i \in Idx(v) : RecordOK(v, i)
    /\ \A i, j \in Idx(v) :
         i # j /\ records[v][i].len > 0 /\ records[v][j].len > 0
           => records[v][i].ptr # records[v][j].ptr

(* No slot is filled before the VECSXP of chunks exists, and what is in a  *)
(* slot is what the Store stands for.                                      *)
CacheOK(v) ==
  HasStore(v) =>
    /\ ~ chunks[v] => \A i \in Idx(v) : cached[v][i] = NoChunk
    /\ \A i \in Idx(v) : IsHit(cached[v][i]) => cached[v][i] = StoreString(v, i)

VecOK(v) == HandleOK(v) /\ StoreOK(v) /\ CacheOK(v)

SlicesDisjoint == \A v, w \in Vec : v # w => slices[v] \cap slices[w] = {}

IInv == TypeOK /\ SlicesDisjoint /\ \A v \in Vec : VecOK(v)

-----------------------------------------------------------------------------
(* Sequences of bytes.                                                     *)

LEMMA PrefixType ==
  ASSUME NEW s \in Str, NEW n \in 0 .. Len(s)
  PROVE  Prefix(s, n) \in Str /\ Len(Prefix(s, n)) = n
BY DEF Str, Prefix

LEMMA PrefixWhole ==
  ASSUME NEW s \in Str
  PROVE  Prefix(s, Len(s)) = s
<1>1. Prefix(s, Len(s)) \in Str /\ Len(Prefix(s, Len(s))) = Len(s)
  BY PrefixType, LenProperties DEF Str
<1> QED BY <1>1, SeqEqual DEF Str, Prefix

(* An in-place rewrite that fits leaves the new bytes at the front.        *)
LEMMA OverwriteFits ==
  ASSUME NEW s \in Str, NEW b \in Str, Len(b) <= Len(s)
  PROVE  /\ Overwrite(s, b) \in Str
         /\ Len(Overwrite(s, b)) = Len(s)
         /\ Prefix(Overwrite(s, b), Len(b)) = b
<1>1. Overwrite(s, b) \in Str /\ Len(Overwrite(s, b)) = Len(s)
  BY DEF Str, Overwrite
<1>2. Len(b) \in 0 .. Len(s)
  BY LenProperties DEF Str
<1>3. /\ Prefix(Overwrite(s, b), Len(b)) \in Str
      /\ Len(Prefix(Overwrite(s, b), Len(b))) = Len(b)
  BY <1>1, <1>2, PrefixType
<1>4. ASSUME NEW k \in 1 .. Len(b)
      PROVE  Prefix(Overwrite(s, b), Len(b))[k] = b[k]
  BY <1>2 DEF Prefix, Overwrite
<1> QED BY <1>1, <1>3, <1>4, SeqEqual DEF Str

-----------------------------------------------------------------------------
(* Views of a well-formed Store.                                           *)

LEMMA ViewType ==
  ASSUME TypeOK, NEW v \in Vec, StoreOK(v), HasStore(v), NEW i \in Idx(v)
  PROVE  StoreView(v, i) \in View
<1> DEFINE r == records[v][i]
<1>1. r \in Record /\ RecordOK(v, i)
  BY DEF TypeOK, StoreOK
<1>2. CASE r.enc = "NA"
  BY <1>2 DEF StoreView, View, NaView
<1>3. CASE r.enc # "NA" /\ r.len = 0
  <2>1. << >> \in Str
    BY DEF Str
  <2> QED BY <1>1, <1>3, <2>1 DEF StoreView, View, Record
<1>4. CASE r.enc # "NA" /\ r.len # 0
  <2>1. r.len > 0 /\ r.ptr \in Ext /\ mem[r.ptr] \in Str
    BY <1>1, <1>4 DEF Record, RecordOK, TypeOK
  <2>2. r.len \in 0 .. Len(mem[r.ptr])
    BY <1>1, <2>1, LenProperties DEF RecordOK, Record, Str
  <2>3. Prefix(mem[r.ptr], r.len) \in Str
    BY <2>1, <2>2, PrefixType
  <2> QED BY <1>1, <1>4, <2>3 DEF StoreView, View, Record
<1> QED BY <1>2, <1>3, <1>4

(* A read gives the Store's string, whether the cache has it or not.       *)
LEMMA ReadsStore ==
  ASSUME TypeOK, NEW v \in Vec, VecOK(v), HasStore(v), NEW i \in Idx(v)
  PROVE  /\ CachedOrMinted(v, i) = StoreString(v, i)
         /\ StoreString(v, i) \in CHARSXP
<1>1. StoreString(v, i) \in CHARSXP
  BY ViewType, MakeType DEF StoreString, VecOK
<1> QED BY <1>1 DEF VecOK, CacheOK, CachedOrMinted

(* What a step leaves alone of a vector: its Store and its ordinary        *)
(* strings, and its cache.                                                 *)
SameStore(u) ==
  /\ cls'[u] = cls[u] /\ size'[u] = size[u] /\ data2'[u] = data2[u]
  /\ records'[u] = records[u] /\ slices'[u] = slices[u]
  /\ \A e \in slices[u] : mem'[e] = mem[e]

SameCache(u) == chunks'[u] = chunks[u] /\ cached'[u] = cached[u]

LEMMA SameViews ==
  ASSUME TypeOK, NEW u \in Vec, StoreOK(u), SameStore(u)
  PROVE  /\ HasStore(u)' <=> HasStore(u)
         /\ Idx(u)' = Idx(u)
         /\ StoreOK(u)'
         /\ HasStore(u) => \A i \in Idx(u) : StoreView(u, i)' = StoreView(u, i)
<1> USE DEF SameStore
<1>1. (HasStore(u)' <=> HasStore(u)) /\ Idx(u)' = Idx(u)
  BY DEF HasStore, Idx
<1>2. StoreOK(u)'
  BY <1>1 DEF StoreOK, RecordOK
<1>3. ASSUME HasStore(u), NEW i \in Idx(u)
      PROVE  StoreView(u, i)' = StoreView(u, i)
  <2>1. records[u][i] \in Record /\ RecordOK(u, i)
    BY <1>3 DEF TypeOK, StoreOK
  <2> QED BY <2>1 DEF Record, RecordOK, StoreView
<1> QED BY <1>1, <1>2, <1>3

(* What a step does not touch of a vector stays well formed.               *)
LEMMA Frame ==
  ASSUME TypeOK, NEW u \in Vec, VecOK(u), SameStore(u), SameCache(u),
         borrow'[u] \in {borrow[u], "none"}
  PROVE  VecOK(u)'
<1>1. /\ HasStore(u)' <=> HasStore(u)
      /\ Idx(u)' = Idx(u)
      /\ StoreOK(u)'
      /\ HasStore(u) => \A i \in Idx(u) : StoreView(u, i)' = StoreView(u, i)
  BY SameViews DEF VecOK
<1>2. HandleOK(u)'
  BY <1>1 DEF VecOK, HandleOK, SameStore, SameCache
<1>3. CacheOK(u)'
  BY <1>1 DEF VecOK, CacheOK, StoreString, SameCache
<1> QED BY <1>1, <1>2, <1>3 DEF VecOK

-----------------------------------------------------------------------------
(* Making a Store out of views, for a new vector or for a rebuilt one.     *)

LEMMA PayloadLen ==
  ASSUME NEW view \in View
  PROVE  /\ view.bytes \in Str
         /\ Len(view.bytes) \in Nat
         /\ Len(view.bytes) = 0 <=> view.bytes = << >>
         /\ view.enc \in Tag \cup {"NA"}
         /\ view.enc = "NA" => view = NaView
<1>1. << >> \in Str
  BY EmptySeq DEF Str
<1>2. view.bytes \in Str /\ view.enc \in Tag \cup {"NA"}
  BY <1>1 DEF View
<1>3. Len(view.bytes) \in Nat /\ (Len(view.bytes) = 0 <=> view.bytes = << >>)
  BY <1>2, EmptySeq, LenProperties DEF Str
<1>4. view.enc = "NA" => view = NaView
  BY DEF View, Tag, NaView
<1> QED BY <1>2, <1>3, <1>4

LEMMA WrittenFacts ==
  ASSUME TypeOK, NEW n \in Nat, NEW vw \in [0 .. n-1 -> View],
         NEW E \in SUBSET Ext, NEW at \in Injection(Payload(vw), E),
         NEW gone \in SUBSET Ext
  PROVE  /\ Written(vw, at, gone) \in [Ext -> Str]
         /\ \A i \in Payload(vw) : Written(vw, at, gone)[at[i]] = vw[i].bytes
         /\ \A e \in Ext \ (E \cup gone) : Written(vw, at, gone)[e] = mem[e]
<1>1. /\ at \in [Payload(vw) -> E]
      /\ \A i, j \in Payload(vw) : at[i] = at[j] => i = j
  BY DEF Injection, IsInjective
<1>2. \A i \in Payload(vw) : i \in DOMAIN vw /\ vw[i].bytes \in Str
  BY PayloadLen DEF Payload
<1>3. << >> \in Str /\ mem \in [Ext -> Str]
  BY EmptySeq DEF Str, TypeOK
<1>4. ASSUME NEW i \in Payload(vw)
      PROVE  (CHOOSE j \in DOMAIN at : at[j] = at[i]) = i
  BY <1>1
<1>5. ASSUME NEW i \in Payload(vw)
      PROVE  Written(vw, at, gone)[at[i]] = vw[i].bytes
  <2>1. at[i] \in Ext /\ \E j \in DOMAIN at : at[j] = at[i]
    BY <1>1
  <2> QED BY <1>4, <2>1 DEF Written
<1>6. ASSUME NEW e \in Ext
      PROVE  Written(vw, at, gone)[e] \in Str
  <2>1. CASE \E i \in DOMAIN at : at[i] = e
    BY <1>1, <1>2, <1>5, <2>1
  <2>2. CASE ~ \E i \in DOMAIN at : at[i] = e
    BY <1>3, <2>2 DEF Written
  <2> QED BY <2>1, <2>2
<1>7. \A e \in Ext \ (E \cup gone) : Written(vw, at, gone)[e] = mem[e]
  BY <1>1 DEF Written
<1>8. Written(vw, at, gone) \in [Ext -> Str]
  BY <1>6 DEF Written
<1> QED BY <1>5, <1>7, <1>8

LEMMA RecordsType ==
  ASSUME NEW n \in Nat, NEW vw \in [0 .. n-1 -> View],
         NEW E \in SUBSET Ext, NEW at \in [Payload(vw) -> E]
  PROVE  RecordsOf(vw, at) \in [0 .. n-1 -> Record]
<1>1. ASSUME NEW i \in 0 .. n-1
      PROVE  RecordsOf(vw, at)[i] \in Record
  <2>1. Len(vw[i].bytes) \in Nat /\ vw[i].enc \in Tag \cup {"NA"}
    BY PayloadLen
  <2>2. vw[i].bytes # << >> => i \in DOMAIN at /\ at[i] \in Ext
    BY DEF Payload
  <2> QED BY <2>1, <2>2 DEF RecordsOf, RecordOf, Record
<1> QED BY <1>1 DEF RecordsOf

LEMMA BuiltStore ==
  ASSUME NEW v \in Vec, NEW n \in Nat, NEW vw \in [0 .. n-1 -> View],
         NEW E \in SUBSET Ext, NEW at \in Injection(Payload(vw), E),
         size'[v] = n,
         records'[v] = RecordsOf(vw, at),
         slices'[v] = Range(at),
         \A i \in Payload(vw) : mem'[at[i]] = vw[i].bytes
  PROVE  /\ StoreOK(v)'
         /\ \A i \in 0 .. n-1 : StoreView(v, i)' = vw[i]
<1>1. /\ at \in [Payload(vw) -> E]
      /\ \A i, j \in Payload(vw) : at[i] = at[j] => i = j
  BY DEF Injection, IsInjective
<1>2. Idx(v)' = 0 .. n-1
  BY DEF Idx
<1>3. ASSUME NEW i \in 0 .. n-1
      PROVE  /\ RecordOK(v, i)'
             /\ StoreView(v, i)' = vw[i]
             /\ records'[v][i].len > 0 => i \in Payload(vw) /\ records'[v][i].ptr = at[i]
  <2>1. /\ vw[i].bytes \in Str
        /\ Len(vw[i].bytes) \in Nat
        /\ Len(vw[i].bytes) = 0 <=> vw[i].bytes = << >>
        /\ vw[i].enc = "NA" => vw[i] = NaView
    BY PayloadLen
  <2>2. vw[i] = [bytes |-> vw[i].bytes, enc |-> vw[i].enc]
    BY DEF View
  <2>3. CASE vw[i].bytes = << >>
    <3>1. records'[v][i] = [ptr |-> NoExt, len |-> 0, enc |-> vw[i].enc]
      BY <2>3 DEF RecordsOf, RecordOf
    <3> QED BY <2>1, <2>2, <2>3, <3>1 DEF RecordOK, StoreView
  <2>4. CASE vw[i].bytes # << >>
    <3>1. i \in Payload(vw) /\ i \in DOMAIN at /\ at[i] \in Range(at)
      BY <1>1, <2>4 DEF Payload, Range
    <3>2. records'[v][i] = [ptr |-> at[i], len |-> Len(vw[i].bytes), enc |-> vw[i].enc]
      BY <2>4, <3>1 DEF RecordsOf, RecordOf
    <3>3. vw[i].enc # "NA"
      BY <2>1, <2>4 DEF NaView
    <3>4. mem'[at[i]] = vw[i].bytes /\ Prefix(vw[i].bytes, Len(vw[i].bytes)) = vw[i].bytes
      BY <2>1, <3>1, PrefixWhole
    <3>5. StoreView(v, i)' = vw[i]
      BY <2>1, <2>2, <2>4, <3>2, <3>3, <3>4 DEF StoreView
    <3> QED BY <2>1, <3>1, <3>2, <3>3, <3>4, <3>5 DEF RecordOK
  <2> QED BY <2>3, <2>4
<1>4. StoreOK(v)'
  BY <1>1, <1>2, <1>3 DEF StoreOK
<1> QED BY <1>3, <1>4

-----------------------------------------------------------------------------
(* One lemma per kind of step: what it does to the vector it works on, and *)
(* that it leaves the others alone.                                        *)

BorrowType == [Vec -> {"none", "reader", "writer"}]

(* A pointer may lapse (AfterRead), but none is handed out.                *)
NoNewBorrow == /\ borrow' \in BorrowType
               /\ \A u \in Vec : borrow'[u] \in {borrow[u], "none"}

LEMMA BorrowLapses ==
  ASSUME TypeOK, NEW v \in Vec, AfterRead(v) \/ UNCHANGED borrow
  PROVE  NoNewBorrow
BY DEF TypeOK, BorrowType, NoNewBorrow, AfterRead

LEMMA NewStore ==
  ASSUME IInv, NEW w \in Vec, cls[w] = "none",
         NEW n \in 0 .. MaxLen, NEW vw \in [0 .. n-1 -> View],
         NewCharvec(w, n, vw), NoNewBorrow
  PROVE  /\ IInv'
         /\ \A u \in Vec \ {w} : SameStore(u)
         /\ cls'[w] = "charvec" /\ data2'[w] = Nil /\ size'[w] = n
         /\ \A i \in 0 .. n-1 : StoreView(w, i)' = vw[i]
<1>0. TypeOK /\ SlicesDisjoint /\ n \in Nat /\ \A u \in Vec : VecOK(u)
  BY CharvecAssumption DEF IInv
<1>1. PICK at \in Injection(Payload(vw), Free) :
        /\ cls'     = [cls EXCEPT ![w] = "charvec"]
        /\ size'    = [size EXCEPT ![w] = n]
        /\ records' = [records EXCEPT ![w] = RecordsOf(vw, at)]
        /\ slices'  = [slices EXCEPT ![w] = Range(at)]
        /\ mem'     = Written(vw, at, {})
        /\ chunks'  = [chunks EXCEPT ![w] = FALSE]
        /\ cached'  = [cached EXCEPT ![w] = [i \in 0 .. n-1 |-> NoChunk]]
        /\ data2'   = [data2 EXCEPT ![w] = Nil]
  BY DEF NewCharvec
<1>2. /\ Free \in SUBSET Ext
      /\ \A u \in Vec : Free \cap slices[u] = {}
  BY DEF Free
<1>3. /\ at \in Injection(Payload(vw), Free)
      /\ at \in [Payload(vw) -> Free]
      /\ Range(at) \subseteq Free
  BY <1>1 DEF Injection, Range
<1>4. /\ mem' \in [Ext -> Str]
      /\ \A i \in Payload(vw) : mem'[at[i]] = vw[i].bytes
      /\ \A e \in Ext \ Free : mem'[e] = mem[e]
  <2>1. /\ Written(vw, at, {}) \in [Ext -> Str]
        /\ \A i \in Payload(vw) : Written(vw, at, {})[at[i]] = vw[i].bytes
        /\ \A e \in Ext \ (Free \cup {}) : Written(vw, at, {})[e] = mem[e]
    <3>1. /\ TypeOK /\ n \in Nat /\ vw \in [0 .. n-1 -> View]
          /\ Free \in SUBSET Ext /\ {} \in SUBSET Ext
          /\ at \in Injection(Payload(vw), Free)
      BY <1>0, <1>2, <1>3
    <3> QED BY ONLY <3>1, WrittenFacts
  <2> QED BY <1>1, <2>1
<1>5. RecordsOf(vw, at) \in [0 .. n-1 -> Record]
  BY <1>0, <1>2, <1>3, RecordsType
<1>6. /\ cls'[w] = "charvec" /\ size'[w] = n /\ data2'[w] = Nil
      /\ records'[w] = RecordsOf(vw, at) /\ slices'[w] = Range(at)
      /\ chunks'[w] = FALSE /\ cached'[w] = [i \in 0 .. n-1 |-> NoChunk]
  BY <1>0, <1>1 DEF TypeOK
<1>7. ASSUME NEW u \in Vec \ {w}
      PROVE  SameStore(u) /\ SameCache(u)
  <2>1. slices[u] \subseteq Ext \ Free
    BY <1>0, <1>2 DEF TypeOK
  <2> QED BY <1>0, <1>1, <1>4, <2>1 DEF TypeOK, SameStore, SameCache
<1>8. StoreOK(w)' /\ \A i \in 0 .. n-1 : StoreView(w, i)' = vw[i]
  BY <1>0, <1>2, <1>3, <1>4, <1>6, BuiltStore
<1>9. VecOK(w)'
  <2>1. Idx(w)' = 0 .. n-1 /\ HasStore(w)'
    BY <1>6 DEF Idx, HasStore
  <2>2. HandleOK(w)'
    BY <1>0, <1>6, <2>1 DEF HandleOK, VecOK, HasStore, NoNewBorrow
  <2>3. CacheOK(w)'
    BY <1>6, <2>1 DEF CacheOK, IsHit
  <2> QED BY <1>8, <2>2, <2>3 DEF VecOK
<1>10. \A u \in Vec : VecOK(u)'
  BY <1>0, <1>7, <1>9, Frame DEF NoNewBorrow
<1>11. SlicesDisjoint'
  BY <1>0, <1>2, <1>3, <1>6, <1>7 DEF SlicesDisjoint, SameStore
<1>12. TypeOK'
  <2>1. ASSUME NEW u \in Vec
        PROVE  /\ records'[u] \in [Idx(u)' -> Record]
               /\ cached'[u] \in [Idx(u)' -> CHARSXP \cup {NoChunk}]
               /\ data2'[u] = Nil \/ data2'[u] \in [Idx(u)' -> CHARSXP]
    <3>1. CASE u = w
      BY <1>5, <1>6, <3>1 DEF Idx
    <3>2. CASE u # w
      BY <1>0, <1>7, <3>2 DEF TypeOK, Idx, SameStore, SameCache
    <3> QED BY <3>1, <3>2
  <2>2. slices' \in [Vec -> SUBSET Ext]
    BY <1>0, <1>1, <1>2, <1>3 DEF TypeOK
  <2> QED
    BY <1>0, <1>1, <1>4, <2>1, <2>2 DEF TypeOK, NoNewBorrow, BorrowType
<1> QED BY <1>6, <1>7, <1>8, <1>10, <1>11, <1>12 DEF IInv

LEMMA NewOrdinary ==
  ASSUME IInv, NEW w \in Vec, cls[w] = "none",
         NEW n \in 0 .. MaxLen, NEW strings \in [0 .. n-1 -> CHARSXP],
         NewPlain(w, n, strings), NoNewBorrow
  PROVE  /\ IInv'
         /\ \A u \in Vec \ {w} : SameStore(u)
         /\ cls'[w] = "plain" /\ size'[w] = n /\ data2'[w] = strings
<1> USE DEF NewPlain
<1>0. TypeOK /\ SlicesDisjoint /\ \A u \in Vec : VecOK(u)
  BY DEF IInv
<1>1. /\ cls'[w] = "plain" /\ size'[w] = n /\ data2'[w] = strings
      /\ records'[w] = [i \in 0 .. n-1 |-> NaRecord] /\ slices'[w] = slices[w]
      /\ chunks'[w] = FALSE /\ cached'[w] = [i \in 0 .. n-1 |-> NoChunk]
  BY <1>0 DEF TypeOK
<1>2. ASSUME NEW u \in Vec \ {w}
      PROVE  SameStore(u) /\ SameCache(u)
  BY <1>0 DEF TypeOK, SameStore, SameCache
<1>3. strings # Nil
  BY CharvecAssumption
<1>4. VecOK(w)'
  BY <1>0, <1>1, <1>3
  DEF VecOK, HandleOK, StoreOK, CacheOK, HasStore, NoNewBorrow
<1>5. \A u \in Vec : VecOK(u)'
  BY <1>0, <1>2, <1>4, Frame DEF NoNewBorrow
<1>6. TypeOK'
  <2>1. ASSUME NEW u \in Vec
        PROVE  /\ records'[u] \in [Idx(u)' -> Record]
               /\ cached'[u] \in [Idx(u)' -> CHARSXP \cup {NoChunk}]
               /\ data2'[u] = Nil \/ data2'[u] \in [Idx(u)' -> CHARSXP]
    <3>1. CASE u = w
      BY <1>1, <3>1 DEF Idx, Record, NaRecord
    <3>2. CASE u # w
      BY <1>0, <1>2, <3>2 DEF TypeOK, Idx, SameStore, SameCache
    <3> QED BY <3>1, <3>2
  <2> QED BY <1>0, <2>1 DEF TypeOK, NoNewBorrow, BorrowType
<1>7. SlicesDisjoint'
  BY <1>0 DEF SlicesDisjoint
<1> QED BY <1>1, <1>2, <1>5, <1>6, <1>7 DEF IInv

(* Reads and failed reads: only the cache of v changes, and what it holds  *)
(* is what the Store stands for.                                           *)
LEMMA CacheStep ==
  ASSUME IInv, NEW v \in Vec, HasStore(v),
         UNCHANGED <<cls, size, records, slices, mem, data2>>,
         chunks' = [chunks EXCEPT ![v] = TRUE] \/ UNCHANGED chunks,
         NEW slots \in [Idx(v) -> CHARSXP \cup {NoChunk}],
         cached' = [cached EXCEPT ![v] = slots] \/ (UNCHANGED cached /\ slots = cached[v]),
         \A i \in Idx(v) : IsHit(slots[i]) => slots[i] = StoreString(v, i),
         ~ chunks'[v] => \A i \in Idx(v) : slots[i] = NoChunk,
         NoNewBorrow, borrow'[v] # "writer"
  PROVE  IInv' /\ \A u \in Vec : SameStore(u)
<1>0. TypeOK /\ SlicesDisjoint /\ \A u \in Vec : VecOK(u)
  BY DEF IInv
<1>1. \A u \in Vec : SameStore(u)
  BY DEF SameStore
<1>2. \A u \in Vec \ {v} : SameCache(u)
  BY <1>0 DEF TypeOK, SameCache
<1>3. cached'[v] = slots
  BY <1>0 DEF TypeOK
<1>4. VecOK(v)'
  <2>1. /\ HasStore(v)' /\ Idx(v)' = Idx(v) /\ StoreOK(v)'
        /\ \A i \in Idx(v) : StoreView(v, i)' = StoreView(v, i)
    BY <1>0, <1>1, SameViews DEF VecOK
  <2>2. HandleOK(v)'
    BY <1>0, <2>1 DEF VecOK, HandleOK, HasStore, NoNewBorrow
  <2>3. CacheOK(v)'
    BY <1>3, <2>1 DEF CacheOK, StoreString
  <2> QED BY <2>1, <2>2, <2>3 DEF VecOK
<1>5. \A u \in Vec : VecOK(u)'
  BY <1>0, <1>1, <1>2, <1>4, Frame DEF NoNewBorrow
<1>6. TypeOK'
  <2>1. \A u \in Vec : cached'[u] \in [Idx(u) -> CHARSXP \cup {NoChunk}]
    BY <1>0, <1>2, <1>3 DEF TypeOK, SameCache
  <2>2. chunks' \in [Vec -> BOOLEAN]
    BY <1>0 DEF TypeOK
  <2> QED
    BY <1>0, <2>1, <2>2 DEF TypeOK, NoNewBorrow, BorrowType, Idx
<1>7. SlicesDisjoint'
  BY <1>0 DEF SlicesDisjoint
<1> QED BY <1>1, <1>5, <1>6, <1>7 DEF IInv

LEMMA SlotsType ==
  ASSUME IInv, NEW v \in Vec, HasStore(v)
  PROVE  /\ cached[v] \in [Idx(v) -> CHARSXP \cup {NoChunk}]
         /\ \A i \in Idx(v) : /\ IsHit(cached[v][i]) => cached[v][i] = StoreString(v, i)
                             /\ CachedOrMinted(v, i) = StoreString(v, i)
                             /\ StoreString(v, i) \in CHARSXP
BY ReadsStore DEF IInv, TypeOK, VecOK, CacheOK

LEMMA ChunkSlots ==
  ASSUME IInv, NEW v \in Vec, HasStore(v), NEW i \in Idx(v)
  PROVE  /\ EltChunk(v, i) \in [Idx(v) -> CHARSXP \cup {NoChunk}]
         /\ \A j \in Idx(v) :
              IsHit(EltChunk(v, i)[j]) => EltChunk(v, i)[j] = StoreString(v, j)
<1>1. R_BlankString \in CHARSXP
  BY EmptySeq DEF R_BlankString, CHARSXP, Str, Mark
<1> QED BY <1>1, SlotsType DEF EltChunk, IsHit

LEMMA ReadLapses ==
  ASSUME TypeOK, NEW v \in Vec, AfterRead(v)
  PROVE  NoNewBorrow /\ borrow'[v] # "writer"
BY BorrowLapses DEF TypeOK, AfterRead

LEMMA EltStep ==
  ASSUME IInv, NEW v \in Vec, NEW i \in Idx(v), Elt(v, i)
  PROVE  /\ IInv' /\ \A u \in Vec : SameStore(u)
         /\ ret' = <<"read", v, i, StoreString(v, i)>>
<1> DEFINE slots == [EltChunk(v, i) EXCEPT ![i] = CachedOrMinted(v, i)]
<1>1. /\ HasStore(v)
      /\ UNCHANGED <<cls, size, records, slices, mem, data2>>
      /\ chunks' = [chunks EXCEPT ![v] = TRUE]
      /\ cached' = [cached EXCEPT ![v] = slots]
      /\ ret' = <<"read", v, i, CachedOrMinted(v, i)>>
      /\ AfterRead(v)
  BY DEF Elt, storeVars
<1>2. /\ CachedOrMinted(v, i) = StoreString(v, i)
      /\ StoreString(v, i) \in CHARSXP
  BY <1>1, SlotsType
<1>3. /\ slots \in [Idx(v) -> CHARSXP \cup {NoChunk}]
      /\ \A j \in Idx(v) : IsHit(slots[j]) => slots[j] = StoreString(v, j)
  BY <1>1, <1>2, ChunkSlots
<1>4. NoNewBorrow /\ borrow'[v] # "writer"
  BY <1>1, ReadLapses DEF IInv
<1>5. chunks'[v] = TRUE
  BY <1>1 DEF IInv, TypeOK
<1> HIDE DEF slots
<1>6. IInv' /\ \A u \in Vec : SameStore(u)
  BY <1>1, <1>2, <1>3, <1>4, <1>5, CacheStep
<1> QED BY <1>1, <1>2, <1>6

LEMMA EltFailsStep ==
  ASSUME IInv, NEW v \in Vec, NEW i \in Idx(v), EltFails(v, i)
  PROVE  IInv' /\ \A u \in Vec : SameStore(u)
<1>1. /\ HasStore(v)
      /\ UNCHANGED <<cls, size, records, slices, mem, data2>>
      /\ chunks' = [chunks EXCEPT ![v] = TRUE]
      /\ UNCHANGED cached \/ cached' = [cached EXCEPT ![v] = EltChunk(v, i)]
      /\ AfterRead(v)
  BY DEF EltFails, storeVars
<1>2. NoNewBorrow /\ borrow'[v] # "writer"
  BY <1>1, ReadLapses DEF IInv
<1>3. chunks'[v] = TRUE
  BY <1>1 DEF IInv, TypeOK
<1>4. CASE UNCHANGED cached
  <2> DEFINE slots == cached[v]
  <2>1. /\ slots \in [Idx(v) -> CHARSXP \cup {NoChunk}]
        /\ \A j \in Idx(v) : IsHit(slots[j]) => slots[j] = StoreString(v, j)
    BY <1>1, SlotsType
  <2>2. UNCHANGED cached /\ slots = cached[v]
    BY <1>4
  <2> HIDE DEF slots
  <2> QED BY <1>1, <1>2, <1>3, <2>1, <2>2, CacheStep
<1>5. CASE cached' = [cached EXCEPT ![v] = EltChunk(v, i)]
  <2> DEFINE slots == EltChunk(v, i)
  <2>1. /\ slots \in [Idx(v) -> CHARSXP \cup {NoChunk}]
        /\ \A j \in Idx(v) : IsHit(slots[j]) => slots[j] = StoreString(v, j)
    BY <1>1, ChunkSlots
  <2>2. cached' = [cached EXCEPT ![v] = slots]
    BY <1>5
  <2> HIDE DEF slots
  <2> QED BY <1>1, <1>2, <1>3, <2>1, <2>2, CacheStep
<1> QED BY <1>1, <1>4, <1>5

LEMMA MaterializeFailsStep ==
  ASSUME IInv, NEW v \in Vec, MaterializeFails(v)
  PROVE  IInv' /\ \A u \in Vec : SameStore(u)
<1>1. /\ HasStore(v)
      /\ UNCHANGED <<cls, size, records, slices, mem, data2, chunks>>
      /\ AfterRead(v)
  BY DEF MaterializeFails, storeVars
<1>2. PICK k \in Idx(v) :
        cached' = IF Promotes(v)
                  THEN [cached EXCEPT ![v] =
                          [i \in Idx(v) |-> IF i < k THEN CachedOrMinted(v, i) ELSE @[i]]]
                  ELSE cached
  BY DEF MaterializeFails
<1>3. NoNewBorrow /\ borrow'[v] # "writer"
  BY <1>1, ReadLapses DEF IInv
<1>4. ~ chunks[v] => \A i \in Idx(v) : cached[v][i] = NoChunk
  BY <1>1 DEF IInv, VecOK, CacheOK
<1>5. CASE ~ Promotes(v)
  <2>1. UNCHANGED cached
    BY <1>2, <1>5
  <2> QED BY <1>1, <1>3, <1>4, <2>1, SlotsType, CacheStep
<1>6. CASE Promotes(v)
  <2> DEFINE slots == [i \in Idx(v) |-> IF i < k THEN CachedOrMinted(v, i) ELSE cached[v][i]]
  <2>1. cached' = [cached EXCEPT ![v] = slots]
    BY <1>2, <1>6
  <2>2. /\ slots \in [Idx(v) -> CHARSXP \cup {NoChunk}]
        /\ \A j \in Idx(v) : IsHit(slots[j]) => slots[j] = StoreString(v, j)
    BY <1>1, SlotsType
  <2>3. chunks'[v] = TRUE
    BY <1>1, <1>6 DEF Promotes, IInv, TypeOK
  <2> HIDE DEF slots
  <2> QED BY <1>1, <1>3, <2>1, <2>2, <2>3, CacheStep
<1> QED BY <1>5, <1>6

(* What Set_elt and a Writer do to the Store: record i takes the payload   *)
(* away from nobody.                                                       *)
StoreWrite(v, i, view) ==
  \/ /\ view.bytes = << >>
     /\ records' = [records EXCEPT ![v][i] = RecordOf(view, NoExt)]
     /\ UNCHANGED <<slices, mem>>
  \/ /\ view.bytes # << >>
     /\ InPlace(records[v][i], Len(view.bytes))
     /\ records' = [records EXCEPT ![v][i] = RecordOf(view, records[v][i].ptr)]
     /\ mem' = [mem EXCEPT ![records[v][i].ptr] = Overwrite(@, view.bytes)]
     /\ UNCHANGED slices
  \/ /\ view.bytes # << >>
     /\ \E e \in Free :
          /\ records' = [records EXCEPT ![v][i] = RecordOf(view, e)]
          /\ slices' = [slices EXCEPT ![v] = @ \cup {e}]
          /\ mem' = [mem EXCEPT ![e] = view.bytes]

(* The extent that takes the payload is new or the record's own, long      *)
(* enough, and no other record's.                                          *)
LEMMA StoreWriteStep ==
  ASSUME IInv, NEW v \in Vec, HasStore(v), NEW i \in Idx(v), NEW view \in View,
         StoreWrite(v, i, view), UNCHANGED <<cls, size, data2>>
  PROVE  /\ \A u \in Vec \ {v} : SameStore(u)
         /\ HasStore(v)' /\ Idx(v)' = Idx(v) /\ StoreOK(v)'
         /\ StoreView(v, i)' = view
         /\ \A j \in Idx(v) \ {i} : StoreView(v, j)' = StoreView(v, j)
         /\ SlicesDisjoint'
         /\ DOMAIN records' = Vec
         /\ \A u \in Vec : records'[u] \in [Idx(u) -> Record]
         /\ slices' \in [Vec -> SUBSET Ext] /\ mem' \in [Ext -> Str]
<1> DEFINE r == records[v][i]  len == Len(view.bytes)
<1>0. /\ TypeOK /\ SlicesDisjoint /\ \A u \in Vec : VecOK(u)
      /\ StoreOK(v) /\ RecordOK(v, i)
  BY DEF IInv, VecOK, StoreOK
<1>1. /\ r \in Record /\ slices[v] \subseteq Ext
      /\ records[v] \in [Idx(v) -> Record]
  BY <1>0 DEF TypeOK
<1>2. /\ view.bytes \in Str /\ len \in Nat
      /\ len = 0 <=> view.bytes = << >>
      /\ view.enc \in Tag \cup {"NA"}
      /\ view.enc = "NA" => view = NaView
      /\ view = [bytes |-> view.bytes, enc |-> view.enc]
  BY PayloadLen DEF View
<1>3. HasStore(v)' /\ Idx(v)' = Idx(v)
  BY DEF HasStore, Idx
<1>4. /\ Free \subseteq Ext
      /\ \A u \in Vec : Free \cap slices[u] = {}
  BY DEF Free
(* The record, the extent it points to and that extent's new contents.     *)
<1>5. ASSUME view.bytes = << >>
      PROVE  /\ records' = [records EXCEPT ![v][i] = [ptr |-> NoExt, len |-> 0, enc |-> view.enc]]
             /\ UNCHANGED <<slices, mem>>
  BY <1>5 DEF StoreWrite, RecordOf
<1>6. ASSUME view.bytes # << >>
      PROVE  \E e \in Ext :
               /\ records' = [records EXCEPT ![v][i] = [ptr |-> e, len |-> len, enc |-> view.enc]]
               /\ slices' = slices \/ (e \in Free /\ slices' = [slices EXCEPT ![v] = @ \cup {e}])
               /\ e \in slices'[v] /\ e \in slices[v] \cup Free
               /\ \A j \in Idx(v) \ {i} : records[v][j].len > 0 => records[v][j].ptr # e
               /\ mem' \in [Ext -> Str]
               /\ \A d \in Ext \ {e} : mem'[d] = mem[d]
               /\ len <= Len(mem'[e]) /\ Prefix(mem'[e], len) = view.bytes
  <2>1. CASE /\ InPlace(r, len)
             /\ records' = [records EXCEPT ![v][i] = RecordOf(view, r.ptr)]
             /\ mem' = [mem EXCEPT ![r.ptr] = Overwrite(@, view.bytes)]
             /\ UNCHANGED slices
    <3>1. r.len > 0 /\ len <= r.len
      BY <1>1, <1>2, <1>6, <2>1 DEF InPlace, Record
    <3>2. r.ptr \in slices[v] /\ r.len <= Len(mem[r.ptr]) /\ mem[r.ptr] \in Str
      BY <1>0, <1>1, <3>1 DEF RecordOK, TypeOK
    <3>3. Len(mem[r.ptr]) \in Nat /\ len <= Len(mem[r.ptr])
      BY <1>1, <1>2, <3>1, <3>2, LenProperties DEF Str, Record
    <3>4. /\ Overwrite(mem[r.ptr], view.bytes) \in Str
          /\ Len(Overwrite(mem[r.ptr], view.bytes)) = Len(mem[r.ptr])
          /\ Prefix(Overwrite(mem[r.ptr], view.bytes), len) = view.bytes
      BY <1>2, <3>2, <3>3, OverwriteFits
    <3>5. mem' \in [Ext -> Str] /\ mem'[r.ptr] = Overwrite(mem[r.ptr], view.bytes)
      BY <1>0, <1>1, <2>1, <3>2, <3>4 DEF TypeOK
    <3>6. \A j \in Idx(v) \ {i} : records[v][j].len > 0 => records[v][j].ptr # r.ptr
      BY <1>0, <3>1 DEF StoreOK
    <3>7. records' = [records EXCEPT ![v][i] = [ptr |-> r.ptr, len |-> len, enc |-> view.enc]]
      BY <1>6, <2>1 DEF RecordOf
    <3>8. \A d \in Ext \ {r.ptr} : mem'[d] = mem[d]
      BY <1>0, <2>1 DEF TypeOK
    <3>9. r.ptr \in Ext /\ r.ptr \in slices'[v]
      BY <1>1, <2>1, <3>2
    <3> QED BY <2>1, <3>2, <3>3, <3>4, <3>5, <3>6, <3>7, <3>8, <3>9
  <2>2. ASSUME NEW e \in Free,
               records' = [records EXCEPT ![v][i] = RecordOf(view, e)],
               slices' = [slices EXCEPT ![v] = @ \cup {e}],
               mem' = [mem EXCEPT ![e] = view.bytes]
        PROVE  /\ e \in Ext
               /\ records' = [records EXCEPT ![v][i] = [ptr |-> e, len |-> len, enc |-> view.enc]]
               /\ slices' = slices \/ (e \in Free /\ slices' = [slices EXCEPT ![v] = @ \cup {e}])
               /\ e \in slices'[v] /\ e \in slices[v] \cup Free
               /\ \A j \in Idx(v) \ {i} : records[v][j].len > 0 => records[v][j].ptr # e
               /\ mem' \in [Ext -> Str]
               /\ \A d \in Ext \ {e} : mem'[d] = mem[d]
               /\ len <= Len(mem'[e]) /\ Prefix(mem'[e], len) = view.bytes
    <3>1. \A j \in Idx(v) \ {i} : records[v][j].len > 0 => records[v][j].ptr # e
      BY <1>0, <1>4 DEF StoreOK, RecordOK
    <3>2. e \in Ext /\ e \in slices'[v]
      BY <1>0, <1>4, <2>2 DEF TypeOK
    <3>3. mem' \in [Ext -> Str] /\ mem'[e] = view.bytes /\ \A d \in Ext \ {e} : mem'[d] = mem[d]
      BY <1>0, <1>2, <2>2, <3>2 DEF TypeOK
    <3>4. len <= Len(mem'[e]) /\ Prefix(mem'[e], len) = view.bytes
      BY <1>2, <3>3, PrefixWhole
    <3>5. records' = [records EXCEPT ![v][i] = [ptr |-> e, len |-> len, enc |-> view.enc]]
      BY <1>6, <2>2 DEF RecordOf
    <3> QED BY <2>2, <3>1, <3>2, <3>3, <3>4, <3>5
  <2> QED BY <1>6, <2>1, <2>2 DEF StoreWrite
<1>7. CASE view.bytes = << >>
  <2>1. /\ DOMAIN records' = Vec
        /\ \A u \in Vec \ {v} : records'[u] = records[u]
        /\ records'[v] = [records[v] EXCEPT ![i] = [ptr |-> NoExt, len |-> 0, enc |-> view.enc]]
        /\ UNCHANGED <<slices, mem>>
    BY <1>0, <1>5, <1>7 DEF TypeOK
  <2>2. /\ records'[v] \in [Idx(v) -> Record]
        /\ records'[v][i] = [ptr |-> NoExt, len |-> 0, enc |-> view.enc]
        /\ \A j \in Idx(v) \ {i} : records'[v][j] = records[v][j]
    BY <1>1, <1>2, <2>1 DEF Record
  <2>3. \A u \in Vec \ {v} : SameStore(u)
    BY <2>1 DEF SameStore
  <2>4. StoreView(v, i)' = view
    BY <1>2, <1>7, <2>2 DEF StoreView
  <2>5. \A j \in Idx(v) \ {i} : StoreView(v, j)' = StoreView(v, j)
    BY <2>1, <2>2 DEF StoreView
  <2>6. StoreOK(v)'
    BY <1>0, <1>3, <2>1, <2>2 DEF StoreOK, RecordOK
  <2>7. \A u \in Vec : records'[u] \in [Idx(u) -> Record]
    BY <1>0, <2>1, <2>2 DEF TypeOK
  <2> QED BY <1>0, <1>3, <2>1, <2>3, <2>4, <2>5, <2>6, <2>7 DEF TypeOK, SlicesDisjoint
<1>8. CASE view.bytes # << >>
  <2>0. PICK e \in Ext :
               /\ records' = [records EXCEPT ![v][i] = [ptr |-> e, len |-> len, enc |-> view.enc]]
               /\ slices' = slices \/ (e \in Free /\ slices' = [slices EXCEPT ![v] = @ \cup {e}])
               /\ e \in slices'[v] /\ e \in slices[v] \cup Free
               /\ \A j \in Idx(v) \ {i} : records[v][j].len > 0 => records[v][j].ptr # e
               /\ mem' \in [Ext -> Str]
               /\ \A d \in Ext \ {e} : mem'[d] = mem[d]
               /\ len <= Len(mem'[e]) /\ Prefix(mem'[e], len) = view.bytes
    BY <1>6, <1>8
  <2>1. /\ DOMAIN records' = Vec
        /\ \A u \in Vec \ {v} : records'[u] = records[u]
        /\ records'[v] = [records[v] EXCEPT ![i] = [ptr |-> e, len |-> len, enc |-> view.enc]]
    BY <1>0, <2>0 DEF TypeOK
  <2>2. /\ records'[v] \in [Idx(v) -> Record]
        /\ records'[v][i] = [ptr |-> e, len |-> len, enc |-> view.enc]
        /\ \A j \in Idx(v) \ {i} : records'[v][j] = records[v][j]
    BY <1>1, <1>2, <2>0, <2>1 DEF Record
  <2>3. /\ slices' \in [Vec -> SUBSET Ext]
        /\ slices[v] \subseteq slices'[v] /\ slices'[v] \subseteq slices[v] \cup {e}
        /\ \A u \in Vec \ {v} : slices'[u] = slices[u] /\ e \notin slices[u]
    <3>1. \A u \in Vec \ {v} : e \notin slices[u]
      BY <1>0, <1>4, <2>0 DEF SlicesDisjoint
    <3>2. CASE slices' = slices
      BY <1>0, <3>1, <3>2 DEF TypeOK
    <3>3. CASE slices' = [slices EXCEPT ![v] = slices[v] \cup {e}]
      BY <1>0, <3>1, <3>3 DEF TypeOK
    <3> QED BY <2>0, <3>2, <3>3
  <2>4. \A u \in Vec \ {v} : SameStore(u)
    BY <1>0, <2>0, <2>1, <2>3 DEF SameStore, TypeOK
  <2>5. StoreView(v, i)' = view
    BY <1>2, <1>8, <2>0, <2>2 DEF StoreView, NaView
  <2>6. ASSUME NEW j \in Idx(v) \ {i}
        PROVE  /\ StoreView(v, j)' = StoreView(v, j)
               /\ RecordOK(v, j)'
    <3>1. records[v][j] \in Record /\ RecordOK(v, j)
      BY <1>0, <1>1 DEF StoreOK
    <3>2. CASE records[v][j].len = 0
      BY <2>2, <3>1, <3>2 DEF StoreView, RecordOK
    <3>3. CASE records[v][j].len # 0
      <4>1. records[v][j].len > 0
        BY <3>1, <3>3 DEF Record
      <4>2. mem'[records[v][j].ptr] = mem[records[v][j].ptr]
        BY <1>1, <2>0, <3>1, <4>1 DEF RecordOK
      <4> QED BY <2>2, <2>3, <3>1, <4>1, <4>2 DEF StoreView, RecordOK
    <3> QED BY <3>2, <3>3
  <2>7. RecordOK(v, i)'
    BY <1>2, <1>8, <2>0, <2>2 DEF RecordOK, NaView
  <2>8. StoreOK(v)'
    BY <1>0, <1>3, <2>0, <2>2, <2>6, <2>7 DEF StoreOK
  <2>9. \A u \in Vec : records'[u] \in [Idx(u) -> Record]
    BY <1>0, <2>1, <2>2 DEF TypeOK
  <2>10. SlicesDisjoint'
    BY <1>0, <2>3 DEF SlicesDisjoint
  <2> QED BY <1>3, <2>0, <2>1, <2>3, <2>4, <2>5, <2>6, <2>8, <2>9, <2>10
<1> QED BY <1>7, <1>8

LEMMA Set_eltStep ==
  ASSUME IInv, NEW v \in Vec, NEW i \in Idx(v), NEW x \in Input, Set_elt(v, i, x)
  PROVE  /\ IInv' /\ \A u \in Vec \ {v} : SameStore(u)
         /\ HasStore(v)' /\ Idx(v)' = Idx(v)
         /\ StoreString(v, i)' = x
         /\ \A j \in Idx(v) \ {i} : StoreView(v, j)' = StoreView(v, j)
<1> DEFINE view == charsxp_to_view(x)
<1>0. TypeOK /\ \A u \in Vec : VecOK(u)
  BY DEF IInv
<1>1. /\ HasStore(v)
      /\ store_assign(v, i, view) /\ WriteThrough(v, i, x)
      /\ UNCHANGED <<cls, size, chunks, data2, borrow>>
  BY DEF Set_elt
<1>2. x \in CHARSXP /\ view \in View /\ make_charsxp(view) = x
  BY CharvecAssumption, RoundTrip
<1>3. StoreWrite(v, i, view)
  <2>1. /\ Len(view.bytes) \in Nat
        /\ Len(view.bytes) = 0 <=> view.bytes = << >>
    BY <1>2, PayloadLen
  <2> QED BY <1>1, <2>1 DEF StoreWrite, store_assign
<1> HIDE DEF view
<1>4. /\ \A u \in Vec \ {v} : SameStore(u)
      /\ HasStore(v)' /\ Idx(v)' = Idx(v) /\ StoreOK(v)'
      /\ StoreView(v, i)' = view
      /\ \A j \in Idx(v) \ {i} : StoreView(v, j)' = StoreView(v, j)
      /\ SlicesDisjoint'
      /\ DOMAIN records' = Vec
      /\ \A u \in Vec : records'[u] \in [Idx(u) -> Record]
      /\ slices' \in [Vec -> SUBSET Ext] /\ mem' \in [Ext -> Str]
  BY <1>1, <1>2, <1>3, StoreWriteStep
<1>5. StoreString(v, i)' = x
  BY <1>2, <1>4 DEF StoreString
<1>6. /\ DOMAIN cached' = Vec
      /\ \A u \in Vec \ {v} : cached'[u] = cached[u]
      /\ cached'[v] \in [Idx(v) -> CHARSXP \cup {NoChunk}]
      /\ cached'[v][i] \in {x, NoChunk}
      /\ cached[v][i] = NoChunk => cached'[v][i] = NoChunk
      /\ \A j \in Idx(v) \ {i} : cached'[v][j] = cached[v][j]
  BY <1>0, <1>1, <1>2 DEF WriteThrough, TypeOK
<1>7. VecOK(v)'
  <2>1. CacheOK(v)'
    BY <1>0, <1>1, <1>4, <1>5, <1>6 DEF CacheOK, VecOK, IsHit, StoreString
  <2>2. HandleOK(v)'
    BY <1>0, <1>1, <1>4 DEF HandleOK, VecOK, HasStore
  <2> QED BY <1>4, <2>1, <2>2 DEF VecOK
<1>8. \A u \in Vec : VecOK(u)'
  BY <1>0, <1>1, <1>4, <1>6, <1>7, Frame DEF SameCache
<1>9. TypeOK'
  BY <1>0, <1>1, <1>4, <1>6 DEF TypeOK, Idx
<1> QED BY <1>4, <1>5, <1>8, <1>9 DEF IInv

LEMMA WriterSetStep ==
  ASSUME IInv, NEW v \in Vec, NEW i \in Idx(v), NEW view \in InputView,
         WriterSet(v, i, view)
  PROVE  /\ IInv' /\ \A u \in Vec \ {v} : SameStore(u)
         /\ HasStore(v) /\ HasStore(v)' /\ Idx(v)' = Idx(v)
         /\ StoreView(v, i)' = view
         /\ \A j \in Idx(v) \ {i} : StoreView(v, j)' = StoreView(v, j)
<1>0. TypeOK /\ \A u \in Vec : VecOK(u)
  BY DEF IInv
<1>1. /\ borrow[v] = "writer" /\ HasStore(v) /\ ~ chunks[v]
      /\ UNCHANGED <<cls, size, chunks, cached, data2, borrow>>
  BY <1>0 DEF WriterSet, cacheVars, VecOK, HandleOK
<1>2. view \in View
  BY CharvecAssumption
<1>3. StoreWrite(v, i, view)
  BY DEF WriterSet, StoreWrite
<1>4. /\ \A u \in Vec \ {v} : SameStore(u)
      /\ HasStore(v)' /\ Idx(v)' = Idx(v) /\ StoreOK(v)'
      /\ StoreView(v, i)' = view
      /\ \A j \in Idx(v) \ {i} : StoreView(v, j)' = StoreView(v, j)
      /\ SlicesDisjoint'
      /\ DOMAIN records' = Vec
      /\ \A u \in Vec : records'[u] \in [Idx(u) -> Record]
      /\ slices' \in [Vec -> SUBSET Ext] /\ mem' \in [Ext -> Str]
  BY <1>1, <1>2, <1>3, StoreWriteStep
<1>5. VecOK(v)'
  <2>1. CacheOK(v)'
    BY <1>0, <1>1, <1>4 DEF CacheOK, VecOK, IsHit
  <2>2. HandleOK(v)'
    BY <1>0, <1>1, <1>4 DEF HandleOK, VecOK, HasStore
  <2> QED BY <1>4, <2>1, <2>2 DEF VecOK
<1>6. \A u \in Vec : VecOK(u)'
  BY <1>0, <1>1, <1>4, <1>5, Frame DEF SameCache
<1>7. TypeOK'
  BY <1>0, <1>1, <1>4 DEF TypeOK, Idx
<1> QED BY <1>1, <1>4, <1>6, <1>7 DEF IInv

(* The Store of v is freed, with its cache: v was materialized or          *)
(* collected.                                                              *)
LEMMA Release ==
  ASSUME IInv, NEW v \in Vec, NEW n \in 0 .. MaxLen, Finalize(v, n),
         NEW kind \in {"none", "charvec", "plain"}, cls' = [cls EXCEPT ![v] = kind],
         size' = [size EXCEPT ![v] = n],
         NEW strings, data2' = [data2 EXCEPT ![v] = strings],
         IF kind = "none" THEN strings = Nil /\ n = 0
         ELSE strings # Nil /\ strings \in [0 .. n-1 -> CHARSXP],
         NoNewBorrow, borrow'[v] = "none"
  PROVE  IInv' /\ \A u \in Vec \ {v} : SameStore(u)
<1> USE DEF Finalize
<1>0. TypeOK /\ SlicesDisjoint /\ \A u \in Vec : VecOK(u)
  BY DEF IInv
<1>1. /\ cls'[v] = kind /\ size'[v] = n /\ data2'[v] = strings
      /\ records'[v] = [i \in 0 .. n-1 |-> NaRecord] /\ slices'[v] = {}
      /\ chunks'[v] = FALSE /\ cached'[v] = [i \in 0 .. n-1 |-> NoChunk]
  BY <1>0 DEF TypeOK
<1>2. ASSUME NEW u \in Vec \ {v}
      PROVE  SameStore(u) /\ SameCache(u)
  BY <1>0 DEF TypeOK, SlicesDisjoint, SameStore, SameCache
<1>3. VecOK(v)'
  BY <1>1 DEF VecOK, HandleOK, StoreOK, CacheOK, HasStore
<1>4. \A u \in Vec : VecOK(u)'
  BY <1>0, <1>2, <1>3, Frame DEF NoNewBorrow
<1>5. SlicesDisjoint'
  BY <1>0, <1>1, <1>2 DEF SlicesDisjoint, SameStore
<1>6. TypeOK'
  <2>1. ASSUME NEW u \in Vec
        PROVE  /\ records'[u] \in [Idx(u)' -> Record]
               /\ cached'[u] \in [Idx(u)' -> CHARSXP \cup {NoChunk}]
               /\ data2'[u] = Nil \/ data2'[u] \in [Idx(u)' -> CHARSXP]
    <3>1. CASE u = v
      BY <1>1, <3>1 DEF Idx, Record, NaRecord
    <3>2. CASE u # v
      BY <1>0, <1>2, <3>2 DEF TypeOK, Idx, SameStore, SameCache
    <3> QED BY <3>1, <3>2
  <2>2. << >> \in Str /\ mem' \in [Ext -> Str]
    BY <1>0, EmptySeq DEF TypeOK, Str
  <2>3. slices' \in [Vec -> SUBSET Ext] /\ chunks' \in [Vec -> BOOLEAN]
    BY <1>0 DEF TypeOK
  <2> QED
    BY <1>0, <2>1, <2>2, <2>3 DEF TypeOK, NoNewBorrow, BorrowType
<1> QED BY <1>2, <1>4, <1>5, <1>6 DEF IInv

LEMMA MaterializeStep ==
  ASSUME IInv, NEW v \in Vec, Materialize(v)
  PROVE  /\ IInv' /\ \A u \in Vec \ {v} : SameStore(u)
         /\ data2'[v] = [i \in Idx(v) |-> StoreString(v, i)]
<1> DEFINE strings == [i \in Idx(v) |-> CachedOrMinted(v, i)]
<1>0. TypeOK
  BY DEF IInv
<1>1. /\ HasStore(v) /\ MayChange(v) /\ AfterRead(v)
      /\ data2' = [data2 EXCEPT ![v] = strings]
      /\ Finalize(v, size[v])
      /\ UNCHANGED <<cls, size>>
  BY DEF Materialize
<1>2. /\ strings = [i \in Idx(v) |-> StoreString(v, i)]
      /\ strings \in [0 .. size[v] - 1 -> CHARSXP]
  BY <1>1, SlotsType DEF Idx
<1>3. strings # Nil /\ size[v] \in 0 .. MaxLen
  BY <1>0, <1>2, CharvecAssumption DEF TypeOK
<1>4. NoNewBorrow /\ borrow'[v] = "none"
  BY <1>0, <1>1, ReadLapses DEF TypeOK, MayChange, AfterRead
<1>5. data2'[v] = strings
  BY <1>0, <1>1 DEF TypeOK
<1> HIDE DEF strings
<1>6. /\ cls[v] = "charvec" /\ cls' = [cls EXCEPT ![v] = "charvec"]
      /\ size' = [size EXCEPT ![v] = size[v]]
  BY <1>0, <1>1 DEF HasStore, TypeOK
<1>7. IInv' /\ \A u \in Vec \ {v} : SameStore(u)
  BY <1>1, <1>2, <1>3, <1>4, <1>6, Release
<1> QED BY <1>2, <1>5, <1>7

LEMMA CollectStep ==
  ASSUME IInv, NEW v \in Vec, Collect(v)
  PROVE  IInv' /\ \A u \in Vec \ {v} : SameStore(u)
<1>1. NoNewBorrow /\ borrow'[v] = "none"
  BY BorrowLapses DEF Collect, IInv
<1>2. 0 \in 0 .. MaxLen
  BY CharvecAssumption
<1> QED BY <1>1, <1>2, Release DEF Collect

(* Views of v, as Duplicate, Extract_subset and the rebuild copy them.     *)
LEMMA ViewsType ==
  ASSUME IInv, NEW v \in Vec, HasStore(v)
  PROVE  Views(v) \in [0 .. size[v] - 1 -> View]
BY ViewType DEF IInv, VecOK, Views, Idx

LEMMA CompactStep ==
  ASSUME IInv, NEW v \in Vec, Compact(v)
  PROVE  /\ IInv' /\ \A u \in Vec \ {v} : SameStore(u)
         /\ HasStore(v)' /\ Idx(v)' = Idx(v)
         /\ \A i \in Idx(v) : StoreView(v, i)' = StoreView(v, i)
<1>0. TypeOK /\ SlicesDisjoint /\ \A u \in Vec : VecOK(u)
  BY DEF IInv
<1>1. /\ HasStore(v) /\ MayChange(v) /\ AfterRead(v)
      /\ UNCHANGED <<cls, size, chunks, cached, data2>>
  BY DEF Compact, cacheVars
<1>2. HasStore(v) /\ size[v] \in Nat /\ Views(v) \in [0 .. size[v] - 1 -> View]
  BY <1>0, <1>1, ViewsType, CharvecAssumption DEF TypeOK
<1>n. PICK n \in Nat : n = size[v]
  BY <1>2
<1>vw. PICK vw \in [0 .. n-1 -> View] : vw = Views(v)
  BY <1>2, <1>n
<1>3. n \in Nat /\ n = size[v] /\ vw \in [0 .. n-1 -> View] /\ vw = Views(v)
  BY <1>n, <1>vw
<1>at. PICK at \in Injection(Payload(vw), Free) :
        /\ records' = [records EXCEPT ![v] = RecordsOf(vw, at)]
        /\ slices'  = [slices EXCEPT ![v] = Range(at)]
        /\ mem'     = Written(vw, at, slices[v])
  BY <1>3 DEF Compact
<1>4. \A i \in Idx(v) : vw[i] = StoreView(v, i)
  BY <1>3 DEF Views
<1>5. /\ Free \in SUBSET Ext /\ slices[v] \in SUBSET Ext
      /\ \A u \in Vec : Free \cap slices[u] = {}
  BY <1>0 DEF Free, TypeOK
<1>6. /\ at \in Injection(Payload(vw), Free)
      /\ at \in [Payload(vw) -> Free]
      /\ Range(at) \subseteq Free
  BY <1>at DEF Injection, Range
<1>7. /\ mem' \in [Ext -> Str]
      /\ \A i \in Payload(vw) : mem'[at[i]] = vw[i].bytes
      /\ \A e \in Ext \ (Free \cup slices[v]) : mem'[e] = mem[e]
  <2>1. /\ Written(vw, at, slices[v]) \in [Ext -> Str]
        /\ \A i \in Payload(vw) : Written(vw, at, slices[v])[at[i]] = vw[i].bytes
        /\ \A e \in Ext \ (Free \cup slices[v]) : Written(vw, at, slices[v])[e] = mem[e]
    <3>1. /\ TypeOK /\ n \in Nat /\ vw \in [0 .. n-1 -> View]
          /\ Free \in SUBSET Ext /\ slices[v] \in SUBSET Ext
          /\ at \in Injection(Payload(vw), Free)
      BY <1>0, <1>3, <1>5, <1>6
    <3> QED BY ONLY <3>1, WrittenFacts
  <2> QED BY <1>at, <2>1
<1>8. RecordsOf(vw, at) \in [0 .. n-1 -> Record]
  BY <1>3, <1>5, <1>6, RecordsType
<1>9. /\ records'[v] = RecordsOf(vw, at) /\ slices'[v] = Range(at) /\ size'[v] = n
      /\ DOMAIN records' = Vec
      /\ \A u \in Vec \ {v} : records'[u] = records[u] /\ slices'[u] = slices[u]
  BY <1>0, <1>1, <1>3, <1>at DEF TypeOK
<1>10. \A u \in Vec \ {v} : SameStore(u) /\ SameCache(u)
  <2>1. \A u \in Vec \ {v} : slices[u] \subseteq Ext \ (Free \cup slices[v])
    BY <1>0, <1>5 DEF TypeOK, SlicesDisjoint
  <2> QED BY <1>1, <1>7, <1>9, <2>1 DEF SameStore, SameCache
<1>11. StoreOK(v)' /\ \A i \in 0 .. n-1 : StoreView(v, i)' = vw[i]
  BY <1>3, <1>5, <1>6, <1>7, <1>9, BuiltStore
<1>12. /\ HasStore(v)' /\ Idx(v)' = Idx(v) /\ Idx(v) = 0 .. n-1
       /\ \A i \in Idx(v) : StoreView(v, i)' = StoreView(v, i)
  BY <1>1, <1>3, <1>4, <1>11 DEF HasStore, Idx
<1>13. NoNewBorrow
  BY <1>0, <1>1, ReadLapses
<1>14. VecOK(v)'
  <2>1. CacheOK(v)'
    BY <1>0, <1>1, <1>12 DEF CacheOK, VecOK, StoreString
  <2>2. HandleOK(v)'
    BY <1>0, <1>1, <1>12, <1>13 DEF HandleOK, VecOK, HasStore, NoNewBorrow
  <2> QED BY <1>11, <2>1, <2>2 DEF VecOK
<1>15. \A u \in Vec : VecOK(u)'
  BY <1>0, <1>10, <1>13, <1>14, Frame DEF NoNewBorrow
<1>16. SlicesDisjoint'
  BY <1>0, <1>5, <1>6, <1>9 DEF SlicesDisjoint
<1>17. TypeOK'
  <2>1. \A u \in Vec : records'[u] \in [Idx(u) -> Record]
    BY <1>0, <1>8, <1>9, <1>12 DEF TypeOK
  <2>2. slices' \in [Vec -> SUBSET Ext]
    BY <1>0, <1>at, <1>5, <1>6 DEF TypeOK
  <2> QED BY <1>0, <1>1, <1>7, <1>9, <1>13, <2>1, <2>2
          DEF TypeOK, Idx, NoNewBorrow, BorrowType
<1> QED BY <1>10, <1>12, <1>15, <1>16, <1>17 DEF IInv

LEMMA Set_eltMaterializedStep ==
  ASSUME IInv, NEW v \in Vec, NEW i \in Idx(v), NEW x \in Input,
         Set_eltMaterialized(v, i, x)
  PROVE  IInv' /\ data2'[v] = [data2[v] EXCEPT ![i] = x]
<1> USE DEF Set_eltMaterialized, storeVars, cacheVars
<1>0. TypeOK /\ SlicesDisjoint /\ (\A u \in Vec : VecOK(u)) /\ x \in CHARSXP
  BY CharvecAssumption DEF IInv
<1>1. /\ data2'[v] = [data2[v] EXCEPT ![i] = x]
      /\ data2'[v] \in [Idx(v) -> CHARSXP]
      /\ \A u \in Vec \ {v} : data2'[u] = data2[u]
      /\ DOMAIN data2' = Vec
  BY <1>0 DEF TypeOK
<1>2. data2'[v] # Nil
  <2>1. size[v] \in 0 .. MaxLen /\ data2'[v] \in [0 .. size[v] - 1 -> CHARSXP]
    BY <1>0, <1>1 DEF TypeOK, Idx
  <2> QED BY ONLY <2>1, CharvecAssumption, Zenon
<1>3. TypeOK'
  BY <1>0, <1>1 DEF TypeOK, Idx
<1>4. VecOK(v)'
  BY <1>0, <1>2 DEF VecOK, HandleOK, StoreOK, CacheOK, HasStore
<1>5. \A u \in Vec \ {v} : SameStore(u) /\ SameCache(u)
  BY <1>1 DEF SameStore, SameCache
<1>6. \A u \in Vec : VecOK(u)'
  BY <1>0, <1>4, <1>5, Frame
<1>7. SlicesDisjoint'
  BY <1>0 DEF SlicesDisjoint
<1> QED BY <1>1, <1>3, <1>6, <1>7 DEF IInv

(* OpenReader, GetStore, EndBorrow and reads of an ordinary vector.        *)
LEMMA QuietStep ==
  ASSUME IInv, UNCHANGED <<cls, size, storeVars, cacheVars, data2>>,
         NEW v \in Vec,
         \/ UNCHANGED borrow
         \/ borrow' = [borrow EXCEPT ![v] = "none"]
         \/ borrow' = [borrow EXCEPT ![v] = "reader"] /\ HasStore(v)
         \/ borrow' = [borrow EXCEPT ![v] = "writer"] /\ HasStore(v) /\ ~ chunks[v]
  PROVE  IInv' /\ \A u \in Vec : SameStore(u)
<1> USE DEF storeVars, cacheVars
<1>0. TypeOK /\ SlicesDisjoint /\ \A u \in Vec : VecOK(u)
  BY DEF IInv
<1>1. \A u \in Vec : SameStore(u) /\ SameCache(u)
  BY DEF SameStore, SameCache
<1>2. \A u \in Vec : StoreOK(u)' /\ CacheOK(u)'
  BY <1>0, <1>1, SameViews DEF VecOK, CacheOK, StoreString, SameCache
<1>3. ASSUME NEW u \in Vec
      PROVE  HandleOK(u)' /\ borrow'[u] \in {"none", "reader", "writer"}
  BY <1>0 DEF TypeOK, VecOK, HandleOK, HasStore
<1>4. borrow' \in [Vec -> {"none", "reader", "writer"}]
  BY <1>0 DEF TypeOK
<1>5. TypeOK'
  BY <1>0, <1>4 DEF TypeOK, Idx
<1>6. SlicesDisjoint'
  BY <1>0 DEF SlicesDisjoint
<1> QED BY <1>1, <1>2, <1>3, <1>5, <1>6 DEF IInv, VecOK

LEMMA EltMaterializedStep ==
  ASSUME IInv, NEW v \in Vec, EltMaterialized(v)
  PROVE  /\ IInv' /\ \A u \in Vec : SameStore(u)
         /\ \E i \in Idx(v) : ret' = <<"read", v, i, data2[v][i]>>
BY QuietStep DEF EltMaterialized

LEMMA BorrowStep ==
  ASSUME IInv, NEW v \in Vec, OpenReader(v) \/ GetStore(v) \/ EndBorrow(v)
  PROVE  IInv' /\ \A u \in Vec : SameStore(u)
BY QuietStep DEF OpenReader, GetStore, EndBorrow

-----------------------------------------------------------------------------
(* The element a subscript selects is the one R's own rule selects, for    *)
(* integers and reals, n + 1/2 and n + 1 included (subset_store).          *)
THEOREM SubsetFollowsR ==
  ASSUME NEW s \in Subscript, NEW n \in Nat
  PROVE  subset_element(s, n) = IF RSubscript(s) \in 1 .. n THEN RSubscript(s) - 1
                                ELSE NotSelected
<1>1. CASE s \in IntSubscript
  <2>1. /\ subset_element(s, n) = IF s.value - 1 < 0 \/ s.value - 1 >= n
                                  THEN NotSelected ELSE s.value - 1
        /\ RSubscript(s) = s.value /\ s.value \in Int
        /\ s \notin RealSubscript
    BY <1>1 DEF IntSubscript, RealSubscript, subset_element, RSubscript
  <2> QED BY <2>1 DEF NotSelected
<1>2. CASE s \in RealSubscript
  <2>1. s \notin IntSubscript
    BY <1>2 DEF IntSubscript, RealSubscript
  <2>2. /\ subset_element(s, n) = IF s.twice >= 2 /\ s.twice < 2 * n + 2
                                  THEN (s.twice \div 2) - 1 ELSE NotSelected
        /\ RSubscript(s) = s.twice \div 2 /\ s.twice \in Int
    BY <1>2, <2>1 DEF RealSubscript, subset_element, RSubscript
  <2> QED BY <2>2 DEF NotSelected
<1>3. CASE s = NA_INDEX
  BY <1>3, SubscriptsAssumption DEF subset_element, RSubscript, NotSelected
<1> QED BY <1>1, <1>2, <1>3 DEF Subscript

LEMMA ViewsOfStrings ==
  ASSUME NEW n \in Nat, NEW strings \in [0 .. n-1 -> CHARSXP]
  PROVE  [i \in 0 .. n-1 |-> charsxp_to_view(strings[i])] \in [0 .. n-1 -> View]
BY RoundTrip

LEMMA NewStep ==
  ASSUME IInv, NEW w \in Vec, New(w)
  PROVE  IInv' /\ \A u \in Vec \ {w} : SameStore(u)
<1>1. PICK n \in 0 .. MaxLen : \E vw \in [0 .. n-1 -> InputView] : NewCharvec(w, n, vw)
  BY DEF New
<1>2. PICK vw \in [0 .. n-1 -> InputView] : NewCharvec(w, n, vw)
  BY <1>1
<1>3. cls[w] = "none" /\ NoNewBorrow /\ vw \in [0 .. n-1 -> View]
  BY <1>1, <1>2, BorrowLapses, CharvecAssumption DEF New, IInv
<1> QED BY <1>1, <1>2, <1>3, NewStore

LEMMA AsCharvecStep ==
  ASSUME IInv, NEW v \in Vec, NEW w \in Vec, AsCharvec(v, w)
  PROVE  /\ IInv' /\ \A u \in Vec \ {w} : SameStore(u)
         /\ cls'[w] = "charvec" /\ data2'[w] = Nil /\ size'[w] = size[v]
         /\ \A i \in Idx(v) : StoreString(w, i)' = data2[v][i]
<1>1. /\ cls[v] = "plain" /\ cls[w] = "none"
      /\ NewCharvec(w, size[v], [i \in Idx(v) |-> charsxp_to_view(data2[v][i])])
      /\ NoNewBorrow
  BY BorrowLapses DEF AsCharvec, IInv
<1>2. /\ size[v] \in 0 .. MaxLen /\ size[v] \in Nat
      /\ data2[v] \in [0 .. size[v] - 1 -> CHARSXP] /\ Idx(v) = 0 .. size[v] - 1
  BY <1>1, CharvecAssumption DEF IInv, TypeOK, VecOK, HandleOK, Idx
<1>3. PICK n \in 0 .. MaxLen : n = size[v]
  BY <1>2
<1>4. [i \in Idx(v) |-> charsxp_to_view(data2[v][i])] \in [0 .. n-1 -> View]
  BY <1>2, <1>3, RoundTrip
<1>5. PICK vw \in [0 .. n-1 -> View] :
        vw = [i \in Idx(v) |-> charsxp_to_view(data2[v][i])]
  BY <1>4
<1>6. /\ IInv' /\ \A u \in Vec \ {w} : SameStore(u)
      /\ cls'[w] = "charvec" /\ data2'[w] = Nil /\ size'[w] = n
      /\ \A i \in 0 .. n-1 : StoreView(w, i)' = vw[i]
  BY <1>1, <1>3, <1>5, NewStore
<1>7. ASSUME NEW i \in Idx(v)
      PROVE  StoreString(w, i)' = data2[v][i]
  <2>1. StoreView(w, i)' = charsxp_to_view(data2[v][i]) /\ data2[v][i] \in CHARSXP
    BY <1>2, <1>3, <1>5, <1>6
  <2> QED BY <2>1, RoundTrip DEF StoreString
<1> QED BY <1>3, <1>6, <1>7

LEMMA DuplicateStep ==
  ASSUME IInv, NEW v \in Vec, NEW w \in Vec, Duplicate(v, w)
  PROVE  /\ IInv' /\ \A u \in Vec \ {w} : SameStore(u)
         /\ size'[w] = size[v]
         /\ HasStore(v) => /\ cls'[w] = "charvec" /\ data2'[w] = Nil
                           /\ \A i \in Idx(v) : StoreView(w, i)' = StoreView(v, i)
         /\ ~ HasStore(v) => cls'[w] = "plain" /\ data2'[w] = data2[v]
<1>1. cls[v] # "none" /\ cls[w] = "none" /\ NoNewBorrow
  BY BorrowLapses DEF Duplicate, IInv
<1>2. PICK n \in 0 .. MaxLen : n = size[v]
  BY DEF IInv, TypeOK
<1>3. CASE HasStore(v)
  <2>1. PICK vw \in [0 .. n-1 -> View] : vw = Views(v)
    BY <1>2, <1>3, ViewsType
  <2>2. NewCharvec(w, n, vw)
    BY <1>2, <1>3, <2>1 DEF Duplicate
  <2>3. /\ IInv' /\ \A u \in Vec \ {w} : SameStore(u)
        /\ cls'[w] = "charvec" /\ data2'[w] = Nil /\ size'[w] = n
        /\ \A i \in 0 .. n-1 : StoreView(w, i)' = vw[i]
    BY <1>1, <2>2, NewStore
  <2> QED BY <1>2, <1>3, <2>1, <2>3 DEF Views, Idx
<1>4. CASE ~ HasStore(v)
  <2>1. data2[v] \in [0 .. n-1 -> CHARSXP]
    BY <1>1, <1>2, <1>4 DEF IInv, TypeOK, VecOK, HandleOK, HasStore, Idx
  <2>2. PICK strings \in [0 .. n-1 -> CHARSXP] : strings = data2[v]
    BY <2>1
  <2>3. NewPlain(w, n, strings)
    BY <1>2, <1>4, <2>2 DEF Duplicate
  <2>4. /\ IInv' /\ \A u \in Vec \ {w} : SameStore(u)
        /\ cls'[w] = "plain" /\ size'[w] = n /\ data2'[w] = strings
    BY <1>1, <2>3, NewOrdinary
  <2> QED BY <1>2, <1>4, <2>2, <2>4
<1> QED BY <1>3, <1>4

LEMMA Extract_subsetStep ==
  ASSUME IInv, NEW v \in Vec, NEW w \in Vec, Extract_subset(v, w)
  PROVE  /\ IInv' /\ \A u \in Vec \ {w} : SameStore(u)
         /\ cls'[w] # "none"
         /\ \E m \in 0 .. MaxLen : \E s \in [0 .. m-1 -> Inputs] :
              /\ ret' = <<"subset", v, w, s>>
              /\ size'[w] = m
              /\ HasStore(v) =>
                   /\ data2'[w] = Nil
                   /\ \A j \in 0 .. m-1 : StoreString(w, j)' =
                        IF RSubscript(s[j]) \in 1 .. size[v]
                        THEN StoreString(v, RSubscript(s[j]) - 1) ELSE NA_STRING
              /\ ~ HasStore(v) =>
                   data2'[w] = [j \in 0 .. m-1 |-> DefaultSubset(v, s[j])]
<1>1. cls[v] # "none" /\ cls[w] = "none" /\ NoNewBorrow
  BY BorrowLapses DEF Extract_subset, IInv
<1>2. PICK m \in 0 .. MaxLen : \E s \in [0 .. m-1 -> Inputs] :
        /\ IF HasStore(v)
           THEN NewCharvec(w, m, [j \in 0 .. m-1 |-> SubsetView(v, s[j])])
           ELSE NewPlain(w, m, [j \in 0 .. m-1 |-> DefaultSubset(v, s[j])])
        /\ ret' = <<"subset", v, w, s>>
  BY DEF Extract_subset
<1>3. PICK s \in [0 .. m-1 -> Inputs] :
        /\ IF HasStore(v)
           THEN NewCharvec(w, m, [j \in 0 .. m-1 |-> SubsetView(v, s[j])])
           ELSE NewPlain(w, m, [j \in 0 .. m-1 |-> DefaultSubset(v, s[j])])
        /\ ret' = <<"subset", v, w, s>>
  BY <1>2
<1>4. size[v] \in Nat /\ \A j \in 0 .. m-1 : s[j] \in Subscript
  BY <1>3, CharvecAssumption DEF IInv, TypeOK
<1>5. \A j \in 0 .. m-1 : RSubscript(s[j]) \in 1 .. size[v] =>
        RSubscript(s[j]) - 1 \in Idx(v)
  BY <1>4 DEF Idx
<1>6. CASE HasStore(v)
  <2>1. ASSUME NEW j \in 0 .. m-1
        PROVE  SubsetView(v, s[j]) = IF RSubscript(s[j]) \in 1 .. size[v]
                                     THEN StoreView(v, RSubscript(s[j]) - 1) ELSE NaView
    <3>1. subset_element(s[j], size[v])
            = IF RSubscript(s[j]) \in 1 .. size[v] THEN RSubscript(s[j]) - 1 ELSE NotSelected
      BY <1>4, SubsetFollowsR
    <3> QED BY <1>4, <3>1 DEF SubsetView, NotSelected
  <2>2. [j \in 0 .. m-1 |-> SubsetView(v, s[j])] \in [0 .. m-1 -> View]
    <3>1. NaView \in View /\ \A i \in Idx(v) : StoreView(v, i) \in View
      BY <1>6, ViewType DEF View, NaView, IInv, VecOK
    <3> QED BY <1>5, <2>1, <3>1
  <2>3. PICK vw \in [0 .. m-1 -> View] : vw = [j \in 0 .. m-1 |-> SubsetView(v, s[j])]
    BY <2>2
  <2>4. /\ IInv' /\ \A u \in Vec \ {w} : SameStore(u)
        /\ cls'[w] = "charvec" /\ data2'[w] = Nil /\ size'[w] = m
        /\ \A i \in 0 .. m-1 : StoreView(w, i)' = vw[i]
    BY <1>1, <1>3, <1>6, <2>3, NewStore
  <2>5. ASSUME NEW j \in 0 .. m-1
        PROVE  StoreString(w, j)' = IF RSubscript(s[j]) \in 1 .. size[v]
                                    THEN StoreString(v, RSubscript(s[j]) - 1) ELSE NA_STRING
    <3>1. StoreView(w, j)' = SubsetView(v, s[j])
      BY <2>3, <2>4
    <3>2. make_charsxp(NaView) = NA_STRING
      BY DEF make_charsxp, NaView
    <3> QED BY <2>1, <3>1, <3>2 DEF StoreString
  <2> QED BY <1>3, <1>6, <2>4, <2>5
<1>7. CASE ~ HasStore(v)
  <2>1. data2[v] \in [Idx(v) -> CHARSXP]
    BY <1>1, <1>7 DEF IInv, TypeOK, VecOK, HandleOK, HasStore
  <2>2. [j \in 0 .. m-1 |-> DefaultSubset(v, s[j])] \in [0 .. m-1 -> CHARSXP]
    BY <1>5, <2>1 DEF DefaultSubset, CHARSXP
  <2>3. PICK strings \in [0 .. m-1 -> CHARSXP] :
          strings = [j \in 0 .. m-1 |-> DefaultSubset(v, s[j])]
    BY <2>2
  <2>4. /\ IInv' /\ \A u \in Vec \ {w} : SameStore(u)
        /\ cls'[w] = "plain" /\ size'[w] = m /\ data2'[w] = strings
    BY <1>1, <1>3, <1>7, <2>3, NewOrdinary
  <2> QED BY <1>3, <1>7, <2>3, <2>4
<1> QED BY <1>6, <1>7

-----------------------------------------------------------------------------
(* The invariant is inductive.                                             *)

LEMMA InvInit == Init => IInv
<1> SUFFICES ASSUME Init PROVE IInv
  OBVIOUS
<1> USE DEF Init
<1>1. TypeOK
  BY CharvecAssumption DEF TypeOK, Idx, Empty, Str
<1>2. SlicesDisjoint
  BY DEF SlicesDisjoint
<1>3. \A v \in Vec : VecOK(v)
  BY DEF VecOK, HandleOK, StoreOK, CacheOK, HasStore
<1> QED BY <1>1, <1>2, <1>3 DEF IInv

LEMMA InvNext == IInv /\ [Next]_vars => IInv'
<1> SUFFICES ASSUME IInv, [Next]_vars PROVE IInv'
  OBVIOUS
<1>1. ASSUME NEW v \in Vec, New(v) PROVE IInv'
  BY <1>1, NewStep
<1>2. ASSUME NEW v \in Vec, EltMaterialized(v) PROVE IInv'
  BY <1>2, EltMaterializedStep
<1>3. ASSUME NEW v \in Vec, Materialize(v) PROVE IInv'
  BY <1>3, MaterializeStep
<1>4. ASSUME NEW v \in Vec, MaterializeFails(v) PROVE IInv'
  BY <1>4, MaterializeFailsStep
<1>5. ASSUME NEW v \in Vec, Compact(v) PROVE IInv'
  BY <1>5, CompactStep
<1>6. ASSUME NEW v \in Vec, OpenReader(v) \/ GetStore(v) \/ EndBorrow(v) PROVE IInv'
  BY <1>6, BorrowStep
<1>7. ASSUME NEW v \in Vec, Collect(v) PROVE IInv'
  BY <1>7, CollectStep
<1>8. ASSUME NEW v \in Vec, NEW i \in Idx(v), Elt(v, i) PROVE IInv'
  BY <1>8, EltStep
<1>9. ASSUME NEW v \in Vec, NEW i \in Idx(v), EltFails(v, i) PROVE IInv'
  BY <1>9, EltFailsStep
<1>10. ASSUME NEW v \in Vec, NEW i \in Idx(v), NEW x \in Input, Set_elt(v, i, x)
       PROVE IInv'
  BY <1>10, Set_eltStep
<1>11. ASSUME NEW v \in Vec, NEW i \in Idx(v), NEW x \in Input, Set_eltMaterialized(v, i, x)
       PROVE IInv'
  BY <1>11, Set_eltMaterializedStep
<1>12. ASSUME NEW v \in Vec, NEW i \in Idx(v), NEW view \in InputView, WriterSet(v, i, view)
       PROVE IInv'
  BY <1>12, WriterSetStep
<1>13. ASSUME NEW v \in Vec, NEW w \in Vec, AsCharvec(v, w) PROVE IInv'
  BY <1>13, AsCharvecStep
<1>14. ASSUME NEW v \in Vec, NEW w \in Vec, Duplicate(v, w) PROVE IInv'
  BY <1>14, DuplicateStep
<1>15. ASSUME NEW v \in Vec, NEW w \in Vec, Extract_subset(v, w) PROVE IInv'
  BY <1>15, Extract_subsetStep
<1>16. CASE UNCHANGED vars
  <2>1. \A u \in Vec : SameStore(u) /\ SameCache(u) /\ borrow'[u] = borrow[u]
    BY <1>16 DEF vars, SameStore, SameCache
  <2>2. \A u \in Vec : VecOK(u)'
    BY <2>1, Frame DEF IInv
  <2>3. TypeOK' /\ SlicesDisjoint'
    BY <1>16 DEF vars, IInv, TypeOK, SlicesDisjoint, Idx
  <2> QED BY <2>2, <2>3 DEF IInv
<1> QED
  BY <1>1, <1>2, <1>3, <1>4, <1>5, <1>6, <1>7, <1>8, <1>9, <1>10, <1>11, <1>12,
     <1>13, <1>14, <1>15, <1>16
  DEF Next

THEOREM Invariance == Spec => []IInv
BY InvInit, InvNext, PTL DEF Spec

(* Every variable keeps its type in every behaviour of the charvec class.  *)
THEOREM TypeCorrect == Spec => []TypeOK
<1>1. IInv => TypeOK
  BY DEF IInv
<1> QED BY <1>1, Invariance, PTL

(* The Elt cache never holds a string the Store does not stand for         *)
(* (string_Elt, string_Set_elt, Materialize, compact_store).               *)
THEOREM CacheCorrect == Spec => []CacheCoherent
<1>1. IInv => CacheCoherent
  BY DEF IInv, VecOK, CacheOK, CacheCoherent
<1> QED BY <1>1, Invariance, PTL

(* No two records share payload bytes, and no record points out of its own *)
(* Store's slices (store_reserve, Duplicate, subset_store, rebuild_store). *)
THEOREM PayloadExclusive == Spec => []BytesExclusive
<1>1. IInv => BytesExclusive
  BY DEF IInv, SlicesDisjoint, VecOK, StoreOK, RecordOK, BytesExclusive, Owns
<1> QED BY <1>1, Invariance, PTL

(* A materialized or collected charvec holds neither slices nor a cache    *)
(* (install_materialized, Finalize).                                       *)
THEOREM ReleaseComplete == Spec => []StoreReleased
<1>1. IInv => StoreReleased
  BY DEF IInv, VecOK, HandleOK, StoreReleased
<1> QED BY <1>1, Invariance, PTL
-----------------------------------------------------------------------------
(***************************************************************************)
(* Charvec implements StringVector: whatever the cache, the Store and the  *)
(* ordinary vector hold, R sees a character vector.  Also the theorem on   *)
(* borrowed views, which is about steps.                                   *)
(***************************************************************************)
(* Views handed out by a Reader.                                           *)

ViewsStay(v) ==
  borrow[v] = "reader" /\ borrow'[v] = "reader" =>
    /\ HasStore(v)'
    /\ records'[v] = records[v]
    /\ \A i \in Idx(v) : records[v][i].len > 0 =>
         mem'[records[v][i].ptr] = mem[records[v][i].ptr]

LEMMA UntouchedViewsStay ==
  ASSUME IInv, NEW v \in Vec, SameStore(v)
  PROVE  ViewsStay(v)
<1> SUFFICES ASSUME borrow[v] = "reader"
             PROVE  /\ HasStore(v)'
                    /\ records'[v] = records[v]
                    /\ \A i \in Idx(v) : records[v][i].len > 0 =>
                         mem'[records[v][i].ptr] = mem[records[v][i].ptr]
  BY DEF ViewsStay
<1>1. HasStore(v) /\ StoreOK(v)
  BY DEF IInv, VecOK, HandleOK
<1>2. HasStore(v)' /\ records'[v] = records[v]
  BY <1>1 DEF SameStore, HasStore
<1> QED BY <1>1, <1>2 DEF StoreOK, RecordOK, SameStore

LEMMA ReaderStep ==
  ASSUME IInv, Next, NEW v \in Vec
  PROVE  ViewsStay(v)
<1>0. ASSUME cls[v] = "none" \/ borrow[v] # "reader"
      PROVE  ViewsStay(v)
  BY <1>0 DEF IInv, VecOK, HandleOK, HasStore, ViewsStay
<1>1. ASSUME NEW u \in Vec, New(u) PROVE ViewsStay(v)
  BY <1>0, <1>1, NewStep, UntouchedViewsStay DEF New
<1>2. ASSUME NEW u \in Vec, EltMaterialized(u) PROVE ViewsStay(v)
  BY <1>2, EltMaterializedStep, UntouchedViewsStay
<1>3. ASSUME NEW u \in Vec, Materialize(u) PROVE ViewsStay(v)
  BY <1>0, <1>3, MaterializeStep, UntouchedViewsStay DEF Materialize, MayChange
<1>4. ASSUME NEW u \in Vec, MaterializeFails(u) PROVE ViewsStay(v)
  BY <1>4, MaterializeFailsStep, UntouchedViewsStay
<1>5. ASSUME NEW u \in Vec, Compact(u) PROVE ViewsStay(v)
  BY <1>0, <1>5, CompactStep, UntouchedViewsStay DEF Compact, MayChange
<1>6. ASSUME NEW u \in Vec, OpenReader(u) \/ GetStore(u) \/ EndBorrow(u)
      PROVE  ViewsStay(v)
  BY <1>6, BorrowStep, UntouchedViewsStay
<1>7. ASSUME NEW u \in Vec, Collect(u) PROVE ViewsStay(v)
  BY <1>0, <1>7, CollectStep, UntouchedViewsStay DEF Collect
<1>8. ASSUME NEW u \in Vec, NEW i \in Idx(u), Elt(u, i) PROVE ViewsStay(v)
  BY <1>8, EltStep, UntouchedViewsStay
<1>9. ASSUME NEW u \in Vec, NEW i \in Idx(u), EltFails(u, i) PROVE ViewsStay(v)
  BY <1>9, EltFailsStep, UntouchedViewsStay
<1>10. ASSUME NEW u \in Vec, NEW i \in Idx(u), NEW x \in Input, Set_elt(u, i, x)
       PROVE  ViewsStay(v)
  BY <1>0, <1>10, Set_eltStep, UntouchedViewsStay DEF Set_elt, MayChange
<1>11. ASSUME NEW u \in Vec, NEW i \in Idx(u), NEW x \in Input, Set_eltMaterialized(u, i, x)
       PROVE  ViewsStay(v)
  <2>1. u # v => SameStore(v)
    BY <1>11 DEF Set_eltMaterialized, storeVars, SameStore, IInv, TypeOK
  <2>2. borrow[u] # "reader"
    BY <1>11 DEF Set_eltMaterialized, IInv, VecOK, HandleOK, HasStore
  <2> QED BY <1>0, <2>1, <2>2, UntouchedViewsStay
<1>12. ASSUME NEW u \in Vec, NEW i \in Idx(u), NEW view \in InputView, WriterSet(u, i, view)
       PROVE  ViewsStay(v)
  BY <1>0, <1>12, WriterSetStep, UntouchedViewsStay DEF WriterSet
<1>13. ASSUME NEW u \in Vec, NEW w \in Vec, AsCharvec(u, w) PROVE ViewsStay(v)
  BY <1>0, <1>13, AsCharvecStep, UntouchedViewsStay DEF AsCharvec
<1>14. ASSUME NEW u \in Vec, NEW w \in Vec, Duplicate(u, w) PROVE ViewsStay(v)
  BY <1>0, <1>14, DuplicateStep, UntouchedViewsStay DEF Duplicate
<1>15. ASSUME NEW u \in Vec, NEW w \in Vec, Extract_subset(u, w) PROVE ViewsStay(v)
  BY <1>0, <1>15, Extract_subsetStep, UntouchedViewsStay DEF Extract_subset
<1> QED
  BY <1>1, <1>2, <1>3, <1>4, <1>5, <1>6, <1>7, <1>8, <1>9, <1>10, <1>11, <1>12,
     <1>13, <1>14, <1>15
  DEF Next

(* Views borrowed from one charvec survive everything done to the others,  *)
(* and reads, copies and failed operations of their own (reader_init,      *)
(* Duplicate, string_Elt).                                                 *)
THEOREM BorrowedViewsStable == Spec => ReaderViewsStable
<1>1. ASSUME IInv, [Next]_vars
      PROVE  [\A v \in Vec : borrow[v] = "reader" /\ borrow'[v] = "reader" =>
                /\ HasStore(v)'
                /\ records'[v] = records[v]
                /\ \A i \in Idx(v) : records[v][i].len > 0 =>
                     mem'[records[v][i].ptr] = mem[records[v][i].ptr]]_vars
  BY <1>1, ReaderStep DEF ViewsStay
<1> QED BY <1>1, Invariance, PTL DEF Spec, ReaderViewsStable

-----------------------------------------------------------------------------
(* Values: what R sees of each vector.                                     *)

bar == [v \in Vec |-> Value(v)]

(* The abstract module's own copies of the strings and the subscripts.     *)
LEMMA SameStrings ==
  /\ Abstract!CHARSXP = CHARSXP
  /\ \A s : Abstract!RSubscript(s) = RSubscript(s)
<1>1. Abstract!CHARSXP = CHARSXP
  BY DEF Abstract!CHARSXP, Abstract!Str, Abstract!Mark, Abstract!IsAscii,
         CHARSXP, Str, Mark, IsAscii
<1>2. Abstract!IntSubscript = IntSubscript /\ Abstract!RealSubscript = RealSubscript
  BY DEF Abstract!IntSubscript, Abstract!RealSubscript, IntSubscript, RealSubscript
<1>3. \A s : Abstract!RSubscript(s) = RSubscript(s)
  BY <1>2, Zenon DEF Abstract!RSubscript, RSubscript
<1> QED BY <1>1, <1>3

LEMMA ValueType ==
  ASSUME IInv, NEW v \in Vec
  PROVE  /\ cls[v] = "none" <=> Value(v) = Nil
         /\ cls[v] # "none" => Value(v) \in [Idx(v) -> CHARSXP]
         /\ HasStore(v) => Value(v) = [i \in Idx(v) |-> StoreString(v, i)]
         /\ data2[v] # Nil => Value(v) = data2[v] /\ cls[v] # "none"
         /\ size[v] \in 0 .. MaxLen /\ Idx(v) = 0 .. size[v] - 1
<1>0. TypeOK /\ VecOK(v)
  BY DEF IInv
<1>1. size[v] \in 0 .. MaxLen /\ Idx(v) = 0 .. size[v] - 1
  BY <1>0 DEF TypeOK, Idx
<1>2. HasStore(v) => Value(v) = [i \in Idx(v) |-> StoreString(v, i)]
  BY DEF Value, HasStore
<1>3. data2[v] # Nil => cls[v] # "none" /\ data2[v] \in [Idx(v) -> CHARSXP]
  BY <1>0 DEF TypeOK, VecOK, HandleOK
<1>4. data2[v] # Nil => Value(v) = data2[v]
  BY <1>3 DEF Value
<1>5. cls[v] # "none" => HasStore(v) \/ data2[v] # Nil
  BY <1>0 DEF TypeOK, VecOK, HandleOK, HasStore
<1>6. cls[v] # "none" => Value(v) \in [Idx(v) -> CHARSXP]
  BY <1>2, <1>3, <1>4, <1>5, SlotsType
<1>7. cls[v] # "none" => Value(v) # Nil
  <2>1. cls[v] # "none" => Value(v) \in [0 .. size[v] - 1 -> CHARSXP]
    BY <1>1, <1>6
  <2> QED BY ONLY <1>1, <2>1, CharvecAssumption, Zenon
<1>8. cls[v] = "none" => Value(v) = Nil
  BY DEF Value
<1> QED BY <1>1, <1>2, <1>3, <1>4, <1>6, <1>7, <1>8

AllValuesTyped ==
  \A v \in Vec :
    /\ cls[v] # "none" => Value(v) \in [Idx(v) -> CHARSXP] /\ Value(v) # Nil
    /\ size[v] \in 0 .. MaxLen /\ Idx(v) = 0 .. size[v] - 1

(* The same after a step.                                                  *)
LEMMA ValuesTyped == IInv' => AllValuesTyped'
<1>1. IInv => AllValuesTyped
  BY ValueType DEF AllValuesTyped
<1> QED BY <1>1, PTL

LEMMA SameValue ==
  ASSUME IInv, IInv', NEW v \in Vec, SameStore(v)
  PROVE  Value(v)' = Value(v)
<1>1. /\ HasStore(v)' <=> HasStore(v)
      /\ Idx(v)' = Idx(v)
      /\ HasStore(v) => \A i \in Idx(v) : StoreView(v, i)' = StoreView(v, i)
  BY SameViews DEF IInv, VecOK
<1>2. CASE cls[v] = "none"
  BY <1>2 DEF Value, SameStore
<1>3. CASE HasStore(v)
  <2>1. \A i \in Idx(v) : StoreString(v, i)' = StoreString(v, i)
    BY <1>1, <1>3 DEF StoreString
  <2> QED BY <1>1, <1>3, <2>1 DEF Value, HasStore, SameStore
<1>4. CASE data2[v] # Nil
  BY <1>1, <1>4 DEF Value, SameStore
<1> QED BY <1>2, <1>3, <1>4 DEF IInv, TypeOK, VecOK, HandleOK, HasStore

(* Steps that leave every value alone.                                     *)
LEMMA SameBar ==
  ASSUME IInv, IInv', \A v \in Vec : SameStore(v)
  PROVE  bar' = bar
BY SameValue DEF bar

LEMMA InitRefines == Init => Abstract!Init
BY DEF Init, Abstract!Init, Value

LEMMA ReadRefines ==
  ASSUME IInv, IInv', NEW v \in Vec, \A u \in Vec : SameStore(u),
         \E i \in Idx(v) : ret' = <<"read", v, i, Value(v)[i]>>, cls[v] # "none"
  PROVE  Abstract!Next
<1>1. bar' = bar /\ bar[v] = Value(v)
  BY SameBar DEF bar
<1>2. bar[v] # Nil /\ DOMAIN bar[v] = Idx(v)
  BY <1>1, ValueType
<1>3. Abstract!Read(v)
  BY <1>1, <1>2 DEF Abstract!Read, bar
<1> QED BY <1>3 DEF Abstract!Next

LEMMA InternalRefines ==
  ASSUME IInv, IInv', \A v \in Vec : Value(v)' = Value(v), ret' = NoResult
  PROVE  Abstract!Next
BY DEF Abstract!Next, Abstract!Internal

LEMMA NewRefines ==
  ASSUME IInv, NEW w \in Vec, New(w)
  PROVE  Abstract!Next
<1>1. IInv' /\ \A u \in Vec \ {w} : SameStore(u)
  BY NewStep
<1>2. cls[w] = "none" /\ cls'[w] = "charvec" /\ ret' = NewStrings
  BY DEF New, NewCharvec, IInv, TypeOK
<1>3. /\ bar[w] = Nil
      /\ \A u \in Vec \ {w} : bar'[u] = bar[u]
  BY <1>1, <1>2, ValueType, SameValue DEF bar
<1>4. \E n \in 0 .. MaxLen : bar'[w] \in [0 .. n-1 -> Abstract!CHARSXP]
  <2>1. /\ Value(w)' \in [Idx(w)' -> CHARSXP]
        /\ size'[w] \in 0 .. MaxLen /\ Idx(w)' = 0 .. size'[w] - 1
    BY <1>1, <1>2, ValuesTyped DEF AllValuesTyped
  <2> QED BY <2>1, SameStrings DEF bar
<1>5. Abstract!Create(w)
  BY <1>2, <1>3, <1>4 DEF Abstract!Create, Abstract!OnlyChanges, bar
<1> QED BY <1>5 DEF Abstract!Next

(* One element of one vector changes.                                      *)
LEMMA AssignRefines ==
  ASSUME IInv, IInv', NEW v \in Vec, NEW i \in Idx(v), NEW x \in CHARSXP,
         \A u \in Vec \ {v} : SameStore(u),
         cls[v] # "none", cls'[v] # "none", size'[v] = size[v],
         Value(v)'[i] = x,
         \A j \in Idx(v) \ {i} : Value(v)'[j] = Value(v)[j],
         ret' = <<"assign", v, i, x>>
  PROVE  Abstract!Next
<1>1. /\ Value(v) \in [Idx(v) -> CHARSXP] /\ Value(v) # Nil
      /\ Idx(v) = 0 .. size[v] - 1
  BY ValueType
<1>2. /\ Value(v)' \in [Idx(v)' -> CHARSXP] /\ Value(v)' # Nil
      /\ Idx(v)' = 0 .. size'[v] - 1
  BY ValuesTyped DEF AllValuesTyped
<1>3. Value(v)' = [Value(v) EXCEPT ![i] = x]
  BY <1>1, <1>2
<1>4. \A u \in Vec \ {v} : Value(u)' = Value(u)
  BY SameValue
<1>5. /\ bar[v] = Value(v) /\ bar'[v] = Value(v)'
      /\ bar' = [bar EXCEPT ![v] = [Value(v) EXCEPT ![i] = x]]
  BY <1>3, <1>4 DEF bar
<1>6. bar' = [bar EXCEPT ![v][i] = bar'[v][i]]
  BY <1>1, <1>3, <1>5
<1>7. /\ bar[v] # Nil /\ bar'[v] # Nil
      /\ DOMAIN bar'[v] = DOMAIN bar[v] /\ i \in DOMAIN bar[v]
      /\ bar'[v][i] \in Abstract!CHARSXP
  BY <1>1, <1>2, <1>3, <1>5, SameStrings
<1>8. Abstract!Assign(v)
  BY <1>6, <1>7 DEF Abstract!Assign, bar
<1> QED BY <1>8 DEF Abstract!Next

LEMMA Set_eltRefines ==
  ASSUME IInv, NEW v \in Vec, NEW i \in Idx(v), NEW x \in Input, Set_elt(v, i, x)
  PROVE  Abstract!Next
<1>1. /\ IInv' /\ \A u \in Vec \ {v} : SameStore(u)
      /\ HasStore(v)' /\ Idx(v)' = Idx(v)
      /\ StoreString(v, i)' = x
      /\ \A j \in Idx(v) \ {i} : StoreView(v, j)' = StoreView(v, j)
  BY Set_eltStep
<1>2. /\ HasStore(v) /\ UNCHANGED <<cls, size>> /\ x \in CHARSXP
      /\ ret' = <<"assign", v, i, x>>
  BY CharvecAssumption DEF Set_elt
<1>3. /\ Value(v) = [j \in Idx(v) |-> StoreString(v, j)]
      /\ Value(v)' = [j \in Idx(v) |-> StoreString(v, j)']
  BY <1>1, <1>2 DEF Value, HasStore
<1>4. \A j \in Idx(v) \ {i} : StoreString(v, j)' = StoreString(v, j)
  BY <1>1 DEF StoreString
<1>5. cls[v] # "none" /\ cls'[v] # "none" /\ size'[v] = size[v]
  BY <1>2 DEF HasStore
<1> QED BY <1>1, <1>2, <1>3, <1>4, <1>5, AssignRefines

LEMMA WriterSetRefines ==
  ASSUME IInv, NEW v \in Vec, NEW i \in Idx(v), NEW view \in InputView,
         WriterSet(v, i, view)
  PROVE  Abstract!Next
<1>1. /\ IInv' /\ \A u \in Vec \ {v} : SameStore(u)
      /\ HasStore(v) /\ HasStore(v)' /\ Idx(v)' = Idx(v)
      /\ StoreView(v, i)' = view
      /\ \A j \in Idx(v) \ {i} : StoreView(v, j)' = StoreView(v, j)
  BY WriterSetStep
<1>2. /\ UNCHANGED <<cls, size>> /\ ret' = <<"assign", v, i, make_charsxp(view)>>
      /\ make_charsxp(view) \in CHARSXP
  BY MakeType, CharvecAssumption DEF WriterSet
<1>3. /\ Value(v) = [j \in Idx(v) |-> StoreString(v, j)]
      /\ Value(v)' = [j \in Idx(v) |-> StoreString(v, j)']
  BY <1>1 DEF Value, HasStore
<1>4. /\ StoreString(v, i)' = make_charsxp(view)
      /\ \A j \in Idx(v) \ {i} : StoreString(v, j)' = StoreString(v, j)
  BY <1>1 DEF StoreString
<1>5. cls[v] # "none" /\ cls'[v] # "none" /\ size'[v] = size[v]
  BY <1>1, <1>2 DEF HasStore
<1> QED BY <1>1, <1>2, <1>3, <1>4, <1>5, AssignRefines

LEMMA Set_eltMaterializedRefines ==
  ASSUME IInv, NEW v \in Vec, NEW i \in Idx(v), NEW x \in Input,
         Set_eltMaterialized(v, i, x)
  PROVE  Abstract!Next
<1>1. IInv' /\ data2'[v] = [data2[v] EXCEPT ![i] = x]
  BY Set_eltMaterializedStep
<1>2. /\ data2[v] # Nil /\ UNCHANGED <<cls, size>> /\ ret' = <<"assign", v, i, x>>
      /\ x \in CHARSXP
      /\ \A u \in Vec \ {v} : SameStore(u)
  BY CharvecAssumption DEF Set_eltMaterialized, storeVars, SameStore, IInv, TypeOK
<1>3. /\ Value(v) = data2[v] /\ cls[v] # "none" /\ data2[v] \in [Idx(v) -> CHARSXP]
  BY <1>2, ValueType
<1>4. data2'[v] # Nil
  <2>1. /\ size[v] \in 0 .. MaxLen
        /\ data2'[v] \in [0 .. size[v] - 1 -> CHARSXP]
    BY <1>1, <1>2, <1>3, ValueType
  <2> QED BY ONLY <2>1, CharvecAssumption, Zenon
<1>5. Value(v)' = data2'[v]
  <2>1. DOMAIN data2'[v] = Idx(v)' /\ data2'[v] = [j \in Idx(v)' |-> data2'[v][j]]
    BY <1>1, <1>2, <1>3 DEF Idx
  <2> QED BY <1>2, <1>3, <1>4, <2>1 DEF Value
<1>6. /\ Value(v)'[i] = x /\ \A j \in Idx(v) \ {i} : Value(v)'[j] = Value(v)[j]
      /\ cls'[v] # "none" /\ size'[v] = size[v]
  BY <1>1, <1>2, <1>3, <1>5
<1> QED BY <1>1, <1>2, <1>3, <1>6, AssignRefines

LEMMA CopyRefines ==
  ASSUME IInv, IInv', NEW v \in Vec, NEW w \in Vec,
         cls[v] # "none", cls[w] = "none",
         \A u \in Vec \ {w} : SameStore(u),
         Value(w)' = Value(v), ret' = <<"copy", v, w>>
  PROVE  Abstract!Next
<1>1. \A u \in Vec \ {w} : Value(u)' = Value(u)
  BY SameValue
<1>2. bar[v] # Nil /\ bar[w] = Nil /\ bar' = [bar EXCEPT ![w] = bar[v]]
  BY <1>1, ValueType DEF bar
<1>3. Abstract!Copy(v, w)
  BY <1>2 DEF Abstract!Copy, bar
<1> QED BY <1>3 DEF Abstract!Next

LEMMA AsCharvecRefines ==
  ASSUME IInv, NEW v \in Vec, NEW w \in Vec, AsCharvec(v, w)
  PROVE  Abstract!Next
<1>1. /\ IInv' /\ \A u \in Vec \ {w} : SameStore(u)
      /\ cls'[w] = "charvec" /\ data2'[w] = Nil /\ size'[w] = size[v]
      /\ \A i \in Idx(v) : StoreString(w, i)' = data2[v][i]
  BY AsCharvecStep
<1>2. cls[v] = "plain" /\ cls[w] = "none" /\ ret' = <<"copy", v, w>>
  BY DEF AsCharvec
<1>3. Value(v) = data2[v] /\ data2[v] \in [Idx(v) -> CHARSXP]
  BY <1>2, ValueType DEF IInv, VecOK, HandleOK
<1>4. Value(w)' = [i \in Idx(v) |-> StoreString(w, i)']
  BY <1>1 DEF Value, Idx
<1>5. Value(w)' = Value(v)
  BY <1>1, <1>3, <1>4
<1> QED BY <1>1, <1>2, <1>5, CopyRefines

LEMMA DuplicateRefines ==
  ASSUME IInv, NEW v \in Vec, NEW w \in Vec, Duplicate(v, w)
  PROVE  Abstract!Next
<1>1. /\ IInv' /\ \A u \in Vec \ {w} : SameStore(u)
      /\ size'[w] = size[v]
      /\ HasStore(v) => /\ cls'[w] = "charvec" /\ data2'[w] = Nil
                        /\ \A i \in Idx(v) : StoreView(w, i)' = StoreView(v, i)
      /\ ~ HasStore(v) => cls'[w] = "plain" /\ data2'[w] = data2[v]
  BY DuplicateStep
<1>2. cls[v] # "none" /\ cls[w] = "none" /\ ret' = <<"copy", v, w>>
  BY DEF Duplicate
<1>3. CASE HasStore(v)
  <2>1. Value(v) = [i \in Idx(v) |-> StoreString(v, i)]
    BY <1>3, ValueType
  <2>2. Value(w)' = [i \in Idx(v) |-> StoreString(w, i)']
    BY <1>1, <1>3 DEF Value, Idx
  <2>3. \A i \in Idx(v) : StoreString(w, i)' = StoreString(v, i)
    BY <1>1, <1>3 DEF StoreString
  <2>4. Value(w)' = Value(v)
    BY <2>1, <2>2, <2>3
  <2> QED BY <1>1, <1>2, <2>4, CopyRefines
<1>4. CASE ~ HasStore(v)
  <2>1. data2[v] # Nil
    BY <1>2, <1>4 DEF IInv, TypeOK, VecOK, HandleOK, HasStore
  <2>2. Value(v) = data2[v] /\ data2[v] \in [Idx(v) -> CHARSXP]
    BY <1>2, <2>1, ValueType
  <2>3. Value(w)' = [i \in Idx(v) |-> data2[v][i]]
    BY <1>1, <1>4, <2>1 DEF Value, Idx
  <2>4. Value(w)' = Value(v)
    BY <2>2, <2>3
  <2> QED BY <1>1, <1>2, <2>4, CopyRefines
<1> QED BY <1>3, <1>4

LEMMA AbstractLength ==
  ASSUME IInv, NEW v \in Vec, cls[v] # "none"
  PROVE  Abstract!Length(v) = size[v]
<1>1. /\ DOMAIN bar[v] = 0 .. size[v] - 1 /\ size[v] \in 0 .. MaxLen
  BY ValueType DEF bar
<1>2. \A n \in 0 .. MaxLen : 0 .. size[v] - 1 = 0 .. n-1 => n = size[v]
  BY <1>1, CharvecAssumption
<1>3. Abstract!Length(v) = CHOOSE n \in 0 .. MaxLen : DOMAIN bar[v] = 0 .. n-1
  BY DEF Abstract!Length, bar
<1> QED BY <1>1, <1>2, <1>3

LEMMA Extract_subsetRefines ==
  ASSUME IInv, NEW v \in Vec, NEW w \in Vec, Extract_subset(v, w)
  PROVE  Abstract!Next
<1>1. /\ IInv' /\ \A u \in Vec \ {w} : SameStore(u)
      /\ cls'[w] # "none"
      /\ \E m \in 0 .. MaxLen : \E s \in [0 .. m-1 -> Inputs] :
           /\ ret' = <<"subset", v, w, s>>
           /\ size'[w] = m
           /\ HasStore(v) =>
                /\ data2'[w] = Nil
                /\ \A j \in 0 .. m-1 : StoreString(w, j)' =
                     IF RSubscript(s[j]) \in 1 .. size[v]
                     THEN StoreString(v, RSubscript(s[j]) - 1) ELSE NA_STRING
           /\ ~ HasStore(v) =>
                data2'[w] = [j \in 0 .. m-1 |-> DefaultSubset(v, s[j])]
  BY Extract_subsetStep
<1>2. PICK m \in 0 .. MaxLen : \E s \in [0 .. m-1 -> Inputs] :
           /\ ret' = <<"subset", v, w, s>>
           /\ size'[w] = m
           /\ HasStore(v) =>
                /\ data2'[w] = Nil
                /\ \A j \in 0 .. m-1 : StoreString(w, j)' =
                     IF RSubscript(s[j]) \in 1 .. size[v]
                     THEN StoreString(v, RSubscript(s[j]) - 1) ELSE NA_STRING
           /\ ~ HasStore(v) =>
                data2'[w] = [j \in 0 .. m-1 |-> DefaultSubset(v, s[j])]
  BY <1>1
<1>3. PICK s \in [0 .. m-1 -> Inputs] :
           /\ ret' = <<"subset", v, w, s>>
           /\ size'[w] = m
           /\ HasStore(v) =>
                /\ data2'[w] = Nil
                /\ \A j \in 0 .. m-1 : StoreString(w, j)' =
                     IF RSubscript(s[j]) \in 1 .. size[v]
                     THEN StoreString(v, RSubscript(s[j]) - 1) ELSE NA_STRING
           /\ ~ HasStore(v) =>
                data2'[w] = [j \in 0 .. m-1 |-> DefaultSubset(v, s[j])]
  BY <1>2
<1>4. cls[v] # "none" /\ cls[w] = "none"
  BY DEF Extract_subset
<1>5. /\ Idx(v) = 0 .. size[v] - 1 /\ size[v] \in Nat /\ Idx(w)' = 0 .. m-1
      /\ \A j \in 0 .. m-1 : s[j] \in Subscript
  BY <1>3, ValueType, CharvecAssumption DEF Idx, IInv, TypeOK
<1>6. \A j \in 0 .. m-1 : RSubscript(s[j]) \in 1 .. size[v] =>
        RSubscript(s[j]) - 1 \in Idx(v)
  BY <1>5
<1>7. Value(w)' = [j \in 0 .. m-1 |->
                     IF RSubscript(s[j]) \in 1 .. size[v]
                     THEN Value(v)[RSubscript(s[j]) - 1] ELSE NA_STRING]
  <2>1. CASE HasStore(v)
    <3>1. Value(v) = [i \in Idx(v) |-> StoreString(v, i)]
      BY <2>1, ValueType
    <3>2. Value(w)' = [j \in 0 .. m-1 |-> StoreString(w, j)']
      BY <1>1, <1>3, <1>5, <2>1 DEF Value
    <3> QED BY <1>3, <1>6, <2>1, <3>1, <3>2
  <2>2. CASE ~ HasStore(v)
    <3>1. data2[v] # Nil
      BY <1>4, <2>2 DEF IInv, TypeOK, VecOK, HandleOK, HasStore
    <3>2. Value(v) = data2[v] /\ data2[v] \in [Idx(v) -> CHARSXP]
      BY <1>4, <3>1, ValueType
    <3>3. \A j \in 0 .. m-1 : DefaultSubset(v, s[j]) \in CHARSXP
      BY <1>6, <3>2 DEF DefaultSubset, CHARSXP
    <3>4. data2'[w] = [j \in 0 .. m-1 |-> DefaultSubset(v, s[j])]
      BY <1>3, <2>2
    <3>5. data2'[w] # Nil
      <4>1. data2'[w] \in [0 .. m-1 -> CHARSXP]
        BY <3>3, <3>4
      <4> QED BY ONLY <4>1, m \in 0 .. MaxLen, CharvecAssumption, Zenon
    <3>6. Value(w)' = [j \in 0 .. m-1 |-> data2'[w][j]]
      BY <1>1, <1>5, <3>5 DEF Value
    <3> QED BY <3>2, <3>4, <3>6 DEF DefaultSubset
  <2> QED BY <2>1, <2>2
<1>8. \A u \in Vec \ {w} : Value(u)' = Value(u)
  BY <1>1, SameValue
<1>9. /\ bar[v] # Nil /\ bar[w] = Nil /\ Abstract!Length(v) = size[v]
      /\ bar[v] = Value(v)
  BY <1>4, ValueType, AbstractLength DEF bar
<1>10. bar' = [bar EXCEPT ![w] =
                [j \in 0 .. m-1 |->
                   IF Abstract!RSubscript(s[j]) \in 1 .. Abstract!Length(v)
                   THEN bar[v][Abstract!RSubscript(s[j]) - 1] ELSE NA_STRING]]
  BY <1>7, <1>8, <1>9, SameStrings DEF bar
<1>11. Abstract!Subset(v, w)
  BY <1>3, <1>4, <1>9, <1>10 DEF Abstract!Subset, bar
<1> QED BY <1>11 DEF Abstract!Next

LEMMA CollectRefines ==
  ASSUME IInv, NEW v \in Vec, Collect(v)
  PROVE  Abstract!Next
<1>1. IInv' /\ \A u \in Vec \ {v} : SameStore(u)
  BY CollectStep
<1>2. cls[v] # "none" /\ cls'[v] = "none" /\ ret' = <<"drop", v>>
  BY DEF Collect, IInv, TypeOK
<1>3. Value(v)' = Nil /\ \A u \in Vec \ {v} : Value(u)' = Value(u)
  BY <1>1, <1>2, SameValue DEF Value
<1>4. bar[v] # Nil /\ bar' = [bar EXCEPT ![v] = Nil]
  BY <1>2, <1>3, ValueType DEF bar
<1>5. Abstract!Drop(v)
  BY <1>2, <1>4 DEF Abstract!Drop, bar
<1> QED BY <1>5 DEF Abstract!Next

(* Materializing changes the representation, not the strings.              *)
LEMMA MaterializeRefines ==
  ASSUME IInv, NEW v \in Vec, Materialize(v)
  PROVE  Abstract!Next
<1>1. /\ IInv' /\ \A u \in Vec \ {v} : SameStore(u)
      /\ data2'[v] = [i \in Idx(v) |-> StoreString(v, i)]
  BY MaterializeStep
<1>2. HasStore(v) /\ UNCHANGED <<cls, size>> /\ ret' = NoResult
  BY DEF Materialize
<1>3. Value(v) = [i \in Idx(v) |-> StoreString(v, i)] /\ Value(v) \in [Idx(v) -> CHARSXP]
  BY <1>2, ValueType DEF HasStore
<1>4. data2'[v] # Nil
  BY <1>1, <1>2, <1>3, ValueType DEF HasStore
<1>5. Value(v)' = [i \in Idx(v) |-> data2'[v][i]]
  BY <1>2, <1>4 DEF Value, HasStore, Idx
<1>6. Value(v)' = Value(v)
  BY <1>1, <1>3, <1>5
<1>7. \A u \in Vec : Value(u)' = Value(u)
  BY <1>1, <1>6, SameValue
<1> QED BY <1>1, <1>2, <1>7, InternalRefines

LEMMA CompactRefines ==
  ASSUME IInv, NEW v \in Vec, Compact(v)
  PROVE  Abstract!Next
<1>1. /\ IInv' /\ \A u \in Vec \ {v} : SameStore(u)
      /\ HasStore(v)' /\ Idx(v)' = Idx(v)
      /\ \A i \in Idx(v) : StoreView(v, i)' = StoreView(v, i)
  BY CompactStep
<1>2. HasStore(v) /\ ret' = NoResult
  BY DEF Compact
<1>3. Value(v) = [i \in Idx(v) |-> StoreString(v, i)]
  BY <1>2, ValueType
<1>4. Value(v)' = [i \in Idx(v) |-> StoreString(v, i)']
  BY <1>1 DEF Value, HasStore
<1>5. Value(v)' = Value(v)
  BY <1>1, <1>3, <1>4 DEF StoreString
<1>6. \A u \in Vec : Value(u)' = Value(u)
  BY <1>1, <1>5, SameValue
<1> QED BY <1>1, <1>2, <1>6, InternalRefines

LEMMA EltRefines ==
  ASSUME IInv, NEW v \in Vec, NEW i \in Idx(v), Elt(v, i)
  PROVE  Abstract!Next
<1>1. IInv' /\ (\A u \in Vec : SameStore(u)) /\ ret' = <<"read", v, i, StoreString(v, i)>>
  BY EltStep
<1>2. HasStore(v)
  BY DEF Elt
<1>3. cls[v] # "none" /\ ret' = <<"read", v, i, Value(v)[i]>>
  BY <1>1, <1>2, ValueType DEF HasStore
<1> QED BY <1>1, <1>3, ReadRefines

LEMMA EltMaterializedRefines ==
  ASSUME IInv, NEW v \in Vec, EltMaterialized(v)
  PROVE  Abstract!Next
<1>1. /\ IInv' /\ \A u \in Vec : SameStore(u)
      /\ \E i \in Idx(v) : ret' = <<"read", v, i, data2[v][i]>>
  BY EltMaterializedStep
<1>2. Value(v) = data2[v] /\ cls[v] # "none"
  BY ValueType DEF EltMaterialized
<1> QED BY <1>1, <1>2, ReadRefines

LEMMA NextRefines == IInv /\ [Next]_vars => [Abstract!Next]_(Abstract!vars)
<1> SUFFICES ASSUME IInv, [Next]_vars
             PROVE  Abstract!Next \/ UNCHANGED Abstract!vars
  OBVIOUS
<1>1. ASSUME NEW v \in Vec, New(v) PROVE Abstract!Next
  BY <1>1, NewRefines
<1>2. ASSUME NEW v \in Vec, EltMaterialized(v) PROVE Abstract!Next
  BY <1>2, EltMaterializedRefines
<1>3. ASSUME NEW v \in Vec, Materialize(v) PROVE Abstract!Next
  BY <1>3, MaterializeRefines
<1>4. ASSUME NEW v \in Vec, MaterializeFails(v) PROVE Abstract!Next
  BY <1>4, MaterializeFailsStep, SameValue, InternalRefines DEF MaterializeFails
<1>5. ASSUME NEW v \in Vec, Compact(v) PROVE Abstract!Next
  BY <1>5, CompactRefines
<1>6. ASSUME NEW v \in Vec, OpenReader(v) \/ GetStore(v) \/ EndBorrow(v)
      PROVE  Abstract!Next
  BY <1>6, BorrowStep, SameValue, InternalRefines DEF OpenReader, GetStore, EndBorrow
<1>7. ASSUME NEW v \in Vec, Collect(v) PROVE Abstract!Next
  BY <1>7, CollectRefines
<1>8. ASSUME NEW v \in Vec, NEW i \in Idx(v), Elt(v, i) PROVE Abstract!Next
  BY <1>8, EltRefines
<1>9. ASSUME NEW v \in Vec, NEW i \in Idx(v), EltFails(v, i) PROVE Abstract!Next
  BY <1>9, EltFailsStep, SameValue, InternalRefines DEF EltFails
<1>10. ASSUME NEW v \in Vec, NEW i \in Idx(v), NEW x \in Input, Set_elt(v, i, x)
       PROVE  Abstract!Next
  BY <1>10, Set_eltRefines
<1>11. ASSUME NEW v \in Vec, NEW i \in Idx(v), NEW x \in Input, Set_eltMaterialized(v, i, x)
       PROVE  Abstract!Next
  BY <1>11, Set_eltMaterializedRefines
<1>12. ASSUME NEW v \in Vec, NEW i \in Idx(v), NEW view \in InputView, WriterSet(v, i, view)
       PROVE  Abstract!Next
  BY <1>12, WriterSetRefines
<1>13. ASSUME NEW v \in Vec, NEW w \in Vec, AsCharvec(v, w) PROVE Abstract!Next
  BY <1>13, AsCharvecRefines
<1>14. ASSUME NEW v \in Vec, NEW w \in Vec, Duplicate(v, w) PROVE Abstract!Next
  BY <1>14, DuplicateRefines
<1>15. ASSUME NEW v \in Vec, NEW w \in Vec, Extract_subset(v, w) PROVE Abstract!Next
  BY <1>15, Extract_subsetRefines
<1>16. CASE UNCHANGED vars
  <2>1. IInv' /\ (\A u \in Vec : SameStore(u)) /\ ret' = ret
    BY <1>16, InvNext DEF vars, SameStore
  <2>2. \A u \in Vec : Value(u)' = Value(u)
    BY <2>1, SameValue
  <2> QED BY <2>1, <2>2 DEF Abstract!vars
<1> QED
  BY <1>1, <1>2, <1>3, <1>4, <1>5, <1>6, <1>7, <1>8, <1>9, <1>10, <1>11, <1>12,
     <1>13, <1>14, <1>15, <1>16
  DEF Next

(* Every behaviour of the charvec class is a behaviour of independent      *)
(* character vectors: caching, materialization, copies, subsets, rebuilds  *)
(* and failures are invisible to R.                                        *)
THEOREM Refinement == Spec => RefinesStringVector
BY InitRefines, NextRefines, Invariance, PTL DEF Spec, RefinesStringVector, Abstract!Spec
=============================================================================
