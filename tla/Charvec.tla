------------------------------ MODULE Charvec -------------------------------
(***************************************************************************)
(* The charvec ALTREP class (src/charvec_altrep.h): character vectors      *)
(* whose strings live in a native Store, with a cache of the CHARSXPs R    *)
(* has asked for, until something forces an ordinary character vector and  *)
(* the Store is freed.                                                     *)
(*                                                                         *)
(* A string of a Store occupies an extent: the piece of a slice that was   *)
(* handed out for it.  Pieces never overlap, so an extent is an abstract   *)
(* address with the bytes written there; slices[v] are the pieces inside   *)
(* the slices v's Store owns, whether or not a record still points there.  *)
(* The pool Ext is finite: when no extent is free, std::bad_alloc is       *)
(* thrown before anything changes, and the operation is a stutter.         *)
(***************************************************************************)
EXTENDS Strings, Subscripts, Functions

CONSTANTS
  Vec,          \* vectors R may hold
  Ext,          \* extents: pieces of slices
  MaxLen,       \* longest vector
  ChunkSize,    \* elements per chunk of the Elt cache (1024 in the code)
  Input,        \* CHARSXPs R assigns
  InputView,    \* records a native producer writes
  Inputs,       \* subscripts R passes to Extract_subset
  NoExt,        \* nullptr or empty_data(): a record without payload
  NoChunk,      \* a cache slot whose chunk is R_NilValue
  Nil,          \* R_NilValue
  NoResult,     \* the operation changed no vector's strings
  NewStrings    \* the operation made a vector of new strings

ASSUME CharvecAssumption ==
  /\ MaxLen \in Nat
  /\ ChunkSize \in Nat \ {0}
  /\ Input \subseteq CHARSXP
  /\ InputView \subseteq View
  /\ Inputs \subseteq Subscript
  /\ NoExt \notin Ext
  /\ NoChunk \notin CHARSXP
  /\ \A n \in 0 .. MaxLen : Nil \notin [0 .. n-1 -> CHARSXP]

VARIABLES
  cls,          \* what R sees under a handle: no vector, a charvec, or an
                \* ordinary character vector
  size,         \* its length
  records,      \* RecordTable of its Store
  slices,       \* extents of its Store
  mem,          \* bytes of every extent
  chunks,       \* is the VECSXP of chunks installed?
  cached,       \* slots of the Elt cache
  data2,        \* Nil, or the strings of the ordinary vector
  borrow,       \* who holds a pointer into its Store
  ret           \* history: what the last operation was asked, and returned

storeVars == <<records, slices, mem>>
cacheVars == <<chunks, cached>>
vars == <<cls, size, records, slices, mem, chunks, cached, data2, borrow, ret>>

Idx(v) == 0 .. size[v] - 1

Record   == [ptr : Ext \cup {NoExt}, len : Nat, enc : Tag \cup {"NA"}]
NaRecord == [ptr |-> NoExt, len |-> 0, enc |-> "NA"]

(* The Store exists exactly while a charvec is not materialized.           *)
HasStore(v) == cls[v] = "charvec" /\ data2[v] = Nil

Free == Ext \ UNION {slices[v] : v \in Vec}

(***************************************************************************)
(* Reading a record, and the Elt cache.                                    *)
(***************************************************************************)
Prefix(s, n) == [k \in 1 .. n |-> s[k]]

StoreView(v, i) ==
  LET r == records[v][i] IN
  IF r.enc = "NA" THEN NaView
  ELSE [bytes |-> IF r.len = 0 THEN << >> ELSE Prefix(mem[r.ptr], r.len),
        enc   |-> r.enc]

StoreString(v, i) == make_charsxp(StoreView(v, i))

ChunkOf(i) == i \div ChunkSize

(* R_BlankString in an allocated chunk is a miss: empty strings are minted *)
(* again at every read.                                                    *)
IsHit(x) == x \notin {NoChunk, R_BlankString}

(* Mutated: an untouched chunk is read as if it were allocated.            *)
CachedOrMintedNoChunk(v, i) ==
  IF cached[v][i] # R_BlankString THEN cached[v][i] ELSE StoreString(v, i)

(* The string at i without changing anything: what R reads there next.     *)
CachedOrMinted(v, i) == IF IsHit(cached[v][i]) THEN cached[v][i] ELSE StoreString(v, i)

(***************************************************************************)
(* Making a Store: every payload gets an extent of its own.  The extents   *)
(* of a bulk construction come from Builder's slices or, for a rebuilt     *)
(* Store, from blocks filled with consecutive pieces.                      *)
(***************************************************************************)
Payload(vw) == {i \in DOMAIN vw : vw[i].bytes # << >>}

RecordOf(view, ext) ==
  IF view.bytes = << >> THEN [ptr |-> NoExt, len |-> 0, enc |-> view.enc]
  ELSE [ptr |-> ext, len |-> Len(view.bytes), enc |-> view.enc]

RecordsOf(vw, at) ==
  [i \in DOMAIN vw |-> RecordOf(vw[i], IF i \in DOMAIN at THEN at[i] ELSE NoExt)]

(* The memory after writing the views vw at the extents at, and freeing    *)
(* the extents of gone, whose contents are not to be read again.           *)
Written(vw, at, gone) ==
  [e \in Ext |->
     IF \E i \in DOMAIN at : at[i] = e
     THEN vw[CHOOSE i \in DOMAIN at : at[i] = e].bytes
     ELSE IF e \in gone THEN << >> ELSE mem[e]]

NewCharvec(w, n, vw) ==
  \E at \in Injection(Payload(vw), Free) :
    /\ cls'     = [cls EXCEPT ![w] = "charvec"]
    /\ size'    = [size EXCEPT ![w] = n]
    /\ records' = [records EXCEPT ![w] = RecordsOf(vw, at)]
    /\ slices'  = [slices EXCEPT ![w] = Range(at)]
    /\ mem'     = Written(vw, at, {})
    /\ chunks'  = [chunks EXCEPT ![w] = FALSE]
    /\ cached'  = [cached EXCEPT ![w] = [i \in 0 .. n-1 |-> NoChunk]]
    /\ data2'   = [data2 EXCEPT ![w] = Nil]

(* An ordinary character vector; no code of charport runs on it.           *)
NewPlain(w, n, strings) ==
  /\ cls'     = [cls EXCEPT ![w] = "plain"]
  /\ size'    = [size EXCEPT ![w] = n]
  /\ records' = [records EXCEPT ![w] = [i \in 0 .. n-1 |-> NaRecord]]
  /\ chunks'  = [chunks EXCEPT ![w] = FALSE]
  /\ cached'  = [cached EXCEPT ![w] = [i \in 0 .. n-1 |-> NoChunk]]
  /\ data2'   = [data2 EXCEPT ![w] = strings]
  /\ UNCHANGED <<slices, mem>>

(* Mutated: the Store is freed but the cache stays protected.              *)
FinalizeKeepsCache(v, n) ==
  /\ records' = [records EXCEPT ![v] = [i \in 0 .. n-1 |-> NaRecord]]
  /\ slices'  = [slices EXCEPT ![v] = {}]
  /\ mem'     = [e \in Ext |-> IF e \in slices[v] THEN << >> ELSE mem[e]]
  /\ UNCHANGED chunks
  /\ cached'  = [cached EXCEPT ![v] = [i \in 0 .. n-1 |-> NoChunk]]

(* Finalize and the end of install_materialized: the Store goes, and with  *)
(* it the cache.  The vector left behind has n elements.                   *)
Finalize(v, n) ==
  /\ records' = [records EXCEPT ![v] = [i \in 0 .. n-1 |-> NaRecord]]
  /\ slices'  = [slices EXCEPT ![v] = {}]
  /\ mem'     = [e \in Ext |-> IF e \in slices[v] THEN << >> ELSE mem[e]]
  /\ chunks'  = [chunks EXCEPT ![v] = FALSE]
  /\ cached'  = [cached EXCEPT ![v] = [i \in 0 .. n-1 |-> NoChunk]]

(***************************************************************************)
(* Borrowed pointers.  A Reader's caller does not change or materialize    *)
(* the vector while it holds views (developer guide, "Borrowing"), and a   *)
(* pointer from get_store is valid until the vector is read from R or      *)
(* collected (writer.h): the contracts are guards on what callers do, not  *)
(* checks the code makes.                                                  *)
(***************************************************************************)
MayChange(v) == borrow[v] # "reader"

AfterRead(v) == borrow' = [borrow EXCEPT ![v] = IF @ = "writer" THEN "none" ELSE @]

OpenReader(v) ==
  /\ HasStore(v) /\ borrow[v] = "none"
  /\ borrow' = [borrow EXCEPT ![v] = "reader"]
  /\ ret' = NoResult
  /\ UNCHANGED <<cls, size, storeVars, cacheVars, data2>>

(* Mutated: get_store does not look at the Elt cache.                      *)
GetStoreCached(v) ==
  /\ HasStore(v) /\ borrow[v] = "none"
  /\ borrow' = [borrow EXCEPT ![v] = "writer"]
  /\ ret' = NoResult
  /\ UNCHANGED <<cls, size, storeVars, cacheVars, data2>>

(* get_store hands out the Store only if R holds no string made from it.   *)
GetStore(v) ==
  /\ HasStore(v) /\ borrow[v] = "none"
  /\ ~ chunks[v]
  /\ borrow' = [borrow EXCEPT ![v] = "writer"]
  /\ ret' = NoResult
  /\ UNCHANGED <<cls, size, storeVars, cacheVars, data2>>

EndBorrow(v) ==
  /\ borrow[v] # "none"
  /\ borrow' = [borrow EXCEPT ![v] = "none"]
  /\ ret' = NoResult
  /\ UNCHANGED <<cls, size, storeVars, cacheVars, data2>>

(***************************************************************************)
(* Construction: as_charvec, from_views, a Builder, alloc_na.              *)
(***************************************************************************)
New(w) ==
  /\ cls[w] = "none"
  /\ \E n \in 0 .. MaxLen : \E vw \in [0 .. n-1 -> InputView] : NewCharvec(w, n, vw)
  /\ ret' = NewStrings
  /\ UNCHANGED borrow

AsCharvec(v, w) ==
  /\ cls[v] = "plain" /\ cls[w] = "none"
  /\ NewCharvec(w, size[v], [i \in Idx(v) |-> charsxp_to_view(data2[v][i])])
  /\ ret' = <<"copy", v, w>>
  /\ UNCHANGED borrow

(***************************************************************************)
(* Reading an element.  EltChunk installs the VECSXP of chunks, then the   *)
(* chunk of i; either allocation may raise an R error, and so may minting  *)
(* the CHARSXP, leaving what was installed before.                         *)
(***************************************************************************)
EltChunk(v, i) ==
  [j \in Idx(v) |->
     IF ChunkOf(j) = ChunkOf(i) /\ cached[v][j] = NoChunk THEN R_BlankString
     ELSE cached[v][j]]

EltMaterialized(v) ==
  /\ data2[v] # Nil
  /\ \E i \in Idx(v) : ret' = <<"read", v, i, data2[v][i]>>
  /\ UNCHANGED <<cls, size, storeVars, cacheVars, data2, borrow>>

Elt(v, i) ==
  /\ HasStore(v)
  /\ chunks' = [chunks EXCEPT ![v] = TRUE]
  /\ cached' = [cached EXCEPT ![v] = [EltChunk(v, i) EXCEPT ![i] = CachedOrMinted(v, i)]]
  /\ ret' = <<"read", v, i, CachedOrMinted(v, i)>>
  /\ AfterRead(v)
  /\ UNCHANGED <<cls, size, storeVars, data2>>

EltFails(v, i) ==
  /\ HasStore(v)
  /\ ~ IsHit(cached[v][i])
  /\ chunks' = [chunks EXCEPT ![v] = TRUE]
  /\ \/ cached[v][i] = NoChunk /\ UNCHANGED cached                \* no chunk
     \/ cached' = [cached EXCEPT ![v] = EltChunk(v, i)]           \* no CHARSXP
  /\ ret' = NoResult
  /\ AfterRead(v)
  /\ UNCHANGED <<cls, size, storeVars, data2>>

(***************************************************************************)
(* Assigning an element.  The bytes are rewritten in place when the        *)
(* current record is long enough; what a shorter one leaves over is lost   *)
(* until the Store is rebuilt.                                             *)
(***************************************************************************)
Overwrite(s, b) == [k \in 1 .. Len(s) |-> IF k <= Len(b) THEN b[k] ELSE s[k]]

(* Mutated: one byte too many fits.                                        *)
InPlaceOffByOne(r, len) == r.enc # "NA" /\ r.len + 1 >= len

InPlace(r, len) == r.enc # "NA" /\ r.len >= len

store_assign(v, i, view) ==
  LET r   == records[v][i]
      len == Len(view.bytes)
      At(e) == records' = [records EXCEPT ![v][i] = RecordOf(view, e)]
  IN  \/ /\ len = 0
         /\ At(NoExt)
         /\ UNCHANGED <<slices, mem>>
      \/ /\ len > 0 /\ InPlace(r, len)
         /\ At(r.ptr)
         /\ mem' = [mem EXCEPT ![r.ptr] = Overwrite(@, view.bytes)]
         /\ UNCHANGED slices
      \/ /\ len > 0 /\ ~ InPlace(r, len)
         /\ \E e \in Free : /\ At(e)
                            /\ slices' = [slices EXCEPT ![v] = @ \cup {e}]
                            /\ mem' = [mem EXCEPT ![e] = view.bytes]

(* The cache is kept in step: a slot of an allocated chunk takes the new   *)
(* string itself.                                                          *)
WriteThrough(v, i, x) ==
  cached' = IF cached[v][i] = NoChunk THEN cached ELSE [cached EXCEPT ![v][i] = x]

Set_elt(v, i, x) ==
  /\ HasStore(v) /\ MayChange(v)
  /\ store_assign(v, i, charsxp_to_view(x))
  /\ WriteThrough(v, i, x)
  /\ ret' = <<"assign", v, i, x>>
  /\ UNCHANGED <<cls, size, chunks, data2, borrow>>

Set_eltMaterialized(v, i, x) ==
  /\ data2[v] # Nil
  /\ data2' = [data2 EXCEPT ![v][i] = x]
  /\ ret' = <<"assign", v, i, x>>
  /\ UNCHANGED <<cls, size, storeVars, cacheVars, borrow>>

(* Writer::copy, set_na and set_empty through a pointer from get_store:    *)
(* the payload always takes fresh bytes, and nothing touches the cache.    *)
WriterSet(v, i, view) ==
  /\ borrow[v] = "writer"
  /\ IF view.bytes = << >>
     THEN /\ records' = [records EXCEPT ![v][i] = RecordOf(view, NoExt)]
          /\ UNCHANGED <<slices, mem>>
     ELSE \E e \in Free :
            /\ records' = [records EXCEPT ![v][i] = RecordOf(view, e)]
            /\ slices' = [slices EXCEPT ![v] = @ \cup {e}]
            /\ mem' = [mem EXCEPT ![e] = view.bytes]
  /\ ret' = <<"assign", v, i, make_charsxp(view)>>
  /\ UNCHANGED <<cls, size, cacheVars, data2, borrow>>

(***************************************************************************)
(* Materialization.  With a single chunk, that chunk becomes data2: its    *)
(* misses are filled in place, so an R error at element k leaves the ones  *)
(* before it filled and the vector unmaterialized.  Otherwise the strings  *)
(* go to a new vector, which an error discards.                            *)
(***************************************************************************)
Promotes(v) == chunks[v] /\ size[v] \in 1 .. ChunkSize /\ cached[v][0] # NoChunk

Materialize(v) ==
  /\ HasStore(v) /\ MayChange(v)
  /\ data2' = [data2 EXCEPT ![v] = [i \in Idx(v) |-> CachedOrMinted(v, i)]]
  /\ Finalize(v, size[v])
  /\ ret' = NoResult
  /\ AfterRead(v)
  /\ UNCHANGED <<cls, size>>

MaterializeFails(v) ==
  /\ HasStore(v) /\ MayChange(v)
  /\ \E k \in Idx(v) :
       /\ ~ IsHit(cached[v][k])
       /\ cached' = IF Promotes(v)
                    THEN [cached EXCEPT ![v] =
                            [i \in Idx(v) |-> IF i < k THEN CachedOrMinted(v, i) ELSE @[i]]]
                    ELSE cached
  /\ ret' = NoResult
  /\ AfterRead(v)
  /\ UNCHANGED <<cls, size, storeVars, chunks, data2>>

(***************************************************************************)
(* Copies: Duplicate, Extract_subset, and the rebuild behind compact.      *)
(***************************************************************************)
Views(v) == [i \in Idx(v) |-> StoreView(v, i)]

(* Mutated: the record table is copied, but not the payload it points to.  *)
DuplicateShallow(v, w) ==
  /\ HasStore(v) /\ cls[w] = "none"
  /\ cls'     = [cls EXCEPT ![w] = "charvec"]
  /\ size'    = [size EXCEPT ![w] = size[v]]
  /\ records' = [records EXCEPT ![w] = records[v]]
  /\ slices'  = [slices EXCEPT ![w] = slices[v]]
  /\ cached'  = [cached EXCEPT ![w] = [i \in Idx(v) |-> NoChunk]]
  /\ ret' = <<"copy", v, w>>
  /\ AfterRead(v)
  /\ UNCHANGED <<mem, chunks, data2>>

Duplicate(v, w) ==
  /\ cls[v] # "none" /\ cls[w] = "none"
  /\ IF HasStore(v) THEN NewCharvec(w, size[v], Views(v))
                    ELSE NewPlain(w, size[v], data2[v])
  /\ ret' = <<"copy", v, w>>
  /\ AfterRead(v)

SubsetView(v, s) ==
  LET i == subset_element(s, size[v])
  IN  IF i = NotSelected THEN NaView ELSE StoreView(v, i)

(* R's own subsetting of a materialized vector (the method returns NULL).  *)
DefaultSubset(v, s) ==
  IF RSubscript(s) \in 1 .. size[v] THEN data2[v][RSubscript(s) - 1] ELSE NA_STRING

Extract_subset(v, w) ==
  /\ cls[v] # "none" /\ cls[w] = "none"
  /\ \E m \in 0 .. MaxLen : \E s \in [0 .. m-1 -> Inputs] :
       /\ IF HasStore(v)
          THEN NewCharvec(w, m, [j \in 0 .. m-1 |-> SubsetView(v, s[j])])
          ELSE NewPlain(w, m, [j \in 0 .. m-1 |-> DefaultSubset(v, s[j])])
       /\ ret' = <<"subset", v, w, s>>
  /\ AfterRead(v)

(* The rebuilt Store is complete before the old one is freed, and the      *)
(* cache stays as it is.                                                   *)
Compact(v) ==
  /\ HasStore(v) /\ MayChange(v)
  /\ \E at \in Injection(Payload(Views(v)), Free) :
       /\ records' = [records EXCEPT ![v] = RecordsOf(Views(v), at)]
       /\ slices'  = [slices EXCEPT ![v] = Range(at)]
       /\ mem'     = Written(Views(v), at, slices[v])
  /\ ret' = NoResult
  /\ AfterRead(v)
  /\ UNCHANGED <<cls, size, cacheVars, data2>>

(* R's garbage collector finds the vector unreachable.                     *)
Collect(v) ==
  /\ cls[v] # "none" /\ borrow[v] = "none"
  /\ cls'   = [cls EXCEPT ![v] = "none"]
  /\ size'  = [size EXCEPT ![v] = 0]
  /\ data2' = [data2 EXCEPT ![v] = Nil]
  /\ Finalize(v, 0)
  /\ ret' = <<"drop", v>>
  /\ UNCHANGED borrow

-----------------------------------------------------------------------------
Empty == [i \in 0 .. -1 |-> Nil]

Init ==
  /\ cls     = [v \in Vec |-> "none"]
  /\ size    = [v \in Vec |-> 0]
  /\ records = [v \in Vec |-> Empty]
  /\ slices  = [v \in Vec |-> {}]
  /\ mem     = [e \in Ext |-> << >>]
  /\ chunks  = [v \in Vec |-> FALSE]
  /\ cached  = [v \in Vec |-> Empty]
  /\ data2   = [v \in Vec |-> Nil]
  /\ borrow  = [v \in Vec |-> "none"]
  /\ ret     = NoResult

Next ==
  \/ \E v \in Vec :
       \/ New(v) \/ EltMaterialized(v) \/ Materialize(v) \/ MaterializeFails(v)
       \/ Compact(v) \/ OpenReader(v) \/ GetStore(v) \/ EndBorrow(v) \/ Collect(v)
  \/ \E v \in Vec : \E i \in Idx(v) : Elt(v, i) \/ EltFails(v, i)
  \/ \E v \in Vec : \E i \in Idx(v) : \E x \in Input :
       Set_elt(v, i, x) \/ Set_eltMaterialized(v, i, x)
  \/ \E v \in Vec : \E i \in Idx(v) : \E view \in InputView : WriterSet(v, i, view)
  \/ \E v, w \in Vec : AsCharvec(v, w) \/ Duplicate(v, w) \/ Extract_subset(v, w)

Spec == Init /\ [][Next]_vars

-----------------------------------------------------------------------------
(* Every variable has its type, with per-vector functions over the         *)
(* vector's own positions: no chunk slot survives into data2, and no       *)
(* record or cache slot is missing.                                        *)
TypeOK ==
  /\ cls     \in [Vec -> {"none", "charvec", "plain"}]
  /\ size    \in [Vec -> 0 .. MaxLen]
  /\ DOMAIN records = Vec /\ DOMAIN cached = Vec /\ DOMAIN data2 = Vec
  /\ \A v \in Vec : records[v] \in [Idx(v) -> Record]
  /\ slices  \in [Vec -> SUBSET Ext]
  /\ mem     \in [Ext -> Str]
  /\ chunks  \in [Vec -> BOOLEAN]
  /\ \A v \in Vec : cached[v] \in [Idx(v) -> CHARSXP \cup {NoChunk}]
  /\ \A v \in Vec : data2[v] = Nil \/ data2[v] \in [Idx(v) -> CHARSXP]
  /\ borrow  \in [Vec -> {"none", "reader", "writer"}]

(* A CHARSXP in the Elt cache is the one the Store's record stands for, so *)
(* STRING_ELT returns the current string after any mix of assignments,     *)
(* Writer fills, rebuilds and failed reads ("it must stay in sync with the *)
(* Store").                                                                *)
CacheCoherent ==
  \A v \in Vec : HasStore(v) =>
    \A i \in Idx(v) : IsHit(cached[v][i]) => cached[v][i] = StoreString(v, i)

(* No two live records, of one Store or of two, share payload bytes, and   *)
(* every record points into slices its own Store still owns: an in-place   *)
(* rewrite reaches one element only, and freeing one Store leaves no       *)
(* dangling record elsewhere.                                              *)
Owns(v, i) == HasStore(v) /\ records[v][i].len > 0

BytesExclusive ==
  /\ \A v, w \in Vec : v # w => slices[v] \cap slices[w] = {}
  /\ \A v \in Vec : \A i \in Idx(v) : Owns(v, i) =>
       /\ records[v][i].ptr \in slices[v]
       /\ records[v][i].len <= Len(mem[records[v][i].ptr])
       /\ \A j \in Idx(v) \ {i} : Owns(v, j) => records[v][j].ptr # records[v][i].ptr

(* A Store's slices and its cache are gone once the vector is materialized *)
(* or collected: a vector never keeps two copies of its strings.           *)
StoreReleased ==
  \A v \in Vec : ~ HasStore(v) => slices[v] = {} /\ ~ chunks[v]

(* While a Reader is open on v, the views it handed out stay valid and     *)
(* unchanged, whatever is read from v or done to any other vector.         *)
ReaderViewsStable ==
  [][\A v \in Vec : borrow[v] = "reader" /\ borrow'[v] = "reader" =>
       /\ HasStore(v)'
       /\ records'[v] = records[v]
       /\ \A i \in Idx(v) : records[v][i].len > 0 =>
            mem'[records[v][i].ptr] = mem[records[v][i].ptr]]_vars

(* A charvec is a character vector: through caching, materialization,      *)
(* copying, rebuilding and failures, every vector keeps the strings R put  *)
(* there, and a read returns the current one.                              *)
Value(v) ==
  IF cls[v] = "none" THEN Nil
  ELSE [i \in Idx(v) |-> IF data2[v] # Nil THEN data2[v][i] ELSE StoreString(v, i)]

Abstract == INSTANCE StringVector WITH
              Absent <- Nil, val <- [v \in Vec |-> Value(v)], out <- ret

RefinesStringVector == Abstract!Spec
=============================================================================
