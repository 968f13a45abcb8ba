# A verification project for charport

charport is an R package that lets ALTREP character vectors be read without
turning them into ordinary R strings. A small broker finds, for any character
vector, the callbacks of the package that produced it; two classes of its own,
`charvec` and `charpack`, keep strings outside R until R asks for them.

This directory holds TLA+ modules translated from that code, TLC configurations
that check them on small instances, and TLAPS proofs for every value of the
constants. Paths below are relative to the repository; line numbers are in
`PROJECT.json` under `map`.

## 1. Inventory

| part | files | state it keeps | operations |
|---|---|---|---|
| strings and encodings | `types.h`, `detail.h`, top of `charvec_altrep.h` | none | classify, convert, validate a view |
| `charvec` class | `charvec_altrep.h`, `charvec_api.cpp` | `data1`: external pointer to a `Store`, whose protected slot is the Elt cache; `data2`: the materialized vector | Elt, Set_elt, Dataptr, Duplicate, Extract_subset, compact, get_store, serialize |
| `Store` | `charvec/store.h` | a `RecordTable` (pointer, length, encoding per string), a `SliceChain` of payload slices | set, set_na, reserve, push_front, prepend |
| builders | `charvec/builder.h` | shards with a slice cursor each | set, append, reset, finish |
| `Writer` | `charvec/writer.h` | a slice cursor into a `Store` R already holds | reserve, set, set_na, set_empty, copy |
| `charpack` class | `charpack_altrep.h`, `charpack_api.cpp` | `data1`: one immutable raw vector; `data2` | placeholder, fill, materialize, Duplicate, Extract_subset, serialize |
| registry, broker | `charport_registry.cpp` | table of classes and callbacks | register, unregister, resolve (unwrap, init, fall back) |
| `Reader` | `interop/reader.h` | one borrow: state, callbacks, owner flag | open, reset, move, release, views |
| ownership transfer | `MoveStore`, `wrap_store_with_cleanup`, `from_views` | a `Store` between C++ and R | wrap, clean up after an R error |
| serialization | both `_altrep.h` | none | states in a packed form or as strings |
| initialization, R wrappers | `charport_init.cpp`, `R/` | none | registration, `.Call` |

How they interact. R calls the ALTREP methods on the main thread, one at a
time, but any call that allocates may fail with an R error, which jumps over
everything after it, and may run finalizers. Consumers hold pointers into a
`Store` or a raw vector (a `Reader`, a `Writer`) across such calls, under
contracts the headers state and nothing checks. Copies made by R share or
rebuild payload. Serialized vectors outlive the session, and meet another byte
order and another locale. Only the builders run on worker threads.

What is hard, then, is staleness (the Elt cache against the Store, a view
against the memory it points into), aliasing (rewrites in place, raw vectors
shared by duplicates), partial failure (an R error half way through
materialization), boundaries (subscripts, narrow offsets), and the order of
calls on a placeholder or a borrow. `PROJECT.json`, `hazards`, lists each at its
line with the property that would catch it.

What makes each part correct:

- `charvec`, `charpack`: an R user cannot tell them from ordinary character
  vectors (refinement of `StringVector`); memory is freed exactly when it
  should be; borrowed views stay valid for as long as the contract says.
- `charpack`: the raw vector can always be read in place without a check, and
  a vector says the same text wherever it is read.
- broker and `Reader`: every state acquired is released once, with the
  callbacks it was acquired with; a vector that cannot be read directly falls
  back to R's strings.
- builders: no two records share bytes; a builder that fails leaves its input
  intact.
- `Writer`, assignment, compaction: the pieces of slices in use never overlap,
  and a record reads as what it was set to, wherever a fill stopped.
- transfer: a `Store` has one owner from the moment it is built, R gets it whole
  or it is freed, and it is freed exactly once, whatever R call fails
  (refinement of `StoreOwner`).
- serialization: what was written is always readable, says the same text, and
  what was altered is refused or at least well formed.

## 2. Plan

| # | modules | state |
|---|---|---|
| 1 | `Strings`, `Locales`, `Subscripts`, `StringVector` (abstract) | checked through the others; lemmas proved |
| 2 | `Charvec`, refining `StringVector` | checked; invariants and refinement proved |
| 3 | `PackLayout`, `Charpack`, refining `StringVector` | checked; every property that holds proved |
| 4 | `Broker`: registry, resolution through wrappers, and `Reader` | checked; every property proved |
| 5 | `Slices`, `Builders`: `Builder`, `ParallelBuilder` with its workers and shards, `GrowableBuilder` | checked; every property proved |
| 6 | `Slices`, `Writer`: Writers, assignment in place, compaction of one Store | checked; every property proved |
| 7 | `StoreOwner` (abstract), `StoreTransfer` refining it: who owns a `Store` around each R call that may fail | checked, with liveness; invariants and refinement proved |
| 8 | `CharvecCodec`: states CPV1 and CPV2 and their validation | checked; every property proved |

How they compose. `Charvec` takes from `Builders` and `Writer` that the pieces of
slices that records point to are disjoint: it keeps pieces ("extents") only, and
`BytesDisjoint` and `PiecesDisjoint` are what justifies that. `StoreTransfer`
takes a Store as one thing that is somewhere; `Charvec`'s `NewCharvec` is its
whole path, and `Charvec` starts from what `VectorsComplete` shows. `Charpack`
and `CharvecCodec` share `Locales`; a vector read by either is again one of
`StringVector`'s. What would come next: the two serialized forms as refinements
of one abstract transit of strings.

## 3. The modules and the code

**`Strings`** — a `View` (bytes, tag) is what a record denotes; a `CHARSXP` is a
value, since R interns strings. `make_charsxp`, `classify_charsxp`,
`charsxp_to_view` are the functions of those names. R's own
`Rf_mkCharLenCE` drops the mark of an ASCII string. A byte is ASCII or not;
nothing else about it matters here.

**`Subscripts`** — the arithmetic of `subset_store`'s index loop, and R's own
rule for the same subscripts. Reals are kept in halves, which is enough to tell
`n + 0.5` from `n + 1`.

**`Locales`** — what a CHARSXP says under a native encoding, and R's contract for
strings read under another one (`ReadString`, external; streams of version 3,
which name the writer's encoding).

**`StringVector`** — the abstract specification: a set of independent vectors
with `Create`, `Assign`, `Read`, `Copy`, `Subset`, `Drop`, and internal steps.
Its variable `out` shows the request and the answer (which element of which
vector, which subscripts), so an implementation cannot answer another question
than the one R asked.

**`Charvec`** — one action per ALTREP method and per entry point of
`charvec_api.cpp`.

| variable | code |
|---|---|
| `cls` | is there an ALTREP `charvec`, or an ordinary vector, under this handle |
| `records[v]` | the `RecordTable` of v's `Store` |
| `slices[v]` | the parts of v's slices handed out to records ("extents") |
| `mem` | the bytes in each extent |
| `chunks[v]`, `cached[v]` | `R_ExternalPtrProtected` of `data1`: the chunk list, and each slot (`NoChunk`: chunk not allocated; `R_BlankString`: a miss) |
| `data2[v]` | `R_altrep_data2` |
| `borrow[v]` | history: a caller holds a `Reader`, or the pointer from `get_store` |
| `ret` | history: what the last operation was asked, and what it returned to R |

Reads of a vector that change nothing (`no_NA`, `Inspect`, a `Reader`'s views)
are stutters. `EltFails` and `MaterializeFails` are R errors at each place where
the code leaves something behind. A failed allocation that leaves nothing is a
stutter. The guards on `borrow` are the contracts of `reader.h` and `writer.h`:
obligations of callers, so what is shown holds for callers that keep them.

**`PackLayout`** — the raw vector of a `charpack` as its fields, in a byte order;
`write_ends` with the wrap of narrow offsets, `total_bytes`, and `state_valid`
(`state_error` returning no error). Word-level encoding is abstracted to the
field `order`: a word read in the other order is garbage, so a state of the
wrong order is `truncated` (its count is huge) unless its head is zero.

**`Charpack`** — one action per ALTREP method and fill. `data1[v]` names a member
of `Raw`, whose contents are in `raw`; duplicates hold the same member. A
*session* is one R process, with a byte order that is fixed and a native
encoding that `Sys.setlocale` may change; `home[v]` is the session a vector
lives in, and `stream` carries one serialized vector between sessions. `texts` in `stream`,
`seen` and `ret` are history. A `Reader` on a charpack allocates nothing and
needs no release, so it is one action, `reader_strview`. A rejected fill and a
rejected state change nothing and are stutters. When a state that R's stream
carries as strings is read under another native encoding, R translates or marks
it: `ReadString` is that contract of R, marked external.
`TextSurvivesTransit` leaves out packed records whose tag says ASCII and whose
bytes are not (`falsely_ascii`), read under another native encoding than they
were written under: constructors store tags unchecked and a
producer must tag truthfully (`developer-guide.qmd:239`); of such a record R makes
a native string, and neither side knows that it depends on the locale.

**`Broker`** — resolution as it is on R 4.6 and later, where wrappers are read
through. All of it runs on R's main thread, but a provider's `init` may call R,
and so register or unregister classes, open, move and release other readers and
materialize vectors before it returns: the calls in progress are a stack.

| variable | code |
|---|---|
| `registry` | `altrep_registry()`: the callbacks of each class, or none |
| `storage` | which ALTREP vectors have R storage (`DATAPTR_OR_NULL` is not null) |
| `live` | the states `init` callbacks allocated, each with the callbacks it belongs to |
| `reader[s]` | a `charport_reader`, in a `Reader` object or in C; `src` is history: whose data it reads |
| `calls` | the C stack: for each `init` running, the slot and vector it serves and the local copy of the registry entry |

`Resolve` is `charport_resolve` up to the call of `init`; `InitAccepts`,
`InitDeclines` and `InitFails` are its three ends. A `reset` is a resolution
into a slot that has a borrow: `Install` replaces it only once the new one is
complete, as move assignment from the local `next` does, and an error before
that leaves it alone. `wrapped` is the loop of `resolve_wrapped`, with the
length guard and the depth limit. A base R wrapper that was materialized holds
its own copy and reads like an ordinary vector: that its data pointer duplicates
the vector inside, which others share, and leaves it as it is, is assumed of
base R, as `charport_registry.cpp:276-280` and the design rationale describe it.
`InnerLeftAlone` rests on it where resolution falls back to the wrapper.
`Materialize` by R needs that no
Reader borrows the vector (the strict borrow of `developer-guide.qmd:255`);
materialization by the broker's own fallback does not.

**`Builders`** — the three builders and the Stores they release.

| variable | code |
|---|---|
| `kind` | which C++ object is at each address |
| `heap` | the bytes of every slice; `Freed` when it is not allocated |
| `store[b]` | the `Store`: slices owned, records, capacity of the table |
| `shards[b]` | a `Shard` per worker: its slices, the one at the head, the cursor |
| `taken[b]` | a worker between finding room and writing the record |
| `pending[b]` | pointers from `reserve` (or within `set`) whose bytes are not written yet |
| `text[b]` | history: what each record was last set to |

`fill_record` is split where workers can be interleaved: `Take` finds room
(with `slice_bytes` and its caps and roundings as in the code), `Commit` moves
the cursor and writes the record, `Fill` copies the bytes. `append_fails` is an
append whose slice cannot be allocated after the table has grown; failures that
change nothing are stutters. `MovedFrom` is what the defaulted moves leave: no
slices, no records, but a serial builder's stale counters. The contract of
`developer-guide.qmd:527`, disjoint indices and a shard for each worker, is a
guard. The Store released here is what Charvec's `NewCharvec` wraps:
`BytesDisjoint` is the fact it assumes of it.

**`Slices`** — what builders and Writers share: memory as the bytes of every
slice (`Junk` until written), records that point into it, and the size of a new
slice, with the rounding and the fallback of `next_power_of_two` for values near
the width of a `size_t`.

**`Writer`** — one Store that R holds, and what changes it in place: any number of
Writers on the pointer from `get_store`, and R's own assignment and compaction.

| variable | code |
|---|---|
| `heap`, `records` | the bytes of every slice; the `RecordTable` |
| `writer[w]` | `slice_`, `left_`, `used_` of a Writer that is open |
| `held` | pointers from `reserve` that `set` has not been given, with what the caller has written there |
| `text` | history: what each record was last set to |

`reserve`, `Fill` (the caller's own writing), `set` and `copy` are separate
actions, so reservations of several records, by several Writers, overlap in any
order. `Close` may come at any time: a Writer has no destructor, and a longjmp
past one is the case of interest. `store_assign` and `compact_store` need that no
Writer is open: the contract of `writer.h:37-40`. That a reservation is given to
`set` once is not written there; it is how the model reads `writer.h:56`, "space
for len bytes, to be filled by the caller and then passed to set()". Were one
given twice, two records would share bytes, and an assignment to one, which
rewrites in place, would change the other.
`compact_store` lays records out in blocks of at most `max_block` bytes
(`ends` gives the block and the offset after each record, `overflows` says when a
block ends), as `rebuild_store` does with the largest 32-bit count.

**`StoreTransfer`** — where each Store is while it becomes an R object.

| variable | code |
|---|---|
| `mem[a]` | the Store at an address: a heap `Store`, or the one in a Builder; `Empty` when new or moved from, `Freed` when there is none |
| `ptr[x]` | an external pointer: its address, whether `Finalize` is registered, whether R holds its vector, whether that was materialized |
| `calls` | the C stack: each call's route, the R call it is at, the Store it has, the pointer it made |
| `lost` | history: what R errors have leaked |

Every R call between building and handing over is an action of its own
(`MakePtr`, `Register`, `Shell`, then the two ways of installing), and at each of
them `RError` may happen instead, or R code may run and begin another call, drop
or materialize a vector, or collect one. What follows an error depends on the
route: a cleanup function (`store_wrap_cleanup`, `bulk_builder_cleanup`), a
framework that turns it into an exception the scope may handle (`Abandon`), or
convert the Builder it still has once more (`Retry`: no code here does, but a
consumer may, its `Store` being intact as `design-rationale.qmd:91` promises), or nothing: `to_sexp` follows R error semantics, the documented
reason for its framework variants. `MoveStore` also fails when it has no memory
for its Store. `tools/native-cleanup/native_cleanup_probe.cpp` injects failures
at the same three R calls, one at a time and without nesting.

**`StoreOwner`** — the abstract specification of that: each Store's strings have
one owner (a guarded call, an unguarded one, R, nobody); they are built, handed
over, replaced or freed, and lost only by an unguarded call.

**`CharvecCodec`** — `Serialized_state` and `Unserialize` of a charvec, between
sessions as in `Charpack` (`home[v]` again is the one a vector lives in). A packed state is a record of its fields; `order` is
the byte order its words are in, `flag` the one it claims. `Serialized_state`
writes CPV2, little-endian; `OlderState` (external) is what earlier versions
wrote: CPV1 from any locale, either byte order. `parsed` is `charvec_parse_serialized`
and `charvec_parse_packed`, `check_records` the function of that name,
`unserialize_store` the building of the records, where a native record of CPV2
becomes UTF-8 unless the session is UTF-8. A byte read past the payload would be
`Junk`. A length beyond `R_xlen_t` and a rejected state change nothing. Two kinds
of packed record are bound to the locale they were written in (`locale_bound`)
and read as another text under another native encoding: native records of CPV1,
by design, and records whose encoding says ASCII though their bytes are not,
which the code takes for native ones. `TextSurvivesTransit` promises the text of
those only where the two encodings agree, and of every other record always.

## 4. Runs

| run | asks | size |
|---|---|---|
| `charvec_cache` | one vector, up to 3 elements over 2 chunks: is the Elt cache always right, are records alone on their bytes, is everything released | 215k states |
| `charvec_copies` | two vectors of up to 2: does every mix of copies, rewrites, rebuilds and collections behave as independent vectors, and do borrowed views last | 152k states |
| `charpack_copies` | three vectors sharing two raw vectors: independence, immutability, layout | 81k states |
| `charpack_transit` | a little-endian and a big-endian session, native encodings that change, states that arrive altered: does the text survive, is what is accepted well formed, does sending leave `data1` alone | 937k states |
| `broker_borrows` | two readers, three callback sets on two classes, resolutions nested two deep: is each state released once, by its own callbacks, and does a failed reset keep the borrow | 94k states |
| `broker_wrappers` | wrappers up to one level too deep over a charvec and over plain storage: is only what was asked for materialized, and only when what it holds cannot be read where it is | 96k states |
| `builders_parallel` | two workers on a ParallelBuilder of two records, two objects that are reset, released, moved and destroyed, late writes: are bytes given out once, slices freed once, and records as they were set | 313k states |
| `builders_growable` | Builder and GrowableBuilder up to a full table, failing appends, use after a move: the same | 1.2M states |
| `writer_fills` | two Writers on a vector of two records, two reservations pending, then assignments and compactions: are bytes in use once, do records read as set, and does a compaction leave nothing over | 503k states |
| `transfer_owners` | calls nested two deep by all four routes, with R errors, finalizers and retries, under fairness: is there one owner, are R's vectors whole, is `StoreOwner` implemented, does what a guarded call built reach R or get freed, is everything freed at exit | 125k states |
| `codec_transit` | a little-endian and a big-endian session, current and earlier states, native encodings that change, states cut, lengthened, or with other sizes, encodings or prefixes: is every unaltered state readable, does the text survive, do accepted altered ones tile their payload | 2.1M states |
| `charpack_seen` | **violated**: does a read before a fill make the fill fail | a trace of 4 states |

Bounds, and why they are enough. `ChunkSize = 2` with three elements gives a
full chunk, a partial one, and (with fewer elements) the single-chunk case that
Materialize promotes. Strings of one and two bytes give in-place rewrites that
fit exactly, fit with a remainder and do not fit; four extents let each element
be rewritten to fresh bytes while one is wasted. Two vectors suffice for a
source and a copy, and `charpack_copies` has a third so that a raw vector
outlives one of two sharers. `NarrowMod = 4` puts the boundary of narrow offsets
between payloads of 3 and of 4 bytes, both reached; `MaxRaw = 30` admits every
vector of two narrow records and two wide ones with at most 4 bytes;
`MaxString = 2` is exceeded by an altered end offset. The subscripts used are
the last element, one past it, `n + 0.5` and `n + 1`.
For the broker two readers give moves, nested resolutions on behalf of
different slots and a borrow that waits under another; three state addresses
let a state be allocated while both readers hold one; `max_unwrap_depth = 2`
has wrappers at, below and above the limit. For the builders an
alignment of 2 and a cap of 4 give slices that are full after one or two
strings, a string that needs a larger slice and a growth of the regular size;
a table of at most 3 records doubles, is cut to the limit, and refuses. The
count of allocated bytes stops at twice the cap, beyond which it has no effect.
For `Writer`, an alignment of 3 bytes with strings of one and two gives room left
over, a slice that is full and records that shrink in place; blocks of 2 bytes
give a compaction into one block that is full, and into two, the second of which
starts its offsets again; three slices let a Writer's slice, an assigned one and a
new one coexist. For `StoreTransfer`, two calls suffice for one inside another's
allocation, which may free and reuse any address the outer one does not hold,
and there are more addresses than a call uses at once. For `CharvecCodec`,
`MaxRaw = 26` is exceeded by two records with four bytes, `MaxString = 2` by an
altered size; the four views are NA, one native, one UTF-8 and one whose
encoding says ASCII of a byte that is not.
A VIEW leaves the history variable `ret` out of the
states compared: no guard and no property reads it before a step, and action
properties and refinement are checked on every step, so nothing is missed.
Symmetry is over extents, raw vectors, reader slots and state addresses, slices and builder objects and, where no constant tells them apart,
vectors. In the two `transit` runs one vector is enough: it is collected after
it was sent, and what arrives takes its place, in the same session or the other.
Only `transfer_owners` disables deadlock checking: after `Quit` and the exit
finalizers the R session is over.

Fairness. Only `transfer_owners` assumes any; everything else is safety, and
holds however R schedules. `FairSpec` says that the innermost call goes on
(strong fairness of `Wrapping` and of `Abandon` for each depth of the stack):
an R API call returns or raises an error, C++ code that builds comes to its end,
and a consumer's scope is left at some time. It is strong because a call is not
enabled while a call nested in one of its allocations runs; what is assumed is
that an allocation makes finitely many of those. The exit finalizers are weakly
fair: R runs all that are registered with `onexit` before it ends. Nothing is
assumed of the collector, of R letting go of vectors, or of errors not
happening. No symmetry is used in that run.

**The finding.** `charpack.h:18-20` says that a read before the fill makes the
fill fail. Reads through Materialize do. `No_NA`, `Duplicate`, `Extract_subset`
and `Serialized_state` answer for an empty vector and leave the placeholder
unfilled, so a later fill is accepted. `charpack_seen` shows it in three steps.

## 5. What is proved

For every value of the constants.
In `CharvecProofs`, for any sets of
vectors, extents, bytes and inputs, any length and any chunk size, in
`CharpackProofs`, for any vectors, raw vectors, sessions, byte orders, inputs
and sizes, in `CharvecCodecProofs`, for any vectors, sessions, byte orders,
inputs and alterations, and in `BrokerProofs`, for any vectors, classes, wrappers and callbacks, any number of
readers and any depth of nested resolutions, in `StoreTransferProofs`, for
any Stores, addresses and pointers, and any depth of nested calls, and in
`SlicesProofs`, `BuildersProofs` and `WriterProofs`, for any builders, Stores,
workers, Writers, slices, inputs and sizes:

- `TypeCorrect`, `CacheCorrect`, `PayloadExclusive`, `ReleaseComplete`: the four
  invariants of `charvec_cache`;
- `BorrowedViewsStable`: the action property of `charvec_copies`;
- `Refinement`: `Charvec` implements `StringVector`;
- `RoundTrip` (a CHARSXP survives being stored) and `SubsetFollowsR` (the
  subscript arithmetic agrees with R's), both pure facts.

- for `Charpack`, all that holds of it: `TypeCorrect`, `AlwaysWellLaid`,
  `Data1Immutable`, `TextSurvives`, and `Refinement`: it implements
  `StringVector`;

- for `CharvecCodec`, all it is checked for: `TypeCorrect`, `Readable`,
  `TextSurvives` and `AcceptedExactly`;

- for `Broker`, all it is checked for: `TypeCorrect`, `StatesOwnedOnce`,
  `StatesMeetTheirCallbacks`, `BorrowKept` and `InnerVectorsLeftAlone`; and
  `DirectReadsStorage`, that a borrow the broker serves itself reads R storage
  that exists, which no run repeats;

- for `StoreTransfer`: `TypeCorrect`, `StoresOwnedOnce`, `VectorsAreComplete`, and
  that it implements `StoreOwner` (`Refinement`);

- for `Builders`, all it is checked for: `TypeCorrect`, `SlicesOwned`,
  `BytesNeverShared` and `RecordsReadBack`;

- for `Writer`, all it is checked for: `TypeCorrect`, `PiecesNeverShared`,
  `RecordsReadBack` and `CompactionLeavesNothing`; and `SizeFits`, that a new slice has room for the string it
  is allocated for, whatever the alignment and the caps.

Assumptions: `StringsAssumption`, `SubscriptsAssumption` and
`CharvecAssumption`, `PackLayoutAssumption` and `CharpackAssumption` (a raw
vector has room for its head; the strings and lengths a fill is given are no
longer than an `int` can say, which their type makes so; R_NilValue is neither
a raw vector nor a vector of strings), `CodecAssumption` (sizes are naturals,
the inputs are no longer than a string of R can be, and `Absent` and `Junk` differ
from the values they stand beside), and `BrokerAssumption` (null, the in-place state and the
broker's own callbacks are not among the providers', and a package offers
callbacks for its own class), and `StoreTransferAssumption` (null is no address,
and an empty or freed Store holds no strings), and for `Builders` and `Writer`
`SlicesAssumption`, `BuildersAssumption` and `WriterAssumption` (sizes are
naturals, an alignment and a table's largest capacity are positive, `Junk`,
`Nil` and `Freed` differ from the values they stand beside). The first three say that ASCII bytes are bytes, that `NA_STRING`, NA
subscripts and `R_NilValue` differ from the values they stand beside, that the
inputs are of their types, and that sizes are naturals with at least one
element per chunk. TLC evaluates them in every run.

The argument, for `Charvec`. None of the four invariants is inductive alone. `CacheCoherent`
compares a cached string with bytes found through a record, so an assignment to
one element preserves it elsewhere only if no other record shares the bytes.
`BytesExclusive` speaks of live records, so freeing a Store preserves it only
if no other vector's records point there. `IInv` is therefore `TypeOK`, the
disjointness of the vectors' slices, and per vector `VecOK`: `HandleOK` (class,
`data2` and borrow agree), `StoreOK` (each record with payload lies in its own
slices, fits its extent and has it alone; without a Store nothing is owned) and
`CacheOK` (hits equal the record's string; no slot is filled without the chunk
list). `VecOK(v)` reads only v's state and the bytes in v's slices, so a step
on another vector keeps it (lemma `Frame`): each action needs an argument only
about the vector it changes. The cached and rebuilt Stores all go through
`BuiltStore` (records laid out over an injection into free extents) and
`ReadsStore` (what is read back is what was written). The refinement maps a
handle to `data2` or to the strings of its Store, and uses the invariant in the
same places: a hit returns the current string because of `CacheOK`, an
assignment changes one element because extents are exclusive.

For `Charpack`, `LayoutOK` is not inductive: a state in transit becomes the next
raw vector. `IInv` says of each vector that its raw vector is well laid and its
strings are strings (`VecOK`), and of the stream that what it carries is well
laid if it is accepted, and certainly as long as it is unaltered, that a native
record in it was written where native is UTF-8, and that `texts` is what it says
(`StreamOK`). Three facts about layouts carry it. What `alloc_data1` writes for
records that are valid is well laid (`AllocOK`): end offsets are running totals,
none above the payload, and a payload that `needs_wide` calls narrow is below
the wrap, so taking them modulo `NarrowMod` changes nothing (`WrittenEnds`).
Written for views, it reads back as those views (`AllocReads`): the k-th piece
of a concatenation lies between the running totals of the lengths (`Flattened`).
And an altered state that `state_error` accepts is well laid still
(`AcceptedIsLaid`), case by case over the alterations. A subset is then R's own
(`SubsetReads`, with `SelectedFollowsR` for the subscripts), a byte swap and a
retagging keep layout and text (`Swapped`, `Retagged`, `TextAdopted`), and each
operation either works on one vector (`Stepping`) or leaves them all alone
(`Stays`). What each does to the value of its vector (`Created`, `WasRead`, ...)
is stated once, and serves both the invariant and the refinement.

For `CharvecCodec`, `IInv` says that every vector holds strings R can hold
(`Shape`), that an unaltered packed state is some records in the format
(`WrittenAs`), under version 2 with a native one only if native was UTF-8 where
it was written, that an altered one still has no more sizes than its count says
(`StateOK`), and that `texts` is what the state says (`StreamOK`). It is in two
halves. From the format: `PackedFields` has the fields of a state add up, by the
totals of the sizes, to the concatenation its payload is; hence `PackedReads`,
that both byte orders pass every check and find the k-th record's bytes between
two totals, and `PackedSays`, that the records found say the text that was
written. From the checks alone, with nothing known of where a state came from:
`ParsedIsWhole`, that a state whose header is accepted has a size and an encoding
for each record, `RecordBytes`, that no accepted record reaches past the payload
(so `Junk` is never read), and `AcceptedIsExact`, that the records tile it. The
alterations matter to one lemma, `AlteredIsOK`.

For `Broker`, `ExactlyOneOwner` and `CallbacksMatch` need each other's company
and two facts of `TypeOK`: a borrow has a release callback exactly if its state
is one `init` allocated, and no two calls in progress serve one slot. Every
action either installs one borrow in one slot, lets go of one or moves one;
`InstallKeeps`, `ReleaseKeeps` and `MoveKeeps` carry the invariant through these
three, and `InstallElsewhere` says that other slots keep borrow and state, which
is what `BorrowKept` needs. `DirectInStorage` holds because storage only grows.

For `StoreTransfer`, `OneOwner` is about addresses, and a finalizer frees the
address its pointer holds: to keep it the proof needs to know which calls hold
which pointers, and what they have done with them. `IInv` adds that each call's
state fits its step (`FrameOK`, `PtrFits`: the pointer a call is at is made, not
yet held, armed from the step that registers it on, and has an address exactly
when the call is about to return), what holds of a pointer whoever has it
(`PointerOK`), that no two calls are at one address or one pointer and none is
at an address a pointer holds (`Apart`), and that the strings of a Store are at
one address and not among the lost ones (`ChainsOnce`). `VectorsComplete` is in
`PointerOK` and `ChainsOnce`. Each action changes one call, one pointer or one
address; the lemmas on the stack (`TopReplaced`, `TopGone`) say that the other
calls stay as they were.

Its refinement maps a Store to who holds the address its strings are at
(`OwnerOf`). With `IInv`, that is characterised by one holder (`Has`,
`OneHolder`), so a step that leaves a Store's address and holder alone is a
stutter of that Store (`OwnerKept`), and each other step hands over exactly one
(`Passes`), or replaces one by another at the same address (`Replaced`).

For `Builders`, `IInv` gathers all of an object in one record (`Object`) and says
of each object what `ObjOK` says of that record: types, a chain for each worker
(`ChainsOK`), and that records, reservations and what is left of each worker's
slice share no byte (`BytesApart`). `SlicesOwnedOnce` alone would not do: a
record that waits for its bytes reads back only because exactly one reservation
is for its place (`PendingOK`), and what a worker took stays its own only
because it is still at the cursor of its shard (`TakenOK`) when the record is
written. `ObjOK` depends on the object's own slices only (`Frame`), and no
slice has two owners (`Ownership`), so a step is an argument about the one
object it changes (`StepOne`), or about the two of a release or a move
(`HandedOver`). Setting a record is the same fact for `set`, `reserve` and
`append` (`Put`, `RecordPut`), and finding room for one in the slice at hand
or in a new one is another (`RoomFound`, by `SizeFits`).

For `Writer`, `IInv` says of each record, reservation and cursor that it is well
formed over the heap (`RecordIn`, `HeldIn`, `RoomIn`) and that no two of them
share a byte (`PiecesApart`). A step either takes a slice that was free or writes
at one place; `Patched` says so, `HeapStep` that whatever is apart from that
place is as it was, and `RecordPlaced` what it takes to set a record there. The
part a reservation or a cursor gives up is apart from all the whole was apart
from (`PartApart`). `compact_store` changes everything at once, and is about its
layout: within a block a record begins where an earlier one ended or later
(`EndsGrow`), and a block is as long as its last record's end (`BlockBytes`).
`CompactionTight` needs one invariant more, that no record is longer than a block
(`Short`): a block may then end at a record's end and not beyond `max_block`. The
records up to any one cover their block to its end (`EndsCovered`, by the least
record that fails it), and each slice that is left is one such block, whole
(`Compacted`).

## 6. Only model-checked

Liveness (`CallsSettle`, `ExitFreesAll`), which is out of the prover's reach, as
ENABLED is; and the finding. Every invariant, action property and refinement that
a run finds to hold is a theorem too.

The library's induction theorems take an operator as a parameter, which the
installed provers cannot instantiate. Where a recursive function counts over
naturals (`doubled`, `ends`, `running_total`, the function in `FlattenSeq`),
`SlicesProofs`, `CharpackProofs` and `CharvecCodecProofs` go round that with the
least counterexample (`Least`, from the well-foundedness of the inclusion of
finite sets, which is a fact about sets only), and the last two each prove the
lemmas on totals and concatenations they need. No module here declares a
RECURSIVE operator.

## 7. Not modelled

Packed states cut within their header, whose refusal is a comparison of lengths
(a modelled cut takes a byte of the payload, or the payload and the last record's
size and encoding), on which no property depends; resolution on R before 4.6, where a wrapper is materialized like any unregistered ALTREP vector; what the direct
callbacks and a Reader's access methods fill in, and `charport_get_sexp_info`,
which keep no state; the word-by-word conversion of byte
order; embedded NULs, which make `Rf_mkCharLenCE` raise an error (a byte of the
models is never NUL); attributes, which R copies; `Inspect`, printing and the R
wrappers, which keep no state; package initialization, a straight line of registrations, and the ABI version
check; the order of slices within a chain, copying a `RecordTable` and
`Store::scalar`; the probe, the tests and the benchmarks. Finalizers may run inside
any allocation: Charvec's `Collect` may happen between any two steps of
anything, but not in the middle of a method, whose own vector R protects.
