------------------------------ MODULE Builders ------------------------------
(***************************************************************************)
(* Builder, ParallelBuilder and GrowableBuilder, and the Stores they       *)
(* release (inst/include/charport/charvec/builder.h, store.h).             *)
(*                                                                         *)
(* Each worker of a ParallelBuilder has a shard: a chain of slices and a   *)
(* cursor into the first one.  The record table is common.  Workers run at *)
(* the same time; what a record is set to is stored in three steps: bytes  *)
(* are taken from the shard, the cursor is moved and the record written,   *)
(* and the bytes are copied in, by set() or later by the caller of         *)
(* reserve().  A Builder and a GrowableBuilder have one shard and no       *)
(* workers but the thread that calls them.  Indices are from 1.            *)
(*                                                                         *)
(* Of a SliceChain only the slices it owns and the one at its head matter. *)
(***************************************************************************)
EXTENDS Slices

CONSTANTS
  Obj,                           \* C++ objects, builders or Stores
  Kinds, Lengths, ShardCounts,   \* what is constructed: bounds of a run
  Input,                         \* views passed to set, reserve and append
  max_capacity                   \* of a record table

ASSUME BuildersAssumption ==
  /\ Kinds \subseteq {"Builder", "ParallelBuilder", "GrowableBuilder"}
  /\ Lengths \subseteq 0 .. max_capacity
  /\ ShardCounts \subseteq Nat \ {0}
  /\ Input \subseteq View
  /\ max_capacity \in Nat \ {0}

VARIABLES
  kind,     \* what each object is
  heap,     \* the bytes of every slice
  store,    \* the Store in each object
  shards,   \* the shards of each builder
  taken,    \* bytes workers have taken and not yet put in a record
  pending,  \* reservations whose bytes are not written yet
  text      \* history: what every record was last set to

vars == <<kind, heap, store, shards, taken, pending, text>>

Store  == [slices : SUBSET Slice, records : Seq(Record), capacity : Nat]
Shard  == [slices : SUBSET Slice, front : Slice \cup {Nil}, used : Nat, cap : Nat,
           allocated : Nat]

EmptyStore == [slices |-> {}, records |-> << >>, capacity |-> 0]
NewStore(n) == [slices |-> {}, records |-> [i \in 1 .. n |-> na_record], capacity |-> n]
EmptyShard == [slices |-> {}, front |-> Nil, used |-> 0, cap |-> 0, allocated |-> 0]

(* Every slice object b owns.                                              *)
Owned(b) == store[b].slices \cup UNION {shards[b][k].slices : k \in DOMAIN shards[b]}

FreedBy(S) == [s \in Slice |-> IF s \in S THEN Freed ELSE heap[s]]

(***************************************************************************)
(* allocate_bytes, in two parts: the place, and moving the cursor past it. *)
(***************************************************************************)
(* Mutated: an empty shard trusts the cursor.                              *)
needs_sliceCursorOnly(shard, len) == shard.cap - shard.used < len

needs_slice(shard, len) == shard.slices = {} \/ shard.cap - shard.used < len

with_slice(shard, s, size) ==
  [shard EXCEPT !.slices = @ \cup {s}, !.front = s, !.used = 0, !.cap = size]

(* The shard with room for len bytes at its cursor, and the heap then: in  *)
(* the slice it writes, or in a new one at any free address.               *)
Rooms(shard, len, hint) ==
  IF ~ needs_slice(shard, len) THEN {[shard |-> shard, heap |-> heap]}
  ELSE LET size == slice_bytes(initial_slice_heuristic(hint), shard.allocated, len) IN
       {[shard |-> with_slice(shard, s, size), heap |-> Allocated(heap, s, size)] :
          s \in FreeSlices(heap)}

(* The total only matters until half of it reaches max_slice_bytes.        *)
advanced(shard, len) ==
  [shard EXCEPT !.used = @ + len, !.allocated = Min2(@ + len, 2 * max_slice_bytes)]

cursor(shard) == [slice |-> shard.front, off |-> shard.used]

(***************************************************************************)
(* Builder and ParallelBuilder.                                            *)
(***************************************************************************)
Idle(b) == taken[b] = {}

(* Builder(n), ParallelBuilder(n, n_shards), GrowableBuilder().            *)
Construct(b, what, n, n_shards) ==
  /\ kind[b] = "none"
  /\ what # "ParallelBuilder" => n_shards = 1
  /\ kind'   = [kind EXCEPT ![b] = what]
  /\ store'  = [store EXCEPT ![b] = IF what = "GrowableBuilder" THEN EmptyStore ELSE NewStore(n)]
  /\ shards' = [shards EXCEPT ![b] = [k \in 1 .. n_shards |-> EmptyShard]]
  /\ text'   = [text EXCEPT ![b] = [i \in DOMAIN store'[b].records |-> NaView]]
  /\ UNCHANGED <<heap, taken, pending>>

(* reset(n) and reset(n, n_shards): everything is allocated before         *)
(* anything is let go, so a failure changes nothing.                       *)
reset(b, n, n_shards) ==
  /\ kind[b] \in {"Builder", "ParallelBuilder"} /\ Idle(b)
  /\ kind[b] = "Builder" => n_shards = 1
  /\ heap'    = FreedBy(Owned(b))
  /\ store'   = [store EXCEPT ![b] = NewStore(n)]
  /\ shards'  = [shards EXCEPT ![b] = [k \in 1 .. n_shards |-> EmptyShard]]
  /\ pending' = [pending EXCEPT ![b] = {}]
  /\ text'    = [text EXCEPT ![b] = [i \in 1 .. n |-> NaView]]
  /\ UNCHANGED <<kind, taken>>

(* Workers fill disjoint indices, each through its own shard.  A worker    *)
(* that gives an index out of bounds or too long a string gets an          *)
(* exception, and changes nothing.                                         *)
MaySet(b, k, i) ==
  /\ kind[b] \in {"Builder", "ParallelBuilder"}
  /\ k \in DOMAIN shards[b] /\ i \in DOMAIN store[b].records
  /\ \A x \in taken[b] : x.worker # k /\ x.index # i

SetRecord(b, i, r, view) ==
  /\ store' = [store EXCEPT ![b].records[i] = r]
  /\ text'  = [text EXCEPT ![b][i] = view]

(* Mutated: the encoding stays.                                            *)
set_emptyKeepsEnc(b, k, i, view) ==
  /\ MaySet(b, k, i) /\ Len(view.bytes) = 0
  /\ SetRecord(b, i, [store[b].records[i] EXCEPT !.at = nowhere, !.len = 0], view)
  /\ UNCHANGED <<kind, heap, shards, taken, pending>>

(* set or reserve of NA or of an empty string.                             *)
set_empty(b, k, i, view) ==
  /\ MaySet(b, k, i) /\ Len(view.bytes) = 0
  /\ SetRecord(b, i, [na_record EXCEPT !.enc = view.enc], view)
  /\ UNCHANGED <<kind, heap, shards, taken, pending>>

(* Mutated: every worker writes through the first shard.                   *)
shard_atFirst(k) == 1

shard_at(k) == k

(* Worker k finds room in its shard for a string.                          *)
Take(b, k, i, view) ==
  /\ MaySet(b, k, i) /\ Len(view.bytes) > 0
  /\ \E room \in Rooms(shards[b][shard_at(k)], Len(view.bytes), Len(store[b].records)) :
       /\ shards' = [shards EXCEPT ![b][shard_at(k)] = room.shard]
       /\ heap'   = room.heap
       /\ taken'  = [taken EXCEPT ![b] = @ \cup
            {[worker |-> k, index |-> i, view |-> view, at |-> cursor(room.shard)]}]
  /\ UNCHANGED <<kind, store, pending, text>>

(* It moves the cursor and writes the record.                              *)
Commit(b, x) ==
  /\ x \in taken[b]
  /\ shards'  = [shards EXCEPT ![b][shard_at(x.worker)] = advanced(@, Len(x.view.bytes))]
  /\ SetRecord(b, x.index, [at |-> x.at, len |-> Len(x.view.bytes), enc |-> x.view.enc], x.view)
  /\ taken'   = [taken EXCEPT ![b] = @ \ {x}]
  /\ pending' = [pending EXCEPT ![b] = @ \cup {[at |-> x.at, bytes |-> x.view.bytes]}]
  /\ UNCHANGED <<kind, heap>>

(* memcpy in set and append, or the caller of reserve writes the bytes: at *)
(* any later time, in any order, even once the Store has been released.    *)
Fill(b, p) ==
  /\ p \in pending[b]
  /\ heap'    = Written(heap, p.at, p.bytes)
  /\ pending' = [pending EXCEPT ![b] = @ \ {p}]
  /\ UNCHANGED <<kind, store, shards, taken, text>>

(***************************************************************************)
(* GrowableBuilder.                                                        *)
(***************************************************************************)
(* reserve_for_append.                                                     *)
grown(st) ==
  IF Len(st.records) < st.capacity THEN st
  ELSE [st EXCEPT !.capacity =
          IF @ = 0 THEN 1 ELSE IF @ > max_capacity \div 2 THEN max_capacity ELSE 2 * @]

(* Mutated: at its largest, the table takes one more.                      *)
CanGrowAlways(st) == TRUE

(* The table can take another record: if not, append throws.               *)
CanGrow(st) == Len(st.records) < st.capacity \/ grown(st).capacity > st.capacity

push_back_reserved(st, r) == [st EXCEPT !.records = Append(@, r)]

append_empty(b, view) ==
  /\ kind[b] = "GrowableBuilder" /\ CanGrow(store[b]) /\ Len(view.bytes) = 0
  /\ store' = [store EXCEPT ![b] = push_back_reserved(grown(@), [na_record EXCEPT !.enc = view.enc])]
  /\ text'  = [text EXCEPT ![b] = Append(@, view)]
  /\ UNCHANGED <<kind, heap, shards, taken, pending>>

append_reserve(b, view) ==
  /\ kind[b] = "GrowableBuilder" /\ CanGrow(store[b]) /\ Len(view.bytes) > 0
  /\ \E room \in Rooms(shards[b][1], Len(view.bytes), 0) :
       LET at == cursor(room.shard) IN
       /\ shards'  = [shards EXCEPT ![b][1] = advanced(room.shard, Len(view.bytes))]
       /\ heap'    = room.heap
       /\ store'   = [store EXCEPT ![b] = push_back_reserved(grown(@),
                        [at |-> at, len |-> Len(view.bytes), enc |-> view.enc])]
       /\ pending' = [pending EXCEPT ![b] = @ \cup {[at |-> at, bytes |-> view.bytes]}]
  /\ text' = [text EXCEPT ![b] = Append(@, view)]
  /\ UNCHANGED <<kind, taken>>

(* Mutated: the record is added before its bytes are allocated.            *)
append_failsLate(b, view) ==
  /\ kind[b] = "GrowableBuilder" /\ CanGrow(store[b])
  /\ needs_slice(shards[b][1], Len(view.bytes)) /\ Len(view.bytes) > 0
  /\ store' = [store EXCEPT ![b] = push_back_reserved(grown(@), na_record)]
  /\ UNCHANGED <<kind, heap, shards, taken, pending, text>>

(* A slice cannot be allocated: the table has grown, and nothing else.     *)
append_fails(b, view) ==
  /\ kind[b] = "GrowableBuilder" /\ CanGrow(store[b])
  /\ needs_slice(shards[b][1], Len(view.bytes)) /\ Len(view.bytes) > 0
  /\ store' = [store EXCEPT ![b] = grown(@)]
  /\ UNCHANGED <<kind, heap, shards, taken, pending, text>>

(***************************************************************************)
(* What happens to whole objects.                                          *)
(***************************************************************************)
(* Mutated: the slices of the first shard only.                            *)
finishedFirst(b) ==
  [store[b] EXCEPT !.slices = @ \cup UNION {shards[b][k].slices : k \in DOMAIN shards[b] \cap {1}}]

(* finish_store: the shards' slices go to the Store, and every shard is    *)
(* made new.                                                               *)
finished(b) == [store[b] EXCEPT !.slices = Owned(b)]

(* release_store, and to_sexp up to the wrapping: the Store leaves for     *)
(* object t, and the builder stays, empty.  The workers have been joined.  *)
release_store(b, t) ==
  /\ kind[b] \in {"Builder", "ParallelBuilder", "GrowableBuilder"} /\ Idle(b)
  /\ kind[t] = "none"
  /\ kind'    = [kind EXCEPT ![t] = "Store"]
  /\ store'   = [store EXCEPT ![t] = finished(b), ![b] = EmptyStore]
  /\ shards'  = [shards EXCEPT ![b] = [k \in DOMAIN @ |-> EmptyShard]]
  /\ pending' = [pending EXCEPT ![t] = pending[b], ![b] = {}]
  /\ text'    = [text EXCEPT ![t] = text[b], ![b] = << >>]
  /\ UNCHANGED <<heap, taken>>

(* Mutated: the chain is copied.                                           *)
MovedFromShares(b) == shards[b]

(* What a moved-from object is left with: no records and no slices, but    *)
(* the shard of a serial builder keeps its cursor's position.              *)
MovedFrom(b) ==
  IF kind[b] \in {"Builder", "GrowableBuilder"}
  THEN [k \in DOMAIN shards[b] |-> [shards[b][k] EXCEPT !.slices = {}, !.front = Nil]]
  ELSE << >>

(* Move construction of t from b, or move assignment, which first lets go  *)
(* of what t has.                                                          *)
Move(b, t) ==
  /\ b # t /\ kind[b] # "none" /\ kind[t] \in {"none", kind[b]}
  /\ Idle(b) /\ Idle(t)
  /\ kind'    = [kind EXCEPT ![t] = kind[b]]
  /\ heap'    = FreedBy(Owned(t))
  /\ store'   = [store EXCEPT ![t] = store[b], ![b] = EmptyStore]
  /\ shards'  = [shards EXCEPT ![t] = shards[b], ![b] = MovedFrom(b)]
  /\ pending' = [pending EXCEPT ![t] = pending[b], ![b] = {}]
  /\ text'    = [text EXCEPT ![t] = text[b], ![b] = << >>]
  /\ UNCHANGED taken

Destroy(b) ==
  /\ kind[b] # "none" /\ Idle(b)
  /\ kind'    = [kind EXCEPT ![b] = "none"]
  /\ heap'    = FreedBy(Owned(b))
  /\ store'   = [store EXCEPT ![b] = EmptyStore]
  /\ shards'  = [shards EXCEPT ![b] = << >>]
  /\ pending' = [pending EXCEPT ![b] = {}]
  /\ text'    = [text EXCEPT ![b] = << >>]
  /\ UNCHANGED taken

-----------------------------------------------------------------------------
Init ==
  /\ kind    = [b \in Obj |-> "none"]
  /\ heap    = [s \in Slice |-> Freed]
  /\ store   = [b \in Obj |-> EmptyStore]
  /\ shards  = [b \in Obj |-> << >>]
  /\ taken   = [b \in Obj |-> {}]
  /\ pending = [b \in Obj |-> {}]
  /\ text    = [b \in Obj |-> << >>]

Next ==
  \E b \in Obj :
    \/ \E what \in Kinds, n \in Lengths, m \in ShardCounts : Construct(b, what, n, m)
    \/ \E n \in Lengths, m \in ShardCounts : reset(b, n, m)
    \/ \E k \in DOMAIN shards[b], i \in DOMAIN store[b].records, view \in Input :
         set_empty(b, k, i, view) \/ Take(b, k, i, view)
    \/ \E x \in taken[b] : Commit(b, x)
    \/ \E p \in pending[b] : Fill(b, p)
    \/ \E view \in Input :
         append_empty(b, view) \/ append_reserve(b, view) \/ append_fails(b, view)
    \/ \E t \in Obj : release_store(b, t) \/ Move(b, t)
    \/ Destroy(b)

Spec == Init /\ [][Next]_vars

-----------------------------------------------------------------------------
Reads(b, i) == ViewOf(heap, store[b].records[i])

Payload(b) == {i \in DOMAIN store[b].records : store[b].records[i].len > 0}

(* Every variable has its type.  A record table never has more records     *)
(* than it has room for, and a cursor never passes the end of its slice.   *)
TypeOK ==
  /\ kind \in [Obj -> {"none", "Store", "Builder", "ParallelBuilder", "GrowableBuilder"}]
  /\ heap \in Memory
  /\ store \in [Obj -> Store]
  /\ shards \in [Obj -> Seq(Shard)]
  /\ \A b \in Obj :
       /\ taken[b] \subseteq [worker : Nat, index : Nat, view : Input, at : Place]
       /\ pending[b] \subseteq [at : Place, bytes : Str]
       /\ Len(store[b].records) <= store[b].capacity
       /\ store[b].capacity <= max_capacity
       /\ \A k \in DOMAIN shards[b] : shards[b][k].used <= shards[b][k].cap
  /\ text \in [Obj -> Seq(View)]

(* Every allocated slice belongs to exactly one chain, and a chain has no  *)
(* slice that is not allocated: through releases, moves and resets, every  *)
(* slice is freed once.                                                    *)
SlicesOwnedOnce ==
  /\ UNION {Owned(b) : b \in Obj} = {s \in Slice : heap[s] # Freed}
  /\ \A b, t \in Obj : b # t => Owned(b) \cap Owned(t) = {}
  /\ \A b \in Obj : \A k \in DOMAIN shards[b] :
       /\ store[b].slices \cap shards[b][k].slices = {}
       /\ \A m \in DOMAIN shards[b] : k # m => shards[b][k].slices \cap shards[b][m].slices = {}

(* Bytes given out, to a record or to a worker about to write one, lie in  *)
(* a slice their object owns, and no two records or workers have the same. *)
BytesDisjoint ==
  \A b \in Obj :
    LET uses == {<<store[b].records[i].at, store[b].records[i].len, i>> : i \in Payload(b)}
                \cup {<<x.at, Len(x.view.bytes), -x.worker>> : x \in taken[b]}
    IN  \A u \in uses :
          /\ u[1].slice \in Owned(b) /\ u[1].off + u[2] <= Len(heap[u[1].slice])
          /\ \A w \in uses : u # w => ~ Overlap(u[1], u[2], w[1], w[2])

(* A record whose bytes have been written reads as what it was last set    *)
(* to, whatever other workers, other builders, growth, failed appends,     *)
(* releases and moves did meanwhile.                                       *)
ReadsBack ==
  \A b \in Obj :
    /\ Len(store[b].records) = Len(text[b])
    /\ \A i \in DOMAIN text[b] :
         \/ Reads(b, i) = text[b][i]
         \/ \E p \in pending[b] : p.at = store[b].records[i].at
=============================================================================
