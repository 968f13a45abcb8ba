--------------------------- MODULE BuildersProofs ---------------------------
(***************************************************************************)
(* Theorems of module Builders, for any number of objects, workers and     *)
(* slices, all inputs, and every size of slices and tables.                *)
(***************************************************************************)
EXTENDS Builders, SlicesProofs

Kind        == {"none", "Store", "Builder", "ParallelBuilder", "GrowableBuilder"}
Taken       == [worker : Nat, index : Nat, view : Input, at : Place]
Reservation == [at : Place, bytes : Str]

(* All of an object.                                                       *)
Object(b) == [kind |-> kind[b], store |-> store[b], shards |-> shards[b],
              taken |-> taken[b], pending |-> pending[b], text |-> text[b]]

Records(o) == DOMAIN o.store.records
Rec(o, i)  == o.store.records[i]
Workers(o) == DOMAIN o.shards

Owns(o)  == o.store.slices \cup UNION {o.shards[k].slices : k \in Workers(o)}

Room(sh) == IF sh.slices = {} THEN 0 ELSE sh.cap - sh.used

Within(mem, own, at, n) == n > 0 => at.slice \in own /\ at.off + n <= Len(mem[at.slice])

ShardOK(mem, sh) ==
  /\ sh \in Shard /\ sh.used <= sh.cap
  /\ sh.slices # {} => sh.front \in sh.slices /\ Len(mem[sh.front]) = sh.cap

(* The slices of an object are allocated, and each is in one of its chains. *)
ChainsOK(mem, o) ==
  /\ \A s \in Owns(o) : s \in Slice /\ mem[s] # Freed
  /\ \A k \in Workers(o) : ShardOK(mem, o.shards[k]) /\ o.store.slices \cap o.shards[k].slices = {}
  /\ \A k, m \in Workers(o) : k # m => o.shards[k].slices \cap o.shards[m].slices = {}

KindOK(o) ==
  /\ o.kind = "none" => o.store.slices = {} /\ o.shards = << >> /\ o.pending = {}
                        /\ o.store.records = << >>
  /\ o.kind = "Store" => o.shards = << >>
  /\ o.kind \in {"Builder", "GrowableBuilder"} => Workers(o) = 1 .. 1
  /\ o.taken # {} => o.kind \in {"Builder", "ParallelBuilder"}

TypesOK(o) ==
  /\ o.kind \in Kind /\ o.store \in Store /\ o.shards \in Seq(Shard)
  /\ o.taken \subseteq Taken /\ o.pending \subseteq Reservation /\ o.text \in Seq(View)
  /\ Len(o.store.records) <= o.store.capacity /\ o.store.capacity <= max_capacity
  /\ Len(o.text) = Len(o.store.records)

(* A record has the size of its text, lies in the object, and reads as its *)
(* text or will when a reservation is filled.                              *)
RecordOK(mem, o, i) ==
  /\ Rec(o, i).len = Len(o.text[i].bytes) /\ Rec(o, i).enc = o.text[i].enc
  /\ Within(mem, Owns(o), Rec(o, i).at, Rec(o, i).len)
  /\ \/ ViewOf(mem, Rec(o, i)) = o.text[i]
     \/ \E p \in o.pending : p.at = Rec(o, i).at

(* A reservation is for a record's text, or for nothing any more.          *)
PendingOK(mem, o, p) ==
  /\ Len(p.bytes) > 0 /\ Within(mem, Owns(o), p.at, Len(p.bytes))
  /\ \A i \in Records(o) :
       \/ Rec(o, i).at = p.at /\ o.text[i].bytes = p.bytes
       \/ Apart2(Rec(o, i).at, Rec(o, i).len, p.at, Len(p.bytes))

(* What a worker has taken is what its shard offers next.                  *)
TakenOK(o, x) ==
  /\ x.worker \in Workers(o) /\ x.index \in Records(o)
  /\ x.at = cursor(o.shards[x.worker])
  /\ Len(x.view.bytes) \in 1 .. Room(o.shards[x.worker])

BytesApart(o) ==
  /\ \A i, j \in Records(o) : i # j =>
       Apart2(Rec(o, i).at, Rec(o, i).len, Rec(o, j).at, Rec(o, j).len)
  /\ \A p, q \in o.pending : p # q => Apart2(p.at, Len(p.bytes), q.at, Len(q.bytes))
  /\ \A k \in Workers(o) :
       /\ \A i \in Records(o) :
            Apart2(Rec(o, i).at, Rec(o, i).len, cursor(o.shards[k]), Room(o.shards[k]))
       /\ \A p \in o.pending :
            Apart2(p.at, Len(p.bytes), cursor(o.shards[k]), Room(o.shards[k]))

ObjOK(mem, o) ==
  /\ TypesOK(o) /\ KindOK(o) /\ ChainsOK(mem, o)
  /\ \A i \in Records(o) : RecordOK(mem, o, i)
  /\ \A p \in o.pending : PendingOK(mem, o, p)
  /\ \A x \in o.taken : TakenOK(o, x)
  /\ \A x, y \in o.taken : x # y => x.worker # y.worker /\ x.index # y.index
  /\ BytesApart(o)

(* No slice has two owners, and none that is allocated has none.           *)
Ownership ==
  /\ \A b, t \in Obj : b # t => Owns(Object(b)) \cap Owns(Object(t)) = {}
  /\ \A s \in Slice : heap[s] # Freed => \E b \in Obj : s \in Owns(Object(b))

Typed ==
  /\ heap \in Memory /\ kind \in [Obj -> Kind] /\ store \in [Obj -> Store]
  /\ shards \in [Obj -> Seq(Shard)] /\ taken \in [Obj -> SUBSET Taken]
  /\ pending \in [Obj -> SUBSET Reservation] /\ text \in [Obj -> Seq(View)]

IInv == Typed /\ Ownership /\ \A b \in Obj : ObjOK(heap, Object(b))

-----------------------------------------------------------------------------
LEMMA ApartSym ==
  ASSUME NEW p, NEW m, NEW q, NEW n, Apart2(p, m, q, n)
  PROVE  Apart2(q, n, p, m)
BY DEF Apart2, Overlap

LEMMA ObjTypes ==
  ASSUME NEW mem \in Memory, NEW o, ObjOK(mem, o)
  PROVE  /\ \A i \in Records(o) : /\ Rec(o, i) \in Record /\ Rec(o, i).at \in Place
                                  /\ Rec(o, i).len \in Nat /\ Rec(o, i).at.off \in Nat
                                  /\ o.text[i] \in View
                                  /\ i \in Nat
         /\ \A p \in o.pending : /\ p.at \in Place /\ p.at.off \in Nat
                                 /\ p.bytes \in Seq(Byte) /\ Len(p.bytes) \in Nat
         /\ \A k \in Workers(o) :
              /\ o.shards[k] \in Shard /\ cursor(o.shards[k]) \in Place
              /\ cursor(o.shards[k]).off = o.shards[k].used
              /\ cursor(o.shards[k]).slice = o.shards[k].front
              /\ Room(o.shards[k]) \in Nat
         /\ \A s \in Owns(o) : s \in Slice /\ mem[s] # Freed /\ Len(mem[s]) \in Nat
<1>1. TypesOK(o) /\ ChainsOK(mem, o)
  BY DEF ObjOK
<1>2. ASSUME NEW i \in Records(o)
      PROVE  /\ Rec(o, i) \in Record /\ Rec(o, i).at \in Place
             /\ Rec(o, i).len \in Nat /\ Rec(o, i).at.off \in Nat /\ o.text[i] \in View
             /\ i \in Nat
  <2>1. o.store.records \in Seq(Record) /\ o.text \in Seq(View)
        /\ Len(o.text) = Len(o.store.records)
    BY <1>1 DEF TypesOK, Store
  <2>2. Rec(o, i) \in Record /\ o.text[i] \in View /\ i \in Nat
    BY <2>1 DEF Rec, Records
  <2> QED BY <2>2 DEF Record, Place
<1>3. ASSUME NEW p \in o.pending
      PROVE  /\ p.at \in Place /\ p.at.off \in Nat /\ p.bytes \in Seq(Byte)
             /\ Len(p.bytes) \in Nat
  BY <1>1 DEF TypesOK, Reservation, Place, Str
<1>4. ASSUME NEW k \in Workers(o)
      PROVE  /\ o.shards[k] \in Shard /\ cursor(o.shards[k]) \in Place
             /\ cursor(o.shards[k]).off = o.shards[k].used
             /\ cursor(o.shards[k]).slice = o.shards[k].front
             /\ Room(o.shards[k]) \in Nat
  BY <1>1 DEF ChainsOK, ShardOK, Shard, cursor, Place, Room
<1>5. ASSUME NEW s \in Owns(o) PROVE s \in Slice /\ mem[s] # Freed /\ Len(mem[s]) \in Nat
  BY <1>1, SliceType DEF ChainsOK
<1> QED BY <1>2, <1>3, <1>4, <1>5

(* An object reads and owns nothing but its own slices.                    *)
LEMMA Frame ==
  ASSUME NEW mem \in Memory, NEW after, NEW o, ObjOK(mem, o),
         \A s \in Owns(o) : after[s] = mem[s]
  PROVE  ObjOK(after, o)
<1>1. ASSUME NEW at, NEW n, Within(mem, Owns(o), at, n)
      PROVE  Within(after, Owns(o), at, n)
  BY <1>1 DEF Within
<1>2. ChainsOK(after, o)
  <2>1. \A k \in Workers(o) : o.shards[k].slices \subseteq Owns(o)
    BY DEF Owns
  <2> QED BY <2>1 DEF ObjOK, ChainsOK, ShardOK
<1>3. ASSUME NEW i \in Records(o) PROVE RecordOK(after, o, i)
  <2>1. RecordOK(mem, o, i)
    BY DEF ObjOK
  <2>2. ViewOf(after, Rec(o, i)) = ViewOf(mem, Rec(o, i))
    <3>1. CASE Rec(o, i).len = 0
      BY <3>1 DEF ViewOf
    <3>2. CASE Rec(o, i).len # 0
      <4>1. Rec(o, i).at.slice \in Owns(o)
        BY <2>1, <3>2, ObjTypes DEF RecordOK, Within
      <4> QED BY <4>1 DEF ViewOf, BytesAt
    <3> QED BY <3>1, <3>2
  <2> QED BY <1>1, <2>1, <2>2 DEF RecordOK
<1>4. ASSUME NEW p \in o.pending PROVE PendingOK(after, o, p)
  BY <1>1 DEF ObjOK, PendingOK
<1> QED BY <1>2, <1>3, <1>4 DEF ObjOK

(* A step that changes only the objects of S, and only their slices.       *)
LEMMA Step ==
  ASSUME IInv, Typed', NEW S \in SUBSET Obj,
         \A c \in Obj \ S : /\ Object(c)' = Object(c)
                            /\ \A s \in Owns(Object(c)) : heap'[s] = heap[s],
         \A c \in S : ObjOK(heap', Object(c)'),
         \A c \in S : \A s \in Owns(Object(c)') :
            \/ heap[s] = Freed
            \/ \E t \in S : s \in Owns(Object(t)),
         \A c, t \in S : c # t => Owns(Object(c)') \cap Owns(Object(t)') = {},
         \A s \in Slice : heap'[s] # Freed =>
            \/ \E c \in S : s \in Owns(Object(c)')
            \/ heap[s] # Freed /\ \A c \in S : s \notin Owns(Object(c))
  PROVE  IInv'
<1>1. \A c \in Obj : ObjOK(heap, Object(c))
  BY DEF IInv
<1>2. ASSUME NEW c \in Obj PROVE ObjOK(heap', Object(c)')
  <2>1. CASE c \in S
    BY <2>1
  <2>2. CASE c \notin S
    <3> PICK o : o = Object(c)
      OBVIOUS
    <3>1. ObjOK(heap, o) /\ heap \in Memory /\ \A s \in Owns(o) : heap'[s] = heap[s]
      BY <1>1, <2>2 DEF IInv, Typed
    <3>2. ObjOK(heap', o)
      BY <3>1, Frame
    <3> QED BY <2>2, <3>2
  <2> QED BY <2>1, <2>2
<1>3. \A c, t \in Obj : c # t => Owns(Object(c)) \cap Owns(Object(t)) = {}
  BY DEF IInv, Ownership
<1>4. \A c \in Obj : \A s \in Owns(Object(c)) : s \in Slice /\ heap[s] # Freed
  BY <1>1 DEF ObjOK, ChainsOK
<1>5. ASSUME NEW c \in Obj, NEW t \in Obj, c # t
      PROVE  Owns(Object(c)') \cap Owns(Object(t)') = {}
  <2>1. CASE c \in S /\ t \in S
    BY <1>5, <2>1
  <2>2. CASE c \in S /\ t \notin S
    BY <1>3, <1>4, <2>2
  <2>3. CASE c \notin S /\ t \in S
    BY <1>3, <1>4, <2>3
  <2>4. CASE c \notin S /\ t \notin S
    BY <1>3, <1>5, <2>4
  <2> QED BY <2>1, <2>2, <2>3, <2>4
<1>6. ASSUME NEW s \in Slice, heap'[s] # Freed PROVE \E c \in Obj : s \in Owns(Object(c)')
  <2>1. CASE \E c \in S : s \in Owns(Object(c)')
    BY <2>1
  <2>2. CASE heap[s] # Freed /\ \A c \in S : s \notin Owns(Object(c))
    <3>1. PICK c \in Obj : s \in Owns(Object(c))
      BY <2>2 DEF IInv, Ownership
    <3> QED BY <2>2, <3>1
  <2> QED BY <1>6, <2>1, <2>2
<1> QED BY <1>2, <1>5, <1>6 DEF IInv, Ownership

-----------------------------------------------------------------------------
(* One object changes, and the heap only in slices it owns before or after. *)
LEMMA StepOne ==
  ASSUME IInv, Typed', NEW b \in Obj,
         \A c \in Obj : c # b => Object(c)' = Object(c),
         ObjOK(heap', Object(b)'),
         \A s \in Slice : s \notin Owns(Object(b)) /\ s \notin Owns(Object(b)') => heap'[s] = heap[s],
         \A s \in Owns(Object(b)') : heap[s] = Freed \/ s \in Owns(Object(b)),
         \A s \in Owns(Object(b)) : s \in Owns(Object(b)') \/ heap'[s] = Freed
  PROVE  IInv'
<1>1. /\ \A c \in Obj : \A s \in Owns(Object(c)) : s \in Slice /\ heap[s] # Freed
      /\ \A c \in Obj : c # b => Owns(Object(c)) \cap Owns(Object(b)) = {}
  BY DEF IInv, Ownership, ObjOK, ChainsOK
<1>2. ASSUME NEW c \in Obj \ {b}
      PROVE  /\ Object(c)' = Object(c)
             /\ \A s \in Owns(Object(c)) : heap'[s] = heap[s]
  BY <1>1
<1>3. \A s \in Slice : heap'[s] # Freed =>
        \/ s \in Owns(Object(b)')
        \/ heap[s] # Freed /\ s \notin Owns(Object(b))
  OBVIOUS
<1> DEFINE S == {b}
<1>4. S \in SUBSET Obj
  OBVIOUS
<1>5. /\ \A c \in Obj \ S : /\ Object(c)' = Object(c)
                            /\ \A s \in Owns(Object(c)) : heap'[s] = heap[s]
      /\ \A c \in S : ObjOK(heap', Object(c)')
      /\ \A c \in S : \A s \in Owns(Object(c)') :
            heap[s] = Freed \/ \E t \in S : s \in Owns(Object(t))
      /\ \A c, t \in S : c # t => Owns(Object(c)') \cap Owns(Object(t)') = {}
      /\ \A s \in Slice : heap'[s] # Freed =>
            \/ \E c \in S : s \in Owns(Object(c)')
            \/ heap[s] # Freed /\ \A c \in S : s \notin Owns(Object(c))
  BY <1>2, <1>3
<1> HIDE DEF S
<1> QED BY <1>4, <1>5, Step

(* An object without slices, whose records are all NA.                     *)
LEMMA EmptyOK ==
  ASSUME NEW mem, NEW o, TypesOK(o), KindOK(o), o.store.slices = {},
         \A k \in Workers(o) : o.shards[k].slices = {} /\ o.shards[k].used <= o.shards[k].cap,
         \A i \in Records(o) : Rec(o, i) = na_record /\ o.text[i] = NaView,
         o.taken = {}, o.pending = {}
  PROVE  ObjOK(mem, o) /\ Owns(o) = {}
<1>1. Owns(o) = {}
  BY DEF Owns
<1>2. ChainsOK(mem, o)
  <2>1. \A k \in Workers(o) : o.shards[k] \in Shard
    BY DEF TypesOK, Workers
  <2> QED BY <1>1, <2>1 DEF ChainsOK, ShardOK
<1>3. \A i \in Records(o) : RecordOK(mem, o, i)
  BY DEF RecordOK, Within, na_record, NaView, ViewOf
<1>4. BytesApart(o)
  BY DEF BytesApart, Apart2, na_record, Room
<1> QED BY <1>1, <1>2, <1>3, <1>4 DEF ObjOK

(* Room for len bytes at the cursor of shard k, in its slice or a new one. *)
HasRoom(mem, shard, len, room) ==
  \/ /\ room.shard = shard /\ room.heap = mem /\ len <= Room(shard)
  \/ \E s \in FreeSlices(mem), size \in Nat :
       /\ size >= len /\ room.heap = Allocated(mem, s, size)
       /\ room.shard = with_slice(shard, s, size)

LEMMA RoomOK ==
  ASSUME NEW mem \in Memory, NEW o, ObjOK(mem, o), NEW k \in Workers(o),
         NEW len \in Nat, len > 0, NEW hint \in Nat, mem = heap,
         NEW room \in Rooms(o.shards[k], len, hint)
  PROVE  HasRoom(mem, o.shards[k], len, room)
<1> USE DEF HasRoom
<1> PICK sh \in Shard : sh = o.shards[k] /\ sh.used <= sh.cap
  BY DEF ObjOK, ChainsOK, ShardOK
<1>1. sh.used \in Nat /\ sh.cap \in Nat /\ sh.allocated \in Nat
  BY DEF Shard
<1>2. CASE ~ needs_slice(sh, len)
  BY <1>1, <1>2 DEF Rooms, needs_slice, Room
<1>3. CASE needs_slice(sh, len)
  <2> DEFINE size == slice_bytes(initial_slice_heuristic(hint), sh.allocated, len)
  <2>1. size \in Nat /\ size >= len
    BY <1>1, SizeFits
  <2> HIDE DEF size
  <2> QED BY <1>3, <2>1 DEF Rooms, size
<1> QED BY <1>2, <1>3

(* The object with a new slice at the head of a shard.                     *)
Added(o, o2, k, s, size) ==
  /\ \A x \in o.taken : x.worker # k
  /\ o2.kind = o.kind /\ o2.store = o.store /\ o2.taken = o.taken
  /\ o2.pending = o.pending /\ o2.text = o.text
  /\ o2.shards = [o.shards EXCEPT ![k] = with_slice(@, s, size)]

LEMMA SliceAdded ==
  ASSUME NEW mem \in Memory, NEW o, ObjOK(mem, o), NEW k \in Workers(o),
         NEW s \in FreeSlices(mem), NEW size \in Nat,
         NEW o2, Added(o, o2, k, s, size)
  PROVE  /\ ObjOK(Allocated(mem, s, size), o2) /\ Owns(o2) = Owns(o) \cup {s}
         /\ Room(o2.shards[k]) = size /\ Workers(o2) = Workers(o)
         /\ o2.shards[k] = with_slice(o.shards[k], s, size)
<1> USE DEF Added
<1> PICK after : after = Allocated(mem, s, size)
  OBVIOUS
<1>1. /\ s \in Slice /\ mem[s] = Freed /\ after[s] # Freed /\ Len(after[s]) = size
      /\ \A u \in Slice \ {s} : after[u] = mem[u]
  BY AllocatedOK
<1>2. s \notin Owns(o) /\ \A u \in Owns(o) : u \in Slice /\ u # s
  BY <1>1, ObjTypes
<1>3. ObjOK(after, o)
  BY <1>1, <1>2, Frame
<1> PICK sh \in Shard : sh = o.shards[k]
  BY DEF ObjOK, ChainsOK, ShardOK
<1> PICK sh2 : sh2 = with_slice(sh, s, size)
  OBVIOUS
<1>4. /\ sh2 \in Shard /\ sh2.slices = sh.slices \cup {s} /\ sh2.front = s /\ sh2.used = 0
      /\ sh2.cap = size
  BY <1>1 DEF with_slice, Shard
<1>5. /\ Workers(o2) = Workers(o) /\ o2.shards[k] = sh2 /\ o2.shards \in Seq(Shard)
      /\ \A m \in Workers(o) : m # k => o2.shards[m] = o.shards[m]
  <2>1. o.shards \in Seq(Shard)
    BY DEF ObjOK, TypesOK
  <2> QED BY <1>4, <2>1 DEF Workers
<1>6. Owns(o2) = Owns(o) \cup {s}
  BY <1>4, <1>5 DEF Owns
<1>7. Room(sh2) = size /\ cursor(sh2) = [slice |-> s, off |-> 0]
  BY <1>4 DEF Room, cursor
<1>8. TypesOK(o2) /\ KindOK(o2)
  <2>1. TypesOK(o) /\ KindOK(o)
    BY DEF ObjOK
  <2>2. TypesOK(o2)
    BY <1>5, <2>1 DEF TypesOK
  <2>3. o2.shards # << >> /\ o.shards # << >>
    BY <1>5 DEF Workers
  <2> QED BY <1>5, <2>1, <2>2, <2>3 DEF KindOK
<1>9. ChainsOK(after, o2)
  <2>1. ChainsOK(after, o)
    BY <1>3 DEF ObjOK
  <2>2. \A m \in Workers(o) : s \notin o.shards[m].slices /\ s \notin o.store.slices
    BY <1>2 DEF Owns
  <2>3. ShardOK(after, sh2)
    BY <1>1, <1>4 DEF ShardOK
  <2> QED BY <1>1, <1>4, <1>5, <1>6, <2>1, <2>2, <2>3 DEF ChainsOK
<1>10. Records(o2) = Records(o) /\ \A i \in Records(o) : Rec(o2, i) = Rec(o, i)
  BY DEF Records, Rec
<1>11. \A i \in Records(o) : RecordOK(after, o2, i)
  BY <1>3, <1>6, <1>10 DEF ObjOK, RecordOK, Within
<1>12. \A p \in o.pending : PendingOK(after, o2, p)
  BY <1>3, <1>6, <1>10 DEF ObjOK, PendingOK, Within
<1>13. \A x \in o.taken : TakenOK(o2, x)
  BY <1>3, <1>5, <1>10 DEF ObjOK, TakenOK
<1>14. /\ \A i \in Records(o) : Apart2(Rec(o, i).at, Rec(o, i).len, cursor(sh2), Room(sh2))
       /\ \A p \in o.pending : Apart2(p.at, Len(p.bytes), cursor(sh2), Room(sh2))
  BY <1>2, <1>7 DEF ObjOK, RecordOK, PendingOK, Within, Apart2, Overlap
<1>15. BytesApart(o2)
  BY <1>3, <1>5, <1>10, <1>14 DEF ObjOK, BytesApart
<1> QED BY <1>3, <1>5, <1>6, <1>7, <1>8, <1>9, <1>10, <1>11, <1>12, <1>13, <1>15 DEF ObjOK

LEMMA AdvancedType ==
  ASSUME NEW sh \in Shard, NEW n \in Nat
  PROVE  /\ advanced(sh, n) \in Shard /\ advanced(sh, n).slices = sh.slices
         /\ advanced(sh, n).front = sh.front /\ advanced(sh, n).used = sh.used + n
         /\ advanced(sh, n).cap = sh.cap
<1>1. PICK total \in Nat : total = Min2(sh.allocated + n, 2 * max_slice_bytes)
  <2>1. sh.allocated \in Nat
    BY DEF Shard
  <2> QED BY <2>1, SlicesAssumption DEF Min2
<1>2. PICK used \in Nat : used = sh.used + n
  BY DEF Shard
<1>3. advanced(sh, n) = [sh EXCEPT !.used = used, !.allocated = total]
  BY <1>1, <1>2 DEF advanced
<1> QED BY <1>2, <1>3 DEF Shard

(* Record i, old or new, is set to view, at the cursor of shard k, which   *)
(* moves past it, or without bytes.                                        *)
Put(o, o2, k, i, view) ==
  /\ Records(o) \subseteq Records(o2) /\ Records(o2) \subseteq Records(o) \cup {i}
  /\ \A j \in Records(o) : j # i => Rec(o2, j) = Rec(o, j) /\ o2.text[j] = o.text[j]
  /\ o2.store.slices = o.store.slices /\ o2.text[i] = view
  /\ Rec(o2, i).len = Len(view.bytes) /\ Rec(o2, i).enc = view.enc
  /\ o2.taken \subseteq o.taken
  /\ \/ /\ Len(view.bytes) = 0
        /\ o2.shards = o.shards /\ o2.pending = o.pending
     \/ /\ Len(view.bytes) \in 1 .. Room(o.shards[k])
        /\ Rec(o2, i).at = cursor(o.shards[k])
        /\ o2.shards = [o.shards EXCEPT ![k] = advanced(@, Len(view.bytes))]
        /\ o2.pending = o.pending \cup {[at |-> cursor(o.shards[k]), bytes |-> view.bytes]}
        /\ \A x \in o2.taken : x.worker # k

LEMMA RecordPut ==
  ASSUME NEW mem \in Memory, NEW o, ObjOK(mem, o), NEW o2, TypesOK(o2), KindOK(o2),
         NEW k \in Workers(o), NEW i \in Records(o2), NEW view \in View, Put(o, o2, k, i, view)
  PROVE  ObjOK(mem, o2) /\ Owns(o2) = Owns(o)
<1> PICK n \in Nat : n = Len(view.bytes)
  BY DEF View, Str
<1> USE DEF Put
<1>1. /\ TypesOK(o) /\ ChainsOK(mem, o) /\ BytesApart(o)
      /\ \A j \in Records(o) : RecordOK(mem, o, j)
      /\ \A p \in o.pending : PendingOK(mem, o, p)
      /\ \A x \in o.taken : TakenOK(o, x)
      /\ \A x, y \in o.taken : x # y => x.worker # y.worker /\ x.index # y.index
  BY DEF ObjOK
<1> PICK r \in Record : r = Rec(o2, i)
  BY DEF TypesOK, Store, Rec, Records
<1>2. CASE n = 0 /\ o2.shards = o.shards /\ o2.pending = o.pending
  <2>1. Owns(o2) = Owns(o) /\ Workers(o2) = Workers(o)
    BY <1>2 DEF Owns, Workers
  <2>2. ChainsOK(mem, o2)
    BY <1>1, <1>2, <2>1 DEF ChainsOK
  <2>3. \A j \in Records(o2) : RecordOK(mem, o2, j)
    <3>1. RecordOK(mem, o2, i)
      <4>1. r.len = 0 /\ r.len = Len(view.bytes) /\ r.enc = view.enc
        BY <1>2
      <4>2. \A j \in 1 .. r.len : mem[r.at.slice][r.at.off + j] = view.bytes[j]
        BY <4>1
      <4>3. r \in Record /\ view \in View
        OBVIOUS
      <4>4. ViewOf(mem, r) = view
        BY ONLY <4>1, <4>2, <4>3, ViewRead
      <4> QED BY <4>1, <4>4 DEF RecordOK, Within
    <3>2. ASSUME NEW j \in Records(o), j # i PROVE RecordOK(mem, o2, j)
      BY <1>1, <1>2, <2>1, <3>2 DEF RecordOK
    <3> QED BY <3>1, <3>2
  <2>4. \A q, m : Apart2(r.at, 0, q, m) /\ Apart2(q, m, r.at, 0)
    BY DEF Apart2
  <2>5. \A p \in o2.pending : PendingOK(mem, o2, p)
    BY <1>1, <1>2, <2>1, <2>4 DEF PendingOK
  <2>6. \A x \in o2.taken : TakenOK(o2, x)
    BY <1>1, <1>2, <2>1 DEF TakenOK
  <2>7. BytesApart(o2)
    BY <1>1, <1>2, <2>1, <2>4 DEF BytesApart
  <2> QED BY <1>1, <2>1, <2>2, <2>3, <2>5, <2>6, <2>7 DEF ObjOK
<1>3. CASE /\ n \in 1 .. Room(o.shards[k]) /\ r.at = cursor(o.shards[k])
           /\ o2.shards = [o.shards EXCEPT ![k] = advanced(@, n)]
           /\ o2.pending = o.pending \cup {[at |-> cursor(o.shards[k]), bytes |-> view.bytes]}
           /\ \A x \in o2.taken : x.worker # k
  <2> PICK sh \in Shard : sh = o.shards[k]
    BY <1>1 DEF ChainsOK, ShardOK
  <2> PICK sh2 : sh2 = advanced(sh, n)
    OBVIOUS
  <2> PICK at : at = cursor(sh)
    OBVIOUS
  <2> PICK p : p = [at |-> at, bytes |-> view.bytes]
    OBVIOUS
  <2>1. /\ sh.used \in Nat /\ sh.cap \in Nat /\ sh.slices # {} /\ n > 0
        /\ sh.used + n <= sh.cap /\ Room(sh) = sh.cap - sh.used
        /\ sh.front \in sh.slices /\ Len(mem[sh.front]) = sh.cap
        /\ at.slice = sh.front /\ at.off = sh.used /\ at \in Place
    BY <1>1, <1>3 DEF Room, Shard, ChainsOK, ShardOK, cursor, Place
  <2>2. /\ sh2 \in Shard /\ sh2.slices = sh.slices /\ sh2.front = sh.front
        /\ sh2.used = sh.used + n /\ sh2.cap = sh.cap
    BY AdvancedType
  <2>3. /\ Workers(o2) = Workers(o) /\ o2.shards[k] = sh2
        /\ \A m \in Workers(o) : m # k => o2.shards[m] = o.shards[m]
    BY <1>1, <1>3 DEF Workers, TypesOK
  <2>4. Owns(o2) = Owns(o) /\ sh.front \in Owns(o)
    BY <2>1, <2>2, <2>3 DEF Owns
  <2>5. ChainsOK(mem, o2)
    <3>1. ShardOK(mem, sh2)
      BY <2>1, <2>2 DEF ShardOK
    <3> QED BY <1>1, <2>2, <2>3, <2>4, <3>1 DEF ChainsOK
  <2>6. /\ cursor(sh2) = [slice |-> sh.front, off |-> sh.used + n]
        /\ Room(sh2) = sh.cap - (sh.used + n)
    BY <2>1, <2>2 DEF cursor, Room
  <2>7. Within(mem, Owns(o), at, n)
    BY <2>1, <2>4 DEF Within
  <2>8. p \in o2.pending /\ p.at = at /\ p.bytes = view.bytes /\ o2.pending = o.pending \cup {p}
    BY <1>3
  <2>9. \A j \in Records(o2) : RecordOK(mem, o2, j)
    <3>1. RecordOK(mem, o2, i)
      BY <1>3, <2>4, <2>7, <2>8 DEF RecordOK
    <3> QED BY <1>1, <2>4, <2>8, <3>1 DEF RecordOK
  <2>10. ASSUME NEW q, NEW m \in Nat, q \in Place, Apart2(q, m, cursor(sh), Room(sh))
         PROVE  /\ Apart2(q, m, at, n) /\ Apart2(at, n, q, m)
                /\ Apart2(q, m, cursor(sh2), Room(sh2))
    <3>1. q.off \in Nat
      BY <2>10 DEF Place
    <3>2. /\ cursor(sh).slice = at.slice /\ cursor(sh).off = at.off /\ at.off \in Nat
          /\ cursor(sh2).slice = at.slice /\ cursor(sh2).off = at.off + n
          /\ Room(sh) \in Nat /\ n <= Room(sh) /\ Room(sh2) = Room(sh) - n
      <4>1. cursor(sh).slice = at.slice /\ cursor(sh).off = at.off /\ at.off \in Nat
        BY <2>1
      <4>2. cursor(sh2).slice = at.slice /\ cursor(sh2).off = at.off + n
        BY <2>1, <2>6
      <4>3. Room(sh) \in Nat /\ n <= Room(sh) /\ Room(sh2) = Room(sh) - n
        <5>1. /\ sh.used \in Nat /\ sh.cap \in Nat /\ n \in Nat /\ sh.used + n <= sh.cap
              /\ Room(sh) = sh.cap - sh.used /\ Room(sh2) = sh.cap - (sh.used + n)
          BY <2>1, <2>6
        <5> QED BY ONLY <5>1
      <4> QED BY <4>1, <4>2, <4>3
    <3>3. Apart2(q, m, at, n)
      BY <2>10, <3>1, <3>2 DEF Apart2, Overlap
    <3>4. Apart2(q, m, cursor(sh2), Room(sh2))
      BY <2>10, <3>1, <3>2 DEF Apart2, Overlap
    <3> QED BY <3>3, <3>4, ApartSym
  <2>11. /\ \A j \in Records(o) : Apart2(Rec(o, j).at, Rec(o, j).len, cursor(sh), Room(sh))
         /\ \A q \in o.pending : Apart2(q.at, Len(q.bytes), cursor(sh), Room(sh))
    BY <1>1 DEF BytesApart
  <2>12. /\ \A j \in Records(o) :
              /\ Apart2(Rec(o, j).at, Rec(o, j).len, at, n) /\ Apart2(at, n, Rec(o, j).at, Rec(o, j).len)
              /\ Apart2(Rec(o, j).at, Rec(o, j).len, cursor(sh2), Room(sh2))
         /\ \A q \in o.pending :
              /\ Apart2(q.at, Len(q.bytes), at, n) /\ Apart2(at, n, q.at, Len(q.bytes))
              /\ Apart2(q.at, Len(q.bytes), cursor(sh2), Room(sh2))
    BY <2>10, <2>11, ObjTypes
  <2>13. Apart2(at, n, cursor(sh2), Room(sh2))
    BY <2>1, <2>6 DEF Apart2, Overlap
  <2>14. \A m \in Workers(o) : m # k => Apart2(at, n, cursor(o.shards[m]), Room(o.shards[m]))
    <3> SUFFICES ASSUME NEW m \in Workers(o), m # k, Room(o.shards[m]) > 0
                 PROVE  cursor(o.shards[m]).slice # at.slice
      BY DEF Apart2, Overlap
    <3>1. o.shards[m].front \in o.shards[m].slices
      BY <1>1 DEF Room, ChainsOK, ShardOK
    <3>2. o.shards[m].slices \cap sh.slices = {}
      BY <1>1 DEF ChainsOK
    <3> QED BY <2>1, <3>1, <3>2 DEF cursor
  <2>15. \A q \in o2.pending : PendingOK(mem, o2, q)
    <3>1. ASSUME NEW q \in o.pending PROVE PendingOK(mem, o2, q)
      <4>1. Apart2(r.at, r.len, q.at, Len(q.bytes))
        BY <1>3, <2>12
      <4> QED BY <1>1, <2>4, <4>1 DEF PendingOK
    <3>2. PendingOK(mem, o2, p)
      BY <1>3, <2>1, <2>4, <2>7, <2>8, <2>12 DEF PendingOK
    <3> QED BY <2>8, <3>1, <3>2
  <2>16. \A x \in o2.taken : TakenOK(o2, x)
    BY <1>1, <1>3, <2>3 DEF TakenOK
  <2>17. BytesApart(o2)
    <3>1. ASSUME NEW j \in Records(o2), NEW m \in Records(o2), j # m
          PROVE  Apart2(Rec(o2, j).at, Rec(o2, j).len, Rec(o2, m).at, Rec(o2, m).len)
      BY <1>1, <1>3, <2>12, <3>1 DEF BytesApart
    <3>2. \A q, u \in o2.pending : q # u => Apart2(q.at, Len(q.bytes), u.at, Len(u.bytes))
      BY <1>1, <2>8, <2>12 DEF BytesApart
    <3>3. ASSUME NEW m \in Workers(o), NEW j \in Records(o2)
          PROVE  Apart2(Rec(o2, j).at, Rec(o2, j).len, cursor(o2.shards[m]), Room(o2.shards[m]))
      BY <1>1, <1>3, <2>3, <2>12, <2>13, <2>14 DEF BytesApart
    <3>4. ASSUME NEW m \in Workers(o), NEW q \in o2.pending
          PROVE  Apart2(q.at, Len(q.bytes), cursor(o2.shards[m]), Room(o2.shards[m]))
      BY <1>1, <2>3, <2>8, <2>12, <2>13, <2>14 DEF BytesApart
    <3> QED BY <2>3, <3>1, <3>2, <3>3, <3>4 DEF BytesApart
  <2> QED BY <1>1, <2>4, <2>5, <2>9, <2>15, <2>16, <2>17 DEF ObjOK
<1> QED BY <1>2, <1>3

(* A reservation is filled.                                                *)
LEMMA FillOK ==
  ASSUME NEW mem \in Memory, NEW o, ObjOK(mem, o), NEW p \in o.pending,
         NEW o2, o2.kind = o.kind, o2.store = o.store, o2.shards = o.shards, o2.taken = o.taken,
         o2.pending = o.pending \ {p}, o2.text = o.text
  PROVE  /\ ObjOK(Written(mem, p.at, p.bytes), o2) /\ Owns(o2) = Owns(o)
         /\ Written(mem, p.at, p.bytes) \in Memory
         /\ \A s \in Slice : s \notin Owns(o) => Written(mem, p.at, p.bytes)[s] = mem[s]
<1> PICK after : after = Written(mem, p.at, p.bytes)
  OBVIOUS
<1> PICK n : n = Len(p.bytes)
  OBVIOUS
<1>1. /\ p.at \in Place /\ p.bytes \in Seq(Byte) /\ n \in Nat /\ n > 0
      /\ p.at.slice \in Owns(o) /\ InHeap(mem, p.at, n)
      /\ p.at.slice \in Slice
  BY ObjTypes DEF ObjOK, PendingOK, Within, InHeap
<1>2. /\ Patched(mem, after, p.at, n)
      /\ \A j \in 1 .. n : after[p.at.slice][p.at.off + j] = p.bytes[j]
      /\ \A s \in Slice : s # p.at.slice => after[s] = mem[s]
  BY <1>1, WrittenOK
<1>3. after \in Memory /\ \A s \in Slice : s \notin Owns(o) => after[s] = mem[s]
  BY <1>1, <1>2 DEF Patched
<1>4. Workers(o2) = Workers(o) /\ Owns(o2) = Owns(o)
      /\ Records(o2) = Records(o) /\ \A i \in Records(o) : Rec(o2, i) = Rec(o, i)
  BY DEF Workers, Owns, Records, Rec
<1>5. \A s \in Owns(o) : s \in Slice /\ mem[s] # Freed /\ after[s] # Freed /\ Len(after[s]) = Len(mem[s])
  BY <1>2, ObjTypes DEF Patched
<1>6. ASSUME NEW at, NEW m, Within(mem, Owns(o), at, m) PROVE Within(after, Owns(o), at, m)
  BY <1>5, <1>6 DEF Within
<1>7. ChainsOK(after, o2)
  <2>1. \A k \in Workers(o) : o.shards[k].slices \subseteq Owns(o)
    BY DEF Owns
  <2> QED BY <1>4, <1>5, <2>1 DEF ObjOK, ChainsOK, ShardOK
<1>8. ASSUME NEW i \in Records(o) PROVE RecordOK(after, o2, i)
  <2> PICK r \in Record : r = Rec(o, i) /\ r.at \in Place /\ r.len \in Nat
    BY ObjTypes
  <2> PICK view \in View : view = o.text[i]
    BY ObjTypes
  <2>1. /\ r.len = Len(view.bytes) /\ r.enc = view.enc /\ Within(mem, Owns(o), r.at, r.len)
        /\ ViewOf(mem, r) = view \/ \E q \in o.pending : q.at = r.at
        /\ (r.at = p.at /\ view.bytes = p.bytes) \/ Apart2(r.at, r.len, p.at, n)
    BY DEF ObjOK, RecordOK, PendingOK
  <2>2. ViewOf(after, r) = view \/ \E q \in o.pending \ {p} : q.at = r.at
    <3>1. CASE r.len = 0
      <4>1. \A j \in 1 .. r.len : after[r.at.slice][r.at.off + j] = view.bytes[j]
        BY <3>1
      <4>2. r \in Record /\ view \in View
        OBVIOUS
      <4> QED BY ONLY <2>1, <4>1, <4>2, ViewRead
    <3>2. CASE r.len > 0 /\ r.at = p.at /\ view.bytes = p.bytes
      <4>1. \A j \in 1 .. r.len : after[r.at.slice][r.at.off + j] = view.bytes[j]
        BY <1>2, <2>1, <3>2
      <4>2. r \in Record /\ view \in View
        OBVIOUS
      <4> QED BY ONLY <2>1, <4>1, <4>2, ViewRead
    <3>3. CASE r.len > 0 /\ Apart2(r.at, r.len, p.at, n)
      <4>1. InHeap(mem, r.at, r.len)
        BY <2>1, ObjTypes DEF InHeap, Within
      <4>2. \A j \in 1 .. r.len : after[r.at.slice][r.at.off + j] = mem[r.at.slice][r.at.off + j]
        BY <1>1, <1>2, <3>3, <4>1, PieceKept
      <4>3. ViewOf(after, r) = ViewOf(mem, r)
        BY <4>2, ViewSame
      <4>4. r.at # p.at
        BY <1>1, <3>3 DEF Apart2, Overlap, Place
      <4> QED BY <2>1, <4>3, <4>4
    <3> QED BY <2>1, <3>1, <3>2, <3>3
  <2> QED BY <1>4, <1>6, <2>1, <2>2 DEF RecordOK
<1>9. ASSUME NEW q \in o2.pending PROVE PendingOK(after, o2, q)
  BY <1>4, <1>6 DEF ObjOK, PendingOK
<1>10. \A x \in o.taken : TakenOK(o2, x)
  BY <1>4 DEF ObjOK, TakenOK
<1>11. TypesOK(o2) /\ KindOK(o2)
  BY <1>4 DEF ObjOK, TypesOK, KindOK
<1>12. BytesApart(o2)
  BY <1>4 DEF ObjOK, BytesApart
<1> QED BY <1>3, <1>4, <1>7, <1>8, <1>9, <1>10, <1>11, <1>12 DEF ObjOK

-----------------------------------------------------------------------------
(* The objects, when the invariant holds.                                  *)
LEMMA ObjectFacts ==
  ASSUME IInv, NEW b \in Obj
  PROVE  /\ heap \in Memory /\ ObjOK(heap, Object(b)) /\ TypesOK(Object(b)) /\ KindOK(Object(b))
         /\ Object(b).kind = kind[b] /\ Object(b).store = store[b] /\ Object(b).shards = shards[b]
         /\ Object(b).taken = taken[b] /\ Object(b).pending = pending[b] /\ Object(b).text = text[b]
         /\ Owned(b) = Owns(Object(b))
         /\ \A s \in Owned(b) : s \in Slice /\ heap[s] # Freed
  BY DEF IInv, Typed, ObjOK, ChainsOK, Object, Owned, Owns, Workers

(* A step in which every variable changes for one object at most.          *)
LEMMA ObjectStep ==
  ASSUME IInv, NEW b \in Obj, NEW o2,
         o2.kind \in Kind, o2.store \in Store, o2.shards \in Seq(Shard),
         o2.taken \in SUBSET Taken, o2.pending \in SUBSET Reservation, o2.text \in Seq(View),
         o2 = [kind |-> o2.kind, store |-> o2.store, shards |-> o2.shards, taken |-> o2.taken,
               pending |-> o2.pending, text |-> o2.text],
         kind' = [kind EXCEPT ![b] = o2.kind], store' = [store EXCEPT ![b] = o2.store],
         shards' = [shards EXCEPT ![b] = o2.shards], taken' = [taken EXCEPT ![b] = o2.taken],
         pending' = [pending EXCEPT ![b] = o2.pending], text' = [text EXCEPT ![b] = o2.text]
  PROVE  /\ Object(b)' = o2 /\ \A c \in Obj : c # b => Object(c)' = Object(c)
         /\ heap' \in Memory => Typed'
<1>1. Typed
  BY DEF IInv
<1>2. /\ kind'[b] = o2.kind /\ store'[b] = o2.store /\ shards'[b] = o2.shards
      /\ taken'[b] = o2.taken /\ pending'[b] = o2.pending /\ text'[b] = o2.text
  BY <1>1 DEF Typed
<1>3. \A c \in Obj : c # b =>
        /\ kind'[c] = kind[c] /\ store'[c] = store[c] /\ shards'[c] = shards[c]
        /\ taken'[c] = taken[c] /\ pending'[c] = pending[c] /\ text'[c] = text[c]
  BY <1>1 DEF Typed
<1>4. heap' \in Memory => Typed'
  BY <1>1 DEF Typed
<1> QED BY <1>2, <1>3, <1>4 DEF Object

(* An object made new: its slices are freed.                               *)
LEMMA EmptyStep ==
  ASSUME IInv, NEW b \in Obj, NEW o2, ObjOK(heap', o2), Owns(o2) = {},
         heap' = FreedBy(Owned(b)),
         o2 = [kind |-> o2.kind, store |-> o2.store, shards |-> o2.shards, taken |-> o2.taken,
               pending |-> o2.pending, text |-> o2.text],
         kind' = [kind EXCEPT ![b] = o2.kind], store' = [store EXCEPT ![b] = o2.store],
         shards' = [shards EXCEPT ![b] = o2.shards], taken' = [taken EXCEPT ![b] = o2.taken],
         pending' = [pending EXCEPT ![b] = o2.pending], text' = [text EXCEPT ![b] = o2.text]
  PROVE  IInv'
<1>1. Owned(b) = Owns(Object(b)) /\ heap \in Memory
  BY ObjectFacts
<1>2. heap' \in Memory /\ \A s \in Slice : heap'[s] = IF s \in Owned(b) THEN Freed ELSE heap[s]
  BY <1>1 DEF FreedBy, Memory
<1>3. TypesOK(o2)
  BY DEF ObjOK
<1>4. /\ Object(b)' = o2 /\ \A c \in Obj : c # b => Object(c)' = Object(c)
      /\ Typed'
  BY <1>2, <1>3, ObjectStep DEF TypesOK
<1>5. \A s \in Owned(b) : s \in Slice
  BY ObjectFacts
<1> QED BY <1>1, <1>2, <1>4, <1>5, StepOne

LEMMA NewStoreOK ==
  ASSUME NEW n \in Nat
  PROVE  /\ NewStore(n) \in Store /\ NewStore(n).slices = {} /\ NewStore(n).capacity = n
         /\ Len(NewStore(n).records) = n /\ DOMAIN NewStore(n).records = 1 .. n
         /\ \A i \in 1 .. n : NewStore(n).records[i] = na_record
         /\ [i \in 1 .. n |-> NaView] \in Seq(View) /\ Len([i \in 1 .. n |-> NaView]) = n
         /\ [k \in 1 .. n |-> EmptyShard] \in Seq(Shard)
         /\ EmptyStore \in Store /\ EmptyStore.slices = {} /\ EmptyStore.capacity = 0
         /\ EmptyStore.records = << >> /\ EmptyShard \in Shard
         /\ EmptyShard.slices = {} /\ EmptyShard.used <= EmptyShard.cap
<1>1. na_record \in Record /\ NaView \in View
  BY DEF na_record, nowhere, Record, Place, NaView, View
<1>2. EmptyShard \in Shard
  BY DEF EmptyShard, Shard
<1> QED BY <1>1, <1>2 DEF NewStore, Store, EmptyStore, EmptyShard

LEMMA ConstructInv ==
  ASSUME IInv, NEW b \in Obj, NEW what \in Kinds, NEW n \in Lengths, NEW m \in ShardCounts,
         Construct(b, what, n, m)
  PROVE  IInv'
<1>1. /\ n \in Nat /\ n <= max_capacity /\ max_capacity \in Nat /\ m \in Nat /\ m > 0
      /\ what \in {"Builder", "ParallelBuilder", "GrowableBuilder"}
      /\ (what # "ParallelBuilder" => m = 1)
  BY BuildersAssumption DEF Construct
<1>2. kind[b] = "none" /\ taken[b] = {} /\ pending[b] = {} /\ Owned(b) = {}
  <2>1. Object(b).kind = "none"
    BY ObjectFacts DEF Construct
  <2>2. Object(b).taken = {} /\ Object(b).pending = {} /\ Owns(Object(b)) = {}
    BY <2>1, ObjectFacts DEF KindOK, Owns, Workers
  <2> QED BY <2>2, ObjectFacts DEF Construct
<1> PICK st : st = IF what = "GrowableBuilder" THEN EmptyStore ELSE NewStore(n)
  OBVIOUS
<1> PICK len \in Nat : len = IF what = "GrowableBuilder" THEN 0 ELSE n
  BY <1>1
<1>3. /\ st \in Store /\ st.slices = {} /\ st.capacity = len /\ Len(st.records) = len
      /\ DOMAIN st.records = 1 .. len /\ \A i \in 1 .. len : st.records[i] = na_record
  <2>1. CASE what = "GrowableBuilder"
    <3>1. st = EmptyStore /\ len = 0
      BY <2>1
    <3>2. Len(<< >>) = 0 /\ DOMAIN << >> = 1 .. 0
      OBVIOUS
    <3>3. /\ EmptyStore \in Store /\ EmptyStore.slices = {} /\ EmptyStore.capacity = 0
          /\ EmptyStore.records = << >>
      BY NewStoreOK
    <3> QED BY <3>1, <3>2, <3>3
  <2>2. CASE what # "GrowableBuilder"
    BY <1>1, <2>2, NewStoreOK
  <2> QED BY <2>1, <2>2
<1> PICK tx : tx = [i \in 1 .. len |-> NaView]
  OBVIOUS
<1> PICK sh : sh = [k \in 1 .. m |-> EmptyShard]
  OBVIOUS
<1>4. tx \in Seq(View) /\ Len(tx) = len /\ sh \in Seq(Shard) /\ EmptyShard \in Shard
      /\ EmptyShard.slices = {} /\ EmptyShard.used <= EmptyShard.cap
  BY <1>1, NewStoreOK
<1> PICK o2 : o2 = [kind |-> what, store |-> st, shards |-> sh, taken |-> {}, pending |-> {}, text |-> tx]
  OBVIOUS
<1>5. TypesOK(o2) /\ Workers(o2) = 1 .. m /\ Records(o2) = 1 .. len
  BY <1>1, <1>3, <1>4 DEF TypesOK, Kind, Workers, Records
<1>6. KindOK(o2)
  BY <1>1, <1>5 DEF KindOK
<1>7. ObjOK(heap', o2) /\ Owns(o2) = {}
  BY <1>3, <1>4, <1>5, <1>6, EmptyOK DEF Rec
<1>8. heap' = FreedBy(Owned(b))
  BY <1>2, ObjectFacts DEF Construct, FreedBy, Memory
<1>9. store' = [store EXCEPT ![b] = st] /\ text' = [text EXCEPT ![b] = tx]
  <2>1. store' = [store EXCEPT ![b] = st]
    BY DEF Construct
  <2>2. store'[b] = st
    BY <2>1 DEF IInv, Typed
  <2> QED BY <1>3, <2>1, <2>2 DEF Construct
<1>10. kind' = [kind EXCEPT ![b] = what] /\ shards' = [shards EXCEPT ![b] = sh]
       /\ taken' = [taken EXCEPT ![b] = {}] /\ pending' = [pending EXCEPT ![b] = {}]
  BY <1>2 DEF Construct, IInv, Typed
<1> QED BY <1>7, <1>8, <1>9, <1>10, EmptyStep

LEMMA resetInv ==
  ASSUME IInv, NEW b \in Obj, NEW n \in Lengths, NEW m \in ShardCounts, reset(b, n, m)
  PROVE  IInv'
<1>1. /\ n \in Nat /\ n <= max_capacity /\ max_capacity \in Nat /\ m \in Nat /\ m > 0
      /\ kind[b] \in {"Builder", "ParallelBuilder"} /\ (kind[b] = "Builder" => m = 1)
      /\ taken[b] = {}
  BY BuildersAssumption DEF reset, Idle
<1> PICK st : st = NewStore(n)
  OBVIOUS
<1> PICK tx : tx = [i \in 1 .. n |-> NaView]
  OBVIOUS
<1> PICK sh : sh = [k \in 1 .. m |-> EmptyShard]
  OBVIOUS
<1>2. /\ st \in Store /\ st.slices = {} /\ st.capacity = n /\ Len(st.records) = n
      /\ DOMAIN st.records = 1 .. n /\ \A i \in 1 .. n : st.records[i] = na_record
      /\ tx \in Seq(View) /\ Len(tx) = n /\ sh \in Seq(Shard) /\ EmptyShard \in Shard
      /\ EmptyShard.slices = {} /\ EmptyShard.used <= EmptyShard.cap
  <2>1. n \in Nat /\ m \in Nat /\ st = NewStore(n) /\ tx = [i \in 1 .. n |-> NaView]
        /\ sh = [k \in 1 .. m |-> EmptyShard]
    BY <1>1
  <2>2. /\ st \in Store /\ st.slices = {} /\ st.capacity = n /\ Len(st.records) = n
        /\ DOMAIN st.records = 1 .. n /\ \A i \in 1 .. n : st.records[i] = na_record
    BY ONLY <2>1, NewStoreOK
  <2>3. /\ tx \in Seq(View) /\ Len(tx) = n
        /\ sh \in Seq(Shard) /\ EmptyShard \in Shard
        /\ EmptyShard.slices = {} /\ EmptyShard.used <= EmptyShard.cap
    BY ONLY <2>1, NewStoreOK
  <2> QED BY <2>2, <2>3
<1> PICK o2 : o2 = [kind |-> kind[b], store |-> st, shards |-> sh, taken |-> {}, pending |-> {}, text |-> tx]
  OBVIOUS
<1>3. TypesOK(o2) /\ Workers(o2) = 1 .. m /\ Records(o2) = 1 .. n
  BY <1>1, <1>2 DEF TypesOK, Kind, Workers, Records
<1>4. KindOK(o2)
  BY <1>1, <1>3 DEF KindOK
<1>5. ObjOK(heap', o2) /\ Owns(o2) = {}
  BY <1>2, <1>3, <1>4, EmptyOK DEF Rec
<1>6. /\ kind' = [kind EXCEPT ![b] = kind[b]] /\ shards' = [shards EXCEPT ![b] = sh]
      /\ taken' = [taken EXCEPT ![b] = {}] /\ pending' = [pending EXCEPT ![b] = {}]
      /\ store' = [store EXCEPT ![b] = st] /\ text' = [text EXCEPT ![b] = tx]
      /\ heap' = FreedBy(Owned(b))
  BY <1>1 DEF reset, IInv, Typed
<1> QED BY <1>5, <1>6, EmptyStep

LEMMA DestroyInv == ASSUME IInv, NEW b \in Obj, Destroy(b) PROVE IInv'
<1>1. taken[b] = {}
  BY DEF Destroy, Idle
<1> PICK o2 : o2 = [kind |-> "none", store |-> EmptyStore, shards |-> << >>, taken |-> {},
                    pending |-> {}, text |-> << >>]
  OBVIOUS
<1>2. EmptyStore \in Store /\ EmptyStore.slices = {} /\ EmptyStore.capacity = 0
      /\ EmptyStore.records = << >>
  BY NewStoreOK
<1>3. TypesOK(o2) /\ KindOK(o2) /\ Workers(o2) = {} /\ Records(o2) = {}
  BY <1>2, BuildersAssumption DEF TypesOK, KindOK, Kind, Workers, Records
<1>4. ObjOK(heap', o2) /\ Owns(o2) = {}
  BY <1>2, <1>3, EmptyOK
<1>5. /\ kind' = [kind EXCEPT ![b] = "none"] /\ shards' = [shards EXCEPT ![b] = << >>]
      /\ taken' = [taken EXCEPT ![b] = {}] /\ pending' = [pending EXCEPT ![b] = {}]
      /\ store' = [store EXCEPT ![b] = EmptyStore] /\ text' = [text EXCEPT ![b] = << >>]
      /\ heap' = FreedBy(Owned(b))
  BY <1>1 DEF Destroy, IInv, Typed
<1> QED BY <1>4, <1>5, EmptyStep

-----------------------------------------------------------------------------
LEMMA EmptyRecord ==
  ASSUME NEW enc \in Tag \cup {"NA"}
  PROVE  \E r \in Record : r = [na_record EXCEPT !.enc = enc] /\ r.len = 0 /\ r.enc = enc
<1>1. [na_record EXCEPT !.enc = enc] = [at |-> nowhere, len |-> 0, enc |-> enc]
  BY DEF na_record
<1>2. [at |-> nowhere, len |-> 0, enc |-> enc] \in Record
  BY DEF nowhere, Record, Place
<1> QED BY <1>1, <1>2

LEMMA set_emptyInv ==
  ASSUME IInv, NEW b \in Obj, NEW k \in DOMAIN shards[b], NEW i \in DOMAIN store[b].records,
         NEW view \in Input, set_empty(b, k, i, view)
  PROVE  IInv'
<1> PICK o : o = Object(b)
  OBVIOUS
<1>1. /\ heap \in Memory /\ ObjOK(heap, o) /\ TypesOK(o) /\ KindOK(o)
      /\ o.kind = kind[b] /\ o.store = store[b] /\ o.shards = shards[b] /\ o.taken = taken[b]
      /\ o.pending = pending[b] /\ o.text = text[b]
  BY ObjectFacts
<1>2. view \in View /\ Len(view.bytes) = 0 /\ view.enc \in Tag \cup {"NA"}
  BY BuildersAssumption DEF set_empty, View
<1> PICK r \in Record : r = [na_record EXCEPT !.enc = view.enc] /\ r.len = 0 /\ r.enc = view.enc
  BY <1>2, EmptyRecord
<1> PICK recs : recs = [o.store.records EXCEPT ![i] = r]
  OBVIOUS
<1> PICK tx : tx = [o.text EXCEPT ![i] = view]
  OBVIOUS
<1>3. /\ o.store \in Store /\ o.store.records \in Seq(Record) /\ o.text \in Seq(View)
      /\ Len(o.text) = Len(o.store.records)
  BY <1>1 DEF TypesOK, Store
<1>4. /\ recs \in Seq(Record) /\ DOMAIN recs = DOMAIN o.store.records
      /\ Len(recs) = Len(o.store.records) /\ recs[i] = r
      /\ \A j \in DOMAIN recs : j # i => recs[j] = o.store.records[j]
      /\ tx \in Seq(View) /\ Len(tx) = Len(o.text) /\ tx[i] = view
      /\ \A j \in DOMAIN recs : j # i => tx[j] = o.text[j]
  BY <1>1, <1>2, <1>3
<1> PICK st : st = [o.store EXCEPT !.records = recs]
  OBVIOUS
<1>5. st \in Store /\ st.records = recs /\ st.slices = o.store.slices /\ st.capacity = o.store.capacity
  BY <1>3, <1>4 DEF Store
<1> PICK o2 : o2 = [kind |-> o.kind, store |-> st, shards |-> o.shards, taken |-> o.taken,
                    pending |-> o.pending, text |-> tx]
  OBVIOUS
<1>6. TypesOK(o2)
  BY <1>1, <1>3, <1>4, <1>5 DEF TypesOK
<1>7. KindOK(o2)
  <2>1. o.kind # "none"
    BY <1>1 DEF set_empty, MaySet
  <2> QED BY <1>1, <2>1 DEF KindOK, Workers
<1>8. Records(o2) = Records(o) /\ i \in Records(o2) /\ k \in Workers(o) /\ Rec(o2, i) = r
      /\ \A j \in Records(o) : j # i => Rec(o2, j) = Rec(o, j) /\ o2.text[j] = o.text[j]
  <2>1. o2.store = st /\ o2.text = tx /\ i \in DOMAIN o.store.records /\ k \in Workers(o)
    BY <1>1 DEF Workers
  <2>2. Records(o2) = Records(o) /\ i \in Records(o2)
    BY ONLY <1>4, <1>5, <2>1 DEF Records
  <2>3. Rec(o2, i) = r
    BY ONLY <1>4, <1>5, <2>1 DEF Rec
  <2>4. \A j \in Records(o) : j # i => Rec(o2, j) = Rec(o, j) /\ o2.text[j] = o.text[j]
    BY ONLY <1>4, <1>5, <2>1 DEF Records, Rec
  <2> QED BY <2>1, <2>2, <2>3, <2>4
<1>9. ObjOK(heap, o2) /\ Owns(o2) = Owns(o)
  <2>1. /\ Records(o) \subseteq Records(o2) /\ Records(o2) \subseteq Records(o) \cup {i}
        /\ o2.store.slices = o.store.slices /\ o2.text[i] = view
        /\ Rec(o2, i).len = Len(view.bytes) /\ Rec(o2, i).enc = view.enc
        /\ o2.taken \subseteq o.taken /\ o2.shards = o.shards /\ o2.pending = o.pending
    BY <1>2, <1>4, <1>5, <1>8
  <2>2. Put(o, o2, k, i, view)
    BY <1>2, <1>8, <2>1 DEF Put
  <2> QED BY <1>1, <1>2, <1>6, <1>7, <1>8, <2>2, RecordPut
<1>10. /\ store' = [store EXCEPT ![b] = st] /\ text' = [text EXCEPT ![b] = tx] /\ heap' = heap
       /\ kind' = [kind EXCEPT ![b] = o.kind] /\ shards' = [shards EXCEPT ![b] = o.shards]
       /\ taken' = [taken EXCEPT ![b] = o.taken] /\ pending' = [pending EXCEPT ![b] = o.pending]
  BY <1>1 DEF set_empty, SetRecord, IInv, Typed
<1>11. /\ Object(b)' = o2 /\ \A c \in Obj : c # b => Object(c)' = Object(c)
       /\ Typed'
  BY <1>1, <1>6, <1>10, ObjectStep DEF TypesOK
<1> QED BY <1>1, <1>9, <1>10, <1>11, StepOne

LEMMA FillInv ==
  ASSUME IInv, NEW b \in Obj, NEW p \in pending[b], Fill(b, p)
  PROVE  IInv'
<1> PICK o : o = Object(b)
  OBVIOUS
<1>1. /\ heap \in Memory /\ ObjOK(heap, o) /\ TypesOK(o)
      /\ o.kind = kind[b] /\ o.store = store[b] /\ o.shards = shards[b] /\ o.taken = taken[b]
      /\ o.pending = pending[b] /\ o.text = text[b]
  BY ObjectFacts
<1> PICK o2 : o2 = [kind |-> o.kind, store |-> o.store, shards |-> o.shards, taken |-> o.taken,
                    pending |-> o.pending \ {p}, text |-> o.text]
  OBVIOUS
<1>2. heap' = Written(heap, p.at, p.bytes)
  BY DEF Fill
<1>3. /\ ObjOK(heap', o2) /\ Owns(o2) = Owns(o) /\ heap' \in Memory
      /\ \A s \in Slice : s \notin Owns(o) => heap'[s] = heap[s]
  BY <1>1, <1>2, FillOK
<1>4. /\ store' = [store EXCEPT ![b] = o.store] /\ text' = [text EXCEPT ![b] = o.text]
      /\ kind' = [kind EXCEPT ![b] = o.kind] /\ shards' = [shards EXCEPT ![b] = o.shards]
      /\ taken' = [taken EXCEPT ![b] = o.taken] /\ pending' = [pending EXCEPT ![b] = o2.pending]
  BY <1>1 DEF Fill, IInv, Typed
<1>5. TypesOK(o2)
  BY <1>3 DEF ObjOK
<1>6. /\ Object(b)' = o2 /\ \A c \in Obj : c # b => Object(c)' = Object(c)
      /\ Typed'
  BY <1>1, <1>3, <1>4, <1>5, ObjectStep DEF TypesOK
<1> QED BY <1>3, <1>6, StepOne

(* A shard with room for len bytes, and the heap with it.                  *)
Roomier(o, o1, k, sh) ==
  /\ \A x \in o.taken : x.worker # k
  /\ o = [kind |-> o.kind, store |-> o.store, shards |-> o.shards,
          taken |-> o.taken, pending |-> o.pending, text |-> o.text]
  /\ o1 = [o EXCEPT !.shards = [@ EXCEPT ![k] = sh]]

LEMMA RoomFound ==
  ASSUME NEW mem \in Memory, NEW o, ObjOK(mem, o), NEW k \in Workers(o),
         NEW len \in Nat, len > 0, NEW room, HasRoom(mem, o.shards[k], len, room),
         NEW o1, Roomier(o, o1, k, room.shard)
  PROVE  /\ ObjOK(room.heap, o1) /\ room.heap \in Memory
         /\ Workers(o1) = Workers(o) /\ o1.shards[k] = room.shard /\ len <= Room(room.shard)
         /\ Owns(o) \subseteq Owns(o1)
         /\ \A s \in Owns(o1) : s \in Owns(o) \/ mem[s] = Freed
         /\ \A s \in Slice : s \notin Owns(o1) => room.heap[s] = mem[s]
<1>1. mem \in Memory /\ ObjOK(mem, o) /\ o.shards \in Seq(Shard) /\ k \in DOMAIN o.shards
  BY DEF ObjOK, TypesOK, Workers
<1>2. CASE room.shard = o.shards[k] /\ room.heap = mem /\ len <= Room(o.shards[k])
  <2>1. [o.shards EXCEPT ![k] = room.shard] = o.shards
    BY <1>1, <1>2
  <2>2. o1 = o
    <3>1. o1 = [o EXCEPT !.shards = o.shards]
      BY <2>1 DEF Roomier
    <3> QED BY <3>1 DEF Roomier
  <2> QED BY <1>1, <1>2, <2>2
<1>3. ASSUME NEW s \in FreeSlices(mem), NEW size \in Nat, size >= len,
             room.heap = Allocated(mem, s, size), room.shard = with_slice(o.shards[k], s, size)
      PROVE  /\ ObjOK(room.heap, o1) /\ room.heap \in Memory
             /\ Workers(o1) = Workers(o) /\ o1.shards[k] = room.shard /\ len <= Room(room.shard)
             /\ Owns(o) \subseteq Owns(o1)
             /\ \A u \in Owns(o1) : u \in Owns(o) \/ mem[u] = Freed
             /\ \A u \in Slice : u \notin Owns(o1) => room.heap[u] = mem[u]
  <2>1. o1.shards = [o.shards EXCEPT ![k] = with_slice(@, s, size)]
    BY <1>1, <1>3 DEF Roomier
  <2>2. Added(o, o1, k, s, size)
    BY <2>1 DEF Roomier, Added
  <2>3. /\ ObjOK(Allocated(mem, s, size), o1) /\ Owns(o1) = Owns(o) \cup {s}
        /\ Room(o1.shards[k]) = size /\ Workers(o1) = Workers(o)
        /\ o1.shards[k] = with_slice(o.shards[k], s, size)
    BY <1>1, <2>2, SliceAdded
  <2>4. /\ s \in Slice /\ mem[s] = Freed /\ room.heap \in Memory
        /\ \A u \in Slice \ {s} : room.heap[u] = mem[u]
    BY <1>1, <1>3, AllocatedOK
  <2> QED BY <1>3, <2>3, <2>4
<1> QED BY <1>2, <1>3 DEF HasRoom

LEMMA TakeInv ==
  ASSUME IInv, NEW b \in Obj, NEW k \in DOMAIN shards[b], NEW i \in DOMAIN store[b].records,
         NEW view \in Input, Take(b, k, i, view)
  PROVE  IInv'
<1> PICK o : o = Object(b)
  OBVIOUS
<1> PICK n : n = Len(view.bytes)
  OBVIOUS
<1>1. /\ heap \in Memory /\ ObjOK(heap, o) /\ TypesOK(o) /\ KindOK(o)
      /\ o.kind = kind[b] /\ o.store = store[b] /\ o.shards = shards[b] /\ o.taken = taken[b]
      /\ o.pending = pending[b] /\ o.text = text[b]
  BY ObjectFacts
<1>2. view \in View /\ n \in Nat /\ n > 0
  BY BuildersAssumption DEF Take, View, Str
<1>3. k \in Workers(o) /\ i \in Records(o) /\ k \in Nat /\ i \in Nat
      /\ Len(o.store.records) \in Nat
  BY <1>1 DEF Workers, Records, TypesOK, Store
<1>4. /\ \A x \in o.taken : x.worker # k /\ x.index # i
      /\ o.kind \in {"Builder", "ParallelBuilder"}
  BY <1>1 DEF Take, MaySet
<1>5. PICK room \in Rooms(o.shards[k], n, Len(o.store.records)) :
        /\ shards' = [shards EXCEPT ![b][k] = room.shard]
        /\ heap'   = room.heap
        /\ taken'  = [taken EXCEPT ![b] = @ \cup
             {[worker |-> k, index |-> i, view |-> view, at |-> cursor(room.shard)]}]
  BY <1>1 DEF Take, shard_at
<1> PICK sh : sh = [o.shards EXCEPT ![k] = room.shard]
  OBVIOUS
<1> PICK o1 : o1 = [kind |-> o.kind, store |-> o.store, shards |-> sh, taken |-> o.taken,
                    pending |-> o.pending, text |-> o.text]
  OBVIOUS
<1>6. /\ ObjOK(heap', o1) /\ heap' \in Memory
      /\ Workers(o1) = Workers(o) /\ o1.shards[k] = room.shard /\ n <= Room(room.shard)
      /\ Owns(o) \subseteq Owns(o1)
      /\ \A s \in Owns(o1) : s \in Owns(o) \/ heap[s] = Freed
      /\ \A s \in Slice : s \notin Owns(o1) => heap'[s] = heap[s]
  <2>1. Roomier(o, o1, k, room.shard)
    BY <1>4 DEF Roomier, Object
  <2>2. /\ n \in Nat /\ n > 0 /\ k \in Workers(o) /\ heap' = room.heap
        /\ HasRoom(heap, o.shards[k], n, room)
    BY <1>1, <1>2, <1>3, <1>5, RoomOK
  <2>3. /\ ObjOK(room.heap, o1) /\ room.heap \in Memory
        /\ Workers(o1) = Workers(o) /\ o1.shards[k] = room.shard /\ n <= Room(room.shard)
        /\ Owns(o) \subseteq Owns(o1)
        /\ \A s \in Owns(o1) : s \in Owns(o) \/ heap[s] = Freed
        /\ \A s \in Slice : s \notin Owns(o1) => room.heap[s] = heap[s]
    BY ONLY <1>1, <2>1, <2>2, RoomFound
  <2> QED BY <2>2, <2>3
<1> PICK x : x = [worker |-> k, index |-> i, view |-> view, at |-> cursor(room.shard)]
  OBVIOUS
<1> PICK o2 : o2 = [kind |-> o.kind, store |-> o.store, shards |-> sh, taken |-> o.taken \cup {x},
                    pending |-> o.pending, text |-> o.text]
  OBVIOUS
<1>7. x \in Taken
  <2>1. cursor(room.shard) \in Place
    <3> PICK mem : mem = heap'
      OBVIOUS
    <3>1. mem \in Memory /\ ObjOK(mem, o1) /\ k \in Workers(o1) /\ o1.shards[k] = room.shard
      BY <1>3, <1>6
    <3>2. \A m \in Workers(o1) : cursor(o1.shards[m]) \in Place
      BY ONLY <3>1, ObjTypes
    <3> QED BY <3>1, <3>2
  <2> QED BY <1>3, <2>1 DEF Taken
<1>8. /\ o2.kind = o1.kind /\ o2.store = o1.store /\ o2.shards = o1.shards
      /\ o2.pending = o1.pending /\ o2.text = o1.text
      /\ Workers(o2) = Workers(o1) /\ Owns(o2) = Owns(o1) /\ Records(o2) = Records(o1)
      /\ Records(o1) = Records(o) /\ \A j : Rec(o2, j) = Rec(o1, j)
  BY DEF Workers, Owns, Records, Rec
<1>9. ObjOK(heap', o2)
  <2>1. TypesOK(o2) /\ KindOK(o2)
    BY <1>1, <1>4, <1>6, <1>7, <1>8 DEF ObjOK, TypesOK, KindOK
  <2>2. ChainsOK(heap', o2)
    <3>1. ChainsOK(heap', o1)
      BY <1>6 DEF ObjOK
    <3> QED BY ONLY <1>8, <3>1 DEF ChainsOK
  <2>3. /\ \A j \in Records(o2) : RecordOK(heap', o2, j)
        /\ \A p \in o2.pending : PendingOK(heap', o2, p)
        /\ BytesApart(o2)
    <3>1. ASSUME NEW j \in Records(o2) PROVE RecordOK(heap', o2, j)
      <4>1. RecordOK(heap', o1, j)
        BY <1>6, <1>8 DEF ObjOK
      <4> QED BY ONLY <1>8, <4>1 DEF RecordOK
    <3>2. ASSUME NEW p \in o2.pending PROVE PendingOK(heap', o2, p)
      <4>1. PendingOK(heap', o1, p)
        BY <1>6, <1>8 DEF ObjOK
      <4> QED BY ONLY <1>8, <4>1 DEF PendingOK
    <3>3. BytesApart(o2)
      <4>1. BytesApart(o1)
        BY <1>6 DEF ObjOK
      <4> QED BY ONLY <1>8, <4>1 DEF BytesApart
    <3> QED BY <3>1, <3>2, <3>3
  <2>4. \A y \in o.taken : TakenOK(o2, y)
    BY <1>6, <1>8 DEF ObjOK, TakenOK
  <2>5. TakenOK(o2, x)
    BY <1>2, <1>3, <1>6, <1>8, ObjTypes DEF TakenOK
  <2>6. \A y, z \in o.taken : y # z => y.worker # z.worker /\ y.index # z.index
    BY <1>1 DEF ObjOK
  <2>7. \A y, z \in o2.taken : y # z => y.worker # z.worker /\ y.index # z.index
    BY <1>4, <2>6
  <2> QED BY <2>1, <2>2, <2>3, <2>4, <2>5, <2>7 DEF ObjOK
<1>10. /\ store' = [store EXCEPT ![b] = o.store] /\ text' = [text EXCEPT ![b] = o.text]
       /\ kind' = [kind EXCEPT ![b] = o.kind] /\ shards' = [shards EXCEPT ![b] = sh]
       /\ taken' = [taken EXCEPT ![b] = o2.taken] /\ pending' = [pending EXCEPT ![b] = o.pending]
  <2>1. store' = store /\ text' = text /\ kind' = kind /\ pending' = pending
    BY DEF Take
  <2>2. shards' = [shards EXCEPT ![b] = sh]
    BY <1>1, <1>5
  <2>3. taken' = [taken EXCEPT ![b] = o2.taken]
    BY <1>1, <1>5
  <2> QED BY <1>1, <2>1, <2>2, <2>3 DEF IInv, Typed
<1>11. /\ Object(b)' = o2 /\ \A c \in Obj : c # b => Object(c)' = Object(c)
       /\ Typed'
  <2>1. TypesOK(o2)
    BY <1>9 DEF ObjOK
  <2> QED BY <1>6, <1>10, <2>1, ObjectStep DEF TypesOK
<1>12. /\ \A c \in Obj : c # b => Object(c)' = Object(c)
       /\ ObjOK(heap', Object(b)')
       /\ \A s \in Slice : s \notin Owns(Object(b)) /\ s \notin Owns(Object(b)') => heap'[s] = heap[s]
       /\ \A s \in Owns(Object(b)') : heap[s] = Freed \/ s \in Owns(Object(b))
       /\ \A s \in Owns(Object(b)) : s \in Owns(Object(b)') \/ heap'[s] = Freed
  BY <1>6, <1>8, <1>9, <1>11
<1> QED BY <1>11, <1>12, StepOne

LEMMA CommitInv ==
  ASSUME IInv, NEW b \in Obj, NEW x \in taken[b], Commit(b, x)
  PROVE  IInv'
<1> PICK o : o = Object(b)
  OBVIOUS
<1>1. /\ heap \in Memory /\ ObjOK(heap, o) /\ TypesOK(o) /\ KindOK(o)
      /\ o.kind = kind[b] /\ o.store = store[b] /\ o.shards = shards[b] /\ o.taken = taken[b]
      /\ o.pending = pending[b] /\ o.text = text[b]
  BY ObjectFacts
<1> PICK k : k = x.worker
  OBVIOUS
<1> PICK i : i = x.index
  OBVIOUS
<1> PICK view : view = x.view
  OBVIOUS
<1> PICK n : n = Len(view.bytes)
  OBVIOUS
<1>2. TakenOK(o, x) /\ x \in Taken
  BY <1>1 DEF ObjOK, TypesOK
<1>3. /\ k \in Workers(o) /\ i \in Records(o) /\ view \in View /\ n \in Nat /\ n > 0
      /\ x.at = cursor(o.shards[k]) /\ n \in 1 .. Room(o.shards[k]) /\ x.at \in Place
      /\ view.enc \in Tag \cup {"NA"} /\ view.bytes \in Str
  BY <1>2, BuildersAssumption DEF TakenOK, Taken, View, Str
<1> PICK r \in Record : r = [at |-> x.at, len |-> n, enc |-> view.enc]
  BY <1>3 DEF Record
<1> PICK recs : recs = [o.store.records EXCEPT ![i] = r]
  OBVIOUS
<1> PICK tx : tx = [o.text EXCEPT ![i] = view]
  OBVIOUS
<1> PICK sh : sh = [o.shards EXCEPT ![k] = advanced(@, n)]
  OBVIOUS
<1> PICK p : p = [at |-> x.at, bytes |-> view.bytes]
  OBVIOUS
<1>4. /\ o.store \in Store /\ o.store.records \in Seq(Record) /\ o.text \in Seq(View)
      /\ Len(o.text) = Len(o.store.records) /\ o.shards \in Seq(Shard)
      /\ i \in DOMAIN o.store.records /\ k \in DOMAIN o.shards
  BY <1>1, <1>3 DEF TypesOK, Store, Records, Workers
<1>5. /\ recs \in Seq(Record) /\ DOMAIN recs = DOMAIN o.store.records
      /\ Len(recs) = Len(o.store.records) /\ recs[i] = r
      /\ \A j \in DOMAIN recs : j # i => recs[j] = o.store.records[j]
      /\ tx \in Seq(View) /\ Len(tx) = Len(o.text) /\ tx[i] = view
      /\ \A j \in DOMAIN recs : j # i => tx[j] = o.text[j]
  BY <1>3, <1>4
<1>6. sh \in Seq(Shard) /\ DOMAIN sh = DOMAIN o.shards
  <2>1. advanced(o.shards[k], n) \in Shard
    BY <1>1, <1>3, AdvancedType DEF ObjOK, ChainsOK, ShardOK
  <2> QED BY <1>4, <2>1
<1> PICK st : st = [o.store EXCEPT !.records = recs]
  OBVIOUS
<1>7. st \in Store /\ st.records = recs /\ st.slices = o.store.slices /\ st.capacity = o.store.capacity
  BY <1>4, <1>5 DEF Store
<1> PICK o2 : o2 = [kind |-> o.kind, store |-> st, shards |-> sh, taken |-> o.taken \ {x},
                    pending |-> o.pending \cup {p}, text |-> tx]
  OBVIOUS
<1>8. TypesOK(o2)
  <2>1. p \in Reservation
    BY <1>3 DEF Reservation
  <2>2. o2.pending \subseteq Reservation /\ o2.taken \subseteq Taken
    BY <1>1, <2>1 DEF TypesOK
  <2>3. o2.kind = o.kind /\ o2.store = st /\ o2.shards = sh /\ o2.text = tx
    OBVIOUS
  <2> QED BY ONLY <1>1, <1>4, <1>5, <1>6, <1>7, <2>2, <2>3 DEF TypesOK
<1>9. KindOK(o2)
  <2>1. o.kind \in {"Builder", "ParallelBuilder"}
    BY <1>1 DEF KindOK
  <2> QED BY <1>1, <1>6, <2>1 DEF KindOK, Workers
<1>10. /\ Records(o2) = Records(o) /\ Rec(o2, i) = r
       /\ \A j \in Records(o) : j # i => Rec(o2, j) = Rec(o, j) /\ o2.text[j] = o.text[j]
  <2>1. o2.store = st /\ o2.text = tx
    OBVIOUS
  <2>2. Records(o2) = Records(o)
    BY ONLY <1>5, <1>7, <2>1 DEF Records
  <2>3. Rec(o2, i) = r
    BY ONLY <1>5, <1>7, <2>1 DEF Rec
  <2>4. \A j \in Records(o) : j # i => Rec(o2, j) = Rec(o, j) /\ o2.text[j] = o.text[j]
    BY ONLY <1>5, <1>7, <2>1 DEF Records, Rec
  <2> QED BY <2>2, <2>3, <2>4
<1>11. ObjOK(heap, o2) /\ Owns(o2) = Owns(o)
  <2>1. \A y \in o2.taken : y.worker # k
    BY <1>1 DEF ObjOK
  <2>2. /\ Records(o) \subseteq Records(o2) /\ Records(o2) \subseteq Records(o) \cup {i}
        /\ o2.store.slices = o.store.slices /\ o2.text[i] = view
        /\ Rec(o2, i).len = Len(view.bytes) /\ Rec(o2, i).enc = view.enc
        /\ o2.taken \subseteq o.taken
    <3>1. Records(o) \subseteq Records(o2) /\ Records(o2) \subseteq Records(o) \cup {i}
      BY ONLY <1>10
    <3>2. o2.store.slices = o.store.slices /\ o2.text[i] = view /\ o2.taken \subseteq o.taken
      BY <1>5, <1>7
    <3>3. Rec(o2, i).len = Len(view.bytes) /\ Rec(o2, i).enc = view.enc
      BY <1>10
    <3> QED BY <3>1, <3>2, <3>3
  <2>3. /\ Len(view.bytes) \in 1 .. Room(o.shards[k]) /\ Rec(o2, i).at = cursor(o.shards[k])
        /\ o2.shards = [o.shards EXCEPT ![k] = advanced(@, Len(view.bytes))]
        /\ o2.pending = o.pending \cup {[at |-> cursor(o.shards[k]), bytes |-> view.bytes]}
    BY <1>3, <1>10
  <2>4. Put(o, o2, k, i, view)
    BY ONLY <1>10, <2>1, <2>2, <2>3 DEF Put
  <2>5. /\ heap \in Memory /\ ObjOK(heap, o) /\ TypesOK(o2) /\ KindOK(o2)
        /\ k \in Workers(o) /\ i \in Records(o2) /\ view \in View
    BY <1>1, <1>3, <1>8, <1>9, <1>10
  <2> QED BY ONLY <2>4, <2>5, RecordPut
<1>12. /\ store' = [store EXCEPT ![b] = st] /\ text' = [text EXCEPT ![b] = tx] /\ heap' = heap
       /\ kind' = [kind EXCEPT ![b] = o.kind] /\ shards' = [shards EXCEPT ![b] = sh]
       /\ taken' = [taken EXCEPT ![b] = o2.taken] /\ pending' = [pending EXCEPT ![b] = o2.pending]
  BY <1>1 DEF Commit, SetRecord, shard_at, IInv, Typed
<1>13. /\ Object(b)' = o2 /\ \A c \in Obj : c # b => Object(c)' = Object(c)
       /\ Typed'
  BY <1>1, <1>8, <1>12, ObjectStep DEF TypesOK
<1> QED BY <1>1, <1>11, <1>12, <1>13, StepOne

-----------------------------------------------------------------------------
(* The table grows, and stays within its largest capacity.                 *)
LEMMA GrownOK ==
  ASSUME NEW st \in Store, CanGrow(st), Len(st.records) <= st.capacity, st.capacity <= max_capacity
  PROVE  /\ grown(st) \in Store /\ grown(st).slices = st.slices /\ grown(st).records = st.records
         /\ Len(st.records) < grown(st).capacity /\ grown(st).capacity <= max_capacity
<1> PICK cap \in Nat : cap = st.capacity
  BY DEF Store
<1> PICK n \in Nat : n = Len(st.records)
  BY DEF Store
<1>1. CASE n < cap
  BY <1>1 DEF grown
<1>2. CASE n >= cap
  <2> PICK more : more = IF cap = 0 THEN 1 ELSE IF cap > max_capacity \div 2 THEN max_capacity ELSE 2 * cap
    OBVIOUS
  <2>1. max_capacity \in Nat /\ max_capacity > 0
    BY BuildersAssumption
  <2>2. more \in Nat /\ more <= max_capacity
    BY <2>1
  <2>3. grown(st) = [st EXCEPT !.capacity = more]
    BY <1>2 DEF grown
  <2>4. grown(st) \in Store /\ grown(st).slices = st.slices /\ grown(st).records = st.records
        /\ grown(st).capacity = more
    BY <2>2, <2>3 DEF Store
  <2>5. more > cap
    BY <1>2, <2>4 DEF CanGrow
  <2> QED BY <2>2, <2>4, <2>5
<1> QED BY <1>1, <1>2

(* st2 is the table st with r added at its end, as record i.               *)
Pushed(st, st2, r, i) ==
  /\ st2 \in Store /\ st2.slices = st.slices /\ st2.capacity <= max_capacity
  /\ Len(st2.records) = i /\ i <= st2.capacity /\ DOMAIN st2.records = 1 .. i
  /\ st2.records[i] = r
  /\ \A j \in DOMAIN st.records : st2.records[j] = st.records[j]

LEMMA PushedOK ==
  ASSUME NEW st \in Store, CanGrow(st), Len(st.records) <= st.capacity, st.capacity <= max_capacity,
         NEW r \in Record, NEW st2, st2 = push_back_reserved(grown(st), r),
         NEW i, i = Len(st.records) + 1
  PROVE  Pushed(st, st2, r, i)
<1> PICK g : g = grown(st)
  OBVIOUS
<1>1. /\ g \in Store /\ g.slices = st.slices /\ g.records = st.records
      /\ Len(st.records) < g.capacity /\ g.capacity <= max_capacity /\ g.capacity \in Nat
      /\ st.records \in Seq(Record) /\ Len(st.records) \in Nat
  BY GrownOK DEF Store
<1> PICK recs : recs = Append(st.records, r)
  OBVIOUS
<1>2. /\ recs \in Seq(Record) /\ Len(recs) = i /\ DOMAIN recs = 1 .. i /\ recs[i] = r
      /\ \A j \in DOMAIN st.records : recs[j] = st.records[j]
  BY <1>1
<1>3. st2 = [g EXCEPT !.records = recs]
  BY <1>1, GrownOK DEF push_back_reserved
<1>4. st2 \in Store /\ st2.records = recs /\ st2.slices = g.slices /\ st2.capacity = g.capacity
  BY <1>1, <1>2, <1>3 DEF Store
<1> QED BY <1>1, <1>2, <1>4 DEF Pushed

LEMMA LastIndex ==
  ASSUME NEW i \in Nat, i >= 1, NEW old, old = 1 .. i - 1, NEW new, new = 1 .. i
  PROVE  old \subseteq new /\ new \subseteq old \cup {i} /\ i \in new
OBVIOUS

LEMMA append_emptyInv ==
  ASSUME IInv, NEW b \in Obj, NEW view \in Input, append_empty(b, view)
  PROVE  IInv'
<1> PICK o : o = Object(b)
  OBVIOUS
<1>1. /\ heap \in Memory /\ ObjOK(heap, o) /\ TypesOK(o) /\ KindOK(o)
      /\ o.kind = kind[b] /\ o.store = store[b] /\ o.shards = shards[b] /\ o.taken = taken[b]
      /\ o.pending = pending[b] /\ o.text = text[b]
  BY ObjectFacts
<1>2. view \in View /\ Len(view.bytes) = 0 /\ view.enc \in Tag \cup {"NA"}
  BY BuildersAssumption DEF append_empty, View
<1> PICK r \in Record : r = [na_record EXCEPT !.enc = view.enc] /\ r.len = 0 /\ r.enc = view.enc
  BY <1>2, EmptyRecord
<1>3. /\ o.store \in Store /\ o.store.records \in Seq(Record) /\ o.text \in Seq(View)
      /\ Len(o.text) = Len(o.store.records) /\ CanGrow(o.store)
      /\ Len(o.store.records) <= o.store.capacity /\ o.store.capacity <= max_capacity
      /\ o.kind = "GrowableBuilder"
  BY <1>1 DEF TypesOK, Store, append_empty
<1> PICK st : st = push_back_reserved(grown(o.store), r)
  OBVIOUS
<1> PICK i \in Nat : i = Len(o.store.records) + 1
  BY <1>3
<1>4. /\ st \in Store /\ st.slices = o.store.slices /\ st.capacity <= max_capacity
      /\ Len(st.records) = i /\ i <= st.capacity /\ DOMAIN st.records = 1 .. i
      /\ st.records[i] = r /\ \A j \in DOMAIN o.store.records : st.records[j] = o.store.records[j]
  <2>1. r \in Record /\ st = push_back_reserved(grown(o.store), r) /\ i = Len(o.store.records) + 1
    OBVIOUS
  <2>2. Pushed(o.store, st, r, i)
    BY ONLY <1>3, <2>1, PushedOK
  <2> QED BY ONLY <2>2 DEF Pushed
<1> PICK tx : tx = Append(o.text, view)
  OBVIOUS
<1>5. /\ tx \in Seq(View) /\ Len(tx) = i /\ tx[i] = view
      /\ \A j \in DOMAIN o.store.records : tx[j] = o.text[j]
  BY <1>2, <1>3
<1> PICK o2 : o2 = [kind |-> o.kind, store |-> st, shards |-> o.shards, taken |-> o.taken,
                    pending |-> o.pending, text |-> tx]
  OBVIOUS
<1>6. TypesOK(o2)
  BY <1>1, <1>4, <1>5 DEF TypesOK
<1>7. KindOK(o2) /\ 1 \in Workers(o)
  BY <1>1, <1>3 DEF KindOK, Workers
<1>8. /\ Records(o) \subseteq Records(o2) /\ Records(o2) \subseteq Records(o) \cup {i}
      /\ i \in Records(o2) /\ Rec(o2, i) = r
      /\ \A j \in Records(o) : Rec(o2, j) = Rec(o, j) /\ o2.text[j] = o.text[j]
  <2>1. i \in Nat /\ i >= 1 /\ Records(o) = 1 .. i - 1 /\ Records(o2) = 1 .. i
    BY <1>3, <1>4 DEF Records
  <2>2. Rec(o2, i) = r
    BY <1>4 DEF Rec
  <2>3. /\ Records(o) \subseteq Records(o2) /\ Records(o2) \subseteq Records(o) \cup {i}
        /\ i \in Records(o2)
    BY ONLY <2>1, LastIndex
  <2>4. \A j \in Records(o) : Rec(o2, j) = Rec(o, j) /\ o2.text[j] = o.text[j]
    <3>1. o2.store = st /\ o2.text = tx
      OBVIOUS
    <3> QED BY ONLY <1>4, <1>5, <3>1 DEF Records, Rec
  <2> QED BY <2>2, <2>3, <2>4
<1>9. ObjOK(heap, o2) /\ Owns(o2) = Owns(o)
  <2>1. /\ o2.store.slices = o.store.slices /\ o2.text[i] = view
        /\ Rec(o2, i).len = Len(view.bytes) /\ Rec(o2, i).enc = view.enc
        /\ o2.taken \subseteq o.taken /\ o2.shards = o.shards /\ o2.pending = o.pending
    BY <1>2, <1>4, <1>5, <1>8
  <2>2. Put(o, o2, 1, i, view)
    BY ONLY <1>2, <1>8, <2>1 DEF Put
  <2>3. i \in Records(o2) /\ 1 \in Workers(o)
    BY <1>7, <1>8
  <2> QED BY ONLY <1>1, <1>2, <1>6, <1>7, <2>2, <2>3, RecordPut
<1>10. /\ store' = [store EXCEPT ![b] = st] /\ text' = [text EXCEPT ![b] = tx] /\ heap' = heap
       /\ kind' = [kind EXCEPT ![b] = o.kind] /\ shards' = [shards EXCEPT ![b] = o.shards]
       /\ taken' = [taken EXCEPT ![b] = o.taken] /\ pending' = [pending EXCEPT ![b] = o.pending]
  BY <1>1 DEF append_empty, IInv, Typed
<1>11. /\ Object(b)' = o2 /\ \A c \in Obj : c # b => Object(c)' = Object(c)
       /\ Typed'
  BY <1>1, <1>6, <1>10, ObjectStep DEF TypesOK
<1> QED BY <1>1, <1>9, <1>10, <1>11, StepOne

LEMMA append_failsInv ==
  ASSUME IInv, NEW b \in Obj, NEW view \in Input, append_fails(b, view)
  PROVE  IInv'
<1> PICK o : o = Object(b)
  OBVIOUS
<1>1. /\ heap \in Memory /\ ObjOK(heap, o) /\ TypesOK(o) /\ KindOK(o)
      /\ o.kind = kind[b] /\ o.store = store[b] /\ o.shards = shards[b] /\ o.taken = taken[b]
      /\ o.pending = pending[b] /\ o.text = text[b]
  BY ObjectFacts
<1>2. /\ o.store \in Store /\ CanGrow(o.store) /\ Len(o.store.records) \in Nat
      /\ Len(o.store.records) <= o.store.capacity /\ o.store.capacity <= max_capacity
      /\ o.kind = "GrowableBuilder"
  BY <1>1 DEF TypesOK, Store, append_fails
<1> PICK st : st = grown(o.store)
  OBVIOUS
<1>3. /\ st \in Store /\ st.slices = o.store.slices /\ st.records = o.store.records
      /\ Len(st.records) < st.capacity /\ st.capacity <= max_capacity /\ st.capacity \in Nat
  BY <1>2, GrownOK DEF Store
<1> PICK o2 : o2 = [kind |-> o.kind, store |-> st, shards |-> o.shards, taken |-> o.taken,
                    pending |-> o.pending, text |-> o.text]
  OBVIOUS
<1>4. /\ o2.kind = o.kind /\ o2.shards = o.shards /\ o2.taken = o.taken /\ o2.pending = o.pending
      /\ o2.text = o.text /\ o2.store = st
      /\ Workers(o2) = Workers(o) /\ Owns(o2) = Owns(o) /\ Records(o2) = Records(o)
      /\ \A j : Rec(o2, j) = Rec(o, j)
  BY <1>3 DEF Workers, Owns, Records, Rec
<1>5. TypesOK(o2) /\ KindOK(o2)
  BY <1>1, <1>2, <1>3, <1>4 DEF TypesOK, KindOK
<1>6. ObjOK(heap, o2)
  <2>1. ChainsOK(heap, o2)
    <3>1. ChainsOK(heap, o) /\ o2.store.slices = o.store.slices
      BY <1>1, <1>3, <1>4 DEF ObjOK
    <3> QED BY ONLY <1>4, <3>1 DEF ChainsOK
  <2>2. ASSUME NEW j \in Records(o2) PROVE RecordOK(heap, o2, j)
    <3>1. RecordOK(heap, o, j)
      BY <1>1, <1>4 DEF ObjOK
    <3> QED BY ONLY <1>4, <3>1 DEF RecordOK
  <2>3. ASSUME NEW p \in o2.pending PROVE PendingOK(heap, o2, p)
    <3>1. PendingOK(heap, o, p)
      BY <1>1, <1>4 DEF ObjOK
    <3> QED BY ONLY <1>4, <3>1 DEF PendingOK
  <2>4. BytesApart(o2)
    <3>1. BytesApart(o)
      BY <1>1 DEF ObjOK
    <3> QED BY ONLY <1>4, <3>1 DEF BytesApart
  <2>5. o2.taken = {}
    BY <1>1, <1>2, <1>4 DEF KindOK
  <2> QED BY <1>5, <2>1, <2>2, <2>3, <2>4, <2>5 DEF ObjOK
<1>7. /\ store' = [store EXCEPT ![b] = st] /\ text' = [text EXCEPT ![b] = o.text] /\ heap' = heap
      /\ kind' = [kind EXCEPT ![b] = o.kind] /\ shards' = [shards EXCEPT ![b] = o.shards]
      /\ taken' = [taken EXCEPT ![b] = o.taken] /\ pending' = [pending EXCEPT ![b] = o.pending]
  BY <1>1 DEF append_fails, IInv, Typed
<1>8. /\ Object(b)' = o2 /\ \A c \in Obj : c # b => Object(c)' = Object(c)
      /\ Typed'
  BY <1>1, <1>5, <1>7, ObjectStep DEF TypesOK
<1> QED BY <1>1, <1>4, <1>6, <1>7, <1>8, StepOne

LEMMA append_reserveInv ==
  ASSUME IInv, NEW b \in Obj, NEW view \in Input, append_reserve(b, view)
  PROVE  IInv'
<1> PICK o : o = Object(b)
  OBVIOUS
<1> PICK n : n = Len(view.bytes)
  OBVIOUS
<1>1. /\ heap \in Memory /\ ObjOK(heap, o) /\ TypesOK(o) /\ KindOK(o)
      /\ o.kind = kind[b] /\ o.store = store[b] /\ o.shards = shards[b] /\ o.taken = taken[b]
      /\ o.pending = pending[b] /\ o.text = text[b]
  BY ObjectFacts
<1>2. view \in View /\ n \in Nat /\ n > 0 /\ view.enc \in Tag \cup {"NA"} /\ view.bytes \in Str
  BY BuildersAssumption DEF append_reserve, View, Str
<1>3. /\ o.store \in Store /\ o.store.records \in Seq(Record) /\ o.text \in Seq(View)
      /\ Len(o.text) = Len(o.store.records) /\ CanGrow(o.store) /\ o.shards \in Seq(Shard)
      /\ Len(o.store.records) <= o.store.capacity /\ o.store.capacity <= max_capacity
      /\ o.kind = "GrowableBuilder" /\ o.taken = {} /\ 1 \in Workers(o) /\ 1 \in DOMAIN o.shards
  BY <1>1 DEF TypesOK, KindOK, Store, append_reserve, Workers
<1>4. PICK room \in Rooms(o.shards[1], n, 0) :
        /\ shards'  = [shards EXCEPT ![b][1] = advanced(room.shard, n)]
        /\ heap'    = room.heap
        /\ store'   = [store EXCEPT ![b] = push_back_reserved(grown(@),
                         [at |-> cursor(room.shard), len |-> n, enc |-> view.enc])]
        /\ pending' = [pending EXCEPT ![b] = @ \cup {[at |-> cursor(room.shard), bytes |-> view.bytes]}]
  BY <1>1 DEF append_reserve
<1> PICK o1 : o1 = [o EXCEPT !.shards = [@ EXCEPT ![1] = room.shard]]
  OBVIOUS
<1>5. /\ ObjOK(heap', o1) /\ heap' \in Memory
      /\ Workers(o1) = Workers(o) /\ o1.shards[1] = room.shard /\ n <= Room(room.shard)
      /\ Owns(o) \subseteq Owns(o1)
      /\ \A s \in Owns(o1) : s \in Owns(o) \/ heap[s] = Freed
      /\ \A s \in Slice : s \notin Owns(o1) => heap'[s] = heap[s]
  <2>1. Roomier(o, o1, 1, room.shard)
    BY <1>3 DEF Roomier, Object
  <2>2. /\ n \in Nat /\ n > 0 /\ 1 \in Workers(o) /\ heap' = room.heap
        /\ HasRoom(heap, o.shards[1], n, room)
    BY <1>1, <1>2, <1>3, <1>4, RoomOK
  <2>3. /\ ObjOK(room.heap, o1) /\ room.heap \in Memory
        /\ Workers(o1) = Workers(o) /\ o1.shards[1] = room.shard /\ n <= Room(room.shard)
        /\ Owns(o) \subseteq Owns(o1)
        /\ \A s \in Owns(o1) : s \in Owns(o) \/ heap[s] = Freed
        /\ \A s \in Slice : s \notin Owns(o1) => room.heap[s] = heap[s]
    BY ONLY <1>1, <2>1, <2>2, RoomFound
  <2> QED BY <2>2, <2>3
<1> PICK at : at = cursor(room.shard)
  OBVIOUS
<1> PICK sh1 : sh1 = o1.shards
  OBVIOUS
<1>6. /\ o1.kind = o.kind /\ o1.store = o.store /\ o1.taken = o.taken /\ o1.pending = o.pending
      /\ o1.text = o.text /\ sh1 = [o.shards EXCEPT ![1] = room.shard]
  BY DEF Object
<1>7. at \in Place /\ room.shard \in Shard /\ sh1 \in Seq(Shard) /\ 1 \in DOMAIN sh1 /\ sh1[1] = room.shard
  <2> PICK mem : mem = heap'
    OBVIOUS
  <2>1. mem \in Memory /\ ObjOK(mem, o1) /\ 1 \in Workers(o1) /\ o1.shards[1] = room.shard
    BY <1>3, <1>5
  <2>2. \A m \in Workers(o1) : cursor(o1.shards[m]) \in Place /\ o1.shards[m] \in Shard
    BY <2>1, ObjTypes
  <2>3. at \in Place /\ room.shard \in Shard
    BY <2>1, <2>2
  <2>4. sh1 \in Seq(Shard) /\ 1 \in DOMAIN sh1 /\ sh1[1] = room.shard
    BY <1>3, <1>6, <2>3
  <2> QED BY <2>3, <2>4
<1> PICK r \in Record : r = [at |-> at, len |-> n, enc |-> view.enc]
  BY <1>2, <1>7 DEF Record
<1> PICK p \in Reservation : p = [at |-> at, bytes |-> view.bytes]
  BY <1>2, <1>7 DEF Reservation
<1> PICK st : st = push_back_reserved(grown(o.store), r)
  OBVIOUS
<1> PICK i \in Nat : i = Len(o.store.records) + 1
  BY <1>3
<1>8. /\ st \in Store /\ st.slices = o.store.slices /\ st.capacity <= max_capacity
      /\ Len(st.records) = i /\ i <= st.capacity /\ DOMAIN st.records = 1 .. i
      /\ st.records[i] = r /\ \A j \in DOMAIN o.store.records : st.records[j] = o.store.records[j]
  <2>1. r \in Record /\ st = push_back_reserved(grown(o.store), r) /\ i = Len(o.store.records) + 1
    OBVIOUS
  <2>2. Pushed(o.store, st, r, i)
    BY ONLY <1>3, <2>1, PushedOK
  <2> QED BY ONLY <2>2 DEF Pushed
<1> PICK tx : tx = Append(o.text, view)
  OBVIOUS
<1>9. /\ tx \in Seq(View) /\ Len(tx) = i /\ tx[i] = view
      /\ \A j \in DOMAIN o.store.records : tx[j] = o.text[j]
  BY <1>2, <1>3
<1> PICK sh : sh = [sh1 EXCEPT ![1] = advanced(@, n)]
  OBVIOUS
<1>10. sh \in Seq(Shard) /\ DOMAIN sh = DOMAIN o.shards
  <2>1. advanced(room.shard, n) \in Shard
    BY <1>2, <1>7, AdvancedType
  <2> QED BY <1>3, <1>6, <1>7, <2>1
<1> PICK o2 : o2 = [kind |-> o.kind, store |-> st, shards |-> sh, taken |-> {},
                    pending |-> o.pending \cup {p}, text |-> tx]
  OBVIOUS
<1>11. TypesOK(o2)
  BY <1>1, <1>8, <1>9, <1>10 DEF TypesOK
<1>12. KindOK(o2)
  BY <1>1, <1>3, <1>10 DEF KindOK, Workers
<1>13. /\ Records(o1) \subseteq Records(o2) /\ Records(o2) \subseteq Records(o1) \cup {i}
       /\ i \in Records(o2) /\ Rec(o2, i) = r
       /\ \A j \in Records(o1) : Rec(o2, j) = Rec(o1, j) /\ o2.text[j] = o1.text[j]
  <2>1. i \in Nat /\ i >= 1 /\ Records(o1) = 1 .. i - 1 /\ Records(o2) = 1 .. i
    BY <1>3, <1>6, <1>8 DEF Records
  <2>2. Rec(o2, i) = r
    BY <1>8 DEF Rec
  <2>3. /\ Records(o1) \subseteq Records(o2) /\ Records(o2) \subseteq Records(o1) \cup {i}
        /\ i \in Records(o2)
    BY ONLY <2>1, LastIndex
  <2>4. \A j \in Records(o1) : Rec(o2, j) = Rec(o1, j) /\ o2.text[j] = o1.text[j]
    <3>1. o2.store = st /\ o2.text = tx
      OBVIOUS
    <3> QED BY ONLY <1>6, <1>8, <1>9, <3>1 DEF Records, Rec
  <2> QED BY <2>2, <2>3, <2>4
<1>14. ObjOK(heap', o2) /\ Owns(o2) = Owns(o1)
  <2>1. o2.store.slices = o1.store.slices /\ o2.text[i] = view /\ o2.taken \subseteq o1.taken
    BY <1>6, <1>8, <1>9
  <2>2. Rec(o2, i).len = Len(view.bytes) /\ Rec(o2, i).enc = view.enc
    BY <1>13
  <2>3. /\ Len(view.bytes) \in 1 .. Room(o1.shards[1]) /\ Rec(o2, i).at = cursor(o1.shards[1])
        /\ o2.shards = [o1.shards EXCEPT ![1] = advanced(@, Len(view.bytes))]
        /\ o2.pending = o1.pending \cup {[at |-> cursor(o1.shards[1]), bytes |-> view.bytes]}
        /\ \A x \in o2.taken : x.worker # 1
    <3>1. Room(o1.shards[1]) \in Nat
      <4> PICK mem : mem = heap'
        OBVIOUS
      <4>1. mem \in Memory /\ ObjOK(mem, o1) /\ 1 \in Workers(o1)
        BY <1>3, <1>5
      <4>2. \A m \in Workers(o1) : Room(o1.shards[m]) \in Nat
        BY <4>1, ObjTypes
      <4> QED BY <4>1, <4>2
    <3>2. Len(view.bytes) \in 1 .. Room(o1.shards[1])
      BY <1>2, <1>5, <3>1
    <3> QED BY <1>5, <1>6, <1>13, <3>2
  <2>4. Put(o1, o2, 1, i, view)
    BY ONLY <1>13, <2>1, <2>2, <2>3 DEF Put
  <2> PICK mem : mem = heap'
    OBVIOUS
  <2>5. mem \in Memory /\ ObjOK(mem, o1) /\ 1 \in Workers(o1) /\ i \in Records(o2)
    BY <1>3, <1>5, <1>13
  <2>6. ObjOK(mem, o2) /\ Owns(o2) = Owns(o1)
    BY ONLY <1>2, <1>11, <1>12, <2>4, <2>5, RecordPut
  <2> QED BY <2>6
<1>15. /\ store' = [store EXCEPT ![b] = st] /\ text' = [text EXCEPT ![b] = tx]
       /\ kind' = [kind EXCEPT ![b] = o.kind] /\ shards' = [shards EXCEPT ![b] = sh]
       /\ taken' = [taken EXCEPT ![b] = o2.taken] /\ pending' = [pending EXCEPT ![b] = o2.pending]
  <2>1. store' = [store EXCEPT ![b] = st]
    BY <1>1, <1>4
  <2>2. pending' = [pending EXCEPT ![b] = o2.pending]
    BY <1>1, <1>4
  <2>3. shards' = [shards EXCEPT ![b] = sh]
    <3>1. sh = [o.shards EXCEPT ![1] = advanced(room.shard, n)]
      BY <1>3, <1>6, <1>7
    <3> QED BY <1>1, <1>4, <3>1
  <2>4. kind' = kind /\ taken' = taken /\ text' = [text EXCEPT ![b] = tx]
    BY <1>1 DEF append_reserve
  <2> QED BY <1>1, <1>3, <2>1, <2>2, <2>3, <2>4 DEF IInv, Typed
<1>16. /\ Object(b)' = o2 /\ \A c \in Obj : c # b => Object(c)' = Object(c)
       /\ Typed'
  <2>1. /\ o2.kind \in Kind /\ o2.store \in Store /\ o2.shards \in Seq(Shard)
        /\ o2.taken \in SUBSET Taken /\ o2.pending \in SUBSET Reservation /\ o2.text \in Seq(View)
    BY <1>11 DEF TypesOK
  <2>2. o2 = [kind |-> o2.kind, store |-> o2.store, shards |-> o2.shards, taken |-> o2.taken,
              pending |-> o2.pending, text |-> o2.text]
    OBVIOUS
  <2>3. /\ kind' = [kind EXCEPT ![b] = o2.kind] /\ store' = [store EXCEPT ![b] = o2.store]
        /\ shards' = [shards EXCEPT ![b] = o2.shards] /\ text' = [text EXCEPT ![b] = o2.text]
    BY <1>15
  <2>4. IInv /\ b \in Obj /\ heap' \in Memory
    BY <1>5
  <2> QED BY ONLY <1>15, <2>1, <2>2, <2>3, <2>4, ObjectStep
<1>17. /\ ObjOK(heap', Object(b)')
       /\ \A s \in Slice : s \notin Owns(Object(b)) /\ s \notin Owns(Object(b)') => heap'[s] = heap[s]
       /\ \A s \in Owns(Object(b)') : heap[s] = Freed \/ s \in Owns(Object(b))
       /\ \A s \in Owns(Object(b)) : s \in Owns(Object(b)') \/ heap'[s] = Freed
  BY <1>5, <1>14, <1>16
<1> QED BY <1>16, <1>17, StepOne

-----------------------------------------------------------------------------
(* What object b has goes to object t, and what t had is freed.            *)
LEMMA HandedOver ==
  ASSUME IInv, NEW b \in Obj, NEW t \in Obj, b # t, NEW b2, NEW t2,
         ObjOK(heap', b2), ObjOK(heap', t2), Owns(b2) = {}, Owns(t2) = Owned(b),
         heap' = FreedBy(Owned(t)),
         b2 = [kind |-> b2.kind, store |-> b2.store, shards |-> b2.shards, taken |-> b2.taken,
               pending |-> b2.pending, text |-> b2.text],
         t2 = [kind |-> t2.kind, store |-> t2.store, shards |-> t2.shards, taken |-> t2.taken,
               pending |-> t2.pending, text |-> t2.text],
         kind' = [kind EXCEPT ![t] = t2.kind, ![b] = b2.kind],
         store' = [store EXCEPT ![t] = t2.store, ![b] = b2.store],
         shards' = [shards EXCEPT ![t] = t2.shards, ![b] = b2.shards],
         taken' = [taken EXCEPT ![t] = t2.taken, ![b] = b2.taken],
         pending' = [pending EXCEPT ![t] = t2.pending, ![b] = b2.pending],
         text' = [text EXCEPT ![t] = t2.text, ![b] = b2.text]
  PROVE  IInv'
<1>1. Typed /\ TypesOK(b2) /\ TypesOK(t2)
  BY DEF IInv, ObjOK
<1>2. /\ kind'[b] = b2.kind /\ store'[b] = b2.store /\ shards'[b] = b2.shards
      /\ taken'[b] = b2.taken /\ pending'[b] = b2.pending /\ text'[b] = b2.text
      /\ kind'[t] = t2.kind /\ store'[t] = t2.store /\ shards'[t] = t2.shards
      /\ taken'[t] = t2.taken /\ pending'[t] = t2.pending /\ text'[t] = t2.text
  BY <1>1 DEF Typed
<1>3. \A c \in Obj : c # b /\ c # t =>
        /\ kind'[c] = kind[c] /\ store'[c] = store[c] /\ shards'[c] = shards[c]
        /\ taken'[c] = taken[c] /\ pending'[c] = pending[c] /\ text'[c] = text[c]
  BY <1>1 DEF Typed
<1>4. /\ Owned(b) = Owns(Object(b)) /\ Owned(t) = Owns(Object(t)) /\ heap \in Memory
      /\ \A s \in Owned(b) : s \in Slice /\ heap[s] # Freed
      /\ Owned(b) \cap Owned(t) = {}
  BY ObjectFacts DEF IInv, Ownership
<1>5. heap' \in Memory /\ \A s \in Slice : heap'[s] = IF s \in Owned(t) THEN Freed ELSE heap[s]
  BY <1>4 DEF FreedBy, Memory
<1>6. Typed'
  <2>1. /\ b2.kind \in Kind /\ b2.store \in Store /\ b2.shards \in Seq(Shard)
        /\ b2.taken \in SUBSET Taken /\ b2.pending \in SUBSET Reservation /\ b2.text \in Seq(View)
        /\ t2.kind \in Kind /\ t2.store \in Store /\ t2.shards \in Seq(Shard)
        /\ t2.taken \in SUBSET Taken /\ t2.pending \in SUBSET Reservation /\ t2.text \in Seq(View)
    BY <1>1 DEF TypesOK
  <2>2. kind' \in [Obj -> Kind] /\ store' \in [Obj -> Store] /\ shards' \in [Obj -> Seq(Shard)]
    BY <1>1, <2>1 DEF Typed
  <2>3. /\ taken' \in [Obj -> SUBSET Taken] /\ pending' \in [Obj -> SUBSET Reservation]
        /\ text' \in [Obj -> Seq(View)]
    BY <1>1, <2>1 DEF Typed
  <2> QED BY <1>5, <2>2, <2>3 DEF Typed
<1>7. /\ Object(b)' = b2 /\ Object(t)' = t2
      /\ \A c \in Obj : c # b /\ c # t => Object(c)' = Object(c)
  BY <1>2, <1>3 DEF Object
<1> DEFINE S == {b, t}
<1>8. \A c \in Obj \ S : /\ Object(c)' = Object(c)
                         /\ \A s \in Owns(Object(c)) : heap'[s] = heap[s]
  <2> SUFFICES ASSUME NEW c \in Obj \ S, NEW s \in Owns(Object(c))
               PROVE  heap'[s] = heap[s]
    BY <1>7
  <2>1. s \in Slice /\ s \in Owned(c)
    BY ObjectFacts
  <2>2. s \notin Owned(t)
    BY <1>4 DEF IInv, Ownership
  <2> QED BY <1>5, <2>1, <2>2
<1>9. \A c \in S : ObjOK(heap', Object(c)')
  BY <1>7
<1>10. \A c \in S : \A s \in Owns(Object(c)') :
         heap[s] = Freed \/ \E u \in S : s \in Owns(Object(u))
  BY <1>4, <1>7
<1>11. \A c, u \in S : c # u => Owns(Object(c)') \cap Owns(Object(u)') = {}
  BY <1>7
<1>12. \A s \in Slice : heap'[s] # Freed =>
         \/ \E c \in S : s \in Owns(Object(c)')
         \/ heap[s] # Freed /\ \A c \in S : s \notin Owns(Object(c))
  BY <1>4, <1>5, <1>7
<1>13. S \in SUBSET Obj
  OBVIOUS
<1> HIDE DEF S
<1> QED BY <1>6, <1>8, <1>9, <1>10, <1>11, <1>12, <1>13, Step

(* A builder's slices, all in the chain of its Store.                      *)
LEMMA FinishedOK ==
  ASSUME NEW mem \in Memory, NEW o, ObjOK(mem, o), NEW o2, o2.kind = "Store",
         o2.store = [o.store EXCEPT !.slices = Owns(o)], o2.shards = << >>, o2.taken = {},
         o2.pending = o.pending, o2.text = o.text
  PROVE  ObjOK(mem, o2) /\ Owns(o2) = Owns(o)
<1>1. /\ TypesOK(o) /\ ChainsOK(mem, o) /\ BytesApart(o)
      /\ \A i \in Records(o) : RecordOK(mem, o, i)
      /\ \A p \in o.pending : PendingOK(mem, o, p)
  BY DEF ObjOK
<1>2. Owns(o) \in SUBSET Slice
  BY <1>1 DEF ChainsOK
<1>3. /\ o2.store \in Store /\ o2.store.slices = Owns(o) /\ o2.store.records = o.store.records
      /\ o2.store.capacity = o.store.capacity
  BY <1>1, <1>2 DEF TypesOK, Store
<1>4. Workers(o2) = {} /\ Owns(o2) = Owns(o)
  BY <1>3 DEF Workers, Owns
<1>5. Records(o2) = Records(o) /\ \A i : Rec(o2, i) = Rec(o, i)
  BY <1>3 DEF Records, Rec
<1>6. TypesOK(o2) /\ KindOK(o2)
  BY <1>1, <1>3 DEF TypesOK, KindOK, Kind
<1>7. ChainsOK(mem, o2)
  BY <1>1, <1>4 DEF ChainsOK
<1>8. \A i \in Records(o2) : RecordOK(mem, o2, i)
  BY <1>1, <1>4, <1>5 DEF RecordOK
<1>9. \A p \in o2.pending : PendingOK(mem, o2, p)
  BY <1>1, <1>4, <1>5 DEF PendingOK
<1>10. BytesApart(o2)
  BY <1>1, <1>4, <1>5 DEF BytesApart
<1> QED BY <1>4, <1>6, <1>7, <1>8, <1>9, <1>10 DEF ObjOK

LEMMA release_storeInv ==
  ASSUME IInv, NEW b \in Obj, NEW t \in Obj, release_store(b, t)
  PROVE  IInv'
<1> PICK o : o = Object(b)
  OBVIOUS
<1>1. /\ heap \in Memory /\ ObjOK(heap, o) /\ TypesOK(o) /\ KindOK(o) /\ Owned(b) = Owns(o)
      /\ o.kind = kind[b] /\ o.store = store[b] /\ o.shards = shards[b] /\ o.taken = taken[b]
      /\ o.pending = pending[b] /\ o.text = text[b]
  BY ObjectFacts
<1>2. /\ o.kind \in {"Builder", "ParallelBuilder", "GrowableBuilder"} /\ o.taken = {}
      /\ kind[t] = "none" /\ b # t
  BY <1>1 DEF release_store, Idle
<1>3. Owned(t) = {} /\ shards[t] = << >> /\ taken[t] = {}
  BY <1>2, ObjectFacts DEF KindOK, Owns, Workers
<1>4. heap' = heap /\ heap' = FreedBy(Owned(t))
  BY <1>1, <1>3 DEF release_store, FreedBy, Memory
<1> PICK t2 : t2 = [kind |-> "Store", store |-> finished(b), shards |-> << >>, taken |-> {},
                    pending |-> o.pending, text |-> o.text]
  OBVIOUS
<1>5. ObjOK(heap', t2) /\ Owns(t2) = Owned(b)
  <2>1. t2.store = [o.store EXCEPT !.slices = Owns(o)]
    BY <1>1 DEF finished
  <2> QED BY <1>1, <1>4, <2>1, FinishedOK
<1> PICK sh : sh = [k \in DOMAIN o.shards |-> EmptyShard]
  OBVIOUS
<1> PICK b2 : b2 = [kind |-> o.kind, store |-> EmptyStore, shards |-> sh, taken |-> {},
                    pending |-> {}, text |-> << >>]
  OBVIOUS
<1>6. /\ EmptyStore \in Store /\ EmptyStore.slices = {} /\ EmptyStore.capacity = 0
      /\ EmptyStore.records = << >> /\ EmptyShard \in Shard
      /\ EmptyShard.slices = {} /\ EmptyShard.used <= EmptyShard.cap
  BY NewStoreOK
<1>7. ObjOK(heap', b2) /\ Owns(b2) = {}
  <2>1. sh \in Seq(Shard) /\ DOMAIN sh = DOMAIN o.shards
    <3>1. o.shards \in Seq(Shard) /\ sh = [k \in DOMAIN o.shards |-> EmptyShard]
      BY <1>1 DEF TypesOK
    <3> QED BY ONLY <1>6, <3>1
  <2>2. TypesOK(b2) /\ Records(b2) = {}
    BY <1>2, <1>6, <2>1, BuildersAssumption DEF TypesOK, Kind, Records
  <2>3. KindOK(b2)
    BY <1>1, <1>2, <2>1 DEF KindOK, Workers
  <2>4. \A k \in Workers(b2) : b2.shards[k].slices = {} /\ b2.shards[k].used <= b2.shards[k].cap
    BY <1>6 DEF Workers
  <2> QED BY <1>6, <2>2, <2>3, <2>4, EmptyOK
<1>8. /\ kind' = [kind EXCEPT ![t] = t2.kind, ![b] = b2.kind]
      /\ store' = [store EXCEPT ![t] = t2.store, ![b] = b2.store]
      /\ shards' = [shards EXCEPT ![t] = t2.shards, ![b] = b2.shards]
  BY <1>1, <1>2, <1>3 DEF release_store, IInv, Typed
<1>9. /\ taken' = [taken EXCEPT ![t] = t2.taken, ![b] = b2.taken]
      /\ pending' = [pending EXCEPT ![t] = t2.pending, ![b] = b2.pending]
      /\ text' = [text EXCEPT ![t] = t2.text, ![b] = b2.text]
  BY <1>1, <1>2, <1>3 DEF release_store, IInv, Typed
<1> QED BY <1>2, <1>4, <1>5, <1>7, <1>8, <1>9, HandedOver

LEMMA MoveInv ==
  ASSUME IInv, NEW b \in Obj, NEW t \in Obj, Move(b, t)
  PROVE  IInv'
<1> PICK o : o = Object(b)
  OBVIOUS
<1>1. /\ heap \in Memory /\ ObjOK(heap, o) /\ TypesOK(o) /\ KindOK(o) /\ Owned(b) = Owns(o)
      /\ o.kind = kind[b] /\ o.store = store[b] /\ o.shards = shards[b] /\ o.taken = taken[b]
      /\ o.pending = pending[b] /\ o.text = text[b]
      /\ \A s \in Owned(b) : s \in Slice
  BY ObjectFacts
<1>2. b # t /\ o.kind # "none" /\ o.taken = {} /\ taken[t] = {} /\ heap' = FreedBy(Owned(t))
  BY <1>1 DEF Move, Idle
<1>3. ObjOK(heap', o)
  <2>1. Owned(b) \cap Owned(t) = {}
    BY <1>2, ObjectFacts DEF IInv, Ownership
  <2>2. \A s \in Owns(o) : heap'[s] = heap[s]
    BY <1>1, <1>2, <2>1 DEF FreedBy
  <2> QED BY <1>1, <2>2, Frame
<1> PICK sh : sh = MovedFrom(b)
  OBVIOUS
<1> PICK b2 : b2 = [kind |-> o.kind, store |-> EmptyStore, shards |-> sh, taken |-> {},
                    pending |-> {}, text |-> << >>]
  OBVIOUS
<1>4. /\ EmptyStore \in Store /\ EmptyStore.slices = {} /\ EmptyStore.capacity = 0
      /\ EmptyStore.records = << >>
  BY NewStoreOK
<1>5. /\ sh \in Seq(Shard)
      /\ \A k \in DOMAIN sh : sh[k].slices = {} /\ sh[k].used <= sh[k].cap
      /\ o.kind = "Store" => sh = << >>
      /\ o.kind \in {"Builder", "GrowableBuilder"} => DOMAIN sh = 1 .. 1
  <2>1. CASE o.kind \in {"Builder", "GrowableBuilder"}
    <3>1. sh = [k \in DOMAIN o.shards |-> [o.shards[k] EXCEPT !.slices = {}, !.front = Nil]]
      BY <1>1, <2>1 DEF MovedFrom
    <3>2. o.shards \in Seq(Shard) /\ DOMAIN o.shards = 1 .. 1
      BY <1>1, <2>1 DEF TypesOK, KindOK, Workers
    <3>3. ASSUME NEW k \in DOMAIN o.shards
          PROVE  /\ [o.shards[k] EXCEPT !.slices = {}, !.front = Nil] \in Shard
                 /\ sh[k].slices = {} /\ sh[k].used <= sh[k].cap
      <4>1. o.shards[k] \in Shard /\ o.shards[k].used <= o.shards[k].cap
        BY <1>1 DEF ObjOK, ChainsOK, ShardOK, Workers
      <4>2. sh[k] = [o.shards[k] EXCEPT !.slices = {}, !.front = Nil]
        BY <3>1
      <4> QED BY <4>1, <4>2 DEF Shard
    <3>4. sh \in Seq(Shard) /\ DOMAIN sh = 1 .. 1
      BY <3>1, <3>2, <3>3
    <3>5. \A k \in DOMAIN sh : sh[k].slices = {} /\ sh[k].used <= sh[k].cap
      BY <3>2, <3>3, <3>4
    <3> QED BY <2>1, <3>4, <3>5
  <2>2. CASE o.kind \notin {"Builder", "GrowableBuilder"}
    BY <1>1, <2>2 DEF MovedFrom
  <2> QED BY <2>1, <2>2
<1>6. ObjOK(heap', b2) /\ Owns(b2) = {}
  <2>1. TypesOK(b2) /\ Records(b2) = {}
    BY <1>1, <1>4, <1>5, BuildersAssumption DEF TypesOK, Kind, Records
  <2>2. KindOK(b2)
    BY <1>2, <1>5 DEF KindOK, Workers
  <2>3. \A k \in Workers(b2) : b2.shards[k].slices = {} /\ b2.shards[k].used <= b2.shards[k].cap
    BY <1>5 DEF Workers
  <2> QED BY <1>4, <2>1, <2>2, <2>3, EmptyOK
<1>7. o = [kind |-> o.kind, store |-> o.store, shards |-> o.shards, taken |-> o.taken,
           pending |-> o.pending, text |-> o.text]
  BY DEF Object
<1>8. /\ kind' = [kind EXCEPT ![t] = o.kind, ![b] = b2.kind]
      /\ store' = [store EXCEPT ![t] = o.store, ![b] = b2.store]
      /\ shards' = [shards EXCEPT ![t] = o.shards, ![b] = b2.shards]
  BY <1>1, <1>2 DEF Move, IInv, Typed
<1>9. /\ taken' = [taken EXCEPT ![t] = o.taken, ![b] = b2.taken]
      /\ pending' = [pending EXCEPT ![t] = o.pending, ![b] = b2.pending]
      /\ text' = [text EXCEPT ![t] = o.text, ![b] = b2.text]
  BY <1>1, <1>2 DEF Move, IInv, Typed
<1> QED BY <1>1, <1>2, <1>3, <1>6, <1>7, <1>8, <1>9, HandedOver

-----------------------------------------------------------------------------
LEMMA InitInv == Init => IInv
<1> SUFFICES ASSUME Init PROVE IInv
  OBVIOUS
<1>1. /\ EmptyStore \in Store /\ EmptyStore.slices = {} /\ EmptyStore.capacity = 0
      /\ EmptyStore.records = << >>
  BY NewStoreOK
<1>2. Typed
  BY <1>1 DEF Init, Typed, Memory, Kind
<1> PICK o : o = [kind |-> "none", store |-> EmptyStore, shards |-> << >>, taken |-> {},
                  pending |-> {}, text |-> << >>]
  OBVIOUS
<1>3. \A b \in Obj : Object(b) = o
  BY DEF Init, Object
<1>4. ObjOK(heap, o) /\ Owns(o) = {}
  <2>1. TypesOK(o) /\ KindOK(o) /\ Workers(o) = {} /\ Records(o) = {}
    BY <1>1, BuildersAssumption DEF TypesOK, KindOK, Kind, Workers, Records
  <2> QED BY <1>1, <2>1, EmptyOK
<1>5. Ownership
  BY <1>3, <1>4 DEF Ownership, Init
<1> QED BY <1>2, <1>3, <1>4, <1>5 DEF IInv

LEMMA StutterInv == ASSUME IInv, UNCHANGED vars PROVE IInv'
BY DEF IInv, vars, Typed, Ownership, Object

LEMMA NextInv == IInv /\ [Next]_vars => IInv'
<1> SUFFICES ASSUME IInv, [Next]_vars PROVE IInv'
  OBVIOUS
<1>1. CASE UNCHANGED vars
  BY <1>1, StutterInv
<1>2. CASE Next
  <2> PICK b \in Obj :
    \/ \E what \in Kinds, n \in Lengths, m \in ShardCounts : Construct(b, what, n, m)
    \/ \E n \in Lengths, m \in ShardCounts : reset(b, n, m)
    \/ \E k \in DOMAIN shards[b], i \in DOMAIN store[b].records, view \in Input :
         set_empty(b, k, i, view) \/ Take(b, k, i, view)
    \/ \E x \in taken[b] : Commit(b, x)
    \/ \E p \in pending[b] : Fill(b, p)
    \/ \E view \in Input :
         append_empty(b, view) \/ append_reserve(b, view) \/ append_fails(b, view)
    \/ \E t \in Obj : release_store(b, t) \/ Move(b, t)
    \/ Destroy(b)
    BY <1>2 DEF Next
  <2>1. CASE \E what \in Kinds, n \in Lengths, m \in ShardCounts : Construct(b, what, n, m)
    BY <2>1, ConstructInv
  <2>2. CASE \E n \in Lengths, m \in ShardCounts : reset(b, n, m)
    BY <2>2, resetInv
  <2>3. ASSUME NEW k \in DOMAIN shards[b], NEW i \in DOMAIN store[b].records, NEW view \in Input,
               set_empty(b, k, i, view)
        PROVE  IInv'
    BY <2>3, set_emptyInv
  <2>4. ASSUME NEW k \in DOMAIN shards[b], NEW i \in DOMAIN store[b].records, NEW view \in Input,
               Take(b, k, i, view)
        PROVE  IInv'
    BY <2>4, TakeInv
  <2>5. CASE \E x \in taken[b] : Commit(b, x)
    BY <2>5, CommitInv
  <2>6. CASE \E p \in pending[b] : Fill(b, p)
    BY <2>6, FillInv
  <2>7. CASE \E view \in Input : append_empty(b, view)
    BY <2>7, append_emptyInv
  <2>8. CASE \E view \in Input : append_reserve(b, view)
    BY <2>8, append_reserveInv
  <2>9. CASE \E view \in Input : append_fails(b, view)
    BY <2>9, append_failsInv
  <2>10. CASE \E t \in Obj : release_store(b, t)
    BY <2>10, release_storeInv
  <2>11. CASE \E t \in Obj : Move(b, t)
    BY <2>11, MoveInv
  <2>12. CASE Destroy(b)
    BY <2>12, DestroyInv
  <2> QED BY <2>1, <2>2, <2>3, <2>4, <2>5, <2>6, <2>7, <2>8, <2>9, <2>10, <2>11, <2>12
<1> QED BY <1>1, <1>2

LEMMA Invariance == Spec => []IInv
BY InitInv, NextInv, PTL DEF Spec

-----------------------------------------------------------------------------
LEMMA TypeImplied == IInv => TypeOK
<1> SUFFICES ASSUME IInv PROVE TypeOK
  OBVIOUS
<1>1. Typed
  BY DEF IInv
<1>2. ASSUME NEW b \in Obj
      PROVE  /\ taken[b] \subseteq Taken /\ pending[b] \subseteq Reservation
             /\ Len(store[b].records) <= store[b].capacity
             /\ store[b].capacity <= max_capacity
             /\ \A k \in DOMAIN shards[b] : shards[b][k].used <= shards[b][k].cap
  <2> PICK o : o = Object(b)
    OBVIOUS
  <2>1. /\ ObjOK(heap, o) /\ TypesOK(o)
        /\ o.store = store[b] /\ o.shards = shards[b] /\ o.taken = taken[b]
        /\ o.pending = pending[b]
    BY ObjectFacts
  <2>2. \A k \in DOMAIN o.shards : o.shards[k].used <= o.shards[k].cap
    BY <2>1 DEF ObjOK, ChainsOK, ShardOK, Workers
  <2> QED BY <2>1, <2>2 DEF TypesOK
<1> QED BY <1>1, <1>2 DEF Typed, TypeOK, Taken, Reservation, Kind

LEMMA OwnershipImplied == IInv => SlicesOwnedOnce
<1> SUFFICES ASSUME IInv PROVE SlicesOwnedOnce
  OBVIOUS
<1>1. \A b \in Obj : /\ Owned(b) = Owns(Object(b))
                     /\ \A s \in Owned(b) : s \in Slice /\ heap[s] # Freed
  BY ObjectFacts
<1>2. UNION {Owned(b) : b \in Obj} = {s \in Slice : heap[s] # Freed}
  BY <1>1 DEF IInv, Ownership
<1>3. \A b, t \in Obj : b # t => Owned(b) \cap Owned(t) = {}
  BY <1>1 DEF IInv, Ownership
<1>4. ASSUME NEW b \in Obj, NEW k \in DOMAIN shards[b]
      PROVE  /\ store[b].slices \cap shards[b][k].slices = {}
             /\ \A m \in DOMAIN shards[b] : k # m => shards[b][k].slices \cap shards[b][m].slices = {}
  BY ObjectFacts DEF ObjOK, ChainsOK, Workers
<1> QED BY <1>2, <1>3, <1>4 DEF SlicesOwnedOnce

LEMMA DisjointImplied == IInv => BytesDisjoint
<1> SUFFICES ASSUME IInv, NEW b \in Obj
             PROVE  LET uses == {<<store[b].records[i].at, store[b].records[i].len, i>> : i \in Payload(b)}
                                \cup {<<x.at, Len(x.view.bytes), -x.worker>> : x \in taken[b]}
                    IN  \A u \in uses :
                          /\ u[1].slice \in Owned(b) /\ u[1].off + u[2] <= Len(heap[u[1].slice])
                          /\ \A w \in uses : u # w => ~ Overlap(u[1], u[2], w[1], w[2])
  BY DEF BytesDisjoint
<1> PICK o : o = Object(b)
  OBVIOUS
<1>1. /\ heap \in Memory /\ ObjOK(heap, o) /\ Owned(b) = Owns(o)
      /\ o.store = store[b] /\ o.shards = shards[b] /\ o.taken = taken[b]
  BY ObjectFacts
<1> DEFINE records == {<<Rec(o, i).at, Rec(o, i).len, i>> : i \in {j \in Records(o) : Rec(o, j).len > 0}}
           workers == {<<x.at, Len(x.view.bytes), -x.worker>> : x \in o.taken}
<1>2. ASSUME NEW i \in Records(o), Rec(o, i).len > 0
      PROVE  /\ Rec(o, i).at.slice \in Owns(o)
             /\ Rec(o, i).at.off + Rec(o, i).len <= Len(heap[Rec(o, i).at.slice])
  BY <1>1, <1>2 DEF ObjOK, RecordOK, Within
<1>3. ASSUME NEW x \in o.taken
      PROVE  /\ x.worker \in Workers(o) /\ x.at = cursor(o.shards[x.worker])
             /\ Len(x.view.bytes) \in Nat /\ Len(x.view.bytes) > 0
             /\ Len(x.view.bytes) <= Room(o.shards[x.worker]) /\ Room(o.shards[x.worker]) \in Nat
             /\ x.at.slice \in o.shards[x.worker].slices /\ x.at.slice \in Owns(o)
             /\ x.at.off \in Nat
             /\ x.at.off + Len(x.view.bytes) <= Len(heap[x.at.slice])
  <2> PICK k : k = x.worker
    OBVIOUS
  <2> PICK n : n = Len(x.view.bytes)
    OBVIOUS
  <2>1. k \in Workers(o) /\ x.at = cursor(o.shards[k]) /\ n \in 1 .. Room(o.shards[k])
    BY <1>1 DEF ObjOK, TakenOK
  <2> PICK sh \in Shard : sh = o.shards[k] /\ ShardOK(heap, sh)
    BY <1>1, <2>1 DEF ObjOK, ChainsOK, ShardOK
  <2>2. sh.used \in Nat /\ sh.cap \in Nat /\ sh.used <= sh.cap
    BY DEF Shard, ShardOK
  <2>3. Room(sh) \in Nat /\ n \in Nat /\ n > 0 /\ n <= Room(sh)
    BY <2>1, <2>2 DEF Room
  <2>4. sh.slices # {} /\ Room(sh) = sh.cap - sh.used
    BY <2>3 DEF Room
  <2>5. sh.front \in sh.slices /\ Len(heap[sh.front]) = sh.cap
    BY <2>4 DEF ShardOK
  <2>6. x.at.slice = sh.front /\ x.at.off = sh.used
    BY <2>1 DEF cursor
  <2>7. sh.front \in Owns(o)
    BY <2>1, <2>5 DEF Owns
  <2>8. sh.used + n <= sh.cap
    BY <2>2, <2>3, <2>4
  <2> QED BY <2>1, <2>2, <2>3, <2>5, <2>6, <2>7, <2>8
<1>4. ASSUME NEW i \in Records(o), NEW j \in Records(o), i # j, Rec(o, i).len > 0, Rec(o, j).len > 0
      PROVE  ~ Overlap(Rec(o, i).at, Rec(o, i).len, Rec(o, j).at, Rec(o, j).len)
  BY <1>1, <1>4 DEF ObjOK, BytesApart, Apart2
<1>5. ASSUME NEW i \in Records(o), NEW x \in o.taken, Rec(o, i).len > 0
      PROVE  /\ ~ Overlap(Rec(o, i).at, Rec(o, i).len, x.at, Len(x.view.bytes))
             /\ ~ Overlap(x.at, Len(x.view.bytes), Rec(o, i).at, Rec(o, i).len)
  <2> PICK k : k = x.worker
    OBVIOUS
  <2>1. Apart2(Rec(o, i).at, Rec(o, i).len, cursor(o.shards[k]), Room(o.shards[k]))
    BY <1>1, <1>3 DEF ObjOK, BytesApart
  <2>2. /\ Rec(o, i).at.off \in Nat /\ Rec(o, i).len \in Nat
    BY <1>1, ObjTypes
  <2>3. ~ Overlap(Rec(o, i).at, Rec(o, i).len, x.at, Room(o.shards[k]))
        /\ Room(o.shards[k]) \in Nat /\ Len(x.view.bytes) \in Nat
        /\ Len(x.view.bytes) <= Room(o.shards[k]) /\ x.at.off \in Nat
    BY <1>3, <1>5, <2>1 DEF Apart2
  <2> QED BY ONLY <2>2, <2>3 DEF Overlap
<1>6. ASSUME NEW x \in o.taken, NEW y \in o.taken, x # y
      PROVE  ~ Overlap(x.at, Len(x.view.bytes), y.at, Len(y.view.bytes))
  <2>1. x.worker # y.worker
    BY <1>1, <1>6 DEF ObjOK
  <2>2. o.shards[x.worker].slices \cap o.shards[y.worker].slices = {}
    BY <1>1, <1>3, <2>1 DEF ObjOK, ChainsOK
  <2> QED BY <1>3, <2>2 DEF Overlap
<1>7. ASSUME NEW u \in records \cup workers
      PROVE  u[1].slice \in Owns(o) /\ u[1].off + u[2] <= Len(heap[u[1].slice])
  <2>1. CASE u \in records
    BY <1>2, <2>1
  <2>2. CASE u \in workers
    BY <1>3, <2>2
  <2> QED BY <2>1, <2>2
<1>8. ASSUME NEW u \in records \cup workers, NEW w \in records \cup workers, u # w
      PROVE  ~ Overlap(u[1], u[2], w[1], w[2])
  <2>1. CASE u \in records /\ w \in records
    BY <1>4, <1>8, <2>1
  <2>2. CASE u \in records /\ w \in workers
    BY <1>5, <2>2
  <2>3. CASE u \in workers /\ w \in records
    BY <1>5, <2>3
  <2>4. CASE u \in workers /\ w \in workers
    BY <1>6, <1>8, <2>4
  <2> QED BY <2>1, <2>2, <2>3, <2>4
<1>9. /\ records = {<<store[b].records[i].at, store[b].records[i].len, i>> : i \in Payload(b)}
      /\ workers = {<<x.at, Len(x.view.bytes), -x.worker>> : x \in taken[b]}
  BY <1>1 DEF Rec, Records, Payload
<1> HIDE DEF records, workers
<1> QED BY <1>1, <1>7, <1>8, <1>9

LEMMA ReadsImplied == IInv => ReadsBack
<1> SUFFICES ASSUME IInv, NEW b \in Obj
             PROVE  /\ Len(store[b].records) = Len(text[b])
                    /\ \A i \in DOMAIN text[b] :
                         \/ Reads(b, i) = text[b][i]
                         \/ \E p \in pending[b] : p.at = store[b].records[i].at
  BY DEF ReadsBack
<1> PICK o : o = Object(b)
  OBVIOUS
<1>1. /\ ObjOK(heap, o) /\ TypesOK(o)
      /\ o.store = store[b] /\ o.pending = pending[b] /\ o.text = text[b]
  BY ObjectFacts
<1>2. /\ Len(o.text) = Len(o.store.records) /\ o.text \in Seq(View)
      /\ o.store.records \in Seq(Record)
  BY <1>1 DEF TypesOK, Store
<1>3. DOMAIN o.text = Records(o)
  BY <1>2 DEF Records
<1>4. ASSUME NEW i \in Records(o)
      PROVE  \/ ViewOf(heap, Rec(o, i)) = o.text[i]
             \/ \E p \in o.pending : p.at = Rec(o, i).at
  BY <1>1 DEF ObjOK, RecordOK
<1> QED BY <1>1, <1>2, <1>3, <1>4 DEF Rec, Reads

(* Every variable has its type, tables hold what they have room for, and   *)
(* no cursor passes its slice's end, whatever the sizes of slices and      *)
(* tables, the number of shards, and the strings.                          *)
THEOREM TypeCorrect == Spec => []TypeOK
BY Invariance, TypeImplied, PTL

(* Every slice of any number of builders and Stores has one owner from its *)
(* allocation to its one free, through finish_store, moves and resets.     *)
THEOREM SlicesOwned == Spec => []SlicesOwnedOnce
BY Invariance, OwnershipImplied, PTL

(* No two records, and no two of any number of concurrent workers, are     *)
(* given a byte in common, whatever the strings and the slice sizes.       *)
THEOREM BytesNeverShared == Spec => []BytesDisjoint
BY Invariance, DisjointImplied, PTL

(* Once its bytes are written, a record reads as what it was last set to,  *)
(* whatever happens meanwhile to it and to others.                         *)
THEOREM RecordsReadBack == Spec => []ReadsBack
BY Invariance, ReadsImplied, PTL
=============================================================================
