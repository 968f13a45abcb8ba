---------------------------- MODULE WriterProofs ----------------------------
(***************************************************************************)
(* Theorems of module Writer, for every set of Writers, slices and inputs  *)
(* and every size of slices and blocks.                                    *)
(***************************************************************************)
EXTENDS Writer, SlicesProofs

(* What holds of one record, reservation or cursor over a heap.            *)
RecordIn(mem, r, view) ==
  /\ r \in Record /\ (r.enc = "NA" => r.len = 0)
  /\ InHeap(mem, r.at, r.len)
  /\ ViewOf(mem, r) = view

HeldIn(mem, p) ==
  /\ p \in Piece /\ p.len > 0
  /\ InHeap(mem, p.at, p.len)
  /\ p.view # NaView =>
       /\ p.view.enc # "NA" /\ Len(p.view.bytes) \in 1 .. p.len
       /\ \A j \in 1 .. Len(p.view.bytes) : mem[p.at.slice][p.at.off + j] = p.view.bytes[j]

RoomIn(mem, c) ==
  /\ c \in Cursor /\ (~ c.open => c = closed)
  /\ InHeap(mem, c.at, c.left)

(* No two of them have a byte in common.                                   *)
PiecesApart(recs, hs, ws) ==
  /\ \A i, j \in DOMAIN recs : i # j => Apart2(recs[i].at, recs[i].len, recs[j].at, recs[j].len)
  /\ \A p, q \in hs : p # q => Apart2(p.at, p.len, q.at, q.len)
  /\ \A v, w \in W : v # w => Apart2(ws[v].at, ws[v].left, ws[w].at, ws[w].left)
  /\ \A i \in DOMAIN recs : \A p \in hs : Apart2(recs[i].at, recs[i].len, p.at, p.len)
  /\ \A i \in DOMAIN recs : \A w \in W : Apart2(recs[i].at, recs[i].len, ws[w].at, ws[w].left)
  /\ \A p \in hs : \A w \in W : Apart2(p.at, p.len, ws[w].at, ws[w].left)

IInv ==
  /\ TypeOK
  /\ \A i \in Idx : RecordIn(heap, records[i], text[i])
  /\ \A p \in held : HeldIn(heap, p)
  /\ \A w \in W : RoomIn(heap, writer[w])
  /\ PiecesApart(records, held, writer)
  /\ NoneOpen => held = {}

-----------------------------------------------------------------------------
LEMMA ApartSym ==
  ASSUME NEW p, NEW m, NEW q, NEW n, Apart2(p, m, q, n)
  PROVE  Apart2(q, n, p, m)
BY DEF Apart2, Overlap

(* A piece of a piece is apart from what the piece is apart from.          *)
LEMMA PartApart ==
  ASSUME NEW p \in Place, NEW m \in Nat, NEW q \in Place, NEW n \in Nat, Apart2(p, m, q, n),
         NEW r \in Place, NEW k \in Nat,
         k > 0 => r.slice = p.slice /\ r.off >= p.off /\ r.off + k <= p.off + m
  PROVE  Apart2(r, k, q, n) /\ Apart2(q, n, r, k)
<1>1. p.off \in Nat /\ q.off \in Nat /\ r.off \in Nat
  BY DEF Place
<1> QED BY <1>1 DEF Apart2, Overlap

(* What holds a piece holds the start of it.                               *)
LEMMA PartInHeap ==
  ASSUME NEW mem \in Memory, NEW at \in Place, NEW m \in Nat, NEW n \in Nat, n <= m,
         InHeap(mem, at, m)
  PROVE  InHeap(mem, at, n)
<1>1. CASE n = 0
  BY <1>1 DEF InHeap
<1>2. CASE n > 0
  <2>1. at.slice \in Slice /\ mem[at.slice] # Freed /\ at.off + m <= Len(mem[at.slice])
    BY <1>2 DEF InHeap
  <2>2. Len(mem[at.slice]) \in Nat /\ at.off \in Nat
    BY <2>1, SliceType DEF Place
  <2> QED BY <2>1, <2>2 DEF InHeap
<1> QED BY <1>1, <1>2

(* Whatever is not where the heap changes is as it was.                    *)
LEMMA HeapStep ==
  ASSUME IInv, NEW after, NEW at \in Place, NEW n \in Nat, Patched(heap, after, at, n)
  PROVE  /\ \A i \in Idx : Apart2(records[i].at, records[i].len, at, n) =>
              RecordIn(after, records[i], text[i])
         /\ \A p \in held : Apart2(p.at, p.len, at, n) => HeldIn(after, p)
         /\ \A w \in W : Apart2(writer[w].at, writer[w].left, at, n) => RoomIn(after, writer[w])
<1>4. heap \in Memory
  BY DEF IInv, TypeOK
<1>1. ASSUME NEW i \in Idx, Apart2(records[i].at, records[i].len, at, n)
      PROVE  RecordIn(after, records[i], text[i])
  <2>1. PICK r \in Record : r = records[i] /\ RecordIn(heap, r, text[i]) /\ Apart2(r.at, r.len, at, n)
    BY <1>1 DEF IInv, RecordIn
  <2>2. r.at \in Place /\ r.len \in Nat /\ InHeap(heap, r.at, r.len)
    BY <2>1 DEF Record, RecordIn
  <2>3. /\ InHeap(after, r.at, r.len)
        /\ \A j \in 1 .. r.len : after[r.at.slice][r.at.off + j] = heap[r.at.slice][r.at.off + j]
    <3>1. /\ heap \in Memory /\ at \in Place /\ n \in Nat /\ Patched(heap, after, at, n)
          /\ Apart2(r.at, r.len, at, n)
      BY <1>4, <2>1
    <3> QED BY ONLY <2>2, <3>1, PieceKept
  <2>4. ViewOf(after, r) = ViewOf(heap, r)
    BY <2>3, ViewSame
  <2> QED BY <2>1, <2>3, <2>4 DEF RecordIn
<1>2. ASSUME NEW p \in held, Apart2(p.at, p.len, at, n) PROVE HeldIn(after, p)
  <2>1. HeldIn(heap, p) /\ p.at \in Place /\ p.len \in Nat /\ InHeap(heap, p.at, p.len)
    BY DEF IInv, HeldIn, Piece
  <2>2. /\ InHeap(after, p.at, p.len)
        /\ \A j \in 1 .. p.len : after[p.at.slice][p.at.off + j] = heap[p.at.slice][p.at.off + j]
    <3>1. /\ heap \in Memory /\ at \in Place /\ n \in Nat /\ Patched(heap, after, at, n)
          /\ Apart2(p.at, p.len, at, n)
      BY <1>2, <1>4
    <3> QED BY ONLY <2>1, <3>1, PieceKept
  <2>3. ASSUME p.view # NaView, NEW j \in 1 .. Len(p.view.bytes)
        PROVE  j \in 1 .. p.len
    BY <2>1, <2>3 DEF HeldIn
  <2> QED BY <2>1, <2>2, <2>3 DEF HeldIn
<1>3. ASSUME NEW w \in W, Apart2(writer[w].at, writer[w].left, at, n)
      PROVE  RoomIn(after, writer[w])
  <2>1. PICK c \in Cursor : c = writer[w] /\ RoomIn(heap, c) /\ Apart2(c.at, c.left, at, n)
    BY <1>3 DEF IInv, RoomIn
  <2>2. c.at \in Place /\ c.left \in Nat /\ InHeap(heap, c.at, c.left)
    BY <2>1 DEF RoomIn, Cursor
  <2>3. InHeap(after, c.at, c.left)
    BY <1>4, <2>1, <2>2, PieceKept
  <2> QED BY <2>1, <2>3 DEF RoomIn
<1> QED BY <1>1, <1>2, <1>3

LEMMA NaEmpty ==
  ASSUME NEW view \in View
  PROVE  /\ Len(view.bytes) \in Nat /\ view.bytes \in Seq(Byte) /\ view.enc \in Tag \cup {"NA"}
         /\ view.enc = "NA" => Len(view.bytes) = 0
         /\ Len(view.bytes) = 0 <=> view.bytes = << >>
<1>1. CASE view \in [bytes : Str, enc : Tag]
  <2>1. view.bytes \in Seq(Byte) /\ view.enc \in Tag /\ view.enc # "NA"
    BY <1>1 DEF Str, Tag
  <2> QED BY <2>1, EmptySeq
<1>2. CASE view = [bytes |-> << >>, enc |-> "NA"]
  BY <1>2
<1> QED BY <1>1, <1>2 DEF View, NaView

LEMMA RecordSet ==
  ASSUME TypeOK, NEW i \in Idx, NEW at \in Place, NEW view \in View, SetRecord(i, at, view)
  PROVE  /\ records' \in Seq(Record) /\ DOMAIN records' = DOMAIN records
         /\ Len(records') = Len(records)
         /\ text' \in Seq(View) /\ Len(text') = Len(records') /\ text'[i] = view
         /\ records'[i] \in Record /\ records'[i].len = Len(view.bytes)
         /\ records'[i].enc = view.enc
         /\ records'[i].len > 0 => records'[i].at = at
         /\ Len(view.bytes) \in Nat
         /\ \A j \in Idx : j # i => records'[j] = records[j] /\ text'[j] = text[j]
<1>1. Len(view.bytes) \in Nat /\ view.enc \in Tag \cup {"NA"} /\ nowhere \in Place
      /\ (Len(view.bytes) > 0 => view.bytes # << >>)
  BY DEF View, Str, nowhere, Place
<1> DEFINE r == [at |-> IF view.bytes = << >> THEN nowhere ELSE at,
                 len |-> Len(view.bytes), enc |-> view.enc]
<1>2. r \in Record /\ r.len = Len(view.bytes) /\ r.enc = view.enc /\ (r.len > 0 => r.at = at)
  BY <1>1 DEF Record
<1>3. records' = [records EXCEPT ![i] = r] /\ text' = [text EXCEPT ![i] = view]
  BY DEF SetRecord
<1> HIDE DEF r
<1>4. i \in 1 .. Len(records) /\ i \in 1 .. Len(text) /\ records \in Seq(Record) /\ text \in Seq(View)
      /\ Len(text) = Len(records)
  BY DEF TypeOK, Idx
<1> QED BY <1>1, <1>2, <1>3, <1>4

LEMMA TypesOf ==
  ASSUME IInv
  PROVE  /\ heap \in Memory /\ nowhere \in Place
         /\ \A i \in Idx : /\ records[i].at \in Place /\ records[i].len \in Nat
                           /\ InHeap(heap, records[i].at, records[i].len)
         /\ \A p \in held : p \in Piece /\ p.at \in Place /\ p.len \in Nat /\ p.len > 0
         /\ \A w \in W : /\ writer[w] \in Cursor /\ writer[w].at \in Place
                         /\ writer[w].left \in Nat
BY DEF IInv, TypeOK, RecordIn, HeldIn, RoomIn, Record, Piece, Cursor, nowhere, Place

-----------------------------------------------------------------------------
(* Room for len bytes, in the slice a Writer is at or in a new one.        *)
LEMMA RoomOK ==
  ASSUME IInv, NEW w \in W, writer[w].open, NEW len \in Nat, len > 0,
         NEW room \in Rooms(writer[w], len)
  PROVE  /\ room.cursor \in Cursor /\ room.cursor.open /\ room.cursor.left >= len
         /\ RoomIn(room.heap, room.cursor)
         /\ \A at \in Place : Patched(heap, room.heap, at, 0)
         /\ \A i \in Idx : Apart2(records[i].at, records[i].len, room.cursor.at, room.cursor.left)
         /\ \A p \in held : Apart2(p.at, p.len, room.cursor.at, room.cursor.left)
         /\ \A v \in W : v # w => Apart2(writer[v].at, writer[v].left, room.cursor.at, room.cursor.left)
<1>1. PICK c \in Cursor : c = writer[w] /\ RoomIn(heap, c)
  BY DEF IInv, RoomIn
<1>2. heap \in Memory
  BY TypesOf
<1>3. CASE fits(c, len)
  <2>1. room.cursor = c /\ room.heap = heap
    BY <1>1, <1>3 DEF Rooms
  <2>2. c.left >= len
    BY <1>1, <1>3 DEF fits, Cursor
  <2>3. \A at \in Place : Patched(heap, heap, at, 0)
    BY <1>2 DEF Patched
  <2>4. PiecesApart(records, held, writer)
    BY DEF IInv
  <2>5. /\ \A i \in Idx : Apart2(records[i].at, records[i].len, c.at, c.left)
        /\ \A p \in held : Apart2(p.at, p.len, c.at, c.left)
        /\ \A v \in W : v # w => Apart2(writer[v].at, writer[v].left, c.at, c.left)
    BY <1>1, <2>4, Zenon DEF PiecesApart, Idx
  <2>6. room.cursor.open
    BY <1>1, <2>1
  <2> QED BY <1>1, <2>1, <2>2, <2>3, <2>5, <2>6
<1>4. CASE ~ fits(c, len)
  <2> DEFINE size == slice_bytes(initial_slice_heuristic(Len(records)), c.used, len)
  <2>1. size \in Nat /\ size >= len
    <3>1. Len(records) \in Nat /\ c.used \in Nat
      BY DEF IInv, TypeOK, Cursor
    <3> QED BY <3>1, SizeFits
  <2>2. PICK s \in FreeSlices(heap) :
          room = [cursor |-> [c EXCEPT !.at = [slice |-> s, off |-> 0], !.left = size],
                  heap |-> Allocated(heap, s, size)]
    BY <1>1, <1>4 DEF Rooms
  <2> HIDE DEF size
  <2> PICK d : d = room.cursor
    OBVIOUS
  <2>3. /\ s \in Slice /\ heap[s] = Freed
        /\ room.heap \in Memory /\ room.heap[s] # Freed /\ Len(room.heap[s]) = size
        /\ \A at \in Place : Patched(heap, room.heap, at, 0)
    BY <1>2, <2>1, <2>2, AllocatedOK
  <2>4. d \in Cursor /\ d.open /\ d.left = size /\ d.at = [slice |-> s, off |-> 0]
    BY <1>1, <2>1, <2>2, <2>3 DEF Cursor, Place
  <2>5. RoomIn(room.heap, d)
    BY <2>1, <2>3, <2>4 DEF RoomIn, InHeap
  <2>6. ASSUME NEW q, NEW n, InHeap(heap, q, n) PROVE Apart2(q, n, d.at, d.left)
    BY <2>3, <2>4, <2>6 DEF InHeap, Apart2, Overlap
  <2>7. /\ \A i \in Idx : Apart2(records[i].at, records[i].len, d.at, d.left)
        /\ \A p \in held : Apart2(p.at, p.len, d.at, d.left)
        /\ \A v \in W : Apart2(writer[v].at, writer[v].left, d.at, d.left)
    BY <2>6 DEF IInv, RecordIn, HeldIn, RoomIn
  <2> QED BY <2>1, <2>3, <2>4, <2>5, <2>7
<1> QED BY <1>3, <1>4

(* A cursor moved past len bytes, and the bytes.                           *)
LEMMA Advance ==
  ASSUME NEW c \in Cursor, c.open, NEW len \in Nat, len > 0, c.left >= len
  PROVE  /\ advanced(c, len) \in Cursor /\ advanced(c, len).open
         /\ c.at \in Place /\ c.left \in Nat
         /\ advanced(c, len).at \in Place /\ advanced(c, len).left \in Nat
         /\ advanced(c, len).at.slice = c.at.slice
         /\ advanced(c, len).at.off = c.at.off + len
         /\ advanced(c, len).left = c.left - len
         /\ Apart2(c.at, len, advanced(c, len).at, advanced(c, len).left)
<1>1. /\ c.at \in Place /\ c.left \in Nat /\ c.used \in Nat /\ c.at.off \in Nat
      /\ c.at = [slice |-> c.at.slice, off |-> c.at.off]
  BY DEF Cursor, Place
<1>2. Min2(c.used + len, 2 * max_slice_bytes) \in Nat
  BY <1>1, SlicesAssumption DEF Min2
<1>3. /\ advanced(c, len).at = [slice |-> c.at.slice, off |-> c.at.off + len]
      /\ advanced(c, len).left = c.left - len
      /\ advanced(c, len).open = c.open
      /\ advanced(c, len).used = Min2(c.used + len, 2 * max_slice_bytes)
  BY <1>1 DEF advanced, Cursor, Place
<1>4. advanced(c, len) \in Cursor
  <2>1. PICK at \in Place : at = [c.at EXCEPT !.off = @ + len]
    <3>1. ASSUME NEW p \in Place PROVE [p EXCEPT !.off = @ + len] \in Place
      <4>1. PICK off \in Nat : off = p.off + len
        BY DEF Place
      <4> QED BY <4>1 DEF Place
    <3> QED BY <1>1, <3>1
  <2>2. PICK left \in Nat : left = c.left - len
    BY <1>1
  <2>3. PICK used \in Nat : used = Min2(c.used + len, 2 * max_slice_bytes)
    BY <1>2
  <2>4. advanced(c, len) = [c EXCEPT !.at = at, !.left = left, !.used = used]
    BY <1>1, <2>1, <2>2, <2>3 DEF advanced
  <2> QED BY <2>4 DEF Cursor
<1> QED BY <1>1, <1>3, <1>4 DEF Apart2, Overlap, Place, Cursor

LEMMA reserveInv == ASSUME IInv, NEW w \in W, NEW len \in ReserveLengths, reserve(w, len) PROVE IInv'
<1>1. len \in Nat /\ len > 0 /\ writer[w].open
  BY WriterAssumption DEF reserve
<1>2. PICK room \in Rooms(writer[w], len) :
        /\ writer' = [writer EXCEPT ![w] = advanced(room.cursor, len)]
        /\ heap'   = room.heap
        /\ held'   = held \cup {[at |-> room.cursor.at, len |-> len, view |-> NaView]}
  BY DEF reserve
<1>3. records' = records /\ text' = text
  BY DEF reserve
<1>4. PICK c : c = room.cursor
  OBVIOUS
<1>5. /\ c \in Cursor /\ c.open /\ c.left >= len /\ RoomIn(heap', c)
      /\ \A at \in Place : Patched(heap, heap', at, 0)
      /\ \A i \in Idx : Apart2(records[i].at, records[i].len, c.at, c.left)
      /\ \A q \in held : Apart2(q.at, q.len, c.at, c.left)
      /\ \A v \in W : v # w => Apart2(writer[v].at, writer[v].left, c.at, c.left)
  BY <1>1, <1>2, <1>4, RoomOK
<1> PICK d : d = advanced(c, len)
  OBVIOUS
<1>6. /\ d \in Cursor /\ d.open /\ c.at \in Place /\ c.left \in Nat
      /\ d.at \in Place /\ d.left \in Nat
      /\ d.at.slice = c.at.slice /\ d.at.off = c.at.off + len /\ d.left = c.left - len
      /\ Apart2(c.at, len, d.at, d.left)
  BY <1>1, <1>5, Advance
<1> PICK p : p = [at |-> c.at, len |-> len, view |-> NaView]
  OBVIOUS
<1>7. p \in Piece /\ p.at = c.at /\ p.len = len /\ p.view = NaView
  BY <1>1, <1>6 DEF Piece, View, NaView
<1>8. /\ writer' \in [W -> Cursor] /\ writer'[w] = d
      /\ \A v \in W : v # w => writer'[v] = writer[v]
      /\ held' = held \cup {p}
  BY <1>2, <1>4, <1>6, <1>7 DEF IInv, TypeOK
<1>9. ASSUME NEW q \in Place, NEW n \in Nat, Apart2(q, n, c.at, c.left)
      PROVE  /\ Apart2(q, n, c.at, len) /\ Apart2(c.at, len, q, n)
             /\ Apart2(q, n, d.at, d.left) /\ Apart2(d.at, d.left, q, n)
  <2>1. c.at.off \in Nat
    BY <1>6 DEF Place
  <2>2. Apart2(c.at, c.left, q, n)
    BY <1>9, ApartSym
  <2>3. Apart2(c.at, len, q, n) /\ Apart2(q, n, c.at, len)
    BY <1>1, <1>5, <1>6, <2>1, <2>2, PartApart
  <2>4. d.at.off >= c.at.off /\ d.at.off + d.left <= c.at.off + c.left
    BY <1>1, <1>5, <1>6, <2>1
  <2>5. Apart2(d.at, d.left, q, n) /\ Apart2(q, n, d.at, d.left)
    BY <1>6, <2>2, <2>4, PartApart
  <2> QED BY <2>3, <2>5
<1>10. TypeOK'
  BY <1>3, <1>5, <1>7, <1>8, TypesOf DEF IInv, TypeOK, Patched, Idx
<1>11. /\ \A q \in Place : \A n \in Nat : Apart2(q, n, c.at, 0)
  BY DEF Apart2
<1>12. /\ \A i \in Idx : RecordIn(heap', records[i], text[i])
       /\ \A q \in held : HeldIn(heap', q)
       /\ \A v \in W : RoomIn(heap', writer[v])
  BY <1>5, <1>6, <1>11, TypesOf, HeapStep
<1>13. HeldIn(heap', p) /\ RoomIn(heap', d)
  <2>1. InHeap(heap', c.at, c.left) /\ c.at.off \in Nat
    BY <1>5, <1>6 DEF RoomIn, Place
  <2>2. InHeap(heap', c.at, len) /\ InHeap(heap', d.at, d.left)
    <3>1. /\ c.at.slice \in Slice /\ heap'[c.at.slice] # Freed
          /\ c.at.off + c.left <= Len(heap'[c.at.slice])
      BY <1>1, <1>5, <1>6, <2>1 DEF InHeap
    <3>2. Len(heap'[c.at.slice]) \in Nat
      BY <3>1, <1>5, <1>6, SliceType DEF Patched
    <3>3. c.at.off + len <= c.at.off + c.left /\ d.at.slice = c.at.slice
          /\ d.at.off + d.left = c.at.off + c.left
      BY <1>1, <1>5, <1>6, <2>1
    <3>4. c.at.off + len <= Len(heap'[c.at.slice])
      BY <1>1, <1>5, <1>6, <2>1, <3>1, <3>2, <3>3
    <3> QED BY <3>1, <3>3, <3>4 DEF InHeap
  <2> QED BY <1>1, <1>6, <1>7, <2>2 DEF HeldIn, RoomIn
<1>14. PiecesApart(records, held', writer')
  <2>1. \A i \in Idx : Apart2(records[i].at, records[i].len, p.at, p.len)
                       /\ Apart2(records[i].at, records[i].len, d.at, d.left)
    BY <1>5, <1>7, <1>9, TypesOf
  <2>2. \A q \in held : /\ Apart2(q.at, q.len, p.at, p.len) /\ Apart2(p.at, p.len, q.at, q.len)
                        /\ Apart2(q.at, q.len, d.at, d.left)
    BY <1>5, <1>7, <1>9, TypesOf
  <2>3. \A v \in W : v # w =>
          /\ Apart2(writer[v].at, writer[v].left, d.at, d.left)
          /\ Apart2(d.at, d.left, writer[v].at, writer[v].left)
          /\ Apart2(p.at, p.len, writer[v].at, writer[v].left)
    BY <1>5, <1>7, <1>9, TypesOf
  <2>4. Apart2(p.at, p.len, d.at, d.left)
    BY <1>6, <1>7
  <2>5. PiecesApart(records, held, writer)
    BY DEF IInv
  <2> QED BY <1>8, <2>1, <2>2, <2>3, <2>4, <2>5 DEF PiecesApart, Idx
<1>15. ~ NoneOpen'
  BY <1>6, <1>8 DEF NoneOpen
<1> QED BY <1>3, <1>8, <1>10, <1>12, <1>13, <1>14, <1>15 DEF IInv, Idx

-----------------------------------------------------------------------------
(* A Writer left without room, and reservations forgotten.                 *)
LEMMA RoomGone ==
  ASSUME IInv, NEW w \in W, NEW c \in Cursor, c.left = 0, ~ c.open => c = closed,
         writer' = [writer EXCEPT ![w] = c], held' \subseteq held,
         UNCHANGED <<heap, records, text>>, NoneOpen' => held' = {}
  PROVE  IInv'
<1>1. /\ writer' \in [W -> Cursor] /\ writer'[w] = c
      /\ \A v \in W : v # w => writer'[v] = writer[v]
  BY DEF IInv, TypeOK
<1>2. TypeOK'
  BY <1>1 DEF IInv, TypeOK
<1>3. \A v \in W : RoomIn(heap, writer'[v])
  BY <1>1 DEF IInv, RoomIn, InHeap
<1>4. \A q, n : Apart2(q, n, c.at, c.left) /\ Apart2(c.at, c.left, q, n)
  BY DEF Apart2
<1>5. PiecesApart(records, held, writer)
  BY DEF IInv
<1>6. PiecesApart(records, held', writer')
  BY <1>1, <1>4, <1>5 DEF PiecesApart
<1> QED BY <1>2, <1>3, <1>6 DEF IInv, Idx

LEMMA OpenInv == ASSUME IInv, NEW w \in W, Open(w) PROVE IInv'
<1> DEFINE c == [closed EXCEPT !.open = TRUE]
<1>1. c \in Cursor /\ c.left = 0 /\ c.open
  BY DEF closed, Cursor, nowhere, Place
<1>2. writer' = [writer EXCEPT ![w] = c] /\ held' = held /\ UNCHANGED <<heap, records, text>>
  BY DEF Open
<1>3. ~ NoneOpen'
  BY <1>1, <1>2 DEF IInv, TypeOK, NoneOpen
<1> HIDE DEF c
<1> QED BY <1>1, <1>2, <1>3, RoomGone

LEMMA CloseInv == ASSUME IInv, NEW w \in W, Close(w) PROVE IInv'
<1>1. closed \in Cursor /\ closed.left = 0
  BY DEF closed, Cursor, nowhere, Place
<1>2. writer' = [writer EXCEPT ![w] = closed] /\ UNCHANGED <<heap, records, text>>
  BY DEF Close
<1>3. held' \subseteq held
  BY DEF Close
<1>4. NoneOpen' => held' = {}
  <2>1. \A v \in W \ {w} : writer'[v] = writer[v]
    BY <1>2 DEF IInv, TypeOK
  <2> QED BY <2>1 DEF Close, NoneOpen
<1> QED BY <1>1, <1>2, <1>3, <1>4, RoomGone

-----------------------------------------------------------------------------
(* Record i is set to view, whose n bytes are at a place no other record   *)
(* has a byte of.                                                          *)
PlacedAt(i, view, at, n) ==
  /\ n = Len(view.bytes) /\ SetRecord(i, at, view)
  /\ Patched(heap, heap', at, n) /\ InHeap(heap', at, n)
  /\ \A j \in 1 .. n : heap'[at.slice][at.off + j] = view.bytes[j]
  /\ \A j \in Idx : j # i => Apart2(records[j].at, records[j].len, at, n)

(* Nor has a reservation or the room of a cursor; the cursors stay.        *)
SetAt(i, view, at, n) ==
  /\ PlacedAt(i, view, at, n)
  /\ held' \subseteq held /\ writer' = writer
  /\ \A p \in held' : Apart2(p.at, p.len, at, n)
  /\ \A w \in W : Apart2(writer[w].at, writer[w].left, at, n)

(* The bytes of one record are where at is, and nobody else's are.         *)
LEMMA RecordPlaced ==
  ASSUME IInv, NEW i \in Idx, NEW view \in View, NEW at \in Place, NEW n,
         PlacedAt(i, view, at, n)
  PROVE  /\ records' \in Seq(Record) /\ text' \in Seq(View) /\ Len(text') = Len(records')
         /\ Idx' = Idx /\ heap' \in Memory
         /\ \A j \in Idx : RecordIn(heap', records'[j], text'[j])
         /\ \A j, k \in Idx : j # k =>
              Apart2(records'[j].at, records'[j].len, records'[k].at, records'[k].len)
         /\ \A q, m : /\ \A j \in Idx : j # i => Apart2(records[j].at, records[j].len, q, m)
                      /\ Apart2(at, n, q, m)
                     => \A j \in Idx : Apart2(records'[j].at, records'[j].len, q, m)
<1>0. /\ n = Len(view.bytes) /\ SetRecord(i, at, view)
      /\ Patched(heap, heap', at, n) /\ InHeap(heap', at, n)
      /\ \A j \in 1 .. n : heap'[at.slice][at.off + j] = view.bytes[j]
      /\ \A j \in Idx : j # i => Apart2(records[j].at, records[j].len, at, n)
  BY DEF PlacedAt
<1>1. TypeOK
  BY DEF IInv
<1>2. /\ records' \in Seq(Record) /\ DOMAIN records' = DOMAIN records
      /\ text' \in Seq(View) /\ Len(text') = Len(records') /\ text'[i] = view
      /\ records'[i] \in Record /\ records'[i].len = n
      /\ records'[i].enc = view.enc
      /\ records'[i].len > 0 => records'[i].at = at
      /\ n \in Nat
      /\ \A j \in Idx : j # i => records'[j] = records[j] /\ text'[j] = text[j]
  BY <1>0, <1>1, RecordSet
<1>3. heap' \in Memory
  BY <1>0 DEF Patched
<1>4. ASSUME NEW j \in Idx, j # i PROVE RecordIn(heap', records'[j], text'[j])
  <2>1. IInv /\ at \in Place /\ n \in Nat /\ Patched(heap, heap', at, n)
        /\ j \in Idx /\ Apart2(records[j].at, records[j].len, at, n)
    BY <1>0, <1>2, <1>4
  <2>2. RecordIn(heap', records[j], text[j])
    BY ONLY <2>1, HeapStep
  <2> QED BY <1>2, <1>4, <2>2
<1>5. RecordIn(heap', records'[i], text'[i])
  <2> PICK r \in Record : r = records'[i]
    BY <1>2
  <2>1. r.enc = "NA" => r.len = 0
    BY <1>0, <1>2, NaEmpty
  <2>2. InHeap(heap', r.at, r.len)
    BY <1>0, <1>2 DEF InHeap
  <2>3. \A j \in 1 .. r.len : heap'[r.at.slice][r.at.off + j] = view.bytes[j]
    BY <1>0, <1>2
  <2>4. r.enc = view.enc /\ r.len = Len(view.bytes)
    BY <1>0, <1>2
  <2>5. ViewOf(heap', r) = view
    BY <2>3, <2>4, ViewRead
  <2> QED BY <1>2, <2>1, <2>2, <2>5 DEF RecordIn
<1>6. ASSUME NEW q, NEW m, Apart2(at, n, q, m)
      PROVE  Apart2(records'[i].at, records'[i].len, q, m)
  BY <1>2, <1>6 DEF Apart2
<1>7. PiecesApart(records, held, writer)
  BY DEF IInv
<1>8. ASSUME NEW j \in Idx, j # i
      PROVE  /\ Apart2(records'[j].at, records'[j].len, records'[i].at, records'[i].len)
             /\ Apart2(records'[i].at, records'[i].len, records'[j].at, records'[j].len)
  <2>1. Apart2(at, n, records[j].at, records[j].len)
    BY <1>0, <1>8, ApartSym
  <2>2. Apart2(records'[i].at, records'[i].len, records[j].at, records[j].len)
    BY <1>6, <2>1
  <2> QED BY <1>2, <1>8, <2>2, ApartSym
<1>9. ASSUME NEW j \in Idx, NEW k \in Idx, j # k, j # i, k # i
      PROVE  Apart2(records'[j].at, records'[j].len, records'[k].at, records'[k].len)
  BY <1>2, <1>7, <1>9 DEF PiecesApart, Idx
<1>10. Idx' = Idx
  BY <1>2 DEF Idx
<1> QED BY <1>0, <1>2, <1>3, <1>4, <1>5, <1>6, <1>8, <1>9, <1>10

(* A record set, with what is handed out and the Writers as they were but  *)
(* for one reservation that may be given up.                               *)
LEMMA SetKeeps ==
  ASSUME IInv, NEW i \in Idx, NEW view \in View, NEW at \in Place, NEW n,
         SetAt(i, view, at, n)
  PROVE  IInv'
<1>0. /\ PlacedAt(i, view, at, n) /\ n = Len(view.bytes)
      /\ Patched(heap, heap', at, n)
      /\ held' \subseteq held /\ writer' = writer
      /\ \A p \in held' : Apart2(p.at, p.len, at, n)
      /\ \A w \in W : Apart2(writer[w].at, writer[w].left, at, n)
  BY DEF SetAt, PlacedAt
<1>1. /\ records' \in Seq(Record) /\ text' \in Seq(View) /\ Len(text') = Len(records')
      /\ Idx' = Idx /\ heap' \in Memory
      /\ \A j \in Idx : RecordIn(heap', records'[j], text'[j])
      /\ \A j, k \in Idx : j # k =>
           Apart2(records'[j].at, records'[j].len, records'[k].at, records'[k].len)
      /\ \A q, m : /\ \A j \in Idx : j # i => Apart2(records[j].at, records[j].len, q, m)
                   /\ Apart2(at, n, q, m)
                  => \A j \in Idx : Apart2(records'[j].at, records'[j].len, q, m)
  BY <1>0, RecordPlaced
<1>2. PiecesApart(records, held, writer)
  BY DEF IInv
<1>3. \A p \in held' : HeldIn(heap', p)
  <2>1. n \in Nat
    BY <1>0 DEF View, Str
  <2> QED BY <1>0, <2>1, HeapStep
<1>4. \A w \in W : RoomIn(heap', writer[w])
  <2>1. n \in Nat
    BY <1>0 DEF View, Str
  <2> QED BY <1>0, <2>1, HeapStep
<1>5. ASSUME NEW p \in held', NEW j \in Idx
      PROVE  Apart2(records'[j].at, records'[j].len, p.at, p.len)
  <2>1. Apart2(at, n, p.at, p.len)
    <3>1. Apart2(p.at, p.len, at, n)
      BY <1>0
    <3> QED BY ONLY <3>1, ApartSym
  <2>2. \A k \in Idx : Apart2(records[k].at, records[k].len, p.at, p.len)
    BY <1>0, <1>2 DEF PiecesApart, Idx
  <2> QED BY <1>1, <2>1, <2>2
<1>6. ASSUME NEW w \in W, NEW j \in Idx
      PROVE  Apart2(records'[j].at, records'[j].len, writer[w].at, writer[w].left)
  <2>1. Apart2(at, n, writer[w].at, writer[w].left)
    <3>1. Apart2(writer[w].at, writer[w].left, at, n)
      BY <1>0
    <3> QED BY ONLY <3>1, ApartSym
  <2>2. \A k \in Idx : Apart2(records[k].at, records[k].len, writer[w].at, writer[w].left)
    BY <1>0, <1>2 DEF PiecesApart, Idx
  <2> QED BY <1>1, <2>1, <2>2
<1>7. PiecesApart(records', held', writer')
  <2>1. DOMAIN records' = Idx
    BY <1>1 DEF Idx
  <2>2. /\ \A p, q \in held' : p # q => Apart2(p.at, p.len, q.at, q.len)
        /\ \A v, w \in W : v # w => Apart2(writer[v].at, writer[v].left, writer[w].at, writer[w].left)
        /\ \A p \in held' : \A w \in W : Apart2(p.at, p.len, writer[w].at, writer[w].left)
    BY <1>0, <1>2 DEF PiecesApart
  <2> QED BY <1>0, <1>1, <1>5, <1>6, <2>1, <2>2 DEF PiecesApart
<1>8. NoneOpen' => held' = {}
  BY <1>0 DEF IInv, NoneOpen
<1>9. TypeOK'
  BY <1>0, <1>1 DEF IInv, TypeOK
<1> QED BY <1>0, <1>1, <1>3, <1>4, <1>7, <1>8, <1>9 DEF IInv

LEMMA PatchedSame ==
  ASSUME NEW mem \in Memory
  PROVE  \A at, n : Patched(mem, mem, at, n)
BY DEF Patched

LEMMA PatchedTrans ==
  ASSUME NEW before, NEW between, NEW after, NEW at, NEW n,
         Patched(before, between, at, 0), Patched(between, after, at, n),
         NEW m \in Nat, n = m, at \in Place, before \in Memory
  PROVE  Patched(before, after, at, n)
<1>1. at.off \in Nat /\ after \in Memory
  BY DEF Place, Patched
<1>2. ASSUME NEW s \in Slice, before[s] # Freed
      PROVE  /\ after[s] # Freed /\ Len(after[s]) = Len(before[s])
             /\ \A j \in 1 .. Len(before[s]) :
                  s # at.slice \/ j <= at.off \/ j > at.off + n => after[s][j] = before[s][j]
  <2>1. /\ between[s] # Freed /\ Len(between[s]) = Len(before[s])
        /\ \A j \in 1 .. Len(before[s]) : between[s][j] = before[s][j]
    <3>1. Len(before[s]) \in Nat
      BY <1>2, SliceType
    <3>2. \A j \in 1 .. Len(before[s]) : j <= at.off \/ j > at.off + 0
      BY <1>1, <3>1
    <3> QED BY <1>2, <3>2 DEF Patched
  <2> QED BY <2>1 DEF Patched
<1> QED BY <1>1, <1>2 DEF Patched

LEMMA setInv ==
  ASSUME IInv, NEW w \in W, NEW i \in Idx, NEW p \in held, set(w, i, p)
  PROVE  IInv'
<1>1. /\ HeldIn(heap, p) /\ p \in Piece /\ p.at \in Place /\ p.len \in Nat /\ p.len > 0
      /\ heap \in Memory
  BY TypesOf DEF IInv
<1> PICK view \in View : view = p.view
  BY <1>1 DEF Piece
<1> PICK n : n = Len(view.bytes)
  OBVIOUS
<1>2. /\ n \in 1 .. p.len /\ n \in Nat
      /\ \A j \in 1 .. n : heap[p.at.slice][p.at.off + j] = view.bytes[j]
  BY <1>1 DEF HeldIn, set
<1>3. SetRecord(i, p.at, view) /\ held' = held \ {p} /\ heap' = heap /\ writer' = writer
  BY DEF set
<1>4. InHeap(heap, p.at, n)
  <2>1. InHeap(heap, p.at, p.len)
    BY <1>1 DEF HeldIn
  <2>2. heap \in Memory /\ p.at \in Place /\ p.len \in Nat /\ n \in Nat /\ n <= p.len
    BY <1>1, <1>2
  <2> QED BY ONLY <2>1, <2>2, PartInHeap
<1>5. ASSUME NEW q \in Place, NEW m \in Nat, Apart2(q, m, p.at, p.len)
      PROVE  Apart2(q, m, p.at, n)
  <2>1. Apart2(p.at, p.len, q, m)
    BY ONLY <1>5, ApartSym
  <2>2. p.at.off \in Nat
    BY <1>1 DEF Place
  <2> QED BY <1>1, <1>2, <2>1, <2>2, PartApart
<1>6. PiecesApart(records, held, writer)
  BY DEF IInv
<1>7. /\ \A j \in Idx : Apart2(records[j].at, records[j].len, p.at, n)
      /\ \A q \in held' : Apart2(q.at, q.len, p.at, n)
  BY <1>3, <1>5, <1>6, TypesOf DEF PiecesApart, Idx
<1>8. \A v \in W : Apart2(writer[v].at, writer[v].left, p.at, n)
  <2>1. \A v \in W : Apart2(writer[v].at, writer[v].left, p.at, p.len)
    BY <1>6, ApartSym DEF PiecesApart
  <2> QED BY <1>5, <2>1, TypesOf
<1>9. Patched(heap, heap', p.at, n)
  BY <1>1, <1>3, PatchedSame
<1>10. SetAt(i, view, p.at, n)
  BY <1>2, <1>3, <1>4, <1>7, <1>8, <1>9 DEF SetAt, PlacedAt
<1>11. IInv /\ i \in Idx /\ view \in View /\ p.at \in Place
  BY <1>1
<1> QED BY ONLY <1>10, <1>11, SetKeeps

(* A record without bytes.                                                 *)
LEMMA EmptyKeeps ==
  ASSUME IInv, NEW i \in Idx, NEW view \in View, view.bytes = << >>,
         SetRecord(i, nowhere, view), UNCHANGED <<heap, writer, held>>
  PROVE  IInv'
<1>1. Len(view.bytes) = 0 /\ nowhere \in Place /\ heap \in Memory
  BY TypesOf
<1>2. \A q, n : Apart2(q, n, nowhere, 0)
  BY DEF Apart2
<1>3. Patched(heap, heap', nowhere, 0) /\ InHeap(heap', nowhere, 0)
  BY <1>1, PatchedSame DEF InHeap
<1>4. \A j \in 1 .. 0 : heap'[nowhere.slice][nowhere.off + j] = view.bytes[j]
  OBVIOUS
<1>5. SetAt(i, view, nowhere, 0)
  BY <1>1, <1>2, <1>3, <1>4 DEF SetAt, PlacedAt
<1>6. IInv /\ i \in Idx /\ view \in View /\ nowhere \in Place
  BY <1>1
<1> QED BY ONLY <1>5, <1>6, SetKeeps

LEMMA set_emptyInv ==
  ASSUME IInv, NEW w \in W, NEW i \in Idx, NEW view \in Input, set_empty(w, i, view)
  PROVE  IInv'
<1>1. view \in View
  BY WriterAssumption
<1> QED BY <1>1, EmptyKeeps DEF set_empty

LEMMA store_assignInv ==
  ASSUME IInv, NEW i \in Idx, NEW view \in Input, store_assign(i, view)
  PROVE  IInv'
<1>1. view \in View /\ heap \in Memory /\ Len(view.bytes) \in Nat /\ view.bytes \in Seq(Byte)
  BY WriterAssumption, TypesOf, NaEmpty
<1> PICK n : n = Len(view.bytes)
  OBVIOUS
<1>2. held = {} /\ held' = held /\ writer' = writer
  BY DEF store_assign, IInv
<1>3. \A w \in W : \A q, m : Apart2(writer[w].at, writer[w].left, q, m)
  BY DEF store_assign, NoneOpen, IInv, RoomIn, closed, Apart2
<1>4. PiecesApart(records, held, writer)
  BY DEF IInv
<1>5. CASE view.bytes = << >> /\ SetRecord(i, nowhere, view) /\ heap' = heap
  BY <1>1, <1>2, <1>5, EmptyKeeps
<1>6. CASE /\ view.bytes # << >> /\ InPlace(records[i], Len(view.bytes))
           /\ SetRecord(i, records[i].at, view)
           /\ heap' = Written(heap, records[i].at, view.bytes)
  <2> PICK r \in Record : r = records[i]
    BY DEF IInv, RecordIn
  <2>1. r.at \in Place /\ r.len \in Nat /\ n > 0 /\ n <= r.len /\ r.at.off \in Nat
    BY <1>1, <1>6, NaEmpty, TypesOf DEF InPlace, Place
  <2>2. InHeap(heap, r.at, n)
    <3>1. InHeap(heap, r.at, r.len) /\ n \in Nat
      BY <1>1 DEF IInv, RecordIn
    <3> QED BY <1>1, <2>1, <3>1, PartInHeap
  <2>3. /\ Patched(heap, heap', r.at, n)
        /\ \A j \in 1 .. n : heap'[r.at.slice][r.at.off + j] = view.bytes[j]
    BY <1>1, <1>6, <2>1, <2>2, WrittenOK
  <2>4. InHeap(heap', r.at, n)
    BY <2>2, <2>3 DEF InHeap, Patched
  <2>5. ASSUME NEW j \in Idx, j # i PROVE Apart2(records[j].at, records[j].len, r.at, n)
    <3>1. Apart2(r.at, r.len, records[j].at, records[j].len)
      BY <1>4, <2>5 DEF PiecesApart, Idx
    <3>2. records[j].at \in Place /\ records[j].len \in Nat /\ n \in Nat
      BY <1>1, TypesOf
    <3>3. r.at.off >= r.at.off /\ r.at.off + n <= r.at.off + r.len
      BY <2>1, <3>2
    <3> QED BY <2>1, <3>1, <3>2, <3>3, PartApart
  <2>6. SetAt(i, view, r.at, n)
    BY <1>2, <1>3, <1>6, <2>3, <2>4, <2>5 DEF SetAt, PlacedAt
  <2>7. IInv /\ i \in Idx /\ view \in View /\ r.at \in Place
    BY <1>1, <2>1
  <2> QED BY ONLY <2>6, <2>7, SetKeeps
<1>7. ASSUME view.bytes # << >>, NEW s \in FreeSlices(heap), NEW at,
             at = [slice |-> s, off |-> 0], SetRecord(i, at, view),
             heap' = Written(Allocated(heap, s, Len(view.bytes)), at, view.bytes)
      PROVE  IInv'
  <2> PICK new : new = Allocated(heap, s, n)
    OBVIOUS
  <2>1. /\ s \in Slice /\ heap[s] = Freed /\ new \in Memory /\ new[s] # Freed
        /\ Len(new[s]) = n /\ Patched(heap, new, at, 0)
    BY <1>1, AllocatedOK
  <2>2. at \in Place /\ n > 0 /\ at.slice = s /\ at.off = 0
    BY <1>1, <1>7, <2>1, NaEmpty DEF Place
  <2>3. InHeap(new, at, n)
    BY <1>1, <2>1, <2>2 DEF InHeap
  <2>4. /\ Patched(new, heap', at, n)
        /\ \A j \in 1 .. n : heap'[at.slice][at.off + j] = view.bytes[j]
    BY <1>1, <1>7, <2>1, <2>2, <2>3, WrittenOK
  <2>5. Patched(heap, heap', at, n)
    BY <1>1, <2>1, <2>2, <2>4, PatchedTrans
  <2>6. InHeap(heap', at, n)
    BY <2>3, <2>4 DEF InHeap, Patched
  <2>7. \A j \in Idx : Apart2(records[j].at, records[j].len, at, n)
    BY <2>1, <2>2, TypesOf DEF InHeap, Apart2, Overlap
  <2>8. SetAt(i, view, at, n)
    BY <1>2, <1>3, <1>7, <2>4, <2>5, <2>6, <2>7 DEF SetAt, PlacedAt
  <2>9. IInv /\ i \in Idx /\ view \in View /\ at \in Place
    BY <1>1, <2>2
  <2> QED BY ONLY <2>8, <2>9, SetKeeps
<1> QED BY <1>5, <1>6, <1>7 DEF store_assign

LEMMA FillInv ==
  ASSUME IInv, NEW p \in held, NEW view \in Input, Fill(p, view)
  PROVE  IInv'
<1>1. /\ view \in View /\ heap \in Memory /\ Len(view.bytes) \in Nat /\ view.bytes \in Seq(Byte)
      /\ view.enc # "NA" /\ view # NaView
  BY WriterAssumption, TypesOf, NaEmpty DEF Fill, NaView
<1> PICK n : n = Len(view.bytes)
  OBVIOUS
<1>2. /\ HeldIn(heap, p) /\ p \in Piece /\ p.at \in Place /\ p.len \in Nat /\ p.len > 0
      /\ p.at.off \in Nat /\ n \in 1 .. p.len /\ n \in Nat
  BY TypesOf DEF IInv, Fill, Place
<1>3. InHeap(heap, p.at, p.len) /\ InHeap(heap, p.at, n)
  <2>1. InHeap(heap, p.at, p.len)
    BY <1>2 DEF HeldIn
  <2>2. n <= p.len /\ n \in Nat
    BY <1>2
  <2> QED BY <1>1, <1>2, <2>1, <2>2, PartInHeap
<1>4. /\ Patched(heap, heap', p.at, n)
      /\ \A j \in 1 .. n : heap'[p.at.slice][p.at.off + j] = view.bytes[j]
  <2>1. heap' = Written(heap, p.at, view.bytes)
    BY DEF Fill
  <2>2. /\ heap \in Memory /\ p.at \in Place /\ view.bytes \in Seq(Byte)
        /\ Len(view.bytes) > 0 /\ InHeap(heap, p.at, Len(view.bytes))
    BY <1>1, <1>2, <1>3
  <2>3. /\ Patched(heap, Written(heap, p.at, view.bytes), p.at, Len(view.bytes))
        /\ \A j \in 1 .. Len(view.bytes) :
             Written(heap, p.at, view.bytes)[p.at.slice][p.at.off + j] = view.bytes[j]
    BY ONLY <2>2, WrittenOK
  <2> QED BY ONLY <2>1, <2>3, n = Len(view.bytes)
<1> PICK f : f = [p EXCEPT !.view = view]
  OBVIOUS
<1>5. f \in Piece /\ f.at = p.at /\ f.len = p.len /\ f.view = view
  BY <1>1, <1>2 DEF Piece
<1>6. held' = (held \ {p}) \cup {f} /\ UNCHANGED <<records, writer, text>>
  BY DEF Fill
<1>7. ASSUME NEW q \in Place, NEW m \in Nat, Apart2(q, m, p.at, p.len)
      PROVE  Apart2(q, m, p.at, n)
  <2>1. Apart2(p.at, p.len, q, m)
    BY <1>7, ApartSym
  <2> QED BY <1>2, <2>1, PartApart
<1>8. PiecesApart(records, held, writer)
  BY DEF IInv
<1>9. \A j \in Idx : RecordIn(heap', records[j], text[j])
  <2>1. \A j \in Idx : Apart2(records[j].at, records[j].len, p.at, n)
    BY <1>7, <1>8, TypesOf DEF PiecesApart, Idx
  <2> QED BY <1>2, <1>4, <2>1, HeapStep
<1>10. \A q \in held \ {p} : HeldIn(heap', q)
  <2>1. \A q \in held \ {p} : Apart2(q.at, q.len, p.at, n)
    BY <1>7, <1>8, TypesOf DEF PiecesApart
  <2> QED BY <1>2, <1>4, <2>1, HeapStep
<1>11. \A w \in W : RoomIn(heap', writer[w])
  <2>1. \A w \in W : Apart2(writer[w].at, writer[w].left, p.at, p.len)
    BY <1>8, ApartSym DEF PiecesApart
  <2>2. \A w \in W : Apart2(writer[w].at, writer[w].left, p.at, n)
    BY <1>7, <2>1, TypesOf
  <2> QED BY <1>2, <1>4, <2>2, HeapStep
<1>12. HeldIn(heap', f)
  <2>1. InHeap(heap', p.at, p.len)
    BY <1>3, <1>4 DEF InHeap, Patched
  <2> QED BY <1>1, <1>2, <1>4, <1>5, <2>1 DEF HeldIn
<1>13. PiecesApart(records, held', writer)
  <2>1. \A q \in held \ {p} : Apart2(q.at, q.len, f.at, f.len) /\ Apart2(f.at, f.len, q.at, q.len)
    BY <1>5, <1>8 DEF PiecesApart
  <2>2. \A j \in Idx : Apart2(records[j].at, records[j].len, f.at, f.len)
    BY <1>5, <1>8 DEF PiecesApart, Idx
  <2>3. \A w \in W : Apart2(f.at, f.len, writer[w].at, writer[w].left)
    BY <1>5, <1>8 DEF PiecesApart
  <2> QED BY <1>6, <1>8, <2>1, <2>2, <2>3 DEF PiecesApart, Idx
<1>14. ~ NoneOpen'
  BY <1>6 DEF IInv, NoneOpen
<1>15. TypeOK'
  BY <1>4, <1>5, <1>6 DEF IInv, TypeOK, Patched
<1> QED BY <1>6, <1>9, <1>10, <1>11, <1>12, <1>13, <1>14, <1>15 DEF IInv, Idx

LEMMA copyInv ==
  ASSUME IInv, NEW w \in W, NEW i \in Idx, NEW view \in Input, copy(w, i, view)
  PROVE  IInv'
<1>1. /\ view \in View /\ heap \in Memory /\ Len(view.bytes) \in Nat /\ view.bytes \in Seq(Byte)
      /\ Len(view.bytes) > 0 /\ writer[w].open
  BY WriterAssumption, TypesOf, NaEmpty DEF copy
<1> PICK n : n = Len(view.bytes)
  OBVIOUS
<1>2. PICK room \in Rooms(writer[w], n) :
        /\ writer' = [writer EXCEPT ![w] = advanced(room.cursor, n)]
        /\ heap'   = Written(room.heap, room.cursor.at, view.bytes)
        /\ SetRecord(i, room.cursor.at, view)
  BY DEF copy
<1>3. held' = held
  BY DEF copy
<1> PICK c : c = room.cursor
  OBVIOUS
<1> PICK mem : mem = room.heap
  OBVIOUS
<1>4. /\ c \in Cursor /\ c.open /\ c.left >= n /\ RoomIn(mem, c)
      /\ \A at \in Place : Patched(heap, mem, at, 0)
      /\ \A j \in Idx : Apart2(records[j].at, records[j].len, c.at, c.left)
      /\ \A q \in held : Apart2(q.at, q.len, c.at, c.left)
      /\ \A v \in W : v # w => Apart2(writer[v].at, writer[v].left, c.at, c.left)
  BY <1>1, <1>2, RoomOK
<1> PICK d : d = advanced(c, n)
  OBVIOUS
<1>5. /\ d \in Cursor /\ d.open /\ c.at \in Place /\ c.left \in Nat
      /\ d.at \in Place /\ d.left \in Nat /\ c.at.off \in Nat
      /\ d.at.slice = c.at.slice /\ d.at.off = c.at.off + n /\ d.left = c.left - n
      /\ Apart2(c.at, n, d.at, d.left)
  BY <1>1, <1>4, Advance DEF Place
<1>6. /\ writer' \in [W -> Cursor] /\ writer'[w] = d
      /\ \A v \in W : v # w => writer'[v] = writer[v]
  BY <1>2, <1>5 DEF IInv, TypeOK
<1>7. ASSUME NEW q \in Place, NEW m \in Nat, Apart2(q, m, c.at, c.left)
      PROVE  /\ Apart2(q, m, c.at, n) /\ Apart2(c.at, n, q, m)
             /\ Apart2(q, m, d.at, d.left) /\ Apart2(d.at, d.left, q, m)
  <2>1. Apart2(c.at, c.left, q, m)
    BY <1>7, ApartSym
  <2>2. Apart2(c.at, n, q, m) /\ Apart2(q, m, c.at, n)
    <3>1. n \in Nat /\ c.at.off >= c.at.off /\ c.at.off + n <= c.at.off + c.left
      BY <1>1, <1>4, <1>5
    <3> QED BY <1>5, <2>1, <3>1, PartApart
  <2>3. d.at.off >= c.at.off /\ d.at.off + d.left <= c.at.off + c.left
    BY <1>1, <1>4, <1>5
  <2>4. Apart2(d.at, d.left, q, m) /\ Apart2(q, m, d.at, d.left)
    BY <1>5, <2>1, <2>3, PartApart
  <2> QED BY <2>2, <2>4
<1>8. /\ mem \in Memory
      /\ c.at.slice \in Slice /\ mem[c.at.slice] # Freed
      /\ c.at.off + c.left <= Len(mem[c.at.slice]) /\ Len(mem[c.at.slice]) \in Nat
  <2>1. mem \in Memory
    BY <1>4, <1>5 DEF Patched
  <2>2. /\ c.at.slice \in Slice /\ mem[c.at.slice] # Freed
        /\ c.at.off + c.left <= Len(mem[c.at.slice])
    BY <1>1, <1>4, <1>5 DEF RoomIn, InHeap
  <2> QED BY <2>1, <2>2, SliceType
<1>9. InHeap(mem, c.at, n) /\ InHeap(mem, d.at, d.left)
  <2>1. InHeap(mem, c.at, c.left) /\ n <= c.left /\ n \in Nat
    BY <1>1, <1>4 DEF RoomIn
  <2>2. InHeap(mem, c.at, n)
    BY <1>5, <1>8, <2>1, PartInHeap
  <2>3. d.at.off + d.left = c.at.off + c.left
    BY <1>1, <1>4, <1>5
  <2> QED BY <1>5, <1>8, <2>2, <2>3 DEF InHeap
<1>10. /\ Patched(mem, heap', c.at, n)
       /\ \A j \in 1 .. n : heap'[c.at.slice][c.at.off + j] = view.bytes[j]
  <2>1. heap' = Written(mem, c.at, view.bytes)
    BY <1>2
  <2>2. InHeap(mem, c.at, Len(view.bytes))
    BY <1>9
  <2>3. c.at \in Place /\ mem \in Memory /\ view.bytes \in Seq(Byte) /\ Len(view.bytes) > 0
        /\ n = Len(view.bytes)
    BY <1>1, <1>5, <1>8
  <2> QED BY ONLY <2>1, <2>2, <2>3, WrittenOK
<1>11. Patched(heap, heap', c.at, n)
  BY <1>1, <1>4, <1>5, <1>10, PatchedTrans
<1>12. InHeap(heap', c.at, n) /\ InHeap(heap', d.at, d.left)
  BY <1>9, <1>10 DEF InHeap, Patched
<1>13. /\ \A j \in Idx : Apart2(records[j].at, records[j].len, c.at, n)
       /\ \A j \in Idx : Apart2(records[j].at, records[j].len, d.at, d.left)
       /\ \A q \in held : Apart2(q.at, q.len, c.at, n) /\ Apart2(c.at, n, q.at, q.len)
       /\ \A q \in held : Apart2(q.at, q.len, d.at, d.left)
       /\ \A v \in W : v # w =>
            /\ Apart2(writer[v].at, writer[v].left, c.at, n)
            /\ Apart2(c.at, n, writer[v].at, writer[v].left)
            /\ Apart2(writer[v].at, writer[v].left, d.at, d.left)
            /\ Apart2(d.at, d.left, writer[v].at, writer[v].left)
  BY <1>4, <1>7, TypesOf
<1>14. /\ records' \in Seq(Record) /\ text' \in Seq(View) /\ Len(text') = Len(records')
       /\ Idx' = Idx /\ heap' \in Memory
       /\ \A j \in Idx : RecordIn(heap', records'[j], text'[j])
       /\ \A j, k \in Idx : j # k =>
            Apart2(records'[j].at, records'[j].len, records'[k].at, records'[k].len)
       /\ \A q, m : /\ \A j \in Idx : j # i => Apart2(records[j].at, records[j].len, q, m)
                    /\ Apart2(c.at, n, q, m)
                   => \A j \in Idx : Apart2(records'[j].at, records'[j].len, q, m)
  <2> PICK at \in Place : at = c.at
    BY <1>5
  <2>1. SetRecord(i, at, view)
    BY <1>2
  <2>2. /\ Patched(heap, heap', at, n) /\ InHeap(heap', at, n)
        /\ \A j \in 1 .. n : heap'[at.slice][at.off + j] = view.bytes[j]
        /\ \A j \in Idx : j # i => Apart2(records[j].at, records[j].len, at, n)
    BY <1>10, <1>11, <1>12, <1>13
  <2>3. PlacedAt(i, view, at, n)
    BY <2>1, <2>2 DEF PlacedAt
  <2>4. IInv /\ i \in Idx /\ view \in View /\ at \in Place
    BY <1>1
  <2>5. /\ records' \in Seq(Record) /\ text' \in Seq(View) /\ Len(text') = Len(records')
        /\ Idx' = Idx /\ heap' \in Memory
        /\ \A j \in Idx : RecordIn(heap', records'[j], text'[j])
        /\ \A j, k \in Idx : j # k =>
             Apart2(records'[j].at, records'[j].len, records'[k].at, records'[k].len)
        /\ \A q, m : /\ \A j \in Idx : j # i => Apart2(records[j].at, records[j].len, q, m)
                     /\ Apart2(at, n, q, m)
                    => \A j \in Idx : Apart2(records'[j].at, records'[j].len, q, m)
    BY ONLY <2>3, <2>4, RecordPlaced
  <2> QED BY <2>5
<1>15. PiecesApart(records, held, writer)
  BY DEF IInv
<1>16. \A q \in held : HeldIn(heap', q)
  BY <1>1, <1>5, <1>11, <1>13, HeapStep
<1>17. \A v \in W : RoomIn(heap', writer'[v])
  <2>1. \A v \in W : v # w => RoomIn(heap', writer[v])
    BY <1>1, <1>5, <1>11, <1>13, HeapStep
  <2>2. RoomIn(heap', d)
    BY <1>5, <1>12 DEF RoomIn
  <2> QED BY <1>6, <2>1, <2>2
<1>18. ASSUME NEW j \in Idx
       PROVE  /\ \A q \in held : Apart2(records'[j].at, records'[j].len, q.at, q.len)
              /\ \A v \in W : Apart2(records'[j].at, records'[j].len, writer'[v].at, writer'[v].left)
  <2>1. ASSUME NEW q \in held PROVE Apart2(records'[j].at, records'[j].len, q.at, q.len)
    <3>1. \A k \in Idx : Apart2(records[k].at, records[k].len, q.at, q.len)
      BY <1>15 DEF PiecesApart, Idx
    <3> QED BY <1>13, <1>14, <3>1
  <2>2. ASSUME NEW v \in W, v # w
        PROVE  Apart2(records'[j].at, records'[j].len, writer[v].at, writer[v].left)
    <3>1. \A k \in Idx : Apart2(records[k].at, records[k].len, writer[v].at, writer[v].left)
      BY <1>15 DEF PiecesApart, Idx
    <3> QED BY <1>13, <1>14, <2>2, <3>1
  <2>3. Apart2(records'[j].at, records'[j].len, d.at, d.left)
    BY <1>5, <1>13, <1>14
  <2> QED BY <1>6, <2>1, <2>2, <2>3
<1>19. /\ \A v, u \in W : v # u => Apart2(writer'[v].at, writer'[v].left, writer'[u].at, writer'[u].left)
       /\ \A q \in held : \A v \in W : Apart2(q.at, q.len, writer'[v].at, writer'[v].left)
  BY <1>6, <1>13, <1>15 DEF PiecesApart
<1>20. PiecesApart(records', held', writer')
  <2>1. DOMAIN records' = Idx
    BY <1>14 DEF Idx
  <2>2. \A p, q \in held : p # q => Apart2(p.at, p.len, q.at, q.len)
    BY <1>15 DEF PiecesApart
  <2> QED BY <1>3, <1>14, <1>18, <1>19, <2>1, <2>2 DEF PiecesApart
<1>21. ~ NoneOpen'
  BY <1>5, <1>6 DEF NoneOpen
<1>22. TypeOK'
  BY <1>3, <1>6, <1>14 DEF IInv, TypeOK
<1> QED BY <1>3, <1>14, <1>16, <1>17, <1>20, <1>21, <1>22 DEF IInv

-----------------------------------------------------------------------------
(* Compaction.  The record after the one a block ends with begins the next *)
(* block, and any other begins where the one before it ends.               *)
LEMMA EndsDef ==
  ASSUME TypeOK
  PROVE  \A k \in 0 .. Len(records) :
           ends[k] = IF k = 0 THEN [block |-> 1, bytes |-> 0]
                     ELSE IF records[k].len > max_block - ends[k - 1].bytes
                          THEN [block |-> ends[k - 1].block + 1, bytes |-> records[k].len]
                          ELSE [ends[k - 1] EXCEPT !.bytes = @ + records[k].len]
<1> PICK n \in Nat : n = Len(records)
  BY DEF TypeOK
<1> PICK recs : recs = records
  OBVIOUS
<1> DEFINE K == 0 .. n
           step(f, k) == IF k = 0 THEN [block |-> 1, bytes |-> 0]
                         ELSE IF recs[k].len > max_block - f[k - 1].bytes
                              THEN [block |-> f[k - 1].block + 1, bytes |-> recs[k].len]
                              ELSE [f[k - 1] EXCEPT !.bytes = @ + recs[k].len]
           Upto(f, m) == f = [k \in 0 .. m |-> step(f, k)]
           Bad == {m \in K : \A f : ~ Upto(f, m)}
<1>1. Bad = {}
  <2> SUFFICES ASSUME Bad # {} PROVE FALSE
    OBVIOUS
  <2>1. Bad \subseteq Nat
    OBVIOUS
  <2> HIDE DEF Bad
  <2>4. PICK m \in Bad : \A k \in Bad : m <= k
    BY <2>1, Least
  <2> USE DEF Bad
  <2>2. CASE m = 0
    <3>1. Upto([k \in 0 .. 0 |-> [block |-> 1, bytes |-> 0]], 0)
      OBVIOUS
    <3> QED BY <2>2, <3>1
  <2>3. CASE m # 0
    <3>6. m \in K /\ m \in Nat /\ m > 0 /\ m - 1 \in K
      BY <2>3
    <3>1. m - 1 \notin Bad
      <4> HIDE DEF Bad
      <4> QED BY <2>4, <3>6
    <3>2. PICK f : Upto(f, m - 1)
      BY <3>1, <3>6
    <3> DEFINE g == [k \in 0 .. m |-> step(f, k)]
    <3> HIDE DEF step
    <3>3. \A k \in 0 .. m - 1 : g[k] = f[k]
      BY <3>6, <3>2
    <3>4. \A k \in 0 .. m : k # 0 => k - 1 \in 0 .. m - 1
      BY <3>6
    <3>5. \A k \in 0 .. m : step(g, k) = step(f, k)
      <4>1. ASSUME NEW k \in 0 .. m, k # 0 PROVE g[k - 1] = f[k - 1]
        BY <4>1, <3>3, <3>4
      <4> HIDE DEF g
      <4> QED BY <4>1 DEF step
    <3>7. Upto(g, m)
      BY <3>5
    <3> QED BY <3>6, <3>7
  <2> QED BY <2>2, <2>3
<1>2. PICK f : Upto(f, n)
  <2>1. n \in K /\ n \notin Bad
    <3> HIDE DEF Bad
    <3> QED BY <1>1
  <2> QED BY <2>1
<1>3. ends = [k \in K |-> step(ends, k)]
  BY <1>2, ZenonT(30) DEF ends, overflows
<1> QED BY <1>3

LEMMA EndsStep ==
  ASSUME IInv
  PROVE  /\ Len(records) \in Nat
         /\ \A k \in 0 .. Len(records) : ends[k].block \in Nat /\ ends[k].bytes \in Nat
         /\ \A k \in Idx :
              \/ /\ ends[k].block = ends[k - 1].block + 1
                 /\ ends[k].bytes = records[k].len
              \/ /\ ends[k].block = ends[k - 1].block
                 /\ ends[k].bytes = ends[k - 1].bytes + records[k].len
                 /\ ends[k].bytes <= max_block
         /\ ends[0].bytes = 0
<1> PICK e : e = ends
  OBVIOUS
<1> PICK n \in Nat : n = Len(records)
  BY DEF IInv, TypeOK
<1>1. TypeOK /\ Idx = 1 .. n /\ \A k \in 1 .. n : records[k].len \in Nat
  BY TypesOf DEF IInv, TypeOK, Idx
<1>2. \A k \in 0 .. n :
        e[k] = IF k = 0 THEN [block |-> 1, bytes |-> 0]
               ELSE IF records[k].len > max_block - e[k - 1].bytes
                    THEN [block |-> e[k - 1].block + 1, bytes |-> records[k].len]
                    ELSE [e[k - 1] EXCEPT !.bytes = @ + records[k].len]
  BY <1>1, EndsDef
<1> DEFINE Shape == [block : Nat, bytes : Nat]
           Bad == {k \in 0 .. n : e[k] \notin Shape}
<1>3. Bad = {}
  <2> SUFFICES ASSUME Bad # {} PROVE FALSE
    OBVIOUS
  <2>1. Bad \subseteq Nat
    OBVIOUS
  <2>2. PICK m \in Bad : \A k \in Bad : m <= k
    <3> HIDE DEF Bad
    <3> QED BY <2>1, Least
  <2>3. m # 0
    <3>1. 0 \in 0 .. n
      OBVIOUS
    <3>2. e[0] = [block |-> 1, bytes |-> 0]
      BY <1>2, <3>1
    <3>3. e[0] \in Shape
      BY <3>2
    <3> QED BY <3>3
  <2>4. m \in 1 .. n /\ m - 1 \in 0 .. n /\ e[m - 1] \in Shape
    BY <2>2, <2>3
  <2>5. e[m] \in Shape
    <3>1. PICK was \in Shape : was = e[m - 1]
      BY <2>4
    <3>2. PICK len \in Nat : len = records[m].len
      BY <1>1, <2>4
    <3>3. [block |-> was.block + 1, bytes |-> len] \in Shape
      OBVIOUS
    <3>4. [was EXCEPT !.bytes = @ + len] \in Shape
      OBVIOUS
    <3> QED BY <1>2, <2>3, <2>4, <3>1, <3>2, <3>3, <3>4
  <2> QED BY <2>5
<1>4. ASSUME NEW k \in 1 .. n
      PROVE  \/ e[k].block = e[k - 1].block + 1 /\ e[k].bytes = records[k].len
             \/ /\ e[k].block = e[k - 1].block /\ e[k].bytes = e[k - 1].bytes + records[k].len
                /\ e[k].bytes <= max_block
  <2>1. k \in 0 .. n /\ k # 0 /\ k - 1 \in 0 .. n
    OBVIOUS
  <2>2. PICK was \in Shape : was = e[k - 1]
    BY <1>3, <2>1
  <2>3. e[k] = IF records[k].len > max_block - was.bytes
               THEN [block |-> was.block + 1, bytes |-> records[k].len]
               ELSE [was EXCEPT !.bytes = @ + records[k].len]
    <3> HIDE DEF Shape
    <3> QED BY <1>2, <2>1, <2>2
  <2>4. was.bytes \in Nat /\ records[k].len \in Nat /\ max_block \in Nat
    BY <1>1, WriterAssumption
  <2>5. CASE records[k].len > max_block - was.bytes
    BY <2>2, <2>3, <2>5
  <2>6. CASE ~ (records[k].len > max_block - was.bytes)
    <3>1. was.bytes + records[k].len <= max_block
      BY <2>4, <2>6
    <3> QED BY <2>2, <2>3, <2>6, <3>1
  <2> QED BY <2>5, <2>6
<1>5. e[0].bytes = 0
  <2>1. 0 \in 0 .. n
    OBVIOUS
  <2>2. e[0] = [block |-> 1, bytes |-> 0]
    BY <1>2, <2>1
  <2> QED BY <2>2
<1> QED BY <1>1, <1>3, <1>4, <1>5

(* Records of one block follow each other.                                 *)
LEMMA EndsGrow ==
  ASSUME IInv, NEW i \in Idx, NEW j \in Idx, i < j
  PROVE  /\ ends[i].block <= ends[j].block
         /\ ends[i].block = ends[j].block => ends[i].bytes <= start(ends, j)
<1> PICK e : e = ends
  OBVIOUS
<1> PICK n \in Nat : n = Len(records)
  BY DEF IInv, TypeOK
<1>1. Idx = 1 .. n /\ \A k \in 1 .. n : records[k].len \in Nat
  BY TypesOf DEF IInv, TypeOK, Idx
<1>2. /\ \A k \in 0 .. n : e[k].block \in Nat /\ e[k].bytes \in Nat
      /\ \A k \in 1 .. n :
           \/ e[k].block = e[k - 1].block + 1 /\ e[k].bytes = records[k].len
           \/ e[k].block = e[k - 1].block /\ e[k].bytes = e[k - 1].bytes + records[k].len
  BY <1>1, EndsStep
<1> DEFINE Grown(k) == /\ e[i].block <= e[k].block
                       /\ e[i].block = e[k].block => e[i].bytes <= e[k].bytes - records[k].len
           Bad == {k \in (i + 1) .. n : ~ Grown(k)}
<1>3. Bad = {}
  <2> SUFFICES ASSUME Bad # {} PROVE FALSE
    OBVIOUS
  <2>1. Bad \subseteq Nat
    BY <1>1
  <2>2. PICK m \in Bad : \A k \in Bad : m <= k
    <3> HIDE DEF Bad
    <3> QED BY <2>1, Least
  <2>3. /\ i \in Nat /\ i >= 1 /\ i \in 0 .. n /\ m \in 1 .. n /\ m \in 0 .. n
        /\ m - 1 \in 0 .. n /\ m - 1 >= i /\ m \in Nat /\ m - 1 \in Nat
    BY <1>1
  <2> PICK o \in Nat : o = m - 1
    BY <2>3
  <2>4. /\ e[m].block \in Nat /\ e[m].bytes \in Nat /\ e[o].block \in Nat /\ e[o].bytes \in Nat
        /\ e[i].block \in Nat /\ e[i].bytes \in Nat /\ records[m].len \in Nat
        /\ \/ e[m].block = e[o].block + 1 /\ e[m].bytes = records[m].len
           \/ e[m].block = e[o].block /\ e[m].bytes = e[o].bytes + records[m].len
    BY <1>1, <1>2, <2>3
  <2>5. CASE o = i
    BY <2>4, <2>5
  <2>6. CASE o # i
    <3>1. o \in (i + 1) .. n /\ o \notin Bad /\ o \in 1 .. n /\ records[o].len \in Nat
      <4>1. o \in (i + 1) .. n /\ o \in 1 .. n
        BY <2>3, <2>6
      <4>2. o \notin Bad
        <5> HIDE DEF Bad
        <5> QED BY <2>2, <2>3
      <4> QED BY <1>1, <4>1, <4>2
    <3>2. Grown(o)
      BY <3>1
    <3>3. e[i].block <= e[o].block /\ (e[i].block = e[o].block => e[i].bytes <= e[o].bytes - records[o].len)
      BY <3>2
    <3>4. Grown(m)
      BY ONLY <2>4, <3>1, <3>3, SMTT(30)
    <3> QED BY <3>4
  <2> QED BY <2>5, <2>6
<1>4. j \in (i + 1) .. n
  BY <1>1
<1> QED BY <1>3, <1>4 DEF start

LEMMA StartApart ==
  ASSUME IInv
  PROVE  /\ \A i \in Idx : /\ start(ends, i) \in Nat /\ records[i].len \in Nat
                           /\ ends[i].bytes \in Nat
                           /\ ends[i].bytes = start(ends, i) + records[i].len
         /\ \A i, j \in Idx : i # j /\ ends[i].block = ends[j].block =>
              \/ ends[i].bytes <= start(ends, j)
              \/ ends[j].bytes <= start(ends, i)
<1>1. Idx = 1 .. Len(records) /\ Len(records) \in Nat
  BY DEF IInv, TypeOK, Idx
<1>2. ASSUME NEW i \in Idx
      PROVE  /\ start(ends, i) \in Nat /\ records[i].len \in Nat /\ ends[i].bytes \in Nat
             /\ ends[i].bytes = start(ends, i) + records[i].len
  <2>1. i \in 0 .. Len(records) /\ i - 1 \in 0 .. Len(records)
    BY <1>1
  <2>2. ends[i].bytes \in Nat /\ ends[i - 1].bytes \in Nat /\ records[i].len \in Nat
    BY <2>1, EndsStep, TypesOf
  <2>3. ends[i].bytes = records[i].len \/ ends[i].bytes = ends[i - 1].bytes + records[i].len
    BY EndsStep
  <2> QED BY <2>2, <2>3 DEF start
<1>3. ASSUME NEW i \in Idx, NEW j \in Idx, i # j, ends[i].block = ends[j].block
      PROVE  ends[i].bytes <= start(ends, j) \/ ends[j].bytes <= start(ends, i)
  <2>1. i < j \/ j < i
    BY <1>1, <1>3
  <2> QED BY <1>3, <2>1, EndsGrow
<1> QED BY <1>2, <1>3

LEMMA BlockBytes ==
  ASSUME IInv, NEW b
  PROVE  /\ block_bytes(ends, b) \in Nat
         /\ \A i \in Idx : ends[i].block = b => ends[i].bytes <= block_bytes(ends, b)
         /\ \/ block_bytes(ends, b) = 0
            \/ \E i \in Idx : ends[i].block = b /\ block_bytes(ends, b) = ends[i].bytes
<1> DEFINE In_b == {i \in Idx : ends[i].block = b}
           T    == {0} \cup {ends[i].bytes : i \in In_b}
<1>1. \E x \in T : x \in Nat /\ \A y \in T : x >= y
  <2>1. CASE In_b = {}
    BY <2>1
  <2>2. CASE In_b # {}
    <3>1. In_b \subseteq Nat /\ Len(records) \in Nat /\ \A i \in In_b : i <= Len(records)
      BY DEF IInv, TypeOK, Idx
    <3>2. PICK g \in In_b : \A i \in In_b : i <= g
      <4> HIDE DEF In_b
      <4> QED BY <2>2, <3>1, Greatest
    <3>3. \A i \in In_b : ends[i].bytes \in Nat /\ ends[i].bytes <= ends[g].bytes
      <4> SUFFICES ASSUME NEW i \in In_b
                   PROVE  ends[i].bytes \in Nat /\ ends[i].bytes <= ends[g].bytes
        OBVIOUS
      <4>1. /\ ends[i].bytes \in Nat /\ ends[g].bytes \in Nat /\ records[g].len \in Nat
            /\ start(ends, g) \in Nat /\ ends[g].bytes = start(ends, g) + records[g].len
        BY StartApart
      <4>2. CASE i = g
        BY <4>1, <4>2
      <4>3. CASE i # g
        <5>1. i < g
          BY <3>1, <3>2, <4>3
        <5>2. ends[i].bytes <= start(ends, g)
          BY <5>1, EndsGrow
        <5> QED BY <4>1, <5>2
      <4> QED BY <4>2, <4>3
    <3>4. ends[g].bytes \in T /\ ends[g].bytes \in Nat
      BY <3>3
    <3>5. \A y \in T : ends[g].bytes >= y
      BY <3>3, <3>4
    <3> QED BY <3>4, <3>5
  <2> QED BY <2>1, <2>2
<1>2. block_bytes(ends, b) = Max(T)
  BY DEF block_bytes
<1>3. \A i \in Idx : ends[i].block = b => ends[i].bytes \in T
  OBVIOUS
<1>4. \A i \in Idx : ends[i].bytes \in Nat
  BY StartApart
<1> HIDE DEF T
<1>5. Max(T) \in T /\ Max(T) \in Nat /\ \A y \in T : Max(T) >= y
  <2>1. T \subseteq Nat
    BY <1>4 DEF T
  <2> QED BY <1>1, <2>1 DEF Max
<1>6. \A x \in T : x = 0 \/ \E i \in Idx : ends[i].block = b /\ x = ends[i].bytes
  BY DEF T
<1> QED BY <1>2, <1>3, <1>4, <1>5, <1>6

LEMMA compact_storeInv == ASSUME IInv, compact_store PROVE IInv'
<1> DEFINE e == ends
           blocks == {e[i].block : i \in {j \in Idx : records[j].len > 0}}
           Has(i, j) == j - start(e, i) \in 1 .. records[i].len
           Byte_(b, j) ==
             IF \E i \in {i \in Idx : e[i].block = b} : Has(i, j)
             THEN LET i == CHOOSE i \in {i \in Idx : e[i].block = b} : Has(i, j)
                  IN  ViewOf(heap, records[i]).bytes[j - start(e, i)]
             ELSE Junk
<1>1. PICK slice \in [blocks -> FreeSlices(heap)] :
        /\ \A b, c \in blocks : slice[b] = slice[c] => b = c
        /\ records' = [i \in Idx |->
             IF records[i].len = 0 THEN records[i]
             ELSE [records[i] EXCEPT !.at = [slice |-> slice[e[i].block], off |-> start(e, i)]]]
        /\ heap' = [s \in Slice |->
             IF \A b \in blocks : slice[b] # s THEN Freed
             ELSE LET b == CHOOSE b \in blocks : slice[b] = s
                  IN  [j \in 1 .. block_bytes(e, b) |-> Byte_(b, j)]]
  BY DEF compact_store
<1>2. NoneOpen /\ held = {} /\ held' = held /\ writer' = writer /\ text' = text
  BY DEF compact_store, IInv
<1>3. /\ \A i \in Idx : /\ start(e, i) \in Nat /\ records[i].len \in Nat /\ e[i].bytes \in Nat
                        /\ e[i].bytes = start(e, i) + records[i].len
      /\ \A i, j \in Idx : i # j /\ e[i].block = e[j].block =>
           e[i].bytes <= start(e, j) \/ e[j].bytes <= start(e, i)
  BY StartApart
<1>4. ASSUME NEW b
      PROVE  /\ block_bytes(e, b) \in Nat
             /\ \A i \in Idx : e[i].block = b => e[i].bytes <= block_bytes(e, b)
  BY BlockBytes
<1>5. ASSUME NEW i \in Idx, NEW k \in 1 .. records[i].len
      PROVE  /\ ViewOf(heap, records[i]).bytes[k] = text[i].bytes[k]
             /\ text[i].bytes[k] \in Byte
  <2>1. ViewOf(heap, records[i]) = text[i]
    BY DEF IInv, RecordIn
  <2>2. text[i] \in View
    BY DEF IInv, TypeOK, Idx
  <2>3. text[i].bytes \in Seq(Byte) /\ Len(text[i].bytes) \in Nat
    BY <2>2, NaEmpty
  <2>4. records[i].len = Len(text[i].bytes)
    <3>1. records[i].len \in Nat /\ records[i].len > 0 /\ records[i].enc # "NA"
      <4>1. records[i].enc = "NA" => records[i].len = 0
        BY DEF IInv, RecordIn
      <4>2. records[i].len \in Nat
        BY <1>3
      <4> QED BY <4>1, <4>2
    <3>2. text[i].bytes = [j \in 1 .. records[i].len |-> heap[records[i].at.slice][records[i].at.off + j]]
      <4> PICK r : r = records[i]
        OBVIOUS
      <4>1. r.len # 0 /\ r.enc # "NA" /\ text[i] = ViewOf(heap, r)
        BY <2>1, <3>1
      <4> QED BY <4>1 DEF ViewOf, BytesAt
    <3>3. DOMAIN text[i].bytes = 1 .. records[i].len
      BY <3>2
    <3>4. DOMAIN text[i].bytes = 1 .. Len(text[i].bytes)
      BY <2>3
    <3> QED BY <2>3, <3>1, <3>3, <3>4
  <2> QED BY <2>1, <2>3, <2>4
<1>6. ASSUME NEW i \in Idx, NEW k \in 1 .. records[i].len
      PROVE  Byte_(e[i].block, start(e, i) + k) = text[i].bytes[k]
  <2> PICK b : b = e[i].block
    OBVIOUS
  <2> PICK j : j = start(e, i) + k
    OBVIOUS
  <2>1. start(e, i) \in Nat /\ k \in Nat /\ j - start(e, i) = k /\ j \in Nat
    BY <1>3
  <2>2. i \in {h \in Idx : e[h].block = b} /\ Has(i, j)
    BY <2>1
  <2>3. ASSUME NEW h \in {h \in Idx : e[h].block = b}, Has(h, j) PROVE h = i
    <3> SUFFICES ASSUME h # i PROVE FALSE
      OBVIOUS
    <3>1. /\ start(e, h) \in Nat /\ records[h].len \in Nat
          /\ e[h].bytes = start(e, h) + records[h].len
          /\ e[i].bytes = start(e, i) + records[i].len /\ records[i].len \in Nat
      BY <1>3
    <3>2. e[i].bytes <= start(e, h) \/ e[h].bytes <= start(e, i)
      BY <1>3
    <3>3. j > start(e, h) /\ j <= start(e, h) + records[h].len
      BY <2>1, <2>3, <3>1
    <3>4. j > start(e, i) /\ j <= start(e, i) + records[i].len
      BY <2>1, <3>1
    <3> QED BY <2>1, <3>1, <3>2, <3>3, <3>4
  <2>4. (CHOOSE h \in {h \in Idx : e[h].block = b} : Has(h, j)) = i
    <3> HIDE DEF Has
    <3> QED BY <2>2, <2>3
  <2>5. Byte_(b, j) = ViewOf(heap, records[i]).bytes[j - start(e, i)]
    <3> HIDE DEF Has
    <3> QED BY <2>2, <2>4
  <2> QED BY <1>5, <2>1, <2>5
<1>7. ASSUME NEW b, NEW j PROVE Byte_(b, j) \in Byte \cup {Junk}
  <2>1. CASE \E i \in {i \in Idx : e[i].block = b} : Has(i, j)
    <3>1. PICK i \in Idx : e[i].block = b /\ Has(i, j)
                          /\ Byte_(b, j) = ViewOf(heap, records[i]).bytes[j - start(e, i)]
      <4> HIDE DEF Has
      <4> QED BY <2>1
    <3> QED BY <1>5, <3>1
  <2>2. CASE ~ \E i \in {i \in Idx : e[i].block = b} : Has(i, j)
    BY <2>2
  <2> QED BY <2>1, <2>2
<1> HIDE DEF Byte_, Has
<1>8. ASSUME NEW b \in blocks
      PROVE  /\ slice[b] \in Slice
             /\ heap'[slice[b]] = [j \in 1 .. block_bytes(e, b) |-> Byte_(b, j)]
             /\ heap'[slice[b]] # Freed /\ Len(heap'[slice[b]]) = block_bytes(e, b)
  <2>1. slice[b] \in Slice
    BY DEF FreeSlices
  <2>2. (CHOOSE c \in blocks : slice[c] = slice[b]) = b
    <3> HIDE DEF blocks
    <3> QED BY <1>1
  <2>3. heap'[slice[b]] = [j \in 1 .. block_bytes(e, b) |-> Byte_(b, j)]
    <3> HIDE DEF blocks
    <3> QED BY <1>1, <2>1, <2>2
  <2>4. heap'[slice[b]] \in Seq(Byte \cup {Junk}) /\ Len(heap'[slice[b]]) = block_bytes(e, b)
    BY <1>4, <1>7, <2>3
  <2> QED BY <2>1, <2>3, <2>4, SlicesAssumption
<1>9. heap' \in Memory
  <2>1. ASSUME NEW s \in Slice PROVE heap'[s] \in Seq(Byte \cup {Junk}) \cup {Freed}
    <3> HIDE DEF blocks
    <3>1. CASE \A b \in blocks : slice[b] # s
      BY <1>1, <3>1
    <3>2. CASE \E b \in blocks : slice[b] = s
      <4>1. PICK b \in blocks : slice[b] = s
        BY <3>2
      <4>2. heap'[s] = [j \in 1 .. block_bytes(e, b) |-> Byte_(b, j)]
        BY <1>8, <4>1
      <4> QED BY <1>4, <1>7, <4>2
    <3> QED BY <3>1, <3>2
  <2> HIDE DEF blocks
  <2> QED BY <1>1, <2>1 DEF Memory
<1>10. ASSUME NEW i \in Idx
       PROVE  /\ records'[i] \in Record /\ records'[i].len = records[i].len
              /\ records'[i].enc = records[i].enc
              /\ records'[i].len > 0 => /\ e[i].block \in blocks
                                       /\ records'[i].at.slice = slice[e[i].block]
                                       /\ records'[i].at.off = start(e, i)
  <2>1. PICK r \in Record : r = records[i]
    BY DEF IInv, RecordIn
  <2>2. CASE r.len = 0
    BY <1>1, <2>1, <2>2
  <2>3. CASE r.len # 0
    <3>1. r.len > 0 /\ e[i].block \in blocks
      BY <1>3, <2>1, <2>3
    <3>2. PICK at \in Place : at = [slice |-> slice[e[i].block], off |-> start(e, i)]
      BY <1>3, <1>8, <3>1 DEF Place
    <3>3. records'[i] = [r EXCEPT !.at = at]
      <4> HIDE DEF blocks
      <4> QED BY <1>1, <2>1, <2>3, <3>2
    <3> QED BY <2>1, <3>1, <3>2, <3>3 DEF Record
  <2> QED BY <2>2, <2>3
<1>11. Idx' = Idx /\ records' \in Seq(Record) /\ Len(records') = Len(records)
  <2>1. Idx = 1 .. Len(records) /\ Len(records) \in Nat
    BY DEF IInv, TypeOK, Idx
  <2>2. records' \in [1 .. Len(records) -> Record]
    <3> HIDE DEF blocks
    <3> QED BY <1>1, <1>10, <2>1
  <2> QED BY <2>1, <2>2 DEF Idx
<1>12. ASSUME NEW i \in Idx PROVE RecordIn(heap', records'[i], text[i])
  <2> PICK r \in Record : r = records'[i]
    BY <1>10
  <2>1. /\ r.len = records[i].len /\ r.enc = records[i].enc /\ r.len \in Nat
        /\ RecordIn(heap, records[i], text[i]) /\ text[i] \in View
    BY <1>3, <1>10 DEF IInv, TypeOK, Idx
  <2>2. CASE r.len = 0
    <3>1. ViewOf(heap', r) = ViewOf(heap, records[i])
      BY <2>1, <2>2 DEF ViewOf
    <3> QED BY <2>1, <2>2, <3>1 DEF RecordIn, InHeap
  <2>3. CASE r.len > 0
    <3>1. /\ e[i].block \in blocks /\ r.at.slice = slice[e[i].block] /\ r.at.off = start(e, i)
          /\ start(e, i) \in Nat /\ e[i].bytes = start(e, i) + r.len
          /\ e[i].bytes <= block_bytes(e, e[i].block) /\ block_bytes(e, e[i].block) \in Nat
      BY <1>3, <1>4, <1>10, <2>1, <2>3
    <3>2. /\ r.at.slice \in Slice /\ heap'[r.at.slice] # Freed
          /\ Len(heap'[r.at.slice]) = block_bytes(e, e[i].block)
          /\ heap'[r.at.slice] = [j \in 1 .. block_bytes(e, e[i].block) |-> Byte_(e[i].block, j)]
      BY <1>8, <3>1
    <3>3. InHeap(heap', r.at, r.len)
      BY <3>1, <3>2 DEF InHeap
    <3>4. ASSUME NEW k \in 1 .. r.len
          PROVE  heap'[r.at.slice][r.at.off + k] = ViewOf(heap, records[i]).bytes[k]
      <4>1. start(e, i) + k \in 1 .. block_bytes(e, e[i].block)
        BY <2>1, <3>1
      <4>2. Byte_(e[i].block, start(e, i) + k) = ViewOf(heap, records[i]).bytes[k]
        BY <1>5, <1>6, <2>1
      <4> QED BY <3>1, <3>2, <4>1, <4>2
    <3>5. ViewOf(heap', r) = ViewOf(heap, records[i])
      <4>1. records[i].enc # "NA" /\ r.enc # "NA" /\ r.len # 0 /\ records[i].len # 0
        BY <2>1, <2>3 DEF RecordIn
      <4>2. \A k \in 1 .. r.len :
              ViewOf(heap, records[i]).bytes[k] = heap[records[i].at.slice][records[i].at.off + k]
        BY <2>1, <4>1 DEF ViewOf, BytesAt
      <4>3. BytesAt(heap', r.at, r.len) = BytesAt(heap, records[i].at, records[i].len)
        BY <2>1, <3>4, <4>2 DEF BytesAt
      <4> QED BY <2>1, <4>1, <4>3 DEF ViewOf
    <3> QED BY <2>1, <2>3, <3>3, <3>5 DEF RecordIn
  <2> QED BY <2>1, <2>2, <2>3
<1>13. ASSUME NEW i \in Idx, NEW j \in Idx, i # j
       PROVE  Apart2(records'[i].at, records'[i].len, records'[j].at, records'[j].len)
  <2> SUFFICES ASSUME records'[i].len > 0, records'[j].len > 0,
                      Overlap(records'[i].at, records'[i].len, records'[j].at, records'[j].len)
               PROVE  FALSE
    BY DEF Apart2
  <2>1. /\ e[i].block \in blocks /\ e[j].block \in blocks
        /\ records'[i].at.slice = slice[e[i].block] /\ records'[j].at.slice = slice[e[j].block]
        /\ records'[i].at.off = start(e, i) /\ records'[j].at.off = start(e, j)
        /\ records'[i].len = records[i].len /\ records'[j].len = records[j].len
    BY <1>10
  <2>2. e[i].block = e[j].block
    <3> HIDE DEF blocks
    <3> QED BY <1>1, <2>1 DEF Overlap
  <2>3. e[i].bytes <= start(e, j) \/ e[j].bytes <= start(e, i)
    BY <1>3, <1>13, <2>2
  <2> QED BY <1>3, <2>1, <2>3 DEF Overlap
<1>14. \A w \in W : RoomIn(heap', writer[w]) /\ writer[w].left = 0
  <2>1. ASSUME NEW w \in W PROVE writer[w] = closed /\ writer[w] \in Cursor
    BY <1>2 DEF IInv, NoneOpen, RoomIn
  <2>2. closed.left = 0
    BY DEF closed
  <2>3. ASSUME NEW w \in W PROVE RoomIn(heap', writer[w]) /\ writer[w].left = 0
    <3>1. writer[w].left = 0 /\ writer[w] = closed /\ writer[w] \in Cursor
      BY <2>1, <2>2
    <3> QED BY <3>1 DEF RoomIn, InHeap
  <2> QED BY <2>3
<1>15. PiecesApart(records', held', writer')
  <2>1. DOMAIN records' = Idx
    BY <1>11 DEF Idx
  <2>2. \A w \in W : \A q, m : /\ Apart2(q, m, writer[w].at, writer[w].left)
                           /\ Apart2(writer[w].at, writer[w].left, q, m)
    BY <1>14 DEF Apart2
  <2> QED BY <1>2, <1>13, <2>1, <2>2 DEF PiecesApart
<1>16. TypeOK'
  BY <1>2, <1>9, <1>11 DEF IInv, TypeOK
<1> QED BY <1>2, <1>11, <1>12, <1>14, <1>15, <1>16 DEF IInv

-----------------------------------------------------------------------------
LEMMA InitInv == Init => IInv
<1> SUFFICES ASSUME Init PROVE IInv
  OBVIOUS
<1>1. PICK n \in Lengths : /\ records = [i \in 1 .. n |-> na_record]
                           /\ text = [i \in 1 .. n |-> NaView]
  BY DEF Init
<1>2. n \in Nat /\ na_record \in Record /\ NaView \in View /\ closed \in Cursor
  BY WriterAssumption DEF na_record, nowhere, Record, Place, NaView, View, closed, Cursor
<1>3. /\ records \in Seq(Record) /\ Len(records) = n /\ text \in Seq(View) /\ Len(text) = n
      /\ Idx = 1 .. n
  BY <1>1, <1>2 DEF Idx
<1>4. TypeOK
  BY <1>2, <1>3 DEF Init, TypeOK, Memory
<1>5. \A i \in Idx : RecordIn(heap, records[i], text[i])
  BY <1>1, <1>2, <1>3 DEF RecordIn, InHeap, ViewOf, na_record
<1>6. \A w \in W : RoomIn(heap, writer[w]) /\ writer[w].left = 0
  BY <1>2 DEF Init, RoomIn, closed, InHeap
<1>7. PiecesApart(records, held, writer)
  <2>1. \A i \in Idx : records[i].len = 0
    BY <1>1, <1>3 DEF na_record
  <2> QED BY <1>6, <2>1 DEF PiecesApart, Apart2, Idx, Init
<1> QED BY <1>4, <1>5, <1>6, <1>7 DEF IInv, Init

LEMMA NextInv == IInv /\ [Next]_vars => IInv'
<1> SUFFICES ASSUME IInv, [Next]_vars PROVE IInv'
  OBVIOUS
<1>1. ASSUME NEW w \in W, Open(w) PROVE IInv'
  BY <1>1, OpenInv
<1>2. ASSUME NEW w \in W, Close(w) PROVE IInv'
  BY <1>2, CloseInv
<1>3. ASSUME NEW w \in W, NEW len \in ReserveLengths, reserve(w, len) PROVE IInv'
  BY <1>3, reserveInv
<1>4. ASSUME NEW w \in W, NEW i \in Idx, NEW p \in held, set(w, i, p) PROVE IInv'
  BY <1>4, setInv
<1>5. ASSUME NEW w \in W, NEW i \in Idx, NEW view \in Input, set_empty(w, i, view) PROVE IInv'
  BY <1>5, set_emptyInv
<1>6. ASSUME NEW w \in W, NEW i \in Idx, NEW view \in Input, copy(w, i, view) PROVE IInv'
  BY <1>6, copyInv
<1>7. ASSUME NEW p \in held, NEW view \in Input, Fill(p, view) PROVE IInv'
  BY <1>7, FillInv
<1>8. ASSUME NEW i \in Idx, NEW view \in Input, store_assign(i, view) PROVE IInv'
  BY <1>8, store_assignInv
<1>9. CASE compact_store
  BY <1>9, compact_storeInv
<1>10. CASE UNCHANGED vars
  BY <1>10 DEF vars, IInv, TypeOK, Idx, RecordIn, HeldIn, RoomIn, InHeap, ViewOf, BytesAt,
               PiecesApart, NoneOpen
<1> QED BY <1>1, <1>2, <1>3, <1>4, <1>5, <1>6, <1>7, <1>8, <1>9, <1>10 DEF Next

LEMMA Invariance == Spec => []IInv
<1>1. Init => IInv
  BY InitInv
<1>2. IInv /\ [Next]_vars => IInv'
  BY NextInv
<1> QED BY <1>1, <1>2, PTL DEF Spec

(* Every variable has its type, whatever Writers and R do.                 *)
THEOREM TypeCorrect == Spec => []TypeOK
<1>1. IInv => TypeOK
  BY DEF IInv
<1> QED BY <1>1, Invariance, PTL

(* The pieces of slices that records point to, that reserve handed out,    *)
(* and that a Writer has left lie in allocated slices, with no byte in     *)
(* common: however many Writers were open at once, and whatever            *)
(* assignments and compactions came between.                               *)
THEOREM PiecesNeverShared == Spec => []PiecesDisjoint
<1>1. ASSUME IInv PROVE PiecesDisjoint
  <2>1. PiecesApart(records, held, writer)
    BY <1>1 DEF IInv
  <2>2. ASSUME NEW u \in Uses
        PROVE  u.len > 0 /\ InHeap(heap, u.at, u.len)
    <3>1. CASE \E i \in Idx : /\ records[i].len > 0
                             /\ u = [by |-> <<"record", i>>, at |-> records[i].at, len |-> records[i].len]
      BY <1>1, <3>1 DEF IInv, RecordIn
    <3>2. CASE \E p \in held : u = [by |-> <<"held", p>>, at |-> p.at, len |-> p.len]
      BY <1>1, <3>2 DEF IInv, HeldIn
    <3>3. CASE \E w \in W : /\ writer[w].left > 0
                           /\ u = [by |-> <<"room", w>>, at |-> writer[w].at, len |-> writer[w].left]
      BY <1>1, <3>3 DEF IInv, RoomIn
    <3> QED BY <3>1, <3>2, <3>3 DEF Uses
  <2>3. ASSUME NEW u \in Uses, NEW v \in Uses, u # v
        PROVE  Apart2(u.at, u.len, v.at, v.len)
    <3> DEFINE R(x, i) == x = [by |-> <<"record", i>>, at |-> records[i].at, len |-> records[i].len]
               H(x, p) == x = [by |-> <<"held", p>>, at |-> p.at, len |-> p.len]
               C(x, w) == x = [by |-> <<"room", w>>, at |-> writer[w].at, len |-> writer[w].left]
    <3>1. /\ (\E i \in Idx : R(u, i)) \/ (\E p \in held : H(u, p)) \/ (\E w \in W : C(u, w))
          /\ (\E i \in Idx : R(v, i)) \/ (\E p \in held : H(v, p)) \/ (\E w \in W : C(v, w))
      BY DEF Uses
    <3>2. ASSUME NEW i \in Idx, NEW j \in Idx, R(u, i), R(v, j) PROVE Apart2(u.at, u.len, v.at, v.len)
      BY <2>1, <2>3, <3>2 DEF PiecesApart, Idx
    <3>3. ASSUME NEW p \in held, NEW q \in held, H(u, p), H(v, q) PROVE Apart2(u.at, u.len, v.at, v.len)
      BY <2>1, <2>3, <3>3 DEF PiecesApart
    <3>4. ASSUME NEW w \in W, NEW x \in W, C(u, w), C(v, x) PROVE Apart2(u.at, u.len, v.at, v.len)
      BY <2>1, <2>3, <3>4 DEF PiecesApart
    <3>5. ASSUME NEW i \in Idx, NEW p \in held
          PROVE  /\ R(u, i) /\ H(v, p) => Apart2(u.at, u.len, v.at, v.len)
                 /\ R(v, i) /\ H(u, p) => Apart2(u.at, u.len, v.at, v.len)
      BY <2>1, ApartSym DEF PiecesApart, Idx
    <3>6. ASSUME NEW i \in Idx, NEW w \in W
          PROVE  /\ R(u, i) /\ C(v, w) => Apart2(u.at, u.len, v.at, v.len)
                 /\ R(v, i) /\ C(u, w) => Apart2(u.at, u.len, v.at, v.len)
      BY <2>1, ApartSym DEF PiecesApart, Idx
    <3>7. ASSUME NEW p \in held, NEW w \in W
          PROVE  /\ H(u, p) /\ C(v, w) => Apart2(u.at, u.len, v.at, v.len)
                 /\ H(v, p) /\ C(u, w) => Apart2(u.at, u.len, v.at, v.len)
      BY <2>1, ApartSym DEF PiecesApart
    <3> HIDE DEF R, H, C
    <3> QED BY <3>1, <3>2, <3>3, <3>4, <3>5, <3>6, <3>7
  <2> QED BY <2>2, <2>3 DEF PiecesDisjoint, InHeap, Apart2
<1> QED BY <1>1, Invariance, PTL

(* A record reads as what it was last set to, at every moment, and NA      *)
(* where nothing was set.                                                  *)
THEOREM RecordsReadBack == Spec => []ReadsBack
<1>1. IInv => ReadsBack
  BY DEF IInv, RecordIn, ReadsBack
<1> QED BY <1>1, Invariance, PTL
-----------------------------------------------------------------------------
(* What a compaction leaves.  No record is longer than a block: what is    *)
(* written is a string of Input.                                           *)
Short ==
  /\ \A i \in Idx : records[i].len <= max_block
  /\ \A p \in held : Len(p.view.bytes) <= max_block

LEMMA NaShort == Len(NaView.bytes) = 0 /\ 0 <= max_block
<1>1. NaView.bytes = << >>
  BY DEF NaView
<1> QED BY <1>1, EmptySeq, WriterAssumption

LEMMA SetShort ==
  ASSUME IInv, Short, NEW i \in Idx, NEW at, NEW view, SetRecord(i, at, view),
         Len(view.bytes) <= max_block
  PROVE  \A j \in Idx' : records'[j].len <= max_block
<1>1. /\ DOMAIN records' = Idx
      /\ \A j \in Idx : records'[j].len = records[j].len \/ records'[j].len = Len(view.bytes)
  BY DEF SetRecord, Idx, IInv, TypeOK
<1>2. Idx' = Idx
  BY <1>1 DEF Idx
<1> QED BY <1>1, <1>2 DEF Short

LEMMA InitShort == Init => Short
<1> SUFFICES ASSUME Init PROVE Short
  OBVIOUS
<1>1. \A i \in Idx : records[i] = na_record
  BY DEF Init, Idx
<1>2. held = {} /\ na_record.len = 0
  BY DEF Init, na_record
<1> QED BY <1>1, <1>2, NaShort DEF Short

LEMMA NextShort == IInv /\ Short /\ [Next]_vars => Short'
<1> SUFFICES ASSUME IInv, Short, [Next]_vars PROVE Short'
  OBVIOUS
<1>0. \A view \in Input : Len(view.bytes) <= max_block
  BY WriterAssumption
<1>1. ASSUME NEW w \in W, Open(w) PROVE Short'
  BY <1>1 DEF Open, Short, Idx
<1>2. ASSUME NEW w \in W, Close(w) PROVE Short'
  BY <1>2 DEF Close, Short, Idx
<1>3. ASSUME NEW w \in W, NEW len \in ReserveLengths, reserve(w, len) PROVE Short'
  <2>1. /\ records' = records
        /\ \A p \in held' : p \in held \/ p.view = NaView
    BY <1>3 DEF reserve
  <2> QED BY <2>1, NaShort DEF Short, Idx
<1>4. ASSUME NEW w \in W, NEW i \in Idx, NEW p \in held, set(w, i, p) PROVE Short'
  <2>1. SetRecord(i, p.at, p.view) /\ held' = held \ {p} /\ Len(p.view.bytes) <= max_block
    BY <1>4 DEF set, Short
  <2>2. \A j \in Idx' : records'[j].len <= max_block
    BY <2>1, SetShort
  <2> QED BY <2>1, <2>2 DEF Short
<1>5. ASSUME NEW w \in W, NEW i \in Idx, NEW view \in Input, set_empty(w, i, view) PROVE Short'
  <2>1. SetRecord(i, nowhere, view) /\ held' = held
    BY <1>5 DEF set_empty
  <2>2. \A j \in Idx' : records'[j].len <= max_block
    BY <1>0, <2>1, SetShort
  <2> QED BY <2>1, <2>2 DEF Short
<1>6. ASSUME NEW w \in W, NEW i \in Idx, NEW view \in Input, copy(w, i, view) PROVE Short'
  <2>1. held' = held /\ \E at : SetRecord(i, at, view)
    BY <1>6 DEF copy
  <2>2. \A j \in Idx' : records'[j].len <= max_block
    BY <1>0, <2>1, SetShort
  <2> QED BY <2>1, <2>2 DEF Short
<1>7. ASSUME NEW p \in held, NEW view \in Input, Fill(p, view) PROVE Short'
  <2>1. p \in Piece /\ records' = records
        /\ held' = (held \ {p}) \cup {[p EXCEPT !.view = view]}
    BY <1>7, TypesOf DEF Fill
  <2>2. [p EXCEPT !.view = view].view = view
    BY <2>1 DEF Piece
  <2> QED BY <1>0, <2>1, <2>2 DEF Short, Idx
<1>8. ASSUME NEW i \in Idx, NEW view \in Input, store_assign(i, view) PROVE Short'
  <2>1. held' = held /\ \E at : SetRecord(i, at, view)
    BY <1>8 DEF store_assign
  <2>2. \A j \in Idx' : records'[j].len <= max_block
    BY <1>0, <2>1, SetShort
  <2> QED BY <2>1, <2>2 DEF Short
<1>9. CASE compact_store
  <2>1. PICK slice : records' = [i \in Idx |->
          IF records[i].len = 0 THEN records[i]
          ELSE [records[i] EXCEPT !.at = [slice |-> slice[ends[i].block], off |-> start(ends, i)]]]
    BY <1>9 DEF compact_store
  <2>2. \A i \in Idx : records[i] \in Record
    BY DEF IInv, RecordIn
  <2>3. \A r \in Record : \A at : [r EXCEPT !.at = at].len = r.len
    BY DEF Record
  <2>4. held' = held /\ DOMAIN records' = Idx
    BY <1>9, <2>1 DEF compact_store
  <2>5. \A i \in Idx : records'[i].len = records[i].len
    BY ONLY <2>1, <2>2, <2>3
  <2> QED BY <2>4, <2>5 DEF Short, Idx
<1>10. CASE UNCHANGED vars
  BY <1>10 DEF vars, Short, Idx
<1> QED BY <1>1, <1>2, <1>3, <1>4, <1>5, <1>6, <1>7, <1>8, <1>9, <1>10 DEF Next

(* Up to the end of any record, the bytes of its block are records'.       *)
LEMMA EndsCovered ==
  ASSUME IInv, NEW k \in Idx, NEW j \in 1 .. ends[k].bytes
  PROVE  \E i \in Idx : ends[i].block = ends[k].block /\ j - start(ends, i) \in 1 .. records[i].len
<1> PICK e : e = ends
  OBVIOUS
<1> PICK n \in Nat : n = Len(records)
  BY DEF IInv, TypeOK
<1>1. Idx = 1 .. n
  BY DEF IInv, TypeOK, Idx
<1>2. /\ \A i \in 0 .. n : e[i].block \in Nat /\ e[i].bytes \in Nat
      /\ \A i \in 1 .. n :
           \/ e[i].block = e[i - 1].block + 1 /\ e[i].bytes = records[i].len
           \/ e[i].block = e[i - 1].block /\ e[i].bytes = e[i - 1].bytes + records[i].len
      /\ e[0].bytes = 0
  BY <1>1, EndsStep
<1>3. \A i \in 1 .. n : /\ start(e, i) \in Nat /\ records[i].len \in Nat /\ e[i].bytes \in Nat
                        /\ e[i].bytes = start(e, i) + records[i].len
  BY <1>1, StartApart
<1> DEFINE Covered(m) ==
             \A b \in 1 .. e[m].bytes :
               \E i \in 1 .. n : e[i].block = e[m].block /\ b - start(e, i) \in 1 .. records[i].len
           Bad == {m \in 1 .. n : ~ Covered(m)}
<1>4. Bad = {}
  <2> SUFFICES ASSUME Bad # {} PROVE FALSE
    OBVIOUS
  <2>1. Bad \subseteq Nat
    OBVIOUS
  <2>2. PICK m \in Bad : \A h \in Bad : m <= h
    <3> HIDE DEF Bad
    <3> QED BY <2>1, Least
  <2>3. m \in 1 .. n
    OBVIOUS
  <2> PICK o \in 0 .. n : o = m - 1
    BY <2>3
  <2>4. o = 0 \/ (o \in 1 .. n /\ Covered(o))
    <3>1. o # 0 => o \in 1 .. n /\ ~ (m <= o)
      BY <2>3
    <3>2. o \in 1 .. n /\ o \notin Bad => Covered(o)
      OBVIOUS
    <3>3. o # 0 => o \notin Bad
      <4> HIDE DEF Bad
      <4> QED BY <2>2, <3>1
    <3> HIDE DEF Covered, Bad
    <3> QED BY <3>1, <3>2, <3>3
  <2>5. ASSUME NEW b \in 1 .. e[m].bytes
        PROVE  \E i \in 1 .. n : e[i].block = e[m].block /\ b - start(e, i) \in 1 .. records[i].len
    <3>1. /\ start(e, m) \in Nat /\ records[m].len \in Nat /\ e[m].bytes \in Nat
          /\ e[m].bytes = start(e, m) + records[m].len /\ b \in Nat /\ b >= 1 /\ b <= e[m].bytes
      BY <1>3, <2>3
    <3>2. CASE b > start(e, m)
      <4>1. b - start(e, m) \in 1 .. records[m].len
        BY ONLY <3>1, <3>2
      <4> QED BY <2>3, <4>1
    <3>3. CASE b <= start(e, m)
      <4>1. e[o].block = e[m].block /\ start(e, m) = e[o].bytes /\ e[o].bytes \in Nat
        <5>1. \/ e[m].block = e[o].block + 1 /\ e[m].bytes = records[m].len
              \/ e[m].block = e[o].block /\ e[m].bytes = e[o].bytes + records[m].len
          BY <1>2, <2>3
        <5>2. e[o].bytes \in Nat
          BY <1>2
        <5> QED BY ONLY <3>1, <3>3, <5>1, <5>2
      <4>2. o # 0 /\ b \in 1 .. e[o].bytes
        BY <1>2, <3>1, <3>3, <4>1
      <4>3. Covered(o)
        <5> HIDE DEF Covered
        <5> QED BY <2>4, <4>2
      <4> QED BY <4>1, <4>2, <4>3
    <3> QED BY <3>1, <3>2, <3>3
  <2>6. Covered(m)
    BY <2>5
  <2>7. ~ Covered(m)
    OBVIOUS
  <2> QED BY ONLY <2>6, <2>7
<1>5. Covered(k)
  <2>1. k \in 1 .. n /\ k \notin Bad
    <3> HIDE DEF Bad
    <3> QED BY <1>1, <1>4
  <2> QED BY <2>1
<1> QED BY <1>1, <1>5

(* A slice after a compaction is one block, whole.                         *)
LEMMA Compacted ==
  ASSUME IInv, compact_store, NEW s \in Slice, heap'[s] # Freed
  PROVE  \E g \in Idx :
           /\ Len(heap'[s]) = ends[g].bytes /\ ends[g].bytes > 0
           /\ \A i \in Idx : records[i].len > 0 /\ ends[i].block = ends[g].block =>
                /\ records'[i].at.slice = s /\ records'[i].at.off = start(ends, i)
                /\ records'[i].len = records[i].len
<1> DEFINE e == ends
           blocks == {e[i].block : i \in {j \in Idx : records[j].len > 0}}
           Has(i, j) == j - start(e, i) \in 1 .. records[i].len
           Byte_(b, j) ==
             IF \E i \in {i \in Idx : e[i].block = b} : Has(i, j)
             THEN LET i == CHOOSE i \in {i \in Idx : e[i].block = b} : Has(i, j)
                  IN  ViewOf(heap, records[i]).bytes[j - start(e, i)]
             ELSE Junk
<1>1. PICK slice \in [blocks -> FreeSlices(heap)] :
        /\ \A b, c \in blocks : slice[b] = slice[c] => b = c
        /\ records' = [i \in Idx |->
             IF records[i].len = 0 THEN records[i]
             ELSE [records[i] EXCEPT !.at = [slice |-> slice[e[i].block], off |-> start(e, i)]]]
        /\ heap' = [t \in Slice |->
             IF \A b \in blocks : slice[b] # t THEN Freed
             ELSE LET b == CHOOSE b \in blocks : slice[b] = t
                  IN  [j \in 1 .. block_bytes(e, b) |-> Byte_(b, j)]]
  BY DEF compact_store
<1> HIDE DEF Byte_, Has
<1>2. PICK b \in blocks : slice[b] = s
  <2> HIDE DEF blocks
  <2> QED BY <1>1
<1>3. DOMAIN heap'[s] = 1 .. block_bytes(e, b)
  <2>1. (CHOOSE c \in blocks : slice[c] = s) = b
    <3> HIDE DEF blocks
    <3> QED BY <1>1, <1>2
  <2>2. heap'[s] = [j \in 1 .. block_bytes(e, b) |-> Byte_(b, j)]
    <3> HIDE DEF blocks
    <3> QED BY <1>1, <1>2, <2>1
  <2> QED BY <2>2
<1>4. block_bytes(e, b) \in Nat /\ Len(heap'[s]) = block_bytes(e, b)
  <2>1. block_bytes(e, b) \in Nat
    BY BlockBytes
  <2>2. heap'[s] \in Seq(Byte \cup {Junk})
    <3>1. IInv'
      BY compact_storeInv
    <3>2. heap' \in Memory
      BY <3>1 DEF IInv, TypeOK
    <3> QED BY <3>2 DEF Memory
  <2>3. \A q \in Seq(Byte \cup {Junk}) : Len(q) \in Nat /\ DOMAIN q = 1 .. Len(q)
    OBVIOUS
  <2>4. \A p \in Nat, q \in Nat : 1 .. p = 1 .. q => p = q
    OBVIOUS
  <2> QED BY ONLY <1>3, <2>1, <2>2, <2>3, <2>4
<1>5. PICK i \in Idx : records[i].len > 0 /\ e[i].block = b
  BY <1>2
<1>6. PICK g \in Idx : e[g].block = b /\ block_bytes(e, b) = e[g].bytes /\ e[g].bytes > 0
  <2>1. /\ e[i].bytes \in Nat /\ records[i].len \in Nat /\ start(e, i) \in Nat
        /\ e[i].bytes = start(e, i) + records[i].len
    BY StartApart
  <2>2. e[i].bytes <= block_bytes(e, b)
    BY <1>5, BlockBytes
  <2>3. block_bytes(e, b) > 0
    BY <1>4, <1>5, <2>1, <2>2
  <2>4. block_bytes(e, b) = 0 \/ \E g \in Idx : e[g].block = b /\ block_bytes(e, b) = e[g].bytes
    BY BlockBytes
  <2> QED BY <2>3, <2>4
<1>7. ASSUME NEW h \in Idx, records[h].len > 0, e[h].block = b
      PROVE  /\ records'[h].at.slice = s /\ records'[h].at.off = start(e, h)
             /\ records'[h].len = records[h].len
  <2>1. PICK r \in Record : r = records[h]
    BY DEF IInv, RecordIn
  <2>2. PICK at : at = [slice |-> s, off |-> start(e, h)]
    OBVIOUS
  <2>3. records'[h] = [r EXCEPT !.at = at]
    <3> HIDE DEF blocks
    <3> QED BY <1>1, <1>2, <1>7, <2>1, <2>2
  <2> QED BY <2>1, <2>2, <2>3 DEF Record
<1> QED BY <1>4, <1>6, <1>7

LEMMA ShortEnds ==
  ASSUME IInv, Short, NEW g \in Idx
  PROVE  ends[g].bytes <= max_block
BY EndsStep DEF Short

(* A compaction leaves no byte that is not a record's, and no slice longer *)
(* than rebuild_store may make one, whatever the strings and their order.  *)
THEOREM CompactionLeavesNothing == Spec => CompactionTight
<1>1. ASSUME IInv, Short, compact_store, NEW s \in Slice, heap'[s] # Freed
      PROVE  /\ Len(heap'[s]) \in 1 .. max_block
             /\ \A j \in 1 .. Len(heap'[s]) : \E i \in Idx :
                  records'[i].at.slice = s /\ j - records'[i].at.off \in 1 .. records'[i].len
  <2>1. PICK g \in Idx :
          /\ Len(heap'[s]) = ends[g].bytes /\ ends[g].bytes > 0
          /\ \A i \in Idx : records[i].len > 0 /\ ends[i].block = ends[g].block =>
               /\ records'[i].at.slice = s /\ records'[i].at.off = start(ends, i)
               /\ records'[i].len = records[i].len
    BY <1>1, Compacted
  <2>2. Len(heap'[s]) \in 1 .. max_block
    <3>1. ends[g].bytes <= max_block
      BY <1>1, ShortEnds
    <3>2. ends[g].bytes \in Nat /\ max_block \in Nat
      BY <1>1, StartApart, WriterAssumption
    <3> QED BY ONLY <2>1, <3>1, <3>2
  <2>3. ASSUME NEW j \in 1 .. Len(heap'[s])
        PROVE  \E i \in Idx :
                 records'[i].at.slice = s /\ j - records'[i].at.off \in 1 .. records'[i].len
    <3>1. PICK i \in Idx :
            ends[i].block = ends[g].block /\ j - start(ends, i) \in 1 .. records[i].len
      BY <1>1, <2>1, EndsCovered
    <3>2. records[i].len \in Nat
      BY <1>1, TypesOf
    <3>3. records[i].len > 0
      BY ONLY <3>1, <3>2
    <3> QED BY <2>1, <3>1, <3>3
  <2> QED BY <2>2, <2>3
<1>2. IInv /\ Short /\ [Next]_vars =>
        [compact_store =>
           \A s \in Slice : heap'[s] # Freed =>
             /\ Len(heap'[s]) \in 1 .. max_block
             /\ \A j \in 1 .. Len(heap'[s]) : \E i \in Idx :
                  records'[i].at.slice = s /\ j - records'[i].at.off \in 1 .. records'[i].len]_vars
  BY <1>1
<1> QED BY <1>2, InitShort, NextShort, InitInv, NextInv, Invariance, PTL DEF Spec, CompactionTight
=============================================================================
