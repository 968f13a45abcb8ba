------------------------------- MODULE Writer -------------------------------
(***************************************************************************)
(* What changes a charvec's Store in place: Writers on the pointer from    *)
(* get_store (inst/include/charport/charvec/writer.h), assignment and      *)
(* compaction (store_reserve and rebuild_store in src/charvec_altrep.h).   *)
(* Module Charvec takes the pieces of slices that records point to as      *)
(* disjoint; this module shows that they are.                              *)
(*                                                                         *)
(* One vector, fresh from alloc_na or a Builder that set nothing, so that  *)
(* every allocated slice is its Store's.  Indices are from 1.  A Writer    *)
(* may go at any time, an error or a longjmp past it being the case of     *)
(* interest; an exception of its own, for an index, a length or memory,    *)
(* changes nothing.                                                        *)
(***************************************************************************)
EXTENDS Slices

CONSTANTS
  W,                \* Writers that may be open at once
  Lengths,          \* of the vector: a bound of a run
  Input,            \* what is written and assigned
  ReserveLengths,   \* passed to reserve
  MaxHeld,          \* bound of a run: reservations not yet set
  max_block         \* bytes in one slice of a compacted Store

ASSUME WriterAssumption ==
  /\ Lengths \subseteq Nat /\ Input \subseteq View /\ ReserveLengths \subseteq Nat \ {0}
  /\ MaxHeld \in Nat /\ max_block \in Nat
  /\ \A view \in Input : Len(view.bytes) <= max_block

VARIABLES
  heap,      \* the bytes of every slice
  records,   \* the Store's record table
  writer,    \* every Writer
  held,      \* what reserve returned and set has not been given
  text       \* history: what every record was last set to

vars == <<heap, records, writer, held, text>>

Idx == DOMAIN records

Cursor == [open : BOOLEAN, at : Place, left : Nat, used : Nat]
Piece  == [at : Place, len : Nat, view : View]    \* NaView: not filled

closed == [open |-> FALSE, at |-> nowhere, left |-> 0, used |-> 0]
NoneOpen == \A w \in W : ~ writer[w].open

SetRecord(i, at, view) ==
  /\ records' = [records EXCEPT ![i] =
       [at |-> IF view.bytes = << >> THEN nowhere ELSE at,
        len |-> Len(view.bytes), enc |-> view.enc]]
  /\ text' = [text EXCEPT ![i] = view]

(***************************************************************************)
(* Writer.                                                                 *)
(***************************************************************************)
(* Mutated: a copy of a Writer, with its cursor.                           *)
OpenCopies(w) ==
  /\ ~ writer[w].open
  /\ \E v \in W : writer' = [writer EXCEPT ![w] = [writer[v] EXCEPT !.open = TRUE]]
  /\ UNCHANGED <<heap, records, held, text>>

Open(w) ==
  /\ ~ writer[w].open
  /\ writer' = [writer EXCEPT ![w] = [closed EXCEPT !.open = TRUE]]
  /\ UNCHANGED <<heap, records, held, text>>

Close(w) ==
  /\ writer[w].open
  /\ writer' = [writer EXCEPT ![w] = closed]
  /\ held' = IF \A v \in W \ {w} : ~ writer[v].open THEN {} ELSE held
  /\ UNCHANGED <<heap, records, text>>

(* Mutated: one byte more than is left.                                    *)
fitsOneMore(cursor, len) == len <= cursor.left + 1

fits(cursor, len) == len <= cursor.left

(* The cursor and the heap with room for len bytes: in the slice the       *)
(* Writer is at, or a new one.                                             *)
Rooms(cursor, len) ==
  IF fits(cursor, len) THEN {[cursor |-> cursor, heap |-> heap]}
  ELSE LET size == slice_bytes(initial_slice_heuristic(Len(records)), cursor.used, len) IN
       {[cursor |-> [cursor EXCEPT !.at = [slice |-> s, off |-> 0], !.left = size],
         heap   |-> Allocated(heap, s, size)] : s \in FreeSlices(heap)}

(* The total only matters until half of it reaches max_slice_bytes.        *)
advanced(cursor, len) ==
  [cursor EXCEPT !.at.off = @ + len, !.left = @ - len,
                 !.used = Min2(@ + len, 2 * max_slice_bytes)]

reserve(w, len) ==
  /\ writer[w].open /\ Cardinality(held) < MaxHeld
  /\ \E room \in Rooms(writer[w], len) :
       /\ writer' = [writer EXCEPT ![w] = advanced(room.cursor, len)]
       /\ heap'   = room.heap
       /\ held'   = held \cup {[at |-> room.cursor.at, len |-> len, view |-> NaView]}
  /\ UNCHANGED <<records, text>>

(* The caller writes the bytes, at any time before it gives them to set.   *)
Fill(p, view) ==
  /\ p.view = NaView /\ Len(view.bytes) \in 1 .. p.len
  /\ heap' = Written(heap, p.at, view.bytes)
  /\ held' = (held \ {p}) \cup {[p EXCEPT !.view = view]}
  /\ UNCHANGED <<records, writer, text>>

(* Bytes are set once; any Writer will do.                                 *)
set(w, i, p) ==
  /\ writer[w].open /\ p.view # NaView
  /\ SetRecord(i, p.at, p.view)
  /\ held' = held \ {p}
  /\ UNCHANGED <<heap, writer>>

(* set_na, set_empty, and set or copy with nothing to write.               *)
set_empty(w, i, view) ==
  /\ writer[w].open /\ view.bytes = << >>
  /\ SetRecord(i, nowhere, view)
  /\ UNCHANGED <<heap, writer, held>>

copy(w, i, view) ==
  /\ writer[w].open /\ view.bytes # << >>
  /\ \E room \in Rooms(writer[w], Len(view.bytes)) :
       /\ writer' = [writer EXCEPT ![w] = advanced(room.cursor, Len(view.bytes))]
       /\ heap'   = Written(room.heap, room.cursor.at, view.bytes)
       /\ SetRecord(i, room.cursor.at, view)
  /\ UNCHANGED held

(***************************************************************************)
(* R, which leaves a vector alone that is being written.                   *)
(***************************************************************************)
InPlace(r, len) == r.enc # "NA" /\ len <= r.len

(* store_assign: the bytes of the record that is there, or a slice of the  *)
(* length needed.                                                          *)
store_assign(i, view) ==
  /\ NoneOpen
  /\ \/ /\ view.bytes = << >>
        /\ SetRecord(i, nowhere, view)
        /\ UNCHANGED heap
     \/ /\ view.bytes # << >> /\ InPlace(records[i], Len(view.bytes))
        /\ SetRecord(i, records[i].at, view)
        /\ heap' = Written(heap, records[i].at, view.bytes)
     \/ /\ view.bytes # << >> /\ ~ InPlace(records[i], Len(view.bytes))
        /\ \E s \in FreeSlices(heap) :
             LET at == [slice |-> s, off |-> 0] IN
             /\ SetRecord(i, at, view)
             /\ heap' = Written(Allocated(heap, s, Len(view.bytes)), at, view.bytes)
  /\ UNCHANGED <<writer, held>>

(* Mutated: one byte more is let into a block.                             *)
overflowsLate(bytes, len) == len > max_block - bytes + 1

overflows(bytes, len) == len > max_block - bytes

(* Where rebuild_store is after k records: a block that cannot take the    *)
(* next one whole ends.                                                    *)
ends == LET after[k \in 0 .. Len(records)] ==
              IF k = 0 THEN [block |-> 1, bytes |-> 0]
              ELSE LET len == records[k].len
                       was == after[k - 1]
                   IN  IF overflows(was.bytes, len)
                       THEN [block |-> was.block + 1, bytes |-> len]
                       ELSE [was EXCEPT !.bytes = @ + len]
        IN  after

(* Mutated: offsets do not start again in a new block.                     *)
startFromFirst(end, i) ==
  LET total[k \in 0 .. Len(records)] == IF k = 0 THEN 0 ELSE total[k - 1] + records[k].len
  IN  total[i - 1]

start(end, i) == end[i].bytes - records[i].len

block_bytes(end, b) == Max({0} \cup {end[i].bytes : i \in {j \in Idx : end[j].block = b}})

(* compact_store: every payload moves to new slices, one for each block    *)
(* that has any bytes, and the old ones are freed.                         *)
compact_store ==
  /\ NoneOpen
  /\ LET end    == ends
         blocks == {end[i].block : i \in {j \in Idx : records[j].len > 0}}
         In(i)  == end[i].block
     IN  \E slice \in [blocks -> FreeSlices(heap)] :
           /\ \A b, c \in blocks : slice[b] = slice[c] => b = c
           /\ records' = [i \in Idx |->
                IF records[i].len = 0 THEN records[i]
                ELSE [records[i] EXCEPT !.at = [slice |-> slice[In(i)], off |-> start(end, i)]]]
           /\ heap' = [s \in Slice |->
                IF \A b \in blocks : slice[b] # s THEN Freed
                ELSE LET b  == CHOOSE b \in blocks : slice[b] = s
                         In_b == {i \in Idx : In(i) = b}
                         Has(i, j) == j - start(end, i) \in 1 .. records[i].len
                     IN  [j \in 1 .. block_bytes(end, b) |->
                            IF \E i \in In_b : Has(i, j)
                            THEN LET i == CHOOSE i \in In_b : Has(i, j)
                                 IN  ViewOf(heap, records[i]).bytes[j - start(end, i)]
                            ELSE Junk]]
  /\ UNCHANGED <<writer, held, text>>

-----------------------------------------------------------------------------
Init ==
  /\ heap = [s \in Slice |-> Freed]
  /\ \E n \in Lengths : /\ records = [i \in 1 .. n |-> na_record]
                        /\ text = [i \in 1 .. n |-> NaView]
  /\ writer = [w \in W |-> closed]
  /\ held = {}

Next ==
  \/ \E w \in W :
       \/ Open(w) \/ Close(w)
       \/ \E len \in ReserveLengths : reserve(w, len)
       \/ \E i \in Idx : \/ \E p \in held : set(w, i, p)
                         \/ \E view \in Input : set_empty(w, i, view) \/ copy(w, i, view)
  \/ \E p \in held, view \in Input : Fill(p, view)
  \/ \E i \in Idx, view \in Input : store_assign(i, view)
  \/ compact_store

Spec == Init /\ [][Next]_vars

-----------------------------------------------------------------------------
(* Every variable has its type, and the table keeps its length.            *)
TypeOK ==
  /\ heap \in Memory
  /\ records \in Seq(Record)
  /\ writer \in [W -> Cursor]
  /\ held \subseteq Piece
  /\ text \in Seq(View) /\ Len(text) = Len(records)

(* The bytes in use: a record's, those handed out, and a Writer's room.    *)
Uses ==
  {[by |-> <<"record", i>>, at |-> records[i].at, len |-> records[i].len] :
     i \in {j \in Idx : records[j].len > 0}}
  \cup {[by |-> <<"held", p>>, at |-> p.at, len |-> p.len] : p \in held}
  \cup {[by |-> <<"room", w>>, at |-> writer[w].at, len |-> writer[w].left] :
          w \in {v \in W : writer[v].left > 0}}

(* What is in use lies in a slice of the Store, and no byte is in use      *)
(* twice, whatever Writers, assignments and compactions came before, and   *)
(* wherever a Writer stopped.                                              *)
PiecesDisjoint ==
  \A u \in Uses :
    /\ u.at.slice \in Slice /\ heap[u.at.slice] # Freed
    /\ u.at.off + u.len <= Len(heap[u.at.slice])
    /\ \A v \in Uses : u # v => ~ Overlap(u.at, u.len, v.at, v.len)

(* Every record reads as what it was last set to, at every moment: a       *)
(* vector that an error left half written is valid, and NA where nothing   *)
(* was set.                                                                *)
ReadsBack == \A i \in Idx : ViewOf(heap, records[i]) = text[i]

(* Compaction leaves nothing over: every byte of every slice is some       *)
(* record's, whatever reservations, cursors and longer strings had wasted, *)
(* and no slice is longer than rebuild_store may make one.                 *)
CompactionTight ==
  [][compact_store =>
       \A s \in Slice : heap'[s] # Freed =>
         /\ Len(heap'[s]) \in 1 .. max_block
         /\ \A j \in 1 .. Len(heap'[s]) : \E i \in Idx :
              records'[i].at.slice = s /\ j - records'[i].at.off \in 1 .. records'[i].len]_vars
=============================================================================
