------------------------------ MODULE Charpack ------------------------------
(***************************************************************************)
(* The charpack ALTREP class (src/charpack_altrep.h, charpack_api.cpp):    *)
(* character vectors whose strings live in one raw vector, shared by       *)
(* copies, sent as it is when R serializes them, and dropped when R reads  *)
(* an element.                                                             *)
(*                                                                         *)
(* A session is an R process on a host of one byte order, with a native    *)
(* encoding that may change.  A vector belongs to one session; one         *)
(* serialized vector at a time travels between sessions.  A failed         *)
(* allocation, and a fill or a state that is rejected, change nothing and  *)
(* are stutters.                                                           *)
(***************************************************************************)
EXTENDS PackLayout, Subscripts, Locales

CONSTANTS
  Vec,          \* vectors R may hold
  Session,      \* R processes
  BigEndian,    \* sessions on big-endian hosts
  Raw,          \* raw vectors
  MaxLen,       \* longest vector
  Input,        \* CHARSXPs R assigns
  InputView,    \* strings given to fill_views
  InputRecord,  \* lengths and encodings given to fill_slices
  InputSlices,  \* slices given to fill_slices
  ForceWide,    \* what fills are asked about wide end offsets (tests: TRUE)
  Inputs,       \* subscripts R passes to Extract_subset
  Exports,      \* vectors R serializes
  Faults,       \* what may happen to a state in transit
  NoRaw, Nil,   \* R_NilValue as data1, and as data2 (and no session)
  NoStream,     \* nothing is in transit
  Damaged,      \* what a state that was altered in transit should read as
  NoResult, NewStrings

ASSUME CharpackAssumption ==
  /\ MaxLen \in Nat
  /\ BigEndian \subseteq Session
  /\ Input \subseteq CHARSXP
  /\ InputView \subseteq {view \in View : Len(view.bytes) <= MaxString}
  /\ InputRecord \subseteq {rec \in [len : Int, enc : TagByte] : rec.len <= MaxString}
  /\ InputSlices \subseteq Seq(Str)
  /\ ForceWide \subseteq BOOLEAN
  /\ Inputs \subseteq Subscript
  /\ Exports \subseteq Vec
  /\ Faults \subseteq {"cut", "lengthened", "end", "tag"}
  /\ NoRaw \notin Raw /\ Nil \notin Session
  /\ \A n \in 0 .. MaxLen : Nil \notin [0 .. n-1 -> CHARSXP]

VARIABLES
  home,      \* the session a vector belongs to, or Nil
  cls,       \* no vector, a charpack, or an ordinary character vector
  data1,     \* the raw vector of a filled charpack
  data2,     \* the strings of a materialized charpack or an ordinary vector
  raw,       \* contents of every raw vector
  native,    \* the native encoding of every session
  stream,    \* the serialized vector in transit
  seen,      \* history: placeholders R has asked something about
  ret        \* history: what the last operation was asked, and returned

vars == <<home, cls, data1, data2, raw, native, stream, seen, ret>>

HostOrder(s) == IF s \in BigEndian THEN "big" ELSE "little"
native_is_utf8(s) == native[s] = "utf8"

IsPack(v)      == cls[v] = "charpack"
Unfilled(v)    == IsPack(v) /\ data1[v] = NoRaw /\ data2[v] = Nil
Filled(v)      == data1[v] # NoRaw
FreeRaw        == Raw \ {data1[v] : v \in Vec}

(* The contents of a raw vector nobody refers to.                          *)
Blank == alloc_data1("little", 0, [i \in {} |-> NaView], FALSE, << >>)

(***************************************************************************)
(* The strings of a vector, as Materialize makes them.                     *)
(***************************************************************************)
packed_strings(r) == [i \in 0 .. r.n-1 |-> make_charsxp(record_view(r, i))]

strings(v) ==
  IF data2[v] # Nil THEN data2[v]
  ELSE IF Filled(v) THEN packed_strings(raw[data1[v]])
  ELSE [i \in {} |-> NA_STRING]

Texts(v) == [i \in DOMAIN strings(v) |-> Text(strings(v)[i], native[home[v]])]

(***************************************************************************)
(* Placeholders and fills.                                                 *)
(***************************************************************************)
NewPlain(w, s) ==
  /\ cls'   = [cls EXCEPT ![w] = "plain"]
  /\ data2' = [data2 EXCEPT ![w] = s]
  /\ UNCHANGED <<data1, raw>>

NewPack(w, r, contents) ==
  /\ cls'   = [cls EXCEPT ![w] = "charpack"]
  /\ data1' = [data1 EXCEPT ![w] = r]
  /\ raw'   = [raw EXCEPT ![r] = contents]
  /\ UNCHANGED data2

Placeholder(w) ==
  /\ cls[w] = "none"
  /\ cls' = [cls EXCEPT ![w] = "charpack"]
  /\ \E s \in Session : home' = [home EXCEPT ![w] = s]
  /\ ret' = NoResult
  /\ UNCHANGED <<data1, data2, raw, native, stream, seen>>

(* The end of both fills.                                                  *)
Fill(v, n, recs, bytes) ==
  /\ records_valid(recs)
  /\ \E r \in FreeRaw : \E force_wide \in ForceWide :
       LET wide == force_wide \/ needs_wide(payload_of(recs)) IN
       /\ total_bytes(n, payload_of(recs), wide) # 0
       /\ NewPack(v, r, alloc_data1(HostOrder(home[v]), n, recs, wide, bytes))
  /\ ret' = NewStrings
  /\ seen' = seen \ {v}
  /\ UNCHANGED <<home, native, stream>>

fill_views(v) ==
  /\ Unfilled(v)
  /\ \E n \in 0 .. MaxLen : \E vw \in [0 .. n-1 -> InputView] :
       Fill(v, n, [i \in 0 .. n-1 |-> record_of(vw[i])], joined(n, vw))

(* Mutated: slices that are too short are accepted.                        *)
slices_fitShort(recs, slices) == Len(FlattenSeq(slices)) <= payload_of(recs)

slices_fit(recs, slices) == Len(FlattenSeq(slices)) = payload_of(recs)

fill_slices(v) ==
  /\ Unfilled(v)
  /\ \E n \in 0 .. MaxLen : \E recs \in [0 .. n-1 -> InputRecord] :
     \E slices \in InputSlices :
       /\ records_valid(recs) /\ slices_fit(recs, slices)
       /\ Fill(v, n, recs, FlattenSeq(slices))

fill_materialized_na(v) ==
  /\ Unfilled(v)
  /\ \E n \in 0 .. MaxLen :
       data2' = [data2 EXCEPT ![v] = [i \in 0 .. n-1 |-> NA_STRING]]
  /\ ret' = NewStrings
  /\ seen' = seen \ {v}
  /\ UNCHANGED <<home, cls, data1, raw, native, stream>>

(***************************************************************************)
(* Reads and assignments.  Every element access from R materializes; a     *)
(* Reader reads data1 in place.                                            *)
(***************************************************************************)
(* Mutated: the raw vector goes although another vector shares it.         *)
DropData1Shared(v) ==
  /\ data1' = [data1 EXCEPT ![v] = NoRaw]
  /\ raw' = IF Filled(v) THEN [raw EXCEPT ![data1[v]] = Blank] ELSE raw

(* v lets go of data1, which R reclaims unless another vector shares it.   *)
DropData1(v) ==
  /\ data1' = [data1 EXCEPT ![v] = NoRaw]
  /\ raw' = IF Filled(v) /\ \A u \in Vec \ {v} : data1[u] # data1[v]
            THEN [raw EXCEPT ![data1[v]] = Blank] ELSE raw

(* Mutated: data1 stays installed.                                         *)
MaterializeKeepsData1(v, s) ==
  /\ data2' = [data2 EXCEPT ![v] = s]
  /\ UNCHANGED <<home, data1, cls, raw, native, stream, seen>>

Materialize(v, s) ==
  /\ data2' = [data2 EXCEPT ![v] = s]
  /\ DropData1(v)
  /\ seen' = seen \ {v}
  /\ UNCHANGED <<home, cls, native, stream>>

Dataptr(v) ==
  /\ cls[v] # "none"
  /\ Materialize(v, strings(v))
  /\ ret' = IF Unfilled(v) THEN NewStrings ELSE NoResult

Elt(v, i) ==
  /\ Materialize(v, strings(v))
  /\ ret' = <<"read", v, i, strings(v)[i]>>

Set_elt(v, i, x) ==
  /\ Materialize(v, [strings(v) EXCEPT ![i] = x])
  /\ ret' = <<"assign", v, i, x>>

reader_strview(v, i) ==
  /\ Filled(v)
  /\ ret' = <<"read", v, i, make_charsxp(record_view(raw[data1[v]], i))>>
  /\ UNCHANGED <<home, cls, data1, data2, raw, native, stream, seen>>

(* Asked of a placeholder, these answer for an empty vector and leave it   *)
(* unfilled.                                                               *)
Seen(v) == seen' = IF Unfilled(v) THEN seen \cup {v} ELSE seen
Answer(v, made) == ret' = IF Unfilled(v) THEN NewStrings ELSE made

No_NA(v) ==
  /\ IsPack(v)
  /\ Seen(v)
  /\ ret' = NoResult
  /\ UNCHANGED <<home, cls, data1, data2, raw, native, stream>>

(***************************************************************************)
(* Copies.                                                                 *)
(***************************************************************************)
Duplicate(v, w) ==
  /\ cls[v] # "none" /\ cls[w] = "none"
  /\ home' = [home EXCEPT ![w] = home[v]]
  /\ IF Filled(v)
     THEN /\ cls' = [cls EXCEPT ![w] = "charpack"]
          /\ data1' = [data1 EXCEPT ![w] = data1[v]]
          /\ UNCHANGED <<data2, raw>>
     ELSE NewPlain(w, strings(v))
  /\ Answer(v, <<"copy", v, w>>)
  /\ Seen(v)
  /\ UNCHANGED <<native, stream>>

(* Mutated: a real subscript is compared with n before it is truncated.    *)
selectedUntruncated(s, n) ==
  CASE s \in IntSubscript  -> IF s.value < 1 \/ s.value > n THEN n ELSE s.value - 1
    [] s \in RealSubscript ->
         IF s.twice >= 2 /\ s.twice <= 2 * n THEN (s.twice \div 2) - 1 ELSE n
    [] OTHER -> n

(* The record a subscript selects, or n for a missing string.              *)
selected(s, n) ==
  CASE s \in IntSubscript  -> IF s.value < 1 \/ s.value > n THEN n ELSE s.value - 1
    [] s \in RealSubscript ->
         IF s.twice >= 2 /\ s.twice < 2 * n + 2 THEN (s.twice \div 2) - 1 ELSE n
    [] OTHER -> n

SubsetViews(r, m, s) ==
  [j \in 0 .. m-1 |-> IF selected(s[j], r.n) = r.n THEN NaView
                      ELSE record_view(r, selected(s[j], r.n))]

(* R's own subsetting, when the method returns NULL.                       *)
DefaultSubset(v, m, s) ==
  [j \in 0 .. m-1 |-> IF RSubscript(s[j]) - 1 \in DOMAIN strings(v)
                      THEN strings(v)[RSubscript(s[j]) - 1] ELSE NA_STRING]

Extract_subset(v, w) ==
  /\ cls[v] # "none" /\ cls[w] = "none"
  /\ home' = [home EXCEPT ![w] = home[v]]
  /\ \E m \in 0 .. MaxLen : \E s \in [0 .. m-1 -> Inputs] :
       /\ IF Filled(v)
          THEN \E r \in FreeRaw :
                 LET vw   == SubsetViews(raw[data1[v]], m, s)
                     recs == [j \in 0 .. m-1 |-> record_of(vw[j])]
                     wide == needs_wide(payload_of(recs))
                 IN  /\ total_bytes(m, payload_of(recs), wide) # 0
                     /\ NewPack(w, r, alloc_data1(HostOrder(home[v]), m, recs, wide, joined(m, vw)))
          ELSE NewPlain(w, DefaultSubset(v, m, s))
       /\ Answer(v, <<"subset", v, w, s>>)
  /\ Seen(v)
  /\ UNCHANGED <<native, stream>>

(***************************************************************************)
(* Serialization.  A packed state is little-endian, and what its records   *)
(* tag as native is UTF-8.                                                 *)
(***************************************************************************)
(* Mutated: the native encoding of the session is not looked at.           *)
sends_packedAnyLocale(v) == Filled(v)

sends_packed(v) == Filled(v) /\ ~ (has_native(raw[data1[v]]) /\ ~ native_is_utf8(home[v]))

packed_state(v) ==
  LET r == raw[data1[v]] IN IF HostOrder(home[v]) = "little" THEN r ELSE swap_words(r)

(* Mutated: native tags become UTF-8 in data1 itself, for the stream.      *)
Serialized_stateInPlace(v) ==
  /\ cls[v] # "none"
  /\ stream' =
       [packed |-> sends_packed(v),
        state  |-> IF sends_packed(v) THEN packed_state(v) ELSE strings(v),
        native |-> native[home[v]],
        texts  |-> Texts(v)]
  /\ raw' = IF sends_packed(v) THEN [raw EXCEPT ![data1[v]] = retag_native(@)] ELSE raw
  /\ ret' = NoResult
  /\ Seen(v)
  /\ UNCHANGED <<home, cls, data1, data2, native>>

(* texts and native are history: what was written, and under which native  *)
(* encoding R wrote its own strings.                                       *)
Serialized_state(v) ==
  /\ cls[v] # "none"
  /\ stream' =
       [packed |-> sends_packed(v),
        state  |-> IF sends_packed(v) THEN packed_state(v) ELSE strings(v),
        native |-> native[home[v]],
        texts  |-> Texts(v)]
  /\ ret' = NoResult
  /\ Seen(v)
  /\ UNCHANGED <<home, cls, data1, data2, raw, native>>

(* A state altered in transit: cut short, lengthened, or with one end      *)
(* offset or one tag replaced.                                             *)
Alterations(r) ==
  LET Cut == {[r EXCEPT !.bytes = SubSeq(@, 1, Len(@) - 1)],
              [r EXCEPT !.ends = Restrict(@, 0 .. r.n-2), !.tags = Restrict(@, 0 .. r.n-2),
                        !.bytes = << >>]}
      Lengthened == {[r EXCEPT !.bytes = Append(@, b)] : b \in Byte}
      End == {[r EXCEPT !.ends[i] = e] : i \in DOMAIN r.ends, e \in 0 .. Len(r.bytes) + 1}
      TagOf == {[r EXCEPT !.tags[i] = t] : i \in DOMAIN r.tags, t \in {"NA", "other"}}
  IN  {alt \in Cut : "cut" \in Faults} \cup {alt \in Lengthened : "lengthened" \in Faults} \cup
      {alt \in End : "end" \in Faults} \cup {alt \in TagOf : "tag" \in Faults}

Alter ==
  /\ stream # NoStream /\ stream.packed /\ stream.texts # Damaged
  /\ \E r \in Alterations(stream.state) :
       stream' = [stream EXCEPT !.state = r, !.texts = Damaged]
  /\ ret' = NoResult
  /\ UNCHANGED <<home, cls, data1, data2, raw, native, seen>>

(* Mutated: native tags are kept whatever the session's native encoding.   *)
adoptedAsIs(state, s) == IF HostOrder(s) = "big" THEN swap_words(state) ELSE state

(* The state that becomes data1, converted and retagged in place.          *)
adopted(state, s) ==
  LET r == IF HostOrder(s) = "big" THEN swap_words(state) ELSE state
  IN  IF has_native(r) /\ ~ native_is_utf8(s) THEN retag_native(r) ELSE r

Unserialize(w) ==
  /\ stream # NoStream /\ cls[w] = "none"
  /\ \E s \in Session :
       /\ home' = [home EXCEPT ![w] = s]
       /\ IF stream.packed
          THEN /\ state_valid(stream.state, "little")
               /\ \E r \in FreeRaw : NewPack(w, r, adopted(stream.state, s))
          ELSE NewPlain(w, [i \in DOMAIN stream.state |->
                              ReadString(stream.state[i], stream.native, native[s])])
  /\ ret' = NewStrings
  /\ UNCHANGED <<native, stream, seen>>

(***************************************************************************)
(* R: a change of locale, and the garbage collector.                       *)
(***************************************************************************)
SetLocale(s) ==
  /\ \E charset \in Charset \ {native[s]} : native' = [native EXCEPT ![s] = charset]
  /\ ret' = NoResult
  /\ UNCHANGED <<home, cls, data1, data2, raw, stream, seen>>

Collect(v) ==
  /\ cls[v] # "none"
  /\ cls'   = [cls EXCEPT ![v] = "none"]
  /\ home'  = [home EXCEPT ![v] = Nil]
  /\ DropData1(v)
  /\ data2' = [data2 EXCEPT ![v] = Nil]
  /\ seen'  = seen \ {v}
  /\ ret' = IF Unfilled(v) THEN NoResult ELSE <<"drop", v>>
  /\ UNCHANGED <<native, stream>>

-----------------------------------------------------------------------------
Init ==
  /\ cls    = [v \in Vec |-> "none"]
  /\ home   = [v \in Vec |-> Nil]
  /\ data1  = [v \in Vec |-> NoRaw]
  /\ data2  = [v \in Vec |-> Nil]
  /\ raw    = [r \in Raw |-> Blank]
  /\ native \in [Session -> Charset]
  /\ stream = NoStream
  /\ seen   = {}
  /\ ret    = NoResult

Next ==
  \/ \E v \in Vec :
       \/ Placeholder(v) \/ fill_views(v) \/ fill_slices(v) \/ fill_materialized_na(v)
       \/ Dataptr(v) \/ No_NA(v) \/ Unserialize(v) \/ Collect(v)
  \/ \E v \in Exports : Serialized_state(v)
  \/ \E v \in Vec : \E i \in DOMAIN strings(v) : Elt(v, i) \/ reader_strview(v, i)
  \/ \E v \in Vec : \E i \in DOMAIN strings(v) : \E x \in Input : Set_elt(v, i, x)
  \/ \E v, w \in Vec : Duplicate(v, w) \/ Extract_subset(v, w)
  \/ \E s \in Session : SetLocale(s)
  \/ Alter

Spec == Init /\ [][Next]_vars

-----------------------------------------------------------------------------
(* Every variable has its type, and a charpack holds at most one of data1  *)
(* and data2 (the states "unfilled", "filled" and "materialized").         *)
TypeOK ==
  /\ cls    \in [Vec -> {"none", "charpack", "plain"}]
  /\ data1  \in [Vec -> Raw \cup {NoRaw}]
  /\ home   \in [Vec -> Session \cup {Nil}]
  /\ DOMAIN data2 = Vec /\ DOMAIN raw = Raw
  /\ \A v \in Vec : data2[v] = Nil \/ \E n \in 0 .. MaxLen : data2[v] \in [0 .. n-1 -> CHARSXP]
  /\ native \in [Session -> Charset]
  /\ seen   \subseteq Vec
  /\ \A v \in Vec : data1[v] # NoRaw => IsPack(v) /\ data2[v] = Nil
  /\ \A v \in Vec : IF cls[v] = "none" THEN data2[v] = Nil /\ home[v] = Nil
                    ELSE home[v] \in Session

(* Every installed raw vector can be read in place with no check: its      *)
(* words are in the host's order, its end offsets ascend and end with the  *)
(* payload, no string is too long, missing ones are empty, and R could     *)
(* allocate it.  Fills, subsets and accepted states all establish this.    *)
well_laid(r, order) ==
  /\ r.order = order
  /\ DOMAIN r.ends = 0 .. r.n-1 /\ DOMAIN r.tags = 0 .. r.n-1
  /\ r.n <= MaxLen /\ raw_bytes(r) <= MaxRaw
  /\ \A i \in 0 .. r.n-1 :
       /\ begin_at(r, i) <= r.ends[i] /\ len_at(r, i) <= MaxString
       /\ r.tags[i] \in Tag \cup {"NA"}
       /\ r.tags[i] = "NA" => len_at(r, i) = 0
  /\ Len(r.bytes) = IF r.n = 0 THEN 0 ELSE r.ends[r.n-1]
  /\ ~ r.wide => Len(r.bytes) < NarrowMod

LayoutOK == \A v \in Vec : Filled(v) => well_laid(raw[data1[v]], HostOrder(home[v]))

(* "data1 is the RAWSXP, immutable once installed": while a vector is      *)
(* filled its raw vector neither changes nor is replaced, so copies may    *)
(* share it and a Reader may point into it.                                *)
DataImmutable ==
  [][\A v \in Vec : Filled(v) /\ Filled(v)' =>
       data1'[v] = data1[v] /\ raw'[data1[v]] = raw[data1[v]]]_vars

(* A record whose encoding says ASCII and whose bytes are not: R makes a   *)
(* native string of it, and nothing remembers that it depends on a locale. *)
falsely_ascii(r, i) == r.tags[i] = "ASCII" /\ ~ IsAscii(record_view(r, i).bytes)

(* An undamaged vector says the same text where it is read as where it was *)
(* written, whatever the byte orders and native encodings of the two       *)
(* sessions, and whichever of the two forms it was sent in; but for packed *)
(* records that are falsely tagged ASCII, if those encodings differ.       *)
TextSurvivesTransit ==
  [][\A w \in Vec : Unserialize(w) /\ stream.texts # Damaged =>
       /\ DOMAIN Texts(w)' = DOMAIN stream.texts
       /\ \A i \in DOMAIN stream.texts :
            (stream.packed /\ falsely_ascii(stream.state, i) => stream.native = native[home'[w]])
              => Texts(w)'[i] = stream.texts[i]]_vars

(* charpack.h: "a read before the fill makes the fill fail".               *)
ReadMakesFillFail ==
  [][\A v \in seen : ~ fill_views(v) /\ ~ fill_slices(v) /\ ~ fill_materialized_na(v)]_vars

(* A charpack is a character vector from its fill on: through copies that  *)
(* share data1, subsets, materialization and transit, every vector keeps   *)
(* its own strings, and a read returns the current one.                    *)
Value(v) == IF cls[v] = "none" \/ Unfilled(v) THEN Nil ELSE strings(v)

Abstract == INSTANCE StringVector WITH
              Absent <- Nil, val <- [v \in Vec |-> Value(v)], out <- ret

RefinesStringVector == Abstract!Spec
=============================================================================
