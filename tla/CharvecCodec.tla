---------------------------- MODULE CharvecCodec ----------------------------
(***************************************************************************)
(* Serialization of charvecs (the charvec_serialized_ functions of         *)
(* src/charvec_altrep.h, Serialized_state and Unserialize): a packed state *)
(*                                                                         *)
(*     "CPV2" [flag] [n] [n sizes] [n encodings] [bytes]                   *)
(*                                                                         *)
(* or, when the records cannot be read in another locale, R's strings.     *)
(*                                                                         *)
(* A session is an R process on a host of one byte order, with a native    *)
(* encoding that may change.  One serialized vector at a time travels from *)
(* session to session, is read any number of times, and may be altered on  *)
(* its way.  A state that is rejected changes nothing and is a stutter.    *)
(***************************************************************************)
EXTENDS Locales, SequencesExt, Integers

CONSTANTS
  Vec,        \* vectors R may hold
  Session,    \* R processes
  BigEndian,  \* sessions on big-endian hosts
  MaxLen,     \* longest vector
  MaxRaw,     \* the largest R_xlen_t, and longest raw vector
  MaxString,  \* the longest string R can hold
  InputView,  \* strings vectors are made of
  Older,      \* magics of the states other versions of charport write
  Faults,     \* what may happen to a state in transit
  Junk,       \* a byte outside the state
  Absent,     \* no vector, and no session
  NoStream,   \* nothing is in transit
  Damaged     \* what a state that was altered in transit should read as

ASSUME CodecAssumption ==
  /\ MaxLen \in Nat /\ MaxRaw \in Nat /\ MaxString \in Nat
  /\ BigEndian \subseteq Session
  /\ InputView \subseteq View
  /\ \A view \in InputView : Len(view.bytes) <= MaxString
  /\ Older \subseteq {"CPV1", "CPV2"}
  /\ Faults \subseteq {"cut", "lengthened", "sizes", "encoding", "prefix"}
  /\ Junk \notin Byte /\ Absent \notin Session
  /\ \A n \in 0 .. MaxLen : /\ Absent \notin [form : {"records"}, elts : [0 .. n-1 -> View]]
                           /\ Absent \notin [form : {"strings"}, elts : [0 .. n-1 -> CHARSXP]]

VARIABLES
  home,    \* the session a vector belongs to
  val,     \* every vector: the records of its Store, or R's strings
  native,  \* the native encoding of every session
  stream   \* the serialized vector in transit

vars == <<home, val, native, stream>>

Order   == {"little", "big"}
TagByte == Tag \cup {"NA", "other"}     \* "other": no encoding charport knows

HostOrder(s) == IF s \in BigEndian THEN "big" ELSE "little"
native_is_utf8(s) == native[s] = "utf8"

Records(f) == [form |-> "records", elts |-> f]
Plain(f)   == [form |-> "strings", elts |-> f]
IsCharvec(v) == val[v] # Absent /\ val[v].form = "records"

(* The strings of a vector, as strings(data1) makes them.                  *)
strings(v) ==
  [i \in DOMAIN val[v].elts |->
     IF IsCharvec(v) THEN make_charsxp(val[v].elts[i]) ELSE val[v].elts[i]]

Texts(v) == [i \in DOMAIN val[v].elts |-> Text(strings(v)[i], native[home[v]])]

(***************************************************************************)
(* Writing a state.  The words of a state, n and the sizes, are of the     *)
(* byte order `order`, and its flag says of which.                         *)
(***************************************************************************)
prefix_bytes == 5

serialized_length(n, payload) == prefix_bytes + 8 + 4 * n + n + payload

Packed(magic, order, f) ==
  [magic |-> magic, flag |-> order, order |-> order,
   n     |-> Cardinality(DOMAIN f),
   sizes |-> [i \in DOMAIN f |-> Len(f[i].bytes)],
   encs  |-> [i \in DOMAIN f |-> f[i].enc],
   bytes |-> FlattenSeq([k \in 1 .. Cardinality(DOMAIN f) |-> f[k-1].bytes])]

raw_len(s) == serialized_length(Cardinality(DOMAIN s.sizes), Len(s.bytes))

has_native(f) == \E i \in DOMAIN f : f[i].enc = "NATIVE"

(* Mutated: the native encoding of the session is not looked at.           *)
sends_packedAnyLocale(v) == IsCharvec(v)

sends_packed(v) == IsCharvec(v) /\ (has_native(val[v].elts) => native_is_utf8(home[v]))

(* Mutated: the length is not compared with the longest raw vector.        *)
state_fitsAlways(s) == TRUE

state_fits(s) == raw_len(s) <= MaxRaw

(* native and texts are history: the encoding R wrote its own strings      *)
(* under, and what was written.                                            *)
Send(v, form, s) ==
  /\ stream' = [form |-> form, state |-> s, native |-> native[home[v]], texts |-> Texts(v)]
  /\ UNCHANGED <<home, val, native>>

Serialized_state(v) ==
  /\ val[v] # Absent
  /\ \/ /\ sends_packed(v)
        /\ state_fits(Packed("CPV2", "little", val[v].elts))
        /\ Send(v, "packed", Packed("CPV2", "little", val[v].elts))
     \/ ~ sends_packed(v) /\ Send(v, "strings", strings(v))

(* Charport 0.1 wrote CPV1 states from any locale; a state of either kind  *)
(* may be of either byte order.                                            *)
OlderState(v) ==
  /\ IsCharvec(v)
  /\ \E magic \in Older : \E order \in Order :
       /\ magic = "CPV2" => sends_packed(v)
       /\ state_fits(Packed(magic, order, val[v].elts))
       /\ Send(v, "packed", Packed(magic, order, val[v].elts))

(* A state altered in transit: cut in its payload or in its records,       *)
(* lengthened, or with its sizes, one encoding or its prefix replaced.     *)
AlteredBy(fault, s) ==
  CASE fault = "cut" ->
         {[s EXCEPT !.bytes = SubSeq(@, 1, Len(@) - 1)],
          [s EXCEPT !.sizes = Restrict(@, 0 .. s.n-2), !.encs = Restrict(@, 0 .. s.n-2),
                    !.bytes = << >>]}
    [] fault = "lengthened" -> {[s EXCEPT !.bytes = Append(@, b)] : b \in Byte}
    [] fault = "sizes" ->
         {[s EXCEPT !.sizes = f] : f \in [DOMAIN s.sizes -> 0 .. MaxString + 1]}
    [] fault = "encoding" ->
         {[s EXCEPT !.encs[i] = t] : i \in DOMAIN s.encs, t \in {"NA", "other"}}
    [] fault = "prefix" ->
         {[s EXCEPT !.magic = p[1], !.flag = p[2]] :
            p \in {"CPV1", "CPV2", "other"} \X (Order \cup {"other"})}

Alterations(s) == UNION {AlteredBy(fault, s) : fault \in Faults}

Alter ==
  /\ stream # NoStream /\ stream.form = "packed" /\ stream.texts # Damaged
  /\ \E s \in Alterations(stream.state) \ {stream.state} :
       stream' = [stream EXCEPT !.state = s, !.texts = Damaged]
  /\ UNCHANGED <<home, val, native>>

(***************************************************************************)
(* Reading one.                                                            *)
(***************************************************************************)
(* Mutated: words are swapped on big-endian hosts whatever the flag says.  *)
swapAssumesLittle(s, h) == HostOrder(h) = "big"

swap(s, h) == s.flag # HostOrder(h)

(* The byte order words are read in.                                       *)
read_order(s, h) ==
  IF swap(s, h) THEN CHOOSE o \in Order : o # HostOrder(h) ELSE HostOrder(h)

(* Read in the wrong byte order, a count that is not zero is larger than   *)
(* that of any state.                                                      *)
parsed(s, h) ==
  /\ s.magic \in {"CPV1", "CPV2"}
  /\ s.flag \in Order
  /\ read_order(s, h) = s.order \/ s.n = 0
  /\ serialized_length(s.n, 0) <= raw_len(s)

(* The bytes of the first k records, for every k.                          *)
running_total(sizes) ==
  LET total[k \in 0 .. Cardinality(DOMAIN sizes)] ==
        IF k = 0 THEN 0 ELSE total[k-1] + sizes[k-1]
  IN  total

used(s, i) == running_total(s.sizes)[i]

(* Mutated: a size is compared with the whole payload, and the sizes need  *)
(* not cover it.                                                           *)
check_recordsEach(s) ==
  \A i \in 0 .. s.n-1 :
    /\ s.sizes[i] <= MaxString /\ s.encs[i] \in Tag \cup {"NA"}
    /\ s.encs[i] = "NA" => s.sizes[i] = 0
    /\ s.sizes[i] <= Len(s.bytes)

check_records(s) ==
  /\ \A i \in 0 .. s.n-1 :
       /\ s.sizes[i] <= MaxString
       /\ s.encs[i] \in Tag \cup {"NA"}
       /\ s.encs[i] = "NA" => s.sizes[i] = 0
       /\ s.sizes[i] <= Len(s.bytes) - used(s, i)
  /\ used(s, s.n) = Len(s.bytes)

(* The native records of a CPV2 state are UTF-8.                           *)
encoding_of(s, i, h) ==
  IF s.encs[i] = "NATIVE" /\ s.magic = "CPV2" /\ ~ native_is_utf8(h) THEN "UTF8"
  ELSE s.encs[i]

record_bytes(s, i) ==
  [k \in 1 .. s.sizes[i] |->
     IF used(s, i) + k \in DOMAIN s.bytes THEN s.bytes[used(s, i) + k] ELSE Junk]

unserialize_store(s, h) ==
  [i \in 0 .. s.n-1 |->
     IF s.encs[i] = "NA" THEN NaView
     ELSE [bytes |-> record_bytes(s, i), enc |-> encoding_of(s, i, h)]]

Unserialize(w) ==
  /\ stream # NoStream /\ val[w] = Absent
  /\ \E h \in Session :
       /\ home' = [home EXCEPT ![w] = h]
       /\ \/ /\ stream.form = "packed"
             /\ parsed(stream.state, h) /\ check_records(stream.state)
             /\ val' = [val EXCEPT ![w] = Records(unserialize_store(stream.state, h))]
          \/ /\ stream.form = "strings"
             /\ val' = [val EXCEPT ![w] =
                          Plain([i \in DOMAIN stream.state |->
                             ReadString(stream.state[i], stream.native, native[h])])]
  /\ UNCHANGED <<native, stream>>

(***************************************************************************)
(* The life of a vector, and a change of locale.                           *)
(***************************************************************************)
Make(v) ==
  /\ val[v] = Absent
  /\ \E h \in Session : home' = [home EXCEPT ![v] = h]
  /\ \E n \in 0 .. MaxLen : \E f \in [0 .. n-1 -> InputView] :
       val' = [val EXCEPT ![v] = Records(f)]
  /\ UNCHANGED <<native, stream>>

materialize(v) ==
  /\ IsCharvec(v)
  /\ val' = [val EXCEPT ![v] = Plain(strings(v))]
  /\ UNCHANGED <<home, native, stream>>

Collect(v) ==
  /\ val[v] # Absent
  /\ val'  = [val EXCEPT ![v] = Absent]
  /\ home' = [home EXCEPT ![v] = Absent]
  /\ UNCHANGED <<native, stream>>

SetLocale(s) ==
  /\ \E charset \in Charset \ {native[s]} : native' = [native EXCEPT ![s] = charset]
  /\ UNCHANGED <<home, val, stream>>

-----------------------------------------------------------------------------
Init ==
  /\ home   = [v \in Vec |-> Absent]
  /\ val    = [v \in Vec |-> Absent]
  /\ native \in [Session -> Charset]
  /\ stream = NoStream

Next ==
  \/ \E v \in Vec :
       \/ Make(v) \/ materialize(v) \/ Collect(v)
       \/ Serialized_state(v) \/ OlderState(v) \/ Unserialize(v)
  \/ \E s \in Session : SetLocale(s)
  \/ Alter

Spec == Init /\ [][Next]_vars

-----------------------------------------------------------------------------
(* Every variable has its type; a state that is sent fits a raw vector.    *)
TypeOK ==
  /\ \A v \in Vec : val[v] # Absent =>
       \E n \in 0 .. MaxLen : \/ val[v] \in [form : {"strings"}, elts : [0 .. n-1 -> CHARSXP]]
                              \/ val[v] \in [form : {"records"}, elts : [0 .. n-1 -> View]]
  /\ \A v \in Vec : home[v] \in IF val[v] = Absent THEN {Absent} ELSE Session
  /\ native \in [Session -> Charset]
  /\ stream # NoStream => stream.form \in {"packed", "strings"} /\ stream.native \in Charset
  /\ stream # NoStream /\ stream.form = "packed" =>
       /\ stream.state.n \in 0 .. MaxLen
       /\ DOMAIN stream.state.sizes = DOMAIN stream.state.encs
       /\ stream.texts # Damaged => raw_len(stream.state) <= MaxRaw

(* No state that was written is refused: every session, of either byte     *)
(* order and under any native encoding, reads what this charport and the   *)
(* earlier ones write, as long as nothing altered it on its way.           *)
StatesAreReadable ==
  stream # NoStream /\ stream.form = "packed" /\ stream.texts # Damaged =>
    \A h \in Session : parsed(stream.state, h) /\ check_records(stream.state)

(* The native records of a CPV1 state are read as the current locale's; so *)
(* are the records whose encoding says ASCII and whose bytes are not.      *)
locale_bound(s, i) ==
  /\ ~ IsAscii(record_bytes(s, i))
  /\ s.encs[i] = "ASCII" \/ (s.encs[i] = "NATIVE" /\ s.magic = "CPV1")

(* An undamaged vector says the same text where it is read as where it was *)
(* written, whatever the byte orders and the native encodings of the two   *)
(* sessions, and however they changed in between; but for packed records   *)
(* that are bound to the writer's locale, if the two encodings differ.     *)
TextSurvivesTransit ==
  [][\A w \in Vec : Unserialize(w) /\ stream.texts # Damaged =>
       /\ DOMAIN Texts(w)' = DOMAIN stream.texts
       /\ \A i \in DOMAIN stream.texts :
            (stream.form = "packed" /\ locale_bound(stream.state, i)
               => stream.native = native[home'[w]])
              => Texts(w)'[i] = stream.texts[i]]_vars

(* "Untrusted input": whatever happened to a state, the records of the     *)
(* vector made from it are ones R can hold, and lie side by side in the    *)
(* payload, from its first byte to its last.                               *)
AcceptedStatesAreExact ==
  [][\A w \in Vec :
       Unserialize(w) /\ stream.form = "packed" =>
         LET f == val'[w].elts
             n == Cardinality(DOMAIN f) IN
         /\ FlattenSeq([k \in 1 .. n |-> f[k-1].bytes]) = stream.state.bytes
         /\ \A i \in DOMAIN f : f[i] \in View /\ Len(f[i].bytes) <= MaxString]_vars
=============================================================================
