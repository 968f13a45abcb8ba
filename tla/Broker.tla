------------------------------- MODULE Broker -------------------------------
(***************************************************************************)
(* The registry of ALTREP classes, charport_resolve, and the borrows that  *)
(* Reader objects hold (src/charport_registry.cpp, interop/reader.h), on   *)
(* R 4.6 and later, where wrappers are read through.                       *)
(*                                                                         *)
(* Everything here runs on R's main thread, but a provider's init callback *)
(* may call R: before it returns it may register and unregister classes,   *)
(* open, move and release other readers, and materialize vectors.  The     *)
(* calls in progress are a stack, whose top alone can return.              *)
(***************************************************************************)
EXTENDS Naturals, Sequences, FiniteSetsExt

CONSTANTS
  Vec,               \* character vectors
  Class,             \* ALTREP classes of packages
  ClassOf,           \* the class of a vector, "plain" or "wrap_string"
  Data1,             \* the vector a base R wrapper wraps
  Length,            \* of each vector
  max_unwrap_depth,  \* wrappers looked through (8 in the code)
  Fns,               \* sets of callbacks
  Stateless,         \* the ones with no release callback
  Offers,            \* the pairs of a class and callbacks packages register
  DropsData,         \* classes that free their data when materialized
  Slot,              \* Reader objects, and C structs charport_reader
  State,             \* addresses of the states that init allocates
  MaxCalls,          \* deepest nesting of resolutions considered
  Null,              \* a null pointer
  NoVec,             \* no vector
  InPlace,           \* a state that is a pointer into the vector's own data
  DirectFns          \* the broker's callbacks for R storage

ASSUME BrokerAssumption ==
  /\ ClassOf \in [Vec -> Class \cup {"plain", "wrap_string"}]
  /\ {"plain", "wrap_string"} \cap Class = {}
  /\ Data1 \in [{v \in Vec : ClassOf[v] = "wrap_string"} -> Vec]
  /\ Length \in [Vec -> Nat]
  /\ max_unwrap_depth \in Nat \ {0}
  /\ Stateless \subseteq Fns
  /\ Offers \subseteq Class \X Fns
  /\ MaxCalls \in Nat
  /\ Null \notin State /\ Null \notin Fns /\ Null # InPlace /\ Null # DirectFns
  /\ NoVec \notin Vec /\ InPlace \notin State /\ DirectFns \notin Fns

VARIABLES
  registry,  \* the callbacks of each class, or Null
  storage,   \* the ALTREP vectors that have R storage (were materialized)
  live,      \* the callbacks whose init allocated the state at an address
  reader,    \* the borrow of every slot
  calls      \* init callbacks that have not returned, outermost first

vars == <<registry, storage, live, reader, calls>>

Borrow == [src     : Vec \cup {NoVec},     \* whose data it reads
           state   : State \cup {InPlace, Null},
           release : Fns \cup {Null},
           fns     : Fns \cup {DirectFns, Null}]

NoBorrow == [src |-> NoVec, state |-> Null, release |-> Null, fns |-> Null]

direct_reader(v) == [src |-> v, state |-> InPlace, release |-> Null, fns |-> DirectFns]

Owned(s) == reader[s].release # Null

(* A resolution on behalf of slot s: x is its vector, and fns the copy of  *)
(* the registry entry whose init is running on the vector at.              *)
Call == [slot : Slot, x : Vec, at : Vec, fns : Fns]

Top        == calls[Len(calls)]
Pending(s) == \E k \in DOMAIN calls : calls[k].slot = s

(***************************************************************************)
(* The registry.                                                           *)
(***************************************************************************)
register_altrep(c, fns) ==
  /\ registry[c] = Null
  /\ registry' = [registry EXCEPT ![c] = fns]
  /\ UNCHANGED <<storage, live, reader, calls>>

unregister_altrep(c) ==
  /\ registry[c] # Null
  /\ registry' = [registry EXCEPT ![c] = Null]
  /\ UNCHANGED <<storage, live, reader, calls>>

find_registered_altrep(v) == IF ClassOf[v] \in Class THEN registry[ClassOf[v]] ELSE Null

(***************************************************************************)
(* What to read for x: the vector whose class or whose R storage serves it *)
(* in place.  A materialized wrapper holds a copy of its own, in R storage,*)
(* and reads as an ordinary vector.                                        *)
(***************************************************************************)
IsWrapper(v) == ClassOf[v] = "wrap_string" /\ v \notin storage
IsAltrep(v)  == ClassOf[v] \in Class \/ IsWrapper(v)
InStorage(v) == ~ IsAltrep(v) \/ v \in storage          \* DATAPTR_OR_NULL

Levels(x) ==
  LET level[d \in 0 .. max_unwrap_depth] ==
        IF d = 0 THEN x
        ELSE IF IsWrapper(level[d-1]) THEN Data1[level[d-1]] ELSE level[d-1]
  IN  level

(* The vector inside x's wrappers, x itself if it is none, or NoVec.       *)
wrapped(x) ==
  LET level == Levels(x)
      ends  == {d \in 0 .. max_unwrap_depth : ~ IsWrapper(level[d])}
  IN  IF \/ ends = {}
         \/ Min(ends) = max_unwrap_depth /\ IsAltrep(level[max_unwrap_depth])
         \/ \E d \in 0 .. Min(ends) : Length[level[d]] # Length[x]
      THEN NoVec ELSE level[Min(ends)]

(***************************************************************************)
(* Letting go of a borrow.                                                 *)
(***************************************************************************)
(* Mutated: the release callback stays behind.                             *)
disownedState(r) == [r EXCEPT !.state = Null]

disowned(r) == [r EXCEPT !.state = Null, !.release = Null]

(* Mutated: an overwritten borrow is not released.                         *)
release_ownedNever(s, lv) == lv

(* What is live once slot s has released what it owns.                     *)
release_owned(s, lv) == IF Owned(s) THEN [lv EXCEPT ![reader[s].state] = Null] ELSE lv

(* The new borrow is complete before it replaces the one s has.            *)
Install(s, r, lv) ==
  /\ reader' = [reader EXCEPT ![s] = r]
  /\ live'   = release_owned(s, lv)

(***************************************************************************)
(* Resolution.                                                             *)
(***************************************************************************)
(* Mutated: the vector inside a wrapper is materialized in its place.      *)
InstallDirectInner(s, x, at) ==
  LET src == IF at # NoVec THEN at ELSE x IN
  /\ Install(s, direct_reader(src), live)
  /\ storage' = IF InStorage(src) THEN storage ELSE storage \cup {src}

(* No class serves x: R storage does, that of the vector inside if it is   *)
(* there already, or else what STRING_PTR_RO(x) makes.                     *)
InstallDirect(s, x, at) ==
  IF at # NoVec /\ InStorage(at)
  THEN /\ Install(s, direct_reader(at), live)
       /\ UNCHANGED storage
  ELSE /\ Install(s, direct_reader(x), live)
       /\ storage' = storage \cup {x}

(* Mutated: the current borrow goes before the new one is resolved.        *)
CallInitReleased(s, x, at) ==
  /\ Len(calls) < MaxCalls
  /\ calls' = Append(calls, [slot |-> s, x |-> x, at |-> at, fns |-> find_registered_altrep(at)])
  /\ Install(s, NoBorrow, live)
  /\ UNCHANGED <<registry, storage>>

CallInit(s, x, at) ==
  /\ Len(calls) < MaxCalls
  /\ calls' = Append(calls, [slot |-> s, x |-> x, at |-> at, fns |-> find_registered_altrep(at)])
  /\ UNCHANGED <<registry, storage, live, reader>>

(* Reader(x), with_rcpp, with_cpp11, reset(x), or charport_resolve(x) in C,*)
(* up to the call of an init callback if there is one.                     *)
Resolve(s, x) ==
  /\ ~ Pending(s)
  /\ \E at \in Vec \cup {NoVec} :
       /\ at = wrapped(x)
       /\ IF at # NoVec /\ find_registered_altrep(at) # Null
          THEN CallInit(s, x, at)
          ELSE InstallDirect(s, x, at) /\ UNCHANGED <<registry, calls>>

Return == calls' = SubSeq(calls, 1, Len(calls) - 1) /\ UNCHANGED registry

(* Mutated: the callbacks are read in the registry after init returned.    *)
InitAcceptsReread ==
  /\ calls # << >>
  /\ \E st \in State, fns \in {find_registered_altrep(Top.at)} \ {Null} :
       /\ live[st] = Null /\ Top.fns \notin Stateless
       /\ Install(Top.slot, [src |-> Top.at, state |-> st, release |-> fns, fns |-> fns],
                  [live EXCEPT ![st] = Top.fns])
  /\ Return
  /\ UNCHANGED storage

(* init returns a state.                                                   *)
InitAccepts ==
  /\ calls # << >>
  /\ ~ (ClassOf[Top.at] \in DropsData /\ Top.at \in storage)
  /\ \/ /\ Top.fns \in Stateless
        /\ Install(Top.slot, [src |-> Top.at, state |-> InPlace, release |-> Null,
                              fns |-> Top.fns], live)
     \/ /\ Top.fns \notin Stateless
        /\ \E st \in State :
             /\ live[st] = Null
             /\ Install(Top.slot, [src |-> Top.at, state |-> st, release |-> Top.fns,
                                   fns |-> Top.fns], [live EXCEPT ![st] = Top.fns])
  /\ Return
  /\ UNCHANGED storage

(* Mutated: after init, the vector inside is not asked where its data is.  *)
InitDeclinesUnasked ==
  /\ calls # << >>
  /\ Install(Top.slot, direct_reader(Top.x), live)
  /\ storage' = storage \cup {Top.x}
  /\ Return

(* init returns NULL.                                                      *)
InitDeclines ==
  /\ calls # << >>
  /\ InstallDirect(Top.slot, Top.x, Top.at)
  /\ Return

(* init, or STRING_PTR_RO after it declined, raises an R error.            *)
InitFails ==
  /\ calls # << >>
  /\ Return
  /\ UNCHANGED <<storage, live, reader>>

(***************************************************************************)
(* Readers that are destroyed, released from C, and moved.                 *)
(***************************************************************************)
charport_reader_release(s) ==
  /\ ~ Pending(s)
  /\ reader' = [reader EXCEPT ![s] = disowned(@)]
  /\ live'   = release_owned(s, live)
  /\ UNCHANGED <<registry, storage, calls>>

(* Move construction into an unused slot t, and move assignment, which     *)
(* does nothing when s = t.                                                *)
Move(s, t) ==
  /\ s # t /\ ~ Pending(s) /\ ~ Pending(t)
  /\ reader' = [reader EXCEPT ![t] = reader[s], ![s] = disowned(@)]
  /\ live'   = release_owned(t, live)
  /\ UNCHANGED <<registry, storage, calls>>

(* R materializes a vector nobody borrows: "a Reader is a strict borrow".  *)
Materialize(v) ==
  /\ ~ InStorage(v)
  /\ \A s \in Slot : reader[s].src = v => reader[s].state = Null
  /\ storage' = storage \cup {v}
  /\ UNCHANGED <<registry, live, reader, calls>>

-----------------------------------------------------------------------------
Init ==
  /\ registry = [c \in Class |-> Null]
  /\ storage  = {}
  /\ live     = [st \in State |-> Null]
  /\ reader   = [s \in Slot |-> NoBorrow]
  /\ calls    = << >>

Next ==
  \/ \E offer \in Offers : register_altrep(offer[1], offer[2])
  \/ \E c \in Class : unregister_altrep(c)
  \/ \E s \in Slot, x \in Vec : Resolve(s, x)
  \/ InitAccepts \/ InitDeclines \/ InitFails
  \/ \E s \in Slot : charport_reader_release(s)
  \/ \E s, t \in Slot : Move(s, t)
  \/ \E v \in Vec : Materialize(v)

Spec == Init /\ [][Next]_vars

-----------------------------------------------------------------------------
(* Every variable has its type; an allocated state comes with a release    *)
(* callback, and no two calls in progress resolve for the same slot.       *)
TypeOK ==
  /\ registry \in [Class -> Fns \cup {Null}]
  /\ storage  \subseteq Vec
  /\ live     \in [State -> Fns \cup {Null}]
  /\ reader   \in [Slot -> Borrow]
  /\ calls    \in Seq(Call)
  /\ \A s \in Slot : Owned(s) <=> reader[s].state \in State
  /\ \A k, m \in DOMAIN calls : calls[k].slot = calls[m].slot => k = m

(* Every state a provider allocated and has not been given back belongs to *)
(* exactly one Reader, and no Reader owns anything else: whatever order of *)
(* nested resolutions, errors, moves and resets, each init is matched by   *)
(* one release.                                                            *)
ExactlyOneOwner ==
  /\ \A s \in Slot : Owned(s) => live[reader[s].state] # Null
  /\ \A st \in State : live[st] # Null =>
       \E s \in Slot : Owned(s) /\ reader[s].state = st
  /\ \A s, t \in Slot : Owned(s) /\ Owned(t) /\ s # t => reader[s].state # reader[t].state

(* A state is only ever handed to the callbacks of the registration whose  *)
(* init made it, even if init or a later call changed the registry.        *)
CallbacksMatch ==
  \A s \in Slot : reader[s].state \in State =>
    /\ reader[s].fns = live[reader[s].state]
    /\ reader[s].release = reader[s].fns

(* A borrow served by the broker itself reads R storage that exists.       *)
DirectInStorage ==
  \A s \in Slot : reader[s].fns = DirectFns => InStorage(reader[s].src)

(* Resolving materializes nothing but the vector asked for, and that only  *)
(* when what it holds cannot be read where it is ("use the inner vector    *)
(* only when it resolves without materializing; anything else reads the    *)
(* wrapper as before"): reading never copies what need not be copied, and  *)
(* never touches the vector others share through wrappers.                 *)
InnerLeftAlone ==
  [][\A v \in storage' \ storage :
       \/ Materialize(v)
       \/ \E s \in Slot :
            Resolve(s, v) /\ (wrapped(v) = NoVec \/ ~ InStorage(wrapped(v)))
       \/ InitDeclines /\ Top.x = v /\ ~ InStorage(Top.at)]_vars

(* "If resolution raises an R error, the existing borrow remains           *)
(* unchanged": a slot keeps its borrow while a resolution for it is in     *)
(* progress and when it fails.                                             *)
ResetKeepsBorrow ==
  [][\A s \in Slot :
       Pending(s)' \/ (Pending(s) /\ InitFails) =>
         reader'[s] = reader[s] /\ (Owned(s) => live'[reader[s].state] = live[reader[s].state])]_vars
=============================================================================
