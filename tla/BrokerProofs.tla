---------------------------- MODULE BrokerProofs ----------------------------
(***************************************************************************)
(* Theorems of module Broker, for every set of vectors, classes, callbacks *)
(* and readers, and every depth of wrappers and of nested resolutions.     *)
(***************************************************************************)
EXTENDS Broker, SequenceTheorems, TLAPS

OwnersOK ==
  /\ live \in [State -> Fns \cup {Null}]
  /\ reader \in [Slot -> Borrow]
  /\ \A s \in Slot : Owned(s) <=> reader[s].state \in State
  /\ ExactlyOneOwner
  /\ CallbacksMatch

CallsOK ==
  /\ calls \in Seq(Call)
  /\ \A k, m \in DOMAIN calls : calls[k].slot = calls[m].slot => k = m

IInv == TypeOK /\ ExactlyOneOwner /\ CallbacksMatch /\ DirectInStorage

(* A borrow fit to be installed: one with nothing to release, or one with  *)
(* a state init has just allocated.                                        *)
Unowned(r, lv) == r.release = Null /\ r.state \notin State /\ lv = live
Fresh(r, lv) ==
  \E st \in State, f \in Fns :
    /\ live[st] = Null /\ lv = [live EXCEPT ![st] = f]
    /\ r.state = st /\ r.release = f /\ r.fns = f

-----------------------------------------------------------------------------
(* Installing a borrow.                                                    *)

(* Other slots keep their borrows, and the states these own.               *)
LEMMA InstallElsewhere ==
  ASSUME OwnersOK, NEW s \in Slot, NEW r \in Borrow, NEW lv,
         Unowned(r, lv) \/ Fresh(r, lv), Install(s, r, lv),
         NEW t \in Slot, t # s
  PROVE  /\ reader'[t] = reader[t]
         /\ Owned(t) => live'[reader[t].state] = live[reader[t].state]
<1>1. reader'[t] = reader[t]
  BY DEF Install, OwnersOK
<1>2. ASSUME Owned(t) PROVE live'[reader[t].state] = live[reader[t].state]
  <2> DEFINE b == reader[t].state
  <2>1. b \in State /\ live[b] # Null
    BY <1>2 DEF OwnersOK, ExactlyOneOwner
  <2>2. lv \in [State -> Fns \cup {Null}] /\ lv[b] = live[b]
    BY <2>1 DEF Unowned, Fresh, OwnersOK
  <2>3. CASE Owned(s)
    <3>1. reader[s].state # b
      BY <1>2, <2>3 DEF OwnersOK, ExactlyOneOwner
    <3> QED BY <2>1, <2>2, <2>3, <3>1 DEF Install, release_owned
  <2>4. CASE ~ Owned(s)
    BY <2>2, <2>4 DEF Install, release_owned
  <2> QED BY <2>3, <2>4
<1> QED BY <1>1, <1>2

LEMMA InstallKeeps ==
  ASSUME OwnersOK, NEW s \in Slot, NEW r \in Borrow, NEW lv,
         Unowned(r, lv) \/ Fresh(r, lv), Install(s, r, lv)
  PROVE  OwnersOK'
<1>1. lv \in [State -> Fns \cup {Null}]
  BY DEF Unowned, Fresh, OwnersOK
<1>2. live' \in [State -> Fns \cup {Null}] /\ reader' \in [Slot -> Borrow]
  BY <1>1 DEF Install, release_owned, OwnersOK
<1>3. reader'[s] = r
  BY DEF Install, OwnersOK
<1>4. \A t \in Slot : t # s => /\ reader'[t] = reader[t]
                               /\ Owned(t) => live'[reader[t].state] = live[reader[t].state]
  BY InstallElsewhere
<1>5. r.release # Null <=> r.state \in State
  BY BrokerAssumption DEF Unowned, Fresh
<1>6. ASSUME r.release # Null
      PROVE  /\ live[r.state] = Null /\ live'[r.state] = r.release
             /\ r.fns = r.release
  <2>1. Fresh(r, lv)
    BY <1>6 DEF Unowned
  <2>2. r.state \in State /\ live[r.state] = Null /\ lv[r.state] = r.release /\ r.fns = r.release
    BY <2>1 DEF Fresh, OwnersOK
  <2>3. Owned(s) => reader[s].state # r.state
    BY <2>2 DEF OwnersOK, ExactlyOneOwner
  <2> QED BY <1>1, <2>2, <2>3 DEF Install, release_owned
<1>7. \A t \in Slot : Owned(t)' <=> reader'[t].state \in State
  BY <1>3, <1>4, <1>5 DEF OwnersOK, Owned
<1>8. ExactlyOneOwner'
  <2>1. ASSUME NEW t \in Slot, Owned(t)' PROVE live'[reader'[t].state] # Null
    BY <1>3, <1>4, <1>6, <2>1 DEF OwnersOK, ExactlyOneOwner, Owned
  <2>2. ASSUME NEW st \in State, live'[st] # Null
        PROVE  \E t \in Slot : Owned(t)' /\ reader'[t].state = st
    <3>1. CASE r.release # Null /\ r.state = st
      BY <1>3, <3>1 DEF Owned
    <3>2. CASE ~ (r.release # Null /\ r.state = st)
      <4>1. lv[st] = live[st]
        BY <3>2, <1>5 DEF Unowned, Fresh, OwnersOK
      <4>2. live[st] # Null /\ ~ (Owned(s) /\ reader[s].state = st)
        BY <1>1, <2>2, <4>1 DEF Install, release_owned
      <4>3. PICK t \in Slot : Owned(t) /\ reader[t].state = st
        BY <4>2 DEF OwnersOK, ExactlyOneOwner
      <4> QED BY <1>4, <4>2, <4>3 DEF Owned
    <3> QED BY <3>1, <3>2
  <2>3. ASSUME NEW t \in Slot, NEW q \in Slot, Owned(t)', Owned(q)', t # q
        PROVE  reader'[t].state # reader'[q].state
    BY <1>3, <1>4, <1>6, <2>3 DEF OwnersOK, ExactlyOneOwner, Owned
  <2> QED BY <2>1, <2>2, <2>3 DEF ExactlyOneOwner
<1>9. CallbacksMatch'
  BY <1>3, <1>4, <1>5, <1>6 DEF CallbacksMatch, OwnersOK, Owned
<1> QED BY <1>2, <1>7, <1>8, <1>9 DEF OwnersOK

LEMMA DisownedType ==
  ASSUME NEW r \in Borrow
  PROVE  /\ disowned(r) \in Borrow
         /\ disowned(r).state = Null /\ disowned(r).release = Null
         /\ disowned(r).src = r.src /\ disowned(r).fns = r.fns
         /\ Null \notin State
BY BrokerAssumption DEF disowned, Borrow

(* Letting go of slot s, and moving its borrow to slot t.                  *)
LEMMA ReleaseKeeps ==
  ASSUME OwnersOK, NEW s \in Slot, charport_reader_release(s)
  PROVE  OwnersOK'
<1> DEFINE r == disowned(reader[s])
<1>1. r \in Borrow /\ Unowned(r, live)
  BY DisownedType DEF Unowned, OwnersOK
<1>2. Install(s, r, live)
  BY DEF charport_reader_release, Install, OwnersOK
<1> HIDE DEF r
<1> QED BY <1>1, <1>2, InstallKeeps

LEMMA MoveKeeps ==
  ASSUME OwnersOK, NEW s \in Slot, NEW t \in Slot, Move(s, t)
  PROVE  OwnersOK'
<1>1. s # t
  BY DEF Move
<1>2. /\ reader' \in [Slot -> Borrow]
      /\ reader'[t] = reader[s] /\ reader'[s] = disowned(reader[s])
      /\ \A q \in Slot : q # s /\ q # t => reader'[q] = reader[q]
  <2>1. reader[s] \in Borrow /\ disowned(reader[s]) \in Borrow
    BY DisownedType DEF OwnersOK
  <2>2. reader' = [reader EXCEPT ![t] = reader[s], ![s] = disowned(reader[s])]
    BY DEF Move
  <2> QED BY <1>1, <2>1, <2>2 DEF OwnersOK
<1>3. /\ reader'[s].state = Null /\ reader'[s].release = Null
      /\ ~ Owned(s)' /\ Null \notin State
  BY <1>2, DisownedType DEF OwnersOK, Owned
<1>4. /\ live' \in [State -> Fns \cup {Null}]
      /\ \A st \in State : live'[st] = IF Owned(t) /\ st = reader[t].state
                                       THEN Null ELSE live[st]
  BY DEF Move, release_owned, OwnersOK
<1>5. \A q \in Slot : Owned(q)' <=> reader'[q].state \in State
  BY <1>2, <1>3 DEF OwnersOK, Owned
<1>6. ExactlyOneOwner'
  <2>1. ASSUME NEW q \in Slot, Owned(q)' PROVE live'[reader'[q].state] # Null
    BY <1>1, <1>2, <1>3, <1>4, <2>1 DEF OwnersOK, ExactlyOneOwner, Owned
  <2>2. ASSUME NEW st \in State, live'[st] # Null
        PROVE  \E q \in Slot : Owned(q)' /\ reader'[q].state = st
    <3>1. live[st] # Null /\ ~ (Owned(t) /\ st = reader[t].state)
      BY <1>4, <2>2
    <3>2. PICK q \in Slot : Owned(q) /\ reader[q].state = st
      BY <3>1 DEF OwnersOK, ExactlyOneOwner
    <3>3. CASE q = s
      BY <1>2, <3>2, <3>3 DEF Owned
    <3>4. CASE q # s
      BY <1>2, <3>1, <3>2, <3>4 DEF Owned
    <3> QED BY <3>3, <3>4
  <2>3. ASSUME NEW q \in Slot, NEW p \in Slot, Owned(q)', Owned(p)', q # p
        PROVE  reader'[q].state # reader'[p].state
    BY <1>2, <1>3, <2>3 DEF OwnersOK, ExactlyOneOwner, Owned
  <2> QED BY <2>1, <2>2, <2>3 DEF ExactlyOneOwner
<1>7. CallbacksMatch'
  BY <1>2, <1>3, <1>4, <1>5, <1>6 DEF CallbacksMatch, OwnersOK, Owned, ExactlyOneOwner
<1> QED BY <1>2, <1>4, <1>5, <1>6, <1>7 DEF OwnersOK

-----------------------------------------------------------------------------
(* The stack of calls.                                                     *)

LEMMA ReturnKeeps ==
  ASSUME CallsOK, calls # << >>, Return
  PROVE  /\ CallsOK' /\ Top \in Call /\ Len(calls) \in DOMAIN calls
         /\ DOMAIN calls' = 1 .. Len(calls) - 1
         /\ \A k \in DOMAIN calls' : calls'[k] = calls[k]
<1>1. Len(calls) \in Nat \ {0} /\ DOMAIN calls = 1 .. Len(calls)
  BY DEF CallsOK
<1>2. /\ calls' \in Seq(Call) /\ DOMAIN calls' = 1 .. Len(calls) - 1
      /\ \A k \in DOMAIN calls' : calls'[k] = calls[k]
  BY <1>1 DEF CallsOK, Return
<1> QED BY <1>1, <1>2 DEF CallsOK, Top

(* Whoever still waits after a return waited before, for another slot.     *)
LEMMA ReturnPending ==
  ASSUME CallsOK, calls # << >>, Return, NEW s \in Slot, Pending(s)'
  PROVE  s # Top.slot
<1>1. PICK k \in DOMAIN calls' : calls'[k].slot = s
  BY DEF Pending
<1>2. k \in DOMAIN calls /\ k # Len(calls) /\ calls[k].slot = s
  BY <1>1, ReturnKeeps DEF CallsOK
<1> QED BY <1>2, ReturnKeeps DEF CallsOK, Top

LEMMA CallInitKeeps ==
  ASSUME TypeOK, NEW s \in Slot, NEW x \in Vec, NEW at \in Vec,
         find_registered_altrep(at) # Null, ~ Pending(s), CallInit(s, x, at)
  PROVE  CallsOK'
<1> DEFINE c == [slot |-> s, x |-> x, at |-> at, fns |-> find_registered_altrep(at)]
<1>1. c \in Call
  BY BrokerAssumption DEF find_registered_altrep, Call, TypeOK
<1>2. calls' = Append(calls, c) /\ calls \in Seq(Call)
  BY DEF CallInit, TypeOK
<1>3. calls' \in Seq(Call) /\ DOMAIN calls' = 1 .. Len(calls) + 1
  BY <1>1, <1>2
<1>4. ASSUME NEW k \in DOMAIN calls', NEW m \in DOMAIN calls',
             calls'[k].slot = calls'[m].slot
      PROVE  k = m
  <2>1. /\ DOMAIN calls = 1 .. Len(calls) /\ Len(calls) \in Nat
        /\ \A j \in DOMAIN calls : calls'[j] = calls[j]
        /\ calls'[Len(calls) + 1].slot = s
    BY <1>1, <1>2
  <2>2. \A j \in DOMAIN calls : calls'[j].slot # s
    BY <2>1 DEF Pending
  <2>3. \A j \in DOMAIN calls' : j \in DOMAIN calls \/ j = Len(calls) + 1
    BY <1>3, <2>1
  <2> QED BY <1>4, <2>1, <2>2, <2>3 DEF TypeOK
<1> QED BY <1>3, <1>4 DEF CallsOK

(* Storage only grows, and what was in it stays in it.                     *)
LEMMA InStorageGrows ==
  ASSUME NEW v, InStorage(v), storage \subseteq storage'
  PROVE  InStorage(v)'
BY DEF InStorage, IsAltrep, IsWrapper

LEMMA InstallDirectKeeps ==
  ASSUME IInv, NEW s \in Slot, NEW x \in Vec, NEW at \in Vec \cup {NoVec},
         InstallDirect(s, x, at)
  PROVE  /\ OwnersOK' /\ DirectInStorage'
         /\ storage' \subseteq Vec /\ storage \subseteq storage'
         /\ \E r \in Borrow : Unowned(r, live) /\ Install(s, r, live)
<1>1. PICK src \in Vec :
        /\ Install(s, direct_reader(src), live)
        /\ storage \subseteq storage' /\ storage' \subseteq Vec
        /\ InStorage(src)'
  <2>1. CASE at # NoVec /\ InStorage(at)
    <3>1. Install(s, direct_reader(at), live) /\ storage' = storage
      BY <2>1 DEF InstallDirect
    <3>2. InStorage(at)'
      BY <2>1, <3>1, InStorageGrows
    <3> QED BY <2>1, <3>1, <3>2 DEF IInv, TypeOK
  <2>2. CASE ~ (at # NoVec /\ InStorage(at))
    <3>1. Install(s, direct_reader(x), live) /\ storage' = storage \cup {x}
      BY <2>2 DEF InstallDirect
    <3>2. InStorage(x)'
      BY <3>1 DEF InStorage
    <3> QED BY <3>1, <3>2 DEF IInv, TypeOK
  <2> QED BY <2>1, <2>2
<1>2. direct_reader(src) \in Borrow /\ Unowned(direct_reader(src), live)
  BY BrokerAssumption DEF direct_reader, Borrow, Unowned
<1>3. OwnersOK
  BY DEF IInv, TypeOK, OwnersOK
<1>4. OwnersOK'
  BY <1>1, <1>2, <1>3, InstallKeeps
<1>5. DirectInStorage'
  <2>1. reader'[s].src = src
    BY <1>1, <1>3 DEF Install, direct_reader, OwnersOK
  <2>2. \A t \in Slot : t # s => reader'[t] = reader[t]
    BY <1>1, <1>3 DEF Install, OwnersOK
  <2> QED BY <1>1, <2>1, <2>2, InStorageGrows DEF DirectInStorage, IInv
<1> QED BY <1>1, <1>2, <1>4, <1>5

(* What init hands over is fit to be installed.                            *)
LEMMA AcceptedFit ==
  ASSUME IInv, InitAccepts
  PROVE  \E r \in Borrow, lv \in [State -> Fns \cup {Null}] :
           /\ Unowned(r, lv) \/ Fresh(r, lv)
           /\ Install(Top.slot, r, lv)
           /\ r.fns # DirectFns
<1>0. live \in [State -> Fns \cup {Null}]
  BY DEF IInv, TypeOK
<1>1. Top \in Call /\ Top.fns \in Fns /\ Top.at \in Vec /\ Top.fns # DirectFns
  BY ReturnKeeps, BrokerAssumption DEF IInv, TypeOK, CallsOK, Call, InitAccepts
<1>2. CASE Install(Top.slot, [src |-> Top.at, state |-> InPlace, release |-> Null,
                              fns |-> Top.fns], live)
  <2> DEFINE r == [src |-> Top.at, state |-> InPlace, release |-> Null, fns |-> Top.fns]
  <2>1. r \in Borrow /\ Unowned(r, live) /\ r.fns # DirectFns
    BY <1>1, BrokerAssumption DEF Borrow, Unowned
  <2> HIDE DEF r
  <2>2. Install(Top.slot, r, live)
    BY <1>2 DEF r
  <2> QED BY <1>0, <2>1, <2>2
<1>3. CASE \E st \in State :
             /\ live[st] = Null
             /\ Install(Top.slot, [src |-> Top.at, state |-> st, release |-> Top.fns,
                                   fns |-> Top.fns], [live EXCEPT ![st] = Top.fns])
  <2>1. PICK st \in State :
             /\ live[st] = Null
             /\ Install(Top.slot, [src |-> Top.at, state |-> st, release |-> Top.fns,
                                   fns |-> Top.fns], [live EXCEPT ![st] = Top.fns])
    BY <1>3
  <2> DEFINE r  == [src |-> Top.at, state |-> st, release |-> Top.fns, fns |-> Top.fns]
             lv == [live EXCEPT ![st] = Top.fns]
  <2>2. r \in Borrow /\ Fresh(r, lv) /\ r.fns # DirectFns
    BY <1>1, <2>1 DEF Borrow, Fresh
  <2>3. lv \in [State -> Fns \cup {Null}] /\ Install(Top.slot, r, lv)
    BY <1>0, <1>1, <2>1
  <2> HIDE DEF r, lv
  <2> QED BY <2>2, <2>3
<1> QED BY <1>2, <1>3 DEF InitAccepts

-----------------------------------------------------------------------------
LEMMA InitInv == ASSUME Init PROVE IInv
<1>1. NoBorrow \in Borrow /\ NoBorrow.release = Null /\ NoBorrow.state \notin State
      /\ NoBorrow.fns # DirectFns
  BY BrokerAssumption DEF NoBorrow, Borrow
<1>2. \A s \in Slot : reader[s] = NoBorrow
  BY DEF Init
<1>3. TypeOK
  <2>1. calls \in Seq(Call) /\ DOMAIN calls = {}
    BY DEF Init
  <2> QED BY <1>1, <1>2, <2>1 DEF Init, TypeOK, Owned
<1>4. ExactlyOneOwner /\ CallbacksMatch
  BY <1>1, <1>2 DEF Init, ExactlyOneOwner, CallbacksMatch, Owned
<1>5. DirectInStorage
  <2>1. ASSUME NEW s \in Slot, reader[s].fns = DirectFns PROVE InStorage(reader[s].src)
    BY <1>1, <1>2, <2>1 DEF InStorage
  <2> QED BY <2>1 DEF DirectInStorage
<1> QED BY <1>3, <1>4, <1>5 DEF IInv

LEMMA NextInv == ASSUME IInv, [Next]_vars PROVE IInv'
<1> USE DEF IInv
<1>1. OwnersOK /\ CallsOK /\ DirectInStorage
      /\ registry \in [Class -> Fns \cup {Null}] /\ storage \subseteq Vec
  BY DEF TypeOK, OwnersOK, CallsOK
<1>2. SUFFICES /\ OwnersOK' /\ CallsOK' /\ DirectInStorage'
               /\ registry' \in [Class -> Fns \cup {Null}] /\ storage' \subseteq Vec
  BY DEF OwnersOK, CallsOK, TypeOK
<1>3. ASSUME UNCHANGED <<live, reader>> PROVE OwnersOK'
  BY <1>1, <1>3 DEF OwnersOK, ExactlyOneOwner, CallbacksMatch, Owned
<1>4. ASSUME UNCHANGED calls PROVE CallsOK'
  BY <1>1, <1>4 DEF CallsOK
<1>5. ASSUME UNCHANGED reader, storage \subseteq storage' PROVE DirectInStorage'
  BY <1>1, <1>5, InStorageGrows DEF DirectInStorage
<1>6. ASSUME NEW offer \in Offers, register_altrep(offer[1], offer[2])
      PROVE  registry' \in [Class -> Fns \cup {Null}]
  BY <1>1, <1>6, BrokerAssumption DEF register_altrep
<1>7. ASSUME NEW c \in Class, unregister_altrep(c)
      PROVE  registry' \in [Class -> Fns \cup {Null}]
  BY <1>1, <1>7 DEF unregister_altrep
<1>8. CASE \E offer \in Offers : register_altrep(offer[1], offer[2])
  BY <1>1, <1>3, <1>4, <1>5, <1>6, <1>8 DEF register_altrep
<1>9. CASE \E c \in Class : unregister_altrep(c)
  BY <1>1, <1>3, <1>4, <1>5, <1>7, <1>9 DEF unregister_altrep
<1>10. ASSUME NEW s \in Slot, NEW x \in Vec, Resolve(s, x)
       PROVE  /\ OwnersOK' /\ CallsOK' /\ DirectInStorage'
              /\ registry' \in [Class -> Fns \cup {Null}] /\ storage' \subseteq Vec
  <2>1. PICK at \in Vec \cup {NoVec} :
          IF at # NoVec /\ find_registered_altrep(at) # Null
          THEN CallInit(s, x, at)
          ELSE InstallDirect(s, x, at) /\ UNCHANGED <<registry, calls>>
    BY <1>10 DEF Resolve
  <2>2. ~ Pending(s)
    BY <1>10 DEF Resolve
  <2>3. CASE at # NoVec /\ find_registered_altrep(at) # Null
    <3>1. CallInit(s, x, at) /\ at \in Vec
      BY <2>1, <2>3
    <3>2. CallsOK'
      BY <2>2, <2>3, <3>1, CallInitKeeps
    <3> QED BY <1>1, <1>3, <1>5, <3>1, <3>2 DEF CallInit
  <2>4. CASE ~ (at # NoVec /\ find_registered_altrep(at) # Null)
    <3>1. InstallDirect(s, x, at) /\ UNCHANGED <<registry, calls>>
      BY <2>1, <2>4
    <3> QED BY <1>1, <1>4, <3>1, InstallDirectKeeps
  <2> QED BY <2>3, <2>4
<1>11. CASE InitAccepts
  <2>1. calls # << >> /\ Return /\ UNCHANGED <<registry, storage>>
    BY <1>11 DEF InitAccepts, Return
  <2>2. CallsOK' /\ Top.slot \in Slot
    BY <1>1, <2>1, ReturnKeeps DEF Call
  <2>3. PICK r \in Borrow, lv \in [State -> Fns \cup {Null}] :
          /\ Unowned(r, lv) \/ Fresh(r, lv)
          /\ Install(Top.slot, r, lv)
          /\ r.fns # DirectFns
    BY <1>11, AcceptedFit
  <2>4. PICK s \in Slot : s = Top.slot
    BY <2>2
  <2>5. Install(s, r, lv)
    BY <2>3, <2>4
  <2>6. OwnersOK'
    BY <1>1, <2>3, <2>5, InstallKeeps
  <2>7. \A t \in Slot : reader'[t].fns = DirectFns => reader'[t] = reader[t]
    BY <1>1, <2>3, <2>5 DEF Install, OwnersOK
  <2>8. DirectInStorage'
    BY <1>1, <2>1, <2>7, InStorageGrows DEF DirectInStorage
  <2> QED BY <1>1, <2>1, <2>2, <2>6, <2>8
<1>12. CASE InitDeclines
  <2>1. calls # << >> /\ Return /\ UNCHANGED registry /\ InstallDirect(Top.slot, Top.x, Top.at)
    BY <1>12 DEF InitDeclines, Return
  <2>2. CallsOK' /\ Top.slot \in Slot /\ Top.x \in Vec /\ Top.at \in Vec
    BY <1>1, <2>1, ReturnKeeps DEF Call
  <2>3. PICK s \in Slot, x \in Vec, at \in Vec : s = Top.slot /\ x = Top.x /\ at = Top.at
    BY <2>2
  <2>4. InstallDirect(s, x, at)
    BY <2>1, <2>3
  <2> QED BY <1>1, <2>1, <2>2, <2>4, InstallDirectKeeps
<1>13. CASE InitFails
  <2>1. calls # << >> /\ Return /\ UNCHANGED <<registry, storage, live, reader>>
    BY <1>13 DEF InitFails, Return
  <2>2. CallsOK'
    BY <1>1, <2>1, ReturnKeeps
  <2> QED BY <1>1, <1>3, <1>5, <2>1, <2>2
<1>14. ASSUME NEW s \in Slot, charport_reader_release(s)
       PROVE  /\ OwnersOK' /\ CallsOK' /\ DirectInStorage'
              /\ UNCHANGED <<registry, storage>>
  <2>1. OwnersOK' /\ CallsOK' /\ UNCHANGED <<registry, storage>>
    BY <1>1, <1>4, <1>14, ReleaseKeeps DEF charport_reader_release
  <2>2. \A t \in Slot : reader'[t].src = reader[t].src /\ reader'[t].fns = reader[t].fns
    BY <1>1, <1>14, DisownedType DEF charport_reader_release, OwnersOK
  <2> QED BY <1>1, <2>1, <2>2, InStorageGrows DEF DirectInStorage
<1>15. ASSUME NEW s \in Slot, NEW t \in Slot, Move(s, t)
       PROVE  /\ OwnersOK' /\ CallsOK' /\ DirectInStorage'
              /\ UNCHANGED <<registry, storage>>
  <2>1. OwnersOK' /\ CallsOK' /\ UNCHANGED <<registry, storage>>
    BY <1>1, <1>4, <1>15, MoveKeeps DEF Move
  <2>2. \A q \in Slot : \E p \in Slot :
          reader'[q].src = reader[p].src /\ reader'[q].fns = reader[p].fns
    BY <1>1, <1>15, DisownedType DEF Move, OwnersOK
  <2> QED BY <1>1, <2>1, <2>2, InStorageGrows DEF DirectInStorage
<1>16. CASE \E v \in Vec : Materialize(v)
  BY <1>1, <1>3, <1>4, <1>5, <1>16 DEF Materialize
<1>17. CASE UNCHANGED vars
  BY <1>1, <1>3, <1>4, <1>5, <1>17 DEF vars
<1> QED
  BY <1>1, <1>8, <1>9, <1>10, <1>11, <1>12, <1>13, <1>14, <1>15, <1>16, <1>17 DEF Next

THEOREM Invariance == Spec => []IInv
<1>1. Init => IInv
  BY InitInv
<1>2. IInv /\ [Next]_vars => IInv'
  BY NextInv
<1> QED BY <1>1, <1>2, PTL DEF Spec

(* Type correctness.                                                       *)
THEOREM TypeCorrect == Spec => []TypeOK
<1>1. IInv => TypeOK
  BY DEF IInv
<1> QED BY <1>1, Invariance, PTL

(* Every state init allocated is owned by one Reader until it is released, *)
(* so no sequence of resolutions, errors, moves, resets and releases leaks *)
(* a provider's state or releases it twice.                                *)
THEOREM StatesOwnedOnce == Spec => []ExactlyOneOwner
<1>1. IInv => ExactlyOneOwner
  BY DEF IInv
<1> QED BY <1>1, Invariance, PTL

(* A state meets only the callbacks of the registration that made it,      *)
(* whatever is registered or unregistered while init runs or afterwards.   *)
THEOREM StatesMeetTheirCallbacks == Spec => []CallbacksMatch
<1>1. IInv => CallbacksMatch
  BY DEF IInv
<1> QED BY <1>1, Invariance, PTL

(* The broker's own callbacks read only vectors that R stores.             *)
THEOREM DirectReadsStorage == Spec => []DirectInStorage
<1>1. IInv => DirectInStorage
  BY DEF IInv
<1> QED BY <1>1, Invariance, PTL

BorrowStays(s) ==
  reader'[s] = reader[s] /\ (Owned(s) => live'[reader[s].state] = live[reader[s].state])

LEMMA BorrowStep ==
  ASSUME IInv, [Next]_vars, NEW s \in Slot, Pending(s)' \/ (Pending(s) /\ InitFails)
  PROVE  BorrowStays(s)
<1>1. OwnersOK /\ CallsOK
  BY DEF IInv, TypeOK, OwnersOK, CallsOK
<1>2. ASSUME UNCHANGED <<live, reader>>
      PROVE  BorrowStays(s)
  BY <1>2 DEF BorrowStays
<1>3. CASE InitFails
  BY <1>2, <1>3 DEF InitFails
<1>4. CASE ~ InitFails
  <2>1. Pending(s)'
    BY <1>4
  <2>2. UNCHANGED calls => Pending(s)
    BY <2>1 DEF Pending
  <2>3. CASE \E offer \in Offers : register_altrep(offer[1], offer[2])
    BY <1>2, <2>3 DEF register_altrep
  <2>4. CASE \E c \in Class : unregister_altrep(c)
    BY <1>2, <2>4 DEF unregister_altrep
  <2>5. ASSUME NEW t \in Slot, NEW x \in Vec, Resolve(t, x)
        PROVE  BorrowStays(s)
    <3>1. PICK at \in Vec \cup {NoVec} :
            \/ CallInit(t, x, at)
            \/ InstallDirect(t, x, at) /\ UNCHANGED calls
      BY <2>5 DEF Resolve
    <3>2. CASE CallInit(t, x, at)
      BY <1>2, <3>2 DEF CallInit
    <3>3. CASE InstallDirect(t, x, at) /\ UNCHANGED calls
      <4>1. s # t
        BY <2>2, <2>5, <3>3 DEF Resolve
      <4>2. PICK r \in Borrow : Unowned(r, live) /\ Install(t, r, live)
        BY <3>3, InstallDirectKeeps
      <4> QED BY <1>1, <4>1, <4>2, InstallElsewhere DEF BorrowStays
    <3> QED BY <3>1, <3>2, <3>3
  <2>6. ASSUME InitAccepts \/ InitDeclines
        PROVE  BorrowStays(s)
    <3>1. calls # << >> /\ Return
      BY <2>6 DEF InitAccepts, InitDeclines
    <3>2. s # Top.slot /\ Top \in Call
      BY <1>1, <2>1, <3>1, ReturnPending, ReturnKeeps
    <3>3. PICK t \in Slot, x \in Vec, at \in Vec : t = Top.slot /\ x = Top.x /\ at = Top.at
      BY <3>2 DEF Call
    <3>4. PICK r \in Borrow, lv \in [State -> Fns \cup {Null}] :
            (Unowned(r, lv) \/ Fresh(r, lv)) /\ Install(t, r, lv)
      <4>1. CASE InitAccepts
        BY <3>3, <4>1, AcceptedFit
      <4>2. CASE InitDeclines
        <5>1. InstallDirect(t, x, at)
          BY <3>3, <4>2 DEF InitDeclines
        <5>2. live \in [State -> Fns \cup {Null}]
          BY <1>1 DEF OwnersOK
        <5> QED BY <5>1, <5>2, InstallDirectKeeps
      <4> QED BY <2>6, <4>1, <4>2
    <3> QED BY <1>1, <3>2, <3>3, <3>4, InstallElsewhere DEF BorrowStays
  <2>7. CASE \E t \in Slot : charport_reader_release(t)
    <3>1. PICK t \in Slot : charport_reader_release(t)
      BY <2>7
    <3>2. UNCHANGED calls /\ ~ Pending(t) /\ Install(t, disowned(reader[t]), live)
      BY <1>1, <3>1 DEF charport_reader_release, Install, OwnersOK
    <3>3. s # t
      BY <2>2, <3>2
    <3>4. disowned(reader[t]) \in Borrow /\ Unowned(disowned(reader[t]), live)
      BY <1>1, DisownedType DEF Unowned, OwnersOK
    <3> QED BY <1>1, <3>2, <3>3, <3>4, InstallElsewhere DEF BorrowStays
  <2>8. CASE \E p, t \in Slot : Move(p, t)
    <3>1. PICK p \in Slot, t \in Slot : Move(p, t)
      BY <2>8
    <3>2. s # p /\ s # t
      BY <2>2, <3>1 DEF Move
    <3>3. reader'[s] = reader[s]
      BY <1>1, <3>1, <3>2 DEF Move, OwnersOK
    <3>4. ASSUME Owned(s) PROVE live'[reader[s].state] = live[reader[s].state]
      <4>1. reader[s].state \in State /\ (Owned(t) => reader[t].state # reader[s].state)
        BY <1>1, <3>2, <3>4 DEF OwnersOK, ExactlyOneOwner
      <4> QED BY <1>1, <3>1, <4>1 DEF Move, release_owned, OwnersOK
    <3> QED BY <3>3, <3>4 DEF BorrowStays
  <2>9. CASE \E v \in Vec : Materialize(v)
    BY <1>2, <2>9 DEF Materialize
  <2>10. CASE UNCHANGED vars
    BY <1>2, <2>10 DEF vars
  <2> QED BY <1>4, <2>3, <2>4, <2>5, <2>6, <2>7, <2>8, <2>9, <2>10 DEF Next
<1> QED BY <1>3, <1>4

(* A slot keeps its borrow, and the borrow its state, while a resolution   *)
(* for the slot is in progress and when that resolution fails: nothing     *)
(* else that runs meanwhile, nested resolutions included, takes it away.   *)
THEOREM BorrowKept == Spec => ResetKeepsBorrow
<1>1. ASSUME IInv, [Next]_vars
      PROVE  [\A s \in Slot :
                Pending(s)' \/ (Pending(s) /\ InitFails) =>
                  reader'[s] = reader[s] /\ (Owned(s) => live'[reader[s].state] = live[reader[s].state])]_vars
  BY <1>1, BorrowStep DEF BorrowStays
<1> QED BY <1>1, Invariance, PTL DEF Spec, ResetKeepsBorrow

LEMMA StorageStep ==
  ASSUME IInv, [Next]_vars, NEW v \in storage' \ storage
  PROVE  \/ Materialize(v)
         \/ \E s \in Slot :
              Resolve(s, v) /\ (wrapped(v) = NoVec \/ ~ InStorage(wrapped(v)))
         \/ InitDeclines /\ Top.x = v /\ ~ InStorage(Top.at)
<1>1. CASE \E s \in Slot, x \in Vec : Resolve(s, x)
  <2>1. PICK s \in Slot, x \in Vec : Resolve(s, x)
    BY <1>1
  <2>2. InstallDirect(s, x, wrapped(x))
    BY <2>1 DEF Resolve, CallInit
  <2>3. v = x /\ (wrapped(x) = NoVec \/ ~ InStorage(wrapped(x)))
    BY <2>2 DEF InstallDirect
  <2> QED BY <2>1, <2>3
<1>2. CASE InitDeclines
  <2>1. calls # << >> /\ Return /\ InstallDirect(Top.slot, Top.x, Top.at)
    BY <1>2 DEF InitDeclines
  <2>2. Top.at # NoVec
    BY <2>1, ReturnKeeps, BrokerAssumption DEF IInv, TypeOK, CallsOK, Call
  <2> QED BY <1>2, <2>1, <2>2 DEF InstallDirect
<1>3. CASE \E u \in Vec : Materialize(u)
  <2>1. PICK u \in Vec : Materialize(u)
    BY <1>3
  <2>2. u = v
    BY <2>1 DEF Materialize
  <2> QED BY <2>1, <2>2
<1>4. CASE ~ (InitDeclines \/ (\E s \in Slot, x \in Vec : Resolve(s, x))
                           \/ \E u \in Vec : Materialize(u))
  <2>1. UNCHANGED storage
    BY <1>4 DEF Next, vars, register_altrep, unregister_altrep, InitAccepts,
                      InitFails, charport_reader_release, Move
  <2> QED BY <2>1
<1> QED BY <1>1, <1>2, <1>3, <1>4

(* Reading a vector materializes that vector or nothing.                   *)
THEOREM InnerVectorsLeftAlone == Spec => InnerLeftAlone
<1>1. ASSUME IInv, [Next]_vars
      PROVE  [\A v \in storage' \ storage :
                \/ Materialize(v)
                \/ \E s \in Slot :
                     Resolve(s, v) /\ (wrapped(v) = NoVec \/ ~ InStorage(wrapped(v)))
                \/ InitDeclines /\ Top.x = v /\ ~ InStorage(Top.at)]_vars
  BY <1>1, StorageStep
<1> QED BY <1>1, Invariance, PTL DEF Spec, InnerLeftAlone
=============================================================================
