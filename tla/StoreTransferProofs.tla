------------------------- MODULE StoreTransferProofs -------------------------
(***************************************************************************)
(* Theorems of module StoreTransfer, for every set of chains, addresses    *)
(* and pointers and every depth of nested calls.                           *)
(***************************************************************************)
EXTENDS StoreTransfer, SequenceTheorems, TLAPS

(* What the step a call is at says of its Store and its external pointer.  *)
PtrFits(p, step) ==
  /\ p.made /\ ~ p.held /\ ~ p.materialized
  /\ step # "register" => p.armed
  /\ p.addr # Null <=> step = "return"

FrameOK(f) ==
  /\ f \in Call
  /\ f.at # Null => mem[f.at] # Freed
  /\ f.step \in {"make", "register", "shell", "install"} => f.at # Null /\ mem[f.at] \in Chain
  /\ f.xp # Null <=> f.step \in {"register", "shell", "install", "return"}
  /\ f.step = "args" => f.route = "heap"
  /\ f.step \in {"args", "build"} /\ f.route = "heap" => f.at = Null
  /\ f.route \in Scoped => f.at # Null
  /\ f.xp # Null => PtrFits(ptr[f.xp], f.step)

PointerOK(p) ==
  /\ p \in Pointer
  /\ ~ p.made => p = NoPtr
  /\ p.materialized => p.addr = Null
  /\ p.addr # Null => p.armed /\ mem[p.addr] \in Chain
  /\ running /\ p.held /\ ~ p.materialized => p.addr # Null

(* No two owners have the same Store, and no two calls one pointer.        *)
Apart ==
  /\ \A i, j \in DOMAIN calls : i # j =>
       /\ calls[i].at # Null => calls[j].at # calls[i].at
       /\ calls[i].xp # Null => calls[j].xp # calls[i].xp
  /\ \A x, y \in Ptr : x # y /\ ptr[x].addr # Null => ptr[y].addr # ptr[x].addr
  /\ \A i \in DOMAIN calls : \A x \in Ptr : calls[i].at # Null => ptr[x].addr # calls[i].at

HasOwner(a) == (\E i \in DOMAIN calls : calls[i].at = a) \/ (\E x \in Ptr : ptr[x].addr = a)

(* No two Stores have the same slices, and lost ones are gone.             *)
ChainsOnce ==
  /\ \A a, b \in Addr : mem[a] = mem[b] /\ mem[a] \in Chain => a = b
  /\ \A a \in Addr : mem[a] \notin lost

IInv ==
  /\ mem \in [Addr -> Chain \cup {Empty, Freed}]
  /\ calls \in Seq(Call) /\ Len(calls) <= MaxCalls
  /\ \A i \in DOMAIN calls : FrameOK(calls[i])
  /\ ptr \in [Ptr -> Pointer]
  /\ \A x \in Ptr : PointerOK(ptr[x])
  /\ Apart
  /\ \A a \in Addr : mem[a] # Freed => HasOwner(a)
  /\ lost \subseteq Chain /\ ChainsOnce
  /\ running \in BOOLEAN /\ (~ running => calls = << >>)

-----------------------------------------------------------------------------
(* The stack of calls.                                                     *)
LEMMA TopReplaced ==
  ASSUME calls \in Seq(Call), calls # << >>, NEW f \in Call, Becomes(f)
  PROVE  /\ calls' \in Seq(Call) /\ Len(calls') = Len(calls)
         /\ DOMAIN calls' = DOMAIN calls /\ Len(calls) \in DOMAIN calls
         /\ calls'[Len(calls)] = f
         /\ \A i \in DOMAIN calls : i # Len(calls) => calls'[i] = calls[i]
BY DEF Becomes

LEMMA TopGone ==
  ASSUME calls \in Seq(Call), calls # << >>, Ends
  PROVE  /\ calls' \in Seq(Call) /\ Len(calls') = Len(calls) - 1
         /\ DOMAIN calls' = DOMAIN calls \ {Len(calls)} /\ Len(calls) \in DOMAIN calls
         /\ \A i \in DOMAIN calls' : calls'[i] = calls[i]
<1> DEFINE n == Len(calls)
<1>1. n \in Nat /\ n >= 1 /\ DOMAIN calls = 1 .. n
  OBVIOUS
<1>2. \A i \in 1 .. n-1 : calls[i] \in Call
  BY <1>1
<1>3. /\ SubSeq(calls, 1, n-1) \in Seq(Call)
      /\ Len(SubSeq(calls, 1, n-1)) = n-1
      /\ \A i \in 1 .. n-1 : SubSeq(calls, 1, n-1)[i] = calls[i]
  BY <1>1, <1>2, SubSeqProperties
<1> QED BY <1>1, <1>3 DEF Ends

LEMMA Pushed ==
  ASSUME calls \in Seq(Call), NEW f \in Call, calls' = Append(calls, f)
  PROVE  /\ calls' \in Seq(Call) /\ Len(calls') = Len(calls) + 1
         /\ DOMAIN calls' = DOMAIN calls \cup {Len(calls')} /\ Len(calls') \notin DOMAIN calls
         /\ calls'[Len(calls')] = f
         /\ \A i \in DOMAIN calls : calls'[i] = calls[i]
OBVIOUS

LEMMA InvMeans == ASSUME IInv PROVE TypeOK /\ OneOwner /\ VectorsComplete
<1> USE StoreTransferAssumption
<1>1. TypeOK
  BY DEF IInv, TypeOK, FrameOK, PointerOK
<1>2. OneOwner
  <2>1. ASSUME NEW i \in DOMAIN calls, calls[i].at # Null
        PROVE  /\ mem[calls[i].at] # Freed
               /\ \A j \in DOMAIN calls : calls[j].at = calls[i].at => j = i
    BY <2>1 DEF IInv, FrameOK, Apart
  <2>2. ASSUME NEW x \in Ptr, ptr[x].addr # Null
        PROVE  /\ mem[ptr[x].addr] # Freed
               /\ \A y \in Ptr : ptr[y].addr = ptr[x].addr => y = x
               /\ \A i \in DOMAIN calls : calls[i].at # ptr[x].addr
    BY <2>2 DEF IInv, PointerOK, Apart
  <2> QED BY <2>1, <2>2 DEF OneOwner, IInv, HasOwner
<1>3. VectorsComplete
  BY DEF IInv, PointerOK, Pointer, VectorsComplete, ChainsOnce
<1> QED BY <1>1, <1>2, <1>3

LEMMA InitInv == ASSUME Init PROVE IInv
<1>1. calls \in Seq(Call) /\ DOMAIN calls = {} /\ Len(calls) = 0
  BY DEF Init
<1>2. ptr \in [Ptr -> Pointer] /\ \A x \in Ptr : PointerOK(ptr[x])
  BY DEF Init, Pointer, NoPtr, PointerOK
<1>3. Apart /\ \A a \in Addr : mem[a] = Freed
  BY <1>1 DEF Init, Apart, NoPtr
<1>4. ChainsOnce
  BY StoreTransferAssumption DEF Init, ChainsOnce
<1> QED BY <1>1, <1>2, <1>3, <1>4, StoreTransferAssumption DEF IInv, Init

(* What a call or a pointer needs is kept by steps that leave its Store    *)
(* and its pointer alone.                                                  *)
LEMMA FrameKept ==
  ASSUME NEW f, FrameOK(f), f.at # Null => mem'[f.at] = mem[f.at],
         f.xp # Null => ptr'[f.xp] = ptr[f.xp]
  PROVE  FrameOK(f)'
BY DEF FrameOK, PtrFits

LEMMA PointerKept ==
  ASSUME NEW p, PointerOK(p), p.addr # Null => mem'[p.addr] = mem[p.addr],
         running' => running
  PROVE  PointerOK(p)'
BY DEF PointerOK

-----------------------------------------------------------------------------
(* The innermost call takes a step that moves no Store.                    *)
LEMMA TopSteps ==
  ASSUME IInv, calls # << >>, NEW f \in Call, Becomes(f), f.at = Top.at,
         UNCHANGED <<mem, lost, running>>, running,
         ptr' \in [Ptr -> Pointer],
         \A x \in Ptr : ptr'[x].addr = ptr[x].addr,
         \A x \in Ptr : x # f.xp /\ x # Top.xp => ptr'[x] = ptr[x],
         f.xp = Null \/ f.xp = Top.xp \/ \A i \in DOMAIN calls : calls[i].xp # f.xp,
         FrameOK(f)',
         \A x \in Ptr : PointerOK(ptr[x])'
  PROVE  IInv'
<1> DEFINE n == Len(calls)
<1>1. /\ calls' \in Seq(Call) /\ Len(calls') = n /\ DOMAIN calls' = DOMAIN calls
      /\ n \in DOMAIN calls /\ calls'[n] = f
      /\ \A i \in DOMAIN calls : i # n => calls'[i] = calls[i]
  BY TopReplaced DEF IInv
<1>2. \A i \in DOMAIN calls : calls'[i].at = calls[i].at
  BY <1>1 DEF Top
<1>3. ASSUME NEW i \in DOMAIN calls' PROVE FrameOK(calls[i])'
  <2>1. CASE i = n
    BY <1>1, <2>1
  <2>2. CASE i # n
    <3>1. PICK g \in Call : g = calls[i] /\ calls'[i] = g /\ FrameOK(g)
      BY <1>1, <1>3, <2>2 DEF IInv
    <3>2. g.xp # Null => g.xp # f.xp /\ g.xp # Top.xp /\ g.xp \in Ptr
      BY <1>1, <2>2, <3>1 DEF IInv, Apart, Top, Call
    <3>3. FrameOK(g)'
      BY <3>1, <3>2, FrameKept
    <3> QED BY <3>1, <3>3
  <2> QED BY <2>1, <2>2
<1>4. Apart'
  <2>1. ASSUME NEW i \in DOMAIN calls, NEW j \in DOMAIN calls, i # j, calls'[i].xp # Null
        PROVE  calls'[j].xp # calls'[i].xp
    <3>1. Top = calls[n] /\ (f.xp = Null \/ f.xp = calls[n].xp \/ \A k \in DOMAIN calls : calls[k].xp # f.xp)
      BY DEF Top
    <3>2. \A k, m \in DOMAIN calls : k # m /\ calls[k].xp # Null => calls[m].xp # calls[k].xp
      BY DEF IInv, Apart
    <3> QED BY <1>1, <2>1, <3>1, <3>2
  <2>2. \A i, j \in DOMAIN calls : i # j /\ calls'[i].at # Null => calls'[j].at # calls'[i].at
    BY <1>1, <1>2 DEF IInv, Apart
  <2>3. \A i \in DOMAIN calls : \A x \in Ptr : calls'[i].at # Null => ptr'[x].addr # calls'[i].at
    BY <1>2 DEF IInv, Apart
  <2>4. \A x, y \in Ptr : x # y /\ ptr'[x].addr # Null => ptr'[y].addr # ptr'[x].addr
    BY DEF IInv, Apart
  <2> QED BY <1>1, <2>1, <2>2, <2>3, <2>4 DEF Apart
<1>5. \A a \in Addr : HasOwner(a) => HasOwner(a)'
  BY <1>1, <1>2 DEF HasOwner
<1> QED BY <1>1, <1>3, <1>4, <1>5 DEF IInv, ChainsOnce

(* Memory that is free has no owner, so what is put there disturbs nobody. *)
LEMMA FreeUnused ==
  ASSUME IInv, NEW a \in FreeAddr
  PROVE  /\ a \in Addr /\ a # Null /\ mem[a] = Freed
         /\ \A i \in DOMAIN calls : calls[i].at # a
         /\ \A x \in Ptr : ptr[x].addr # a
BY StoreTransferAssumption DEF IInv, FreeAddr, FrameOK, PointerOK

LEMMA BeginInv == ASSUME IInv, NEW r \in Route, Begin(r) PROVE IInv'
<1> DEFINE n == Len(calls')
<1>1. PICK f \in Call :
        /\ calls' = Append(calls, f) /\ f.route = r /\ f.xp = Null
        /\ \/ r = "heap" /\ f.step = "args" /\ f.at = Null /\ mem' = mem
           \/ r # "heap" /\ f.step = "build" /\ f.at \in FreeAddr /\ mem' = [mem EXCEPT ![f.at] = Empty]
  <2>1. CASE r = "heap"
    <3> DEFINE g == [route |-> r, step |-> "args", at |-> Null, xp |-> Null]
    <3>1. g \in Call
      BY DEF Call, Step
    <3> QED BY <2>1, <3>1 DEF Begin
  <2>2. CASE r # "heap"
    <3>1. PICK a \in FreeAddr :
            /\ calls' = Append(calls, [route |-> r, step |-> "build", at |-> a, xp |-> Null])
            /\ mem'   = [mem EXCEPT ![a] = Empty]
      BY <2>2 DEF Begin
    <3> DEFINE g == [route |-> r, step |-> "build", at |-> a, xp |-> Null]
    <3>2. g \in Call
      BY DEF Call, Step, FreeAddr
    <3> QED BY <2>2, <3>1, <3>2
  <2> QED BY <2>1, <2>2
<1>2. UNCHANGED <<ptr, lost, running>> /\ running /\ Len(calls) < MaxCalls
  BY DEF Begin, MayRunR
<1>3. /\ calls' \in Seq(Call) /\ n = Len(calls) + 1
      /\ DOMAIN calls' = DOMAIN calls \cup {n} /\ n \notin DOMAIN calls
      /\ calls'[n] = f
      /\ \A i \in DOMAIN calls : calls'[i] = calls[i]
  BY <1>1, Pushed DEF IInv
<1>4. /\ mem' \in [Addr -> Chain \cup {Empty, Freed}]
      /\ \A a \in Addr : a # f.at => mem'[a] = mem[a]
      /\ f.at # Null => f.at \in FreeAddr /\ mem'[f.at] = Empty
  BY <1>1 DEF IInv, FreeAddr
<1>5. ASSUME f.at # Null
      PROVE  /\ f.at \in Addr /\ mem[f.at] = Freed
             /\ \A i \in DOMAIN calls : calls[i].at # f.at
             /\ \A x \in Ptr : ptr[x].addr # f.at
  BY <1>4, <1>5, FreeUnused
<1>6. ASSUME NEW i \in DOMAIN calls' PROVE FrameOK(calls[i])'
  <2>1. CASE i = n
    <3>1. /\ f.xp = Null /\ f.step \in {"args", "build"} /\ (f.route = "heap" <=> f.at = Null)
          /\ f.step = "args" => f.route = "heap"
          /\ f.at # Null => mem'[f.at] # Freed
      BY <1>1, <1>4, <1>5, StoreTransferAssumption DEF FreeAddr
    <3>2. FrameOK(f)'
      BY <3>1 DEF FrameOK, Scoped
    <3> QED BY <1>3, <2>1, <3>2
  <2>2. CASE i # n
    <3>1. PICK g \in Call : g = calls[i] /\ calls'[i] = g /\ FrameOK(g) /\ (f.at # Null => g.at # f.at)
      BY <1>3, <1>5, <1>6, <2>2 DEF IInv
    <3>2. g.at # Null => mem'[g.at] = mem[g.at]
      BY <1>4, <3>1 DEF Call
    <3>3. FrameOK(g)'
      BY <1>2, <3>1, <3>2, FrameKept
    <3> QED BY <3>1, <3>3
  <2> QED BY <2>1, <2>2
<1>7. ASSUME NEW x \in Ptr PROVE PointerOK(ptr[x])'
  <2>1. PICK p \in Pointer : p = ptr[x] /\ ptr'[x] = p /\ PointerOK(p) /\ (f.at # Null => p.addr # f.at)
    BY <1>2, <1>5 DEF IInv
  <2>2. p.addr # Null => mem'[p.addr] = mem[p.addr]
    BY <1>4, <2>1 DEF Pointer
  <2>3. PointerOK(p)'
    BY <1>2, <2>1, <2>2, PointerKept
  <2> QED BY <2>1, <2>3
<1>8. Apart'
  <2>1. ASSUME NEW i \in DOMAIN calls', NEW j \in DOMAIN calls', i # j
        PROVE  /\ calls'[i].at # Null => calls'[j].at # calls'[i].at
               /\ calls'[i].xp # Null => calls'[j].xp # calls'[i].xp
    BY <1>1, <1>3, <1>5, <2>1 DEF IInv, Apart
  <2>2. ASSUME NEW i \in DOMAIN calls', NEW x \in Ptr, calls'[i].at # Null
        PROVE  ptr'[x].addr # calls'[i].at
    BY <1>2, <1>3, <1>5, <2>2 DEF IInv, Apart
  <2>3. \A x, y \in Ptr : x # y /\ ptr'[x].addr # Null => ptr'[y].addr # ptr'[x].addr
    BY <1>2 DEF IInv, Apart
  <2> QED BY <2>1, <2>2, <2>3 DEF Apart
<1>9. ASSUME NEW a \in Addr, mem'[a] # Freed PROVE HasOwner(a)'
  BY <1>2, <1>3, <1>4, <1>9 DEF IInv, HasOwner
<1>10. ChainsOnce'
  <2>1. \A a \in Addr : mem'[a] = mem[a] \/ mem'[a] = Empty
    BY <1>4, StoreTransferAssumption
  <2> QED BY <1>2, <2>1, StoreTransferAssumption DEF IInv, ChainsOnce
<1>11. Len(calls') <= MaxCalls
  BY <1>2, <1>3, StoreTransferAssumption DEF IInv
<1> QED BY <1>2, <1>3, <1>4, <1>6, <1>7, <1>8, <1>9, <1>10, <1>11 DEF IInv

(* The innermost call as the invariant knows it.                           *)
LEMMA TopOK ==
  ASSUME IInv, calls # << >>
  PROVE  /\ Len(calls) \in DOMAIN calls /\ Top = calls[Len(calls)]
         /\ Top \in Call /\ FrameOK(Top)
         /\ Top.at # Null => Top.at \in Addr
         /\ Top.xp # Null => Top.xp \in Ptr /\ PtrFits(ptr[Top.xp], Top.step)
         /\ \A i \in DOMAIN calls : i # Len(calls) =>
              /\ Top.at # Null => calls[i].at # Top.at
              /\ Top.xp # Null => calls[i].xp # Top.xp
         /\ \A x \in Ptr : Top.at # Null => ptr[x].addr # Top.at
<1>1. Len(calls) \in DOMAIN calls /\ Top = calls[Len(calls)]
  BY DEF IInv, Top
<1>2. PICK g \in Call : g = Top /\ FrameOK(g)
  BY <1>1 DEF IInv, Top
<1>3. g.at # Null => g.at \in Addr
  BY DEF Call
<1>4. g.xp # Null => g.xp \in Ptr /\ PtrFits(ptr[g.xp], g.step)
  BY <1>2 DEF FrameOK, Call
<1> QED BY <1>1, <1>2, <1>3, <1>4 DEF IInv, Apart

(* The innermost call ends, and its Store with it.                         *)
LEMMA TopEnds ==
  ASSUME IInv, calls # << >>, Ends, mem' = Deleted(Top.at),
         UNCHANGED running,
         lost' = lost \/ (Top.at # Null /\ mem[Top.at] \in Chain /\ lost' = lost \cup {mem[Top.at]}),
         ptr' \in [Ptr -> Pointer],
         \A x \in Ptr : ptr'[x].addr = ptr[x].addr,
         \A x \in Ptr : x # Top.xp => ptr'[x] = ptr[x],
         \A x \in Ptr : x = Top.xp => PointerOK(ptr[x])'
  PROVE  IInv'
<1> DEFINE n == Len(calls)
<1>1. /\ calls' \in Seq(Call) /\ Len(calls') = n - 1
      /\ DOMAIN calls' = DOMAIN calls \ {n} /\ n \in DOMAIN calls
      /\ \A i \in DOMAIN calls' : calls'[i] = calls[i]
  BY TopGone DEF IInv
<1>2. /\ \A a \in Addr : mem'[a] = IF a = Top.at THEN Freed ELSE mem[a]
      /\ mem' \in [Addr -> Chain \cup {Empty, Freed}]
  BY DEF Deleted, IInv
<1>3. ASSUME NEW i \in DOMAIN calls' PROVE FrameOK(calls[i])'
  <2>1. PICK g \in Call : g = calls[i] /\ calls'[i] = g /\ FrameOK(g)
    BY <1>1, <1>3 DEF IInv
  <2>2. /\ g.at # Null => g.at \in Addr /\ g.at # Top.at
        /\ g.xp # Null => g.xp \in Ptr /\ g.xp # Top.xp
    BY <1>1, <1>3, <2>1 DEF IInv, Apart, Top, Call
  <2>3. FrameOK(g)'
    BY <1>2, <2>1, <2>2, FrameKept
  <2> QED BY <2>1, <2>3
<1>4. ASSUME NEW x \in Ptr PROVE PointerOK(ptr[x])'
  <2>1. CASE x = Top.xp
    BY <2>1
  <2>2. CASE x # Top.xp
    <3>1. PICK p \in Pointer : p = ptr[x] /\ ptr'[x] = p /\ PointerOK(p)
      BY <2>2 DEF IInv
    <3>2. p.addr # Null => p.addr \in Addr /\ p.addr # Top.at
      BY <3>1, TopOK DEF Pointer
    <3>3. PointerOK(p)'
      BY <1>2, <3>1, <3>2, PointerKept
    <3> QED BY <3>1, <3>3
  <2> QED BY <2>1, <2>2
<1>5. Apart'
  <2>1. \A i, j \in DOMAIN calls' : i # j =>
          /\ calls'[i].at # Null => calls'[j].at # calls'[i].at
          /\ calls'[i].xp # Null => calls'[j].xp # calls'[i].xp
    BY <1>1 DEF IInv, Apart
  <2>2. \A i \in DOMAIN calls' : \A x \in Ptr : calls'[i].at # Null => ptr'[x].addr # calls'[i].at
    BY <1>1 DEF IInv, Apart
  <2>3. \A x, y \in Ptr : x # y /\ ptr'[x].addr # Null => ptr'[y].addr # ptr'[x].addr
    BY DEF IInv, Apart
  <2> QED BY <2>1, <2>2, <2>3 DEF Apart
<1>6. ASSUME NEW a \in Addr, mem'[a] # Freed PROVE HasOwner(a)'
  <2>1. a # Top.at /\ HasOwner(a)
    BY <1>2, <1>6 DEF IInv
  <2>2. CASE \E i \in DOMAIN calls : calls[i].at = a
    BY <1>1, <2>1, <2>2 DEF HasOwner, Top
  <2>3. CASE \E x \in Ptr : ptr[x].addr = a
    BY <2>3 DEF HasOwner
  <2> QED BY <2>1, <2>2, <2>3 DEF HasOwner
<1>7. lost' \subseteq Chain /\ ChainsOnce'
  <2>1. \A a \in Addr : (mem'[a] = mem[a] /\ a # Top.at) \/ mem'[a] \notin Chain
    BY <1>2, StoreTransferAssumption
  <2>2. lost' \subseteq Chain
    BY DEF IInv
  <2>3. \A a, b \in Addr : mem'[a] = mem'[b] /\ mem'[a] \in Chain => a = b
    BY <2>1 DEF IInv, ChainsOnce
  <2>4. \A a \in Addr : mem'[a] \notin lost'
    <3> SUFFICES ASSUME NEW a \in Addr, mem'[a] \in lost' PROVE FALSE
      OBVIOUS
    <3>1. mem'[a] = mem[a] /\ a # Top.at /\ mem[a] \in Chain /\ mem[a] \notin lost
      BY <2>1, <2>2 DEF IInv, ChainsOnce
    <3>2. Top.at # Null /\ mem[a] = mem[Top.at]
      BY <3>1
    <3> QED BY <3>1, <3>2, TopOK DEF IInv, ChainsOnce
  <2> QED BY <2>2, <2>3, <2>4 DEF ChainsOnce
<1>8. Len(calls') <= MaxCalls /\ (~ running' => calls' = << >>)
  BY <1>1, StoreTransferAssumption DEF IInv
<1> QED BY <1>1, <1>2, <1>3, <1>4, <1>5, <1>6, <1>7, <1>8 DEF IInv

-----------------------------------------------------------------------------
(* The steps of the innermost call.                                        *)
LEMMA ArgsInv == ASSUME IInv, Args \/ Retry \/ Shell PROVE IInv'
<1>1. PICK s \in Step : Becomes([Top EXCEPT !.step = s]) /\ <<Top.step, s>> \in
        {<<"args", "build">>, <<"build", "make">>, <<"shell", "install">>}
        /\ (s = "make" => Top.at # Null /\ mem[Top.at] \in Chain)
  BY DEF Args, Retry, Shell, At, Step
<1>2. calls # << >> /\ running /\ UNCHANGED <<mem, ptr, lost, running>>
  BY DEF Args, Retry, Shell, At
<1>3. PICK g \in Call : g = Top /\ FrameOK(g) /\ (g.xp # Null => PtrFits(ptr[g.xp], g.step))
  BY <1>2, TopOK
<1> DEFINE f == [g EXCEPT !.step = s]
<1>4. /\ f \in Call /\ f.at = g.at /\ f.xp = g.xp /\ f.step = s /\ f.route = g.route
      /\ g.step # "register" /\ f.step # "register" /\ f.step # "return" /\ g.step # "return"
  BY <1>1, <1>3 DEF Call
<1>5. Becomes(f)
  BY <1>1, <1>3
<1> HIDE DEF f
<1>6. FrameOK(f)'
  BY <1>1, <1>2, <1>3, <1>4 DEF FrameOK, PtrFits
<1>7. \A x \in Ptr : PointerOK(ptr[x])'
  BY <1>2 DEF IInv, PointerOK
<1>8. ptr' \in [Ptr -> Pointer]
  BY <1>2 DEF IInv
<1> QED BY <1>2, <1>3, <1>4, <1>5, <1>6, <1>7, <1>8, TopSteps

LEMMA MakePtrInv == ASSUME IInv, NEW x \in Ptr, MakePtr(x) PROVE IInv'
<1>1. /\ calls # << >> /\ running /\ Top.step = "make" /\ ~ ptr[x].made
      /\ UNCHANGED <<mem, lost, running>>
  BY DEF MakePtr, At
<1>2. PICK g \in Call : g = Top /\ FrameOK(g)
  BY <1>1, TopOK
<1> DEFINE f == [g EXCEPT !.step = "register", !.xp = x]
           p == [NoPtr EXCEPT !.made = TRUE]
<1>3. f \in Call /\ f.at = g.at /\ f.xp = x /\ f.step = "register" /\ f.route = g.route
  BY DEF Call, Step
<1>4. /\ p \in Pointer /\ p.made /\ ~ p.held /\ ~ p.materialized /\ p.addr = Null /\ p.addr = NoPtr.addr
  BY DEF NoPtr, Pointer
<1>5. Becomes(f) /\ ptr' = [ptr EXCEPT ![x] = p]
  BY <1>2 DEF MakePtr
<1> HIDE DEF f, p
<1>6. ptr[x] = NoPtr /\ ptr \in [Ptr -> Pointer]
  BY <1>1 DEF IInv, PointerOK
<1>7. /\ ptr' \in [Ptr -> Pointer] /\ ptr'[x] = p
      /\ \A y \in Ptr : y # x => ptr'[y] = ptr[y]
      /\ \A y \in Ptr : ptr'[y].addr = ptr[y].addr
  BY <1>4, <1>5, <1>6
<1>8. \A i \in DOMAIN calls : calls[i].xp # x
  BY <1>1, StoreTransferAssumption DEF IInv, FrameOK, PtrFits
<1>9. FrameOK(f)'
  BY <1>1, <1>2, <1>3, <1>4, <1>7, StoreTransferAssumption DEF FrameOK, PtrFits
<1>10. ASSUME NEW y \in Ptr PROVE PointerOK(ptr[y])'
  <2>1. CASE y = x
    <3>1. PointerOK(p)'
      BY <1>4 DEF PointerOK
    <3> QED BY <1>7, <2>1, <3>1
  <2>2. CASE y # x
    BY <1>1, <1>7, <2>2 DEF IInv, PointerOK
  <2> QED BY <2>1, <2>2
<1> QED BY <1>1, <1>2, <1>3, <1>5, <1>7, <1>8, <1>9, <1>10, TopSteps

LEMMA RegisterInv == ASSUME IInv, Register PROVE IInv'
<1>1. /\ calls # << >> /\ running /\ Top.step = "register"
      /\ UNCHANGED <<mem, lost, running>>
  BY DEF Register, At
<1>2. PICK g \in Call : g = Top /\ FrameOK(g)
  BY <1>1, TopOK
<1>3. PICK x \in Ptr : x = g.xp /\ x # Null /\ PtrFits(ptr[x], "register")
  BY <1>1, <1>2, TopOK, StoreTransferAssumption DEF FrameOK
<1> DEFINE f == [g EXCEPT !.step = "shell"]
<1> PICK p : p = [ptr[x] EXCEPT !.armed = TRUE]
  OBVIOUS
<1>4. f \in Call /\ f.at = g.at /\ f.xp = x /\ f.step = "shell" /\ f.route = g.route
  BY <1>3 DEF Call, Step
<1>5. ptr[x] \in Pointer /\ ptr \in [Ptr -> Pointer]
  BY DEF IInv
<1>6. /\ p \in Pointer /\ p.made /\ ~ p.held /\ ~ p.materialized /\ p.addr = Null
      /\ p.armed /\ ptr[x].addr = Null
  BY <1>3, <1>5 DEF Pointer, PtrFits
<1>7. Becomes(f) /\ ptr' = [ptr EXCEPT ![x] = p]
  BY <1>2, <1>3 DEF Register
<1> HIDE DEF f
<1>8. /\ ptr' \in [Ptr -> Pointer] /\ ptr'[x] = p
      /\ \A y \in Ptr : y # x => ptr'[y] = ptr[y]
      /\ \A y \in Ptr : ptr'[y].addr = ptr[y].addr
  BY <1>5, <1>6, <1>7
<1>9. FrameOK(f)'
  BY <1>1, <1>2, <1>3, <1>4, <1>6, <1>8 DEF FrameOK, PtrFits
<1>10. ASSUME NEW y \in Ptr PROVE PointerOK(ptr[y])'
  <2>1. CASE y = x
    <3>1. PointerOK(p)'
      BY <1>6 DEF PointerOK
    <3> QED BY <1>8, <2>1, <3>1
  <2>2. CASE y # x
    BY <1>1, <1>8, <2>2 DEF IInv, PointerOK
  <2> QED BY <2>1, <2>2
<1> QED BY <1>1, <1>2, <1>3, <1>4, <1>7, <1>8, <1>9, <1>10, TopSteps

LEMMA BuildInv == ASSUME IInv, NEW c \in Chain, Build(c) PROVE IInv'
<1> DEFINE n == Len(calls)
<1>1. /\ calls # << >> /\ running /\ Top.step = "build" /\ c \in FreeChain
      /\ UNCHANGED <<ptr, lost, running>>
  BY DEF Build, At
<1>2. PICK g \in Call : /\ g = Top /\ FrameOK(g) /\ g.xp = Null /\ n \in DOMAIN calls /\ g = calls[n]
                        /\ g.at # Null => g.at \in Addr
                        /\ \A i \in DOMAIN calls : i # n /\ g.at # Null => calls[i].at # g.at
                        /\ \A x \in Ptr : g.at # Null => ptr[x].addr # g.at
  BY <1>1, TopOK DEF FrameOK
<1>3. PICK a \in IF Top.at = Null THEN FreeAddr ELSE {Top.at} :
        /\ Becomes([Top EXCEPT !.step = "make", !.at = a])
        /\ mem' = [mem EXCEPT ![a] = c]
  BY DEF Build
<1>4. /\ a \in Addr /\ a # Null
      /\ g.at = Null => mem[a] = Freed
      /\ g.at # Null => a = g.at
      /\ \A i \in DOMAIN calls : i # n => calls[i].at # a
      /\ \A x \in Ptr : ptr[x].addr # a
  BY <1>2, <1>3, FreeUnused, StoreTransferAssumption
<1> DEFINE f == [g EXCEPT !.step = "make", !.at = a]
<1>5. f \in Call /\ f.at = a /\ f.xp = Null /\ f.step = "make" /\ f.route = g.route
  BY <1>2, <1>4 DEF Call, Step
<1>6. Becomes(f)
  BY <1>2, <1>3
<1> HIDE DEF f
<1>7. /\ calls' \in Seq(Call) /\ Len(calls') = n /\ DOMAIN calls' = DOMAIN calls
      /\ calls'[n] = f /\ \A i \in DOMAIN calls : i # n => calls'[i] = calls[i]
  BY <1>1, <1>5, <1>6, TopReplaced DEF IInv
<1>8. /\ mem' \in [Addr -> Chain \cup {Empty, Freed}] /\ mem'[a] = c
      /\ \A b \in Addr : b # a => mem'[b] = mem[b]
  BY <1>3, <1>4 DEF IInv
<1>9. ASSUME NEW i \in DOMAIN calls' PROVE FrameOK(calls[i])'
  <2>1. CASE i = n
    <3>1. FrameOK(f)'
      BY <1>2, <1>4, <1>5, <1>8, StoreTransferAssumption DEF FrameOK
    <3> QED BY <1>7, <2>1, <3>1
  <2>2. CASE i # n
    <3>1. PICK h \in Call : h = calls[i] /\ calls'[i] = h /\ FrameOK(h) /\ h.at # a
      BY <1>4, <1>7, <1>9, <2>2 DEF IInv
    <3>2. h.at # Null => mem'[h.at] = mem[h.at]
      BY <1>8, <3>1 DEF Call
    <3>3. FrameOK(h)'
      BY <1>1, <3>1, <3>2, FrameKept
    <3> QED BY <3>1, <3>3
  <2> QED BY <2>1, <2>2
<1>10. ASSUME NEW x \in Ptr PROVE PointerOK(ptr[x])'
  <2>1. PICK p \in Pointer : p = ptr[x] /\ ptr'[x] = p /\ PointerOK(p) /\ p.addr # a
    BY <1>1, <1>4 DEF IInv
  <2>2. p.addr # Null => mem'[p.addr] = mem[p.addr]
    BY <1>8, <2>1 DEF Pointer
  <2>3. PointerOK(p)'
    BY <1>1, <2>1, <2>2, PointerKept
  <2> QED BY <2>1, <2>3
<1>11. Apart'
  <2>1. ASSUME NEW i \in DOMAIN calls, NEW j \in DOMAIN calls, i # j
        PROVE  /\ calls'[i].at # Null => calls'[j].at # calls'[i].at
               /\ calls'[i].xp # Null => calls'[j].xp # calls'[i].xp
    BY <1>4, <1>5, <1>7, <2>1, StoreTransferAssumption DEF IInv, Apart
  <2>2. \A i \in DOMAIN calls : \A x \in Ptr : calls'[i].at # Null => ptr'[x].addr # calls'[i].at
    BY <1>1, <1>4, <1>5, <1>7 DEF IInv, Apart
  <2>3. \A x, y \in Ptr : x # y /\ ptr'[x].addr # Null => ptr'[y].addr # ptr'[x].addr
    BY <1>1 DEF IInv, Apart
  <2> QED BY <1>7, <2>1, <2>2, <2>3 DEF Apart
<1>12. ASSUME NEW b \in Addr, mem'[b] # Freed PROVE HasOwner(b)'
  <2>1. CASE b = a
    BY <1>2, <1>5, <1>7, <2>1 DEF HasOwner
  <2>2. CASE b # a
    BY <1>1, <1>2, <1>4, <1>7, <1>8, <1>12, <2>2, StoreTransferAssumption DEF HasOwner, IInv
  <2> QED BY <2>1, <2>2
<1>13. ChainsOnce'
  <2>1. c \notin lost /\ \A b \in Addr : mem[b] # c
    BY <1>1 DEF FreeChain
  <2> QED BY <1>1, <1>4, <1>8, <2>1 DEF IInv, ChainsOnce
<1> QED BY <1>1, <1>7, <1>8, <1>9, <1>10, <1>11, <1>12, <1>13 DEF IInv

LEMMA InstallPendingInv == ASSUME IInv, InstallPending PROVE IInv'
<1> DEFINE n == Len(calls)
<1>1. /\ calls # << >> /\ running /\ Top.step = "install" /\ Top.route = "heap"
      /\ UNCHANGED <<mem, lost, running>>
  BY DEF InstallPending, At
<1>2. PICK g \in Call : /\ g = Top /\ FrameOK(g) /\ n \in DOMAIN calls /\ g = calls[n]
                        /\ g.at \in Addr /\ g.at # Null /\ mem[g.at] \in Chain
                        /\ \A i \in DOMAIN calls : i # n => calls[i].at # g.at
                        /\ \A x \in Ptr : ptr[x].addr # g.at
  BY <1>1, TopOK DEF FrameOK
<1>3. PICK x \in Ptr : /\ x = g.xp /\ x # Null /\ PtrFits(ptr[x], "install")
                       /\ \A i \in DOMAIN calls : i # n => calls[i].xp # x
  BY <1>1, <1>2, TopOK, StoreTransferAssumption DEF FrameOK
<1> DEFINE f == [g EXCEPT !.step = "return", !.at = Null]
<1> PICK p : p = [ptr[x] EXCEPT !.addr = g.at]
  OBVIOUS
<1>4. f \in Call /\ f.at = Null /\ f.xp = x /\ f.step = "return" /\ f.route = "heap"
  BY <1>1, <1>2, <1>3 DEF Call, Step
<1>5. ptr[x] \in Pointer /\ ptr \in [Ptr -> Pointer]
  BY DEF IInv
<1>6. /\ p \in Pointer /\ p.made /\ ~ p.held /\ ~ p.materialized /\ p.addr = g.at
      /\ p.armed
  BY <1>2, <1>3, <1>5 DEF Pointer, PtrFits
<1>7. Becomes(f) /\ ptr' = [ptr EXCEPT ![x] = p]
  BY <1>2, <1>3 DEF InstallPending, handed_over
<1> HIDE DEF f
<1>8. /\ ptr' \in [Ptr -> Pointer] /\ ptr'[x] = p
      /\ \A y \in Ptr : y # x => ptr'[y] = ptr[y]
  BY <1>5, <1>6, <1>7
<1>9. /\ calls' \in Seq(Call) /\ Len(calls') = n /\ DOMAIN calls' = DOMAIN calls
      /\ calls'[n] = f /\ \A i \in DOMAIN calls : i # n => calls'[i] = calls[i]
  BY <1>1, <1>4, <1>7, TopReplaced DEF IInv
<1>10. ASSUME NEW i \in DOMAIN calls' PROVE FrameOK(calls[i])'
  <2>1. CASE i = n
    <3>1. FrameOK(f)'
      BY <1>2, <1>3, <1>4, <1>6, <1>8 DEF FrameOK, PtrFits, Scoped
    <3> QED BY <1>9, <2>1, <3>1
  <2>2. CASE i # n
    <3>1. PICK h \in Call : h = calls[i] /\ calls'[i] = h /\ FrameOK(h) /\ h.xp # x
      BY <1>3, <1>9, <1>10, <2>2 DEF IInv
    <3>2. h.xp # Null => ptr'[h.xp] = ptr[h.xp]
      BY <1>8, <3>1 DEF Call
    <3>3. FrameOK(h)'
      BY <1>1, <3>1, <3>2, FrameKept
    <3> QED BY <3>1, <3>3
  <2> QED BY <2>1, <2>2
<1>11. ASSUME NEW y \in Ptr PROVE PointerOK(ptr[y])'
  <2>1. CASE y = x
    <3>1. PointerOK(p)'
      BY <1>1, <1>2, <1>6 DEF PointerOK
    <3> QED BY <1>8, <2>1, <3>1
  <2>2. CASE y # x
    BY <1>1, <1>8, <2>2 DEF IInv, PointerOK
  <2> QED BY <2>1, <2>2
<1>12. Apart'
  <2>1. ASSUME NEW i \in DOMAIN calls, NEW j \in DOMAIN calls, i # j
        PROVE  /\ calls'[i].at # Null => calls'[j].at # calls'[i].at
               /\ calls'[i].xp # Null => calls'[j].xp # calls'[i].xp
    BY <1>2, <1>3, <1>4, <1>9, <2>1 DEF IInv, Apart
  <2>2. ASSUME NEW i \in DOMAIN calls, NEW y \in Ptr, calls'[i].at # Null
        PROVE  ptr'[y].addr # calls'[i].at
    <3>1. i # n /\ calls'[i].at = calls[i].at
      BY <1>4, <1>9, <2>2
    <3>2. CASE y = x
      BY <1>2, <1>6, <1>8, <3>1, <3>2
    <3>3. CASE y # x
      BY <1>8, <2>2, <3>1, <3>3 DEF IInv, Apart
    <3> QED BY <3>2, <3>3
  <2>3. ASSUME NEW y \in Ptr, NEW z \in Ptr, y # z, ptr'[y].addr # Null
        PROVE  ptr'[z].addr # ptr'[y].addr
    <3>1. ptr'[x].addr = g.at /\ ptr[y].addr # g.at /\ ptr[z].addr # g.at
      BY <1>2, <1>6, <1>8
    <3>2. \A v, w \in Ptr : v # w /\ ptr[v].addr # Null => ptr[w].addr # ptr[v].addr
      BY DEF IInv, Apart
    <3>3. CASE y # x /\ z # x
      BY <1>8, <2>3, <3>2, <3>3
    <3> QED BY <1>8, <2>3, <3>1, <3>3
  <2> QED BY <1>9, <2>1, <2>2, <2>3 DEF Apart
<1>13. ASSUME NEW b \in Addr, mem'[b] # Freed PROVE HasOwner(b)'
  <2>1. CASE b = g.at
    BY <1>6, <1>8, <2>1 DEF HasOwner
  <2>2. CASE \E i \in DOMAIN calls : i # n /\ calls[i].at = b
    BY <1>9, <2>2 DEF HasOwner
  <2>3. CASE b # g.at /\ \E y \in Ptr : ptr[y].addr = b
    <3>1. PICK y \in Ptr : ptr[y].addr = b
      BY <2>3
    <3>2. y # x
      BY <1>3, <3>1, StoreTransferAssumption DEF PtrFits
    <3> QED BY <1>8, <3>1, <3>2 DEF HasOwner
  <2> QED BY <1>1, <1>2, <1>13, <2>1, <2>2, <2>3 DEF HasOwner, IInv
<1> QED BY <1>1, <1>8, <1>9, <1>10, <1>11, <1>12, <1>13 DEF IInv, ChainsOnce

LEMMA InstallMovedInv == ASSUME IInv, InstallMoved PROVE IInv'
<1> DEFINE n == Len(calls)
<1>1. /\ calls # << >> /\ running /\ Top.step = "install" /\ Top.route # "heap"
      /\ UNCHANGED <<lost, running>>
  BY DEF InstallMoved, At
<1>2. PICK g \in Call : /\ g = Top /\ FrameOK(g) /\ n \in DOMAIN calls /\ g = calls[n]
                        /\ g.at \in Addr /\ g.at # Null /\ mem[g.at] \in Chain
                        /\ \A i \in DOMAIN calls : i # n => calls[i].at # g.at
                        /\ \A x \in Ptr : ptr[x].addr # g.at
  BY <1>1, TopOK DEF FrameOK
<1>3. PICK x \in Ptr : /\ x = g.xp /\ x # Null /\ PtrFits(ptr[x], "install")
                       /\ \A i \in DOMAIN calls : i # n => calls[i].xp # x
  BY <1>1, <1>2, TopOK, StoreTransferAssumption DEF FrameOK
<1>4. PICK b \in FreeAddr : /\ mem' = [mem EXCEPT ![b] = mem[g.at], ![g.at] = Empty]
                            /\ ptr' = [ptr EXCEPT ![x].addr = b]
  BY <1>2, <1>3 DEF InstallMoved, move_contents
<1>5. /\ b \in Addr /\ b # Null /\ mem[b] = Freed /\ b # g.at
      /\ \A i \in DOMAIN calls : calls[i].at # b
      /\ \A y \in Ptr : ptr[y].addr # b
  BY <1>2, FreeUnused
<1> DEFINE f == [g EXCEPT !.step = "return"]
<1> PICK p : p = [ptr[x] EXCEPT !.addr = b]
  OBVIOUS
<1>6. f \in Call /\ f.at = g.at /\ f.xp = x /\ f.step = "return" /\ f.route = g.route
  BY <1>3 DEF Call, Step
<1>7. ptr[x] \in Pointer /\ ptr \in [Ptr -> Pointer]
  BY DEF IInv
<1>8. /\ p \in Pointer /\ p.made /\ ~ p.held /\ ~ p.materialized /\ p.addr = b
      /\ p.armed
  BY <1>3, <1>5, <1>7 DEF Pointer, PtrFits
<1>9. Becomes(f) /\ ptr' = [ptr EXCEPT ![x] = p]
  BY <1>2, <1>4 DEF InstallMoved
<1> HIDE DEF f
<1>10. /\ ptr' \in [Ptr -> Pointer] /\ ptr'[x] = p
       /\ \A y \in Ptr : y # x => ptr'[y] = ptr[y]
  BY <1>7, <1>8, <1>9
<1>11. /\ calls' \in Seq(Call) /\ Len(calls') = n /\ DOMAIN calls' = DOMAIN calls
       /\ calls'[n] = f /\ \A i \in DOMAIN calls : i # n => calls'[i] = calls[i]
  BY <1>1, <1>6, <1>9, TopReplaced DEF IInv
<1>12. /\ mem' \in [Addr -> Chain \cup {Empty, Freed}] /\ mem'[b] = mem[g.at] /\ mem'[g.at] = Empty
       /\ \A d \in Addr : d # b /\ d # g.at => mem'[d] = mem[d]
  BY <1>2, <1>4, <1>5 DEF IInv
<1>13. ASSUME NEW i \in DOMAIN calls' PROVE FrameOK(calls[i])'
  <2>1. CASE i = n
    <3>1. FrameOK(f)'
      BY <1>1, <1>2, <1>3, <1>5, <1>6, <1>8, <1>10, <1>12, StoreTransferAssumption DEF FrameOK, PtrFits
    <3> QED BY <1>11, <2>1, <3>1
  <2>2. CASE i # n
    <3>1. PICK h \in Call : h = calls[i] /\ calls'[i] = h /\ FrameOK(h) /\ h.xp # x /\ h.at # g.at /\ h.at # b
      BY <1>2, <1>3, <1>5, <1>11, <1>13, <2>2 DEF IInv
    <3>2. /\ h.xp # Null => ptr'[h.xp] = ptr[h.xp]
          /\ h.at # Null => mem'[h.at] = mem[h.at]
      BY <1>10, <1>12, <3>1 DEF Call
    <3>3. FrameOK(h)'
      BY <3>1, <3>2, FrameKept
    <3> QED BY <3>1, <3>3
  <2> QED BY <2>1, <2>2
<1>14. ASSUME NEW y \in Ptr PROVE PointerOK(ptr[y])'
  <2>1. CASE y = x
    <3>1. PointerOK(p)'
      BY <1>1, <1>2, <1>8, <1>12 DEF PointerOK
    <3> QED BY <1>10, <2>1, <3>1
  <2>2. CASE y # x
    <3>1. PICK q \in Pointer : q = ptr[y] /\ ptr'[y] = q /\ PointerOK(q) /\ q.addr # g.at /\ q.addr # b
      BY <1>2, <1>5, <1>10, <2>2 DEF IInv
    <3>2. q.addr # Null => mem'[q.addr] = mem[q.addr]
      BY <1>12, <3>1 DEF Pointer
    <3>3. PointerOK(q)'
      BY <1>1, <3>1, <3>2, PointerKept
    <3> QED BY <3>1, <3>3
  <2> QED BY <2>1, <2>2
<1>15. Apart'
  <2>1. ASSUME NEW i \in DOMAIN calls, NEW j \in DOMAIN calls, i # j
        PROVE  /\ calls'[i].at # Null => calls'[j].at # calls'[i].at
               /\ calls'[i].xp # Null => calls'[j].xp # calls'[i].xp
    <3>1. \A k \in DOMAIN calls : calls'[k].at = calls[k].at /\ calls'[k].xp = calls[k].xp
      BY <1>2, <1>3, <1>6, <1>11
    <3> QED BY <2>1, <3>1 DEF IInv, Apart
  <2>2. ASSUME NEW i \in DOMAIN calls, NEW y \in Ptr, calls'[i].at # Null
        PROVE  ptr'[y].addr # calls'[i].at
    <3>1. calls'[i].at = calls[i].at
      BY <1>2, <1>6, <1>11
    <3>2. CASE y = x
      BY <1>5, <1>8, <1>10, <3>1, <3>2
    <3>3. CASE y # x
      BY <1>10, <2>2, <3>1, <3>3 DEF IInv, Apart
    <3> QED BY <3>2, <3>3
  <2>3. ASSUME NEW y \in Ptr, NEW z \in Ptr, y # z, ptr'[y].addr # Null
        PROVE  ptr'[z].addr # ptr'[y].addr
    <3>1. ptr'[x].addr = b /\ ptr[y].addr # b /\ ptr[z].addr # b
      BY <1>5, <1>8, <1>10
    <3>2. \A v, w \in Ptr : v # w /\ ptr[v].addr # Null => ptr[w].addr # ptr[v].addr
      BY DEF IInv, Apart
    <3> QED BY <1>10, <2>3, <3>1, <3>2
  <2> QED BY <1>11, <2>1, <2>2, <2>3 DEF Apart
<1>16. ASSUME NEW d \in Addr, mem'[d] # Freed PROVE HasOwner(d)'
  <2>1. CASE d = b
    BY <1>8, <1>10, <2>1 DEF HasOwner
  <2>2. CASE d # b /\ \E i \in DOMAIN calls : calls[i].at = d
    BY <1>2, <1>6, <1>11, <2>2 DEF HasOwner
  <2>3. CASE d # b /\ d # g.at /\ \E y \in Ptr : ptr[y].addr = d
    <3>1. PICK y \in Ptr : ptr[y].addr = d
      BY <2>3
    <3>2. y # x
      BY <1>3, <1>16, <3>1, StoreTransferAssumption DEF PtrFits
    <3> QED BY <1>10, <3>1, <3>2 DEF HasOwner
  <2>4. d # b => \/ \E i \in DOMAIN calls : calls[i].at = d
                 \/ d # g.at /\ \E y \in Ptr : ptr[y].addr = d
    BY <1>2, <1>12, <1>16 DEF HasOwner, IInv
  <2> QED BY <2>1, <2>2, <2>3, <2>4
<1>17. ChainsOnce'
  <2>1. \A d \in Addr : mem'[d] \in Chain => d # g.at /\ mem'[d] = mem[IF d = b THEN g.at ELSE d]
    BY <1>12, StoreTransferAssumption
  <2>2. \A d, e \in Addr : mem'[d] = mem'[e] /\ mem'[d] \in Chain => d = e
    BY <1>2, <2>1 DEF IInv, ChainsOnce
  <2>3. \A d \in Addr : mem'[d] \notin lost'
    BY <1>1, <1>2, <2>1 DEF IInv, ChainsOnce
  <2> QED BY <2>2, <2>3 DEF ChainsOnce
<1> QED BY <1>1, <1>10, <1>11, <1>12, <1>13, <1>14, <1>15, <1>16, <1>17 DEF IInv

LEMMA AbandonInv == ASSUME IInv, Abandon PROVE IInv'
<1>1. /\ calls # << >> /\ Ends /\ mem' = Deleted(Top.at) /\ UNCHANGED <<ptr, lost, running>>
      /\ Top.step = "build"
  BY DEF Abandon, At
<1>2. ptr' \in [Ptr -> Pointer] /\ Top.xp \notin Ptr
  BY <1>1, TopOK, StoreTransferAssumption DEF IInv, FrameOK
<1> QED BY <1>1, <1>2, TopEnds

LEMMA ReturnInv == ASSUME IInv, Return PROVE IInv'
<1>1. /\ calls # << >> /\ running /\ Top.step = "return" /\ UNCHANGED <<lost, running>>
      /\ ptr' = [ptr EXCEPT ![Top.xp].held = TRUE]
  BY DEF Return, At
<1>2. PICK g \in Call : g = Top /\ FrameOK(g)
  BY <1>1, TopOK
<1>3. PICK x \in Ptr : x = g.xp /\ x # Null /\ PtrFits(ptr[x], "return")
  BY <1>1, <1>2, TopOK, StoreTransferAssumption DEF FrameOK
<1> PICK p : p = [ptr[x] EXCEPT !.held = TRUE]
  OBVIOUS
<1>4. ptr[x] \in Pointer /\ ptr \in [Ptr -> Pointer] /\ PointerOK(ptr[x])
  BY DEF IInv
<1>5. /\ p \in Pointer /\ p.made /\ ~ p.materialized /\ p.addr = ptr[x].addr
      /\ p.armed /\ p.addr # Null /\ p.addr \in Addr /\ mem[p.addr] \in Chain
  BY <1>3, <1>4 DEF Pointer, PtrFits, PointerOK
<1>6. /\ ptr' \in [Ptr -> Pointer] /\ ptr'[x] = p
      /\ \A y \in Ptr : y # x => ptr'[y] = ptr[y]
      /\ \A y \in Ptr : ptr'[y].addr = ptr[y].addr
  BY <1>1, <1>2, <1>3, <1>4, <1>5
<1>7. mem'[p.addr] = mem[p.addr] => PointerOK(p)'
  BY <1>5 DEF PointerOK
<1>8. CASE Top.route \in Scoped
  <2> DEFINE f == [g EXCEPT !.step = "build", !.xp = Null]
  <2>1. /\ f \in Call /\ f.at = g.at /\ f.xp = Null /\ f.step = "build" /\ f.route = g.route
        /\ f.route \in Scoped /\ f.route # "heap"
    BY <1>2, <1>8 DEF Call, Step, Scoped
  <2>2. Becomes(f) /\ mem' = mem
    BY <1>2, <1>8 DEF Return
  <2> HIDE DEF f
  <2>3. FrameOK(f)'
    BY <1>2, <2>1, <2>2 DEF FrameOK
  <2>4. ASSUME NEW y \in Ptr PROVE PointerOK(ptr[y])'
    <3>1. CASE y = x
      BY <1>6, <1>7, <2>2, <3>1
    <3>2. CASE y # x
      BY <1>1, <1>6, <2>2, <3>2 DEF IInv, PointerOK
    <3> QED BY <3>1, <3>2
  <2> QED BY <1>1, <1>2, <1>3, <1>6, <2>1, <2>2, <2>3, <2>4, TopSteps
<1>9. CASE Top.route \notin Scoped
  <2>1. Ends /\ mem' = Deleted(Top.at)
    BY <1>9 DEF Return
  <2>2. p.addr # Top.at
    BY <1>1, <1>5, TopOK
  <2>3. mem'[p.addr] = mem[p.addr]
    BY <1>5, <2>1, <2>2 DEF Deleted
  <2>4. \A y \in Ptr : y = Top.xp => PointerOK(ptr[y])'
    BY <1>2, <1>3, <1>6, <1>7, <2>3
  <2> QED BY <1>1, <1>2, <1>3, <1>6, <2>1, <2>4, TopEnds
<1> QED BY <1>8, <1>9

LEMMA RErrorInv == ASSUME IInv, RError PROVE IInv'
<1>1. /\ calls # << >> /\ running /\ UNCHANGED <<ptr, running>>
      /\ Top.step \in {"args", "make", "register", "shell", "install"}
      /\ ptr' \in [Ptr -> Pointer]
  BY DEF RError, At, IInv
<1>2. PICK g \in Call : g = Top /\ FrameOK(g)
  BY <1>1, TopOK
<1>3. CASE Top.route \in Scoped \ Unprotected
  <2> DEFINE f == [g EXCEPT !.step = "build", !.xp = Null]
  <2>1. /\ f \in Call /\ f.at = g.at /\ f.xp = Null /\ f.step = "build" /\ f.route = g.route
        /\ f.route \in Scoped /\ f.route # "heap"
    BY <1>2, <1>3 DEF Call, Step, Scoped
  <2>2. Becomes(f) /\ mem' = mem /\ lost' = lost
    BY <1>2, <1>3 DEF RError
  <2> HIDE DEF f
  <2>3. FrameOK(f)'
    BY <1>2, <2>1, <2>2 DEF FrameOK
  <2>4. \A y \in Ptr : PointerOK(ptr[y])'
    BY <1>1, <2>2 DEF IInv, PointerOK
  <2> QED BY <1>1, <1>2, <2>1, <2>2, <2>3, <2>4, TopSteps
<1>4. CASE Top.route \notin Scoped \ Unprotected
  <2>1. Ends /\ mem' = Deleted(Top.at)
    BY <1>4 DEF RError, cleanup
  <2>2. lost' = lost \/ (Top.at # Null /\ mem[Top.at] \in Chain /\ lost' = lost \cup {mem[Top.at]})
    <3>1. CASE Top.route \in Unprotected
      <4>1. Top.at # Null /\ mem[Top.at] \in Chain
        BY <1>1, <1>2, <3>1 DEF FrameOK, Unprotected, Scoped
      <4> QED BY <3>1, <4>1 DEF RError
    <3>2. CASE Top.route \notin Unprotected
      BY <3>2 DEF RError
    <3> QED BY <3>1, <3>2
  <2>3. ASSUME NEW y \in Ptr, y = Top.xp PROVE PointerOK(ptr[y])'
    <3>1. PICK q \in Pointer : q = ptr[y] /\ ptr'[y] = q /\ PointerOK(q)
      BY <1>1 DEF IInv
    <3>2. q.addr # Null => q.addr \in Addr /\ q.addr # Top.at
      BY <1>1, <3>1, TopOK DEF Pointer
    <3>3. q.addr # Null => mem'[q.addr] = mem[q.addr]
      BY <2>1, <3>2 DEF Deleted
    <3>4. PointerOK(q)'
      BY <1>1, <3>1, <3>3, PointerKept
    <3> QED BY <3>1, <3>4
  <2> QED BY <1>1, <2>1, <2>2, <2>3, TopEnds
<1> QED BY <1>3, <1>4

-----------------------------------------------------------------------------
(* The steps of R.  A pointer that no call is wrapping is finalized, or    *)
(* changes in nothing but who holds it.                                    *)
LEMMA PointerSteps ==
  ASSUME IInv, NEW x \in Ptr, NEW p \in Pointer, ptr' = [ptr EXCEPT ![x] = p],
         UNCHANGED <<calls, lost, running>>,
         (p.addr = ptr[x].addr /\ mem' = mem) \/ (p.addr = Null /\ mem' = Deleted(ptr[x].addr)),
         \A i \in DOMAIN calls : calls[i].xp # x,
         ~ p.made => p = NoPtr,
         p.materialized => p.addr = Null,
         p.addr # Null => p.armed,
         running /\ p.held /\ ~ p.materialized => p.addr # Null
  PROVE  IInv'
<1>1. /\ ptr' \in [Ptr -> Pointer] /\ ptr'[x] = p
      /\ \A y \in Ptr : y # x => ptr'[y] = ptr[y]
      /\ \A y \in Ptr : ptr'[y].addr = ptr[y].addr \/ ptr'[y].addr = Null
  BY DEF IInv
<1>2. PICK a \in Addr \cup {Null} : a = ptr[x].addr
  BY DEF IInv, Pointer
<1>3. /\ mem' \in [Addr -> Chain \cup {Empty, Freed}]
      /\ \A b \in Addr : mem'[b] = mem[b] \/ (b = a /\ p.addr = Null /\ mem'[b] = Freed)
  BY <1>2 DEF IInv, Deleted
<1>4. a # Null => /\ a \in Addr /\ \A i \in DOMAIN calls : calls[i].at # a
                  /\ \A y \in Ptr : y # x => ptr[y].addr # a
  BY <1>2 DEF IInv, Apart
<1>5. ASSUME NEW i \in DOMAIN calls' PROVE FrameOK(calls[i])'
  <2>1. PICK h \in Call : /\ h = calls[i] /\ calls'[i] = h /\ FrameOK(h) /\ h.xp # x
                          /\ a # Null => h.at # a
    BY <1>4, <1>5 DEF IInv
  <2>2. /\ h.xp # Null => ptr'[h.xp] = ptr[h.xp]
        /\ h.at # Null => mem'[h.at] = mem[h.at]
    BY <1>1, <1>3, <2>1 DEF Call
  <2>3. FrameOK(h)'
    BY <2>1, <2>2, FrameKept
  <2> QED BY <2>1, <2>3
<1>6. ASSUME NEW y \in Ptr PROVE PointerOK(ptr[y])'
  <2>1. CASE y = x
    <3>1. p.addr # Null => mem'[p.addr] \in Chain
      BY <1>1, <1>2, StoreTransferAssumption DEF IInv, PointerOK
    <3>2. PointerOK(p)'
      BY <3>1 DEF PointerOK
    <3> QED BY <1>1, <2>1, <3>2
  <2>2. CASE y # x
    <3> PICK q : q = ptr[y]
      OBVIOUS
    <3>1. /\ q \in Pointer /\ ptr'[y] = q /\ PointerOK(q)
          /\ a # Null => q.addr # a
      BY <1>1, <1>4, <2>2 DEF IInv
    <3>2. q.addr # Null => mem'[q.addr] = mem[q.addr]
      BY <1>3, <3>1 DEF Pointer
    <3>3. PointerOK(q)'
      BY <3>1, <3>2, PointerKept
    <3> QED BY <3>1, <3>3
  <2> QED BY <2>1, <2>2
<1>7. Apart'
  <2>1. \A i, j \in DOMAIN calls' : i # j =>
          /\ calls'[i].at # Null => calls'[j].at # calls'[i].at
          /\ calls'[i].xp # Null => calls'[j].xp # calls'[i].xp
    BY DEF IInv, Apart
  <2>2. \A i \in DOMAIN calls' : \A y \in Ptr : calls'[i].at # Null => ptr'[y].addr # calls'[i].at
    BY <1>1 DEF IInv, Apart
  <2>3. \A y, z \in Ptr : y # z /\ ptr'[y].addr # Null => ptr'[z].addr # ptr'[y].addr
    BY <1>1 DEF IInv, Apart
  <2> QED BY <2>1, <2>2, <2>3 DEF Apart
<1>8. ASSUME NEW b \in Addr, mem'[b] # Freed PROVE HasOwner(b)'
  <2>1. mem'[b] = mem[b] /\ HasOwner(b)
    BY <1>3, <1>8 DEF IInv
  <2>2. CASE \E i \in DOMAIN calls : calls[i].at = b
    BY <2>2 DEF HasOwner
  <2>3. CASE \E y \in Ptr : ptr[y].addr = b
    <3>1. PICK y \in Ptr : ptr[y].addr = b
      BY <2>3
    <3>2. y = x /\ p.addr = Null => mem'[b] = Freed
      BY <3>1, StoreTransferAssumption DEF Deleted
    <3>3. ptr'[y].addr = b
      BY <1>1, <1>8, <3>1, <3>2
    <3> QED BY <3>3 DEF HasOwner
  <2> QED BY <2>1, <2>2, <2>3 DEF HasOwner
<1>9. ChainsOnce'
  BY <1>3, StoreTransferAssumption DEF IInv, ChainsOnce
<1> QED BY <1>1, <1>3, <1>5, <1>6, <1>7, <1>8, <1>9 DEF IInv

LEMMA MaterializeInv == ASSUME IInv, NEW x \in Ptr, Materialize(x) PROVE IInv'
<1>1. ptr[x] \in Pointer /\ PointerOK(ptr[x]) /\ ptr[x].held /\ ptr[x].made
  BY DEF IInv, Materialize, PointerOK, NoPtr
<1> PICK p : p = [ptr[x] EXCEPT !.materialized = TRUE, !.addr = Null]
  OBVIOUS
<1>2. /\ p \in Pointer /\ p.addr = Null /\ p.made /\ p.materialized
      /\ p = [[ptr[x] EXCEPT !.materialized = TRUE] EXCEPT !.addr = Null]
  BY <1>1 DEF Pointer
<1>3. ptr' = [ptr EXCEPT ![x] = p] /\ mem' = Deleted(ptr[x].addr) /\ UNCHANGED <<calls, lost, running>>
  BY <1>2 DEF Materialize, Finalize
<1>4. \A i \in DOMAIN calls : calls[i].xp # x
  BY <1>1, StoreTransferAssumption DEF IInv, FrameOK, PtrFits
<1> QED BY <1>2, <1>3, <1>4, PointerSteps

LEMMA FinalizerInv ==
  ASSUME IInv, NEW x \in Ptr, RunFinalizer(x) \/ RunExitFinalizer(x)
  PROVE  IInv'
<1>1. ptr[x] \in Pointer /\ PointerOK(ptr[x]) /\ ptr[x].armed /\ ptr[x].made
  BY DEF IInv, RunFinalizer, RunExitFinalizer, onexit, PointerOK, NoPtr
<1> PICK p : p = [ptr[x] EXCEPT !.armed = FALSE, !.addr = Null]
  OBVIOUS
<1>2. /\ p \in Pointer /\ p.addr = Null /\ p.made
      /\ p = [[ptr[x] EXCEPT !.armed = FALSE] EXCEPT !.addr = Null]
      /\ p.held = ptr[x].held /\ p.materialized = ptr[x].materialized
  BY <1>1 DEF Pointer
<1>3. ptr' = [ptr EXCEPT ![x] = p] /\ mem' = Deleted(ptr[x].addr) /\ UNCHANGED <<calls, lost, running>>
  BY <1>2 DEF RunFinalizer, RunExitFinalizer, Finalize
<1>4. /\ \A i \in DOMAIN calls : calls[i].xp # x
      /\ running => ~ p.held
  BY <1>2 DEF IInv, RunFinalizer, RunExitFinalizer, Garbage
<1> QED BY <1>2, <1>3, <1>4, PointerSteps

LEMMA DropInv == ASSUME IInv, NEW x \in Ptr, Drop(x) PROVE IInv'
<1>1. ptr[x] \in Pointer /\ PointerOK(ptr[x]) /\ ptr[x].held /\ ptr[x].made
  BY DEF IInv, Drop, PointerOK, NoPtr
<1> PICK p : p = [ptr[x] EXCEPT !.held = FALSE]
  OBVIOUS
<1>2. /\ p \in Pointer /\ p.addr = ptr[x].addr /\ p.made /\ ~ p.held
      /\ p.armed = ptr[x].armed /\ p.materialized = ptr[x].materialized
  BY <1>1 DEF Pointer
<1>3. ptr' = [ptr EXCEPT ![x] = p] /\ mem' = mem /\ UNCHANGED <<calls, lost, running>>
  BY DEF Drop
<1>4. \A i \in DOMAIN calls : calls[i].xp # x
  BY <1>1, StoreTransferAssumption DEF IInv, FrameOK, PtrFits
<1> QED BY <1>1, <1>2, <1>3, <1>4, PointerSteps DEF PointerOK

LEMMA ReclaimInv == ASSUME IInv, NEW x \in Ptr, Reclaim(x) PROVE IInv'
<1>1. PointerOK(ptr[x]) /\ ~ ptr[x].armed
  BY DEF IInv, Reclaim
<1>2. /\ NoPtr \in Pointer /\ NoPtr.addr = Null /\ ptr[x].addr = Null
      /\ ~ NoPtr.materialized /\ ~ NoPtr.held
  BY <1>1 DEF Pointer, PointerOK, NoPtr
<1>3. ptr' = [ptr EXCEPT ![x] = NoPtr] /\ mem' = mem /\ UNCHANGED <<calls, lost, running>>
  BY DEF Reclaim
<1>4. \A i \in DOMAIN calls : calls[i].xp # x
  BY DEF Reclaim, Garbage
<1> QED BY <1>2, <1>3, <1>4, PointerSteps

LEMMA QuitInv == ASSUME IInv, Quit PROVE IInv'
<1>1. calls = << >> /\ running' = FALSE /\ UNCHANGED <<mem, ptr, calls, lost>>
  BY DEF Quit
<1>2. \A i \in DOMAIN calls' : FrameOK(calls[i])'
  BY <1>1 DEF IInv, FrameOK
<1>3. \A x \in Ptr : PointerOK(ptr[x])'
  BY <1>1 DEF IInv, PointerOK
<1>4. Apart' /\ ChainsOnce'
  BY <1>1 DEF IInv, Apart, ChainsOnce
<1>5. ASSUME NEW a \in Addr, mem'[a] # Freed PROVE HasOwner(a)'
  BY <1>1, <1>5 DEF IInv, HasOwner
<1> QED BY <1>1, <1>2, <1>3, <1>4, <1>5 DEF IInv

LEMMA StutterInv == ASSUME IInv, UNCHANGED vars PROVE IInv'
<1>1. UNCHANGED <<mem, ptr, calls, lost, running>>
  BY DEF vars
<1>2. \A i \in DOMAIN calls' : FrameOK(calls[i])'
  BY <1>1 DEF IInv, FrameOK, PtrFits
<1>3. \A x \in Ptr : PointerOK(ptr[x])'
  BY <1>1 DEF IInv, PointerOK
<1> QED BY <1>1, <1>2, <1>3 DEF IInv, Apart, HasOwner, ChainsOnce

LEMMA NextInv == ASSUME IInv, [Next]_vars PROVE IInv'
BY BeginInv, BuildInv, ArgsInv, AbandonInv, MakePtrInv, RegisterInv, InstallPendingInv,
   InstallMovedInv, ReturnInv, RErrorInv, MaterializeInv, FinalizerInv, DropInv, ReclaimInv,
   QuitInv, StutterInv
   DEF Next, Wrapping

LEMMA Invariance == Spec => []IInv
<1>1. Init => IInv
  BY InitInv
<1>2. IInv /\ [Next]_vars => IInv'
  BY NextInv
<1> QED BY <1>1, <1>2, PTL DEF Spec

(* The state of calls and pointers stays well formed: every step of a      *)
(* wrap finds the Store and the pointer it is about.                       *)
THEOREM TypeCorrect == Spec => []TypeOK
<1>1. IInv => TypeOK
  BY InvMeans
<1> QED BY <1>1, Invariance, PTL

(* Every Store has one owner, whatever raises an R error and whichever     *)
(* finalizers run: no double delete and no dangling address.               *)
THEOREM StoresOwnedOnce == Spec => []OneOwner
<1>1. IInv => OneOwner
  BY InvMeans
<1> QED BY <1>1, Invariance, PTL

(* A vector that R has is complete, and will be finalized.                 *)
THEOREM VectorsAreComplete == Spec => []VectorsComplete
<1>1. IInv => VectorsComplete
  BY InvMeans
<1> QED BY <1>1, Invariance, PTL
-----------------------------------------------------------------------------
(***************************************************************************)
(* StoreTransfer implements StoreOwner.                                    *)
(***************************************************************************)
(* Who owns a chain, as a function of what the variables hold: m stands    *)
(* for mem, p for ptr, s for calls and l for lost, before or after a step. *)
RouteOwner(r) == IF r = "to_sexp" THEN "exposed" ELSE "guarded"

InPtr(m, p, c) == \E x \in Ptr : p[x].addr # Null /\ m[p[x].addr] = c

InStack(m, s, c, routes) ==
  \E i \in DOMAIN s : s[i].at # Null /\ m[s[i].at] = c /\ s[i].route \in routes

OwnerIn(m, p, s, l, c) ==
  CASE c \in l                                -> "lost"
    [] InPtr(m, p, c)                         -> "R"
    [] InStack(m, s, c, {"to_sexp"})          -> "exposed"
    [] InStack(m, s, c, Route \ {"to_sexp"})  -> "guarded"
    [] OTHER                                  -> "none"

(* o has c.                                                                *)
Has(m, p, s, l, c, o) ==
  \/ o = "lost" /\ c \in l
  \/ o = "R" /\ InPtr(m, p, c)
  \/ \E i \in DOMAIN s : s[i].at # Null /\ m[s[i].at] = c /\ o = RouteOwner(s[i].route)
  \/ o = "none" /\ c \notin l /\ \A a \in Addr : m[a] # c

(* What the invariant says of that.                                        *)
Orderly(m, p, s, l) ==
  /\ \A i \in DOMAIN s : s[i].route \in Route /\ (s[i].at # Null => s[i].at \in Addr)
  /\ \A x \in Ptr : p[x].addr # Null => p[x].addr \in Addr
  /\ \A i, j \in DOMAIN s : s[i].at # Null /\ s[j].at = s[i].at => i = j
  /\ \A i \in DOMAIN s : \A x \in Ptr : s[i].at # Null => p[x].addr # s[i].at
  /\ \A a \in Addr : m[a] # Freed => \/ \E i \in DOMAIN s : s[i].at = a
                                     \/ \E x \in Ptr : p[x].addr = a
  /\ \A a, b \in Addr : m[a] = m[b] /\ m[a] \in Chain => a = b
  /\ \A a \in Addr : m[a] \notin l

LEMMA InvOrderly == ASSUME IInv PROVE Orderly(mem, ptr, calls, lost)
<1>1. \A i \in DOMAIN calls : calls[i] \in Call
  BY DEF IInv
<1>2. \A x \in Ptr : ptr[x] \in Pointer
  BY DEF IInv
<1> QED BY <1>1, <1>2 DEF Orderly, IInv, Apart, ChainsOnce, HasOwner, Call, Pointer

LEMMA InvOrderlyNext == ASSUME IInv' PROVE Orderly(mem', ptr', calls', lost')
<1>1. \A i \in DOMAIN calls' : calls'[i] \in Call
  BY DEF IInv
<1>2. \A x \in Ptr : ptr'[x] \in Pointer
  BY DEF IInv
<1> QED BY <1>1, <1>2 DEF Orderly, IInv, Apart, ChainsOnce, HasOwner, Call, Pointer

(* Nobody shares a chain, so OwnerOf finds the one who has it.             *)
LEMMA OneHolder ==
  ASSUME NEW m, NEW p, NEW s, NEW l, Orderly(m, p, s, l),
         NEW c \in Chain, NEW o, Has(m, p, s, l, c, o)
  PROVE  OwnerIn(m, p, s, l, c) = o
<1> USE StoreTransferAssumption
<1>1. CASE o = "lost" /\ c \in l
  <2>1. /\ ~ InPtr(m, p, c)
        /\ ~ InStack(m, s, c, {"to_sexp"}) /\ ~ InStack(m, s, c, Route \ {"to_sexp"})
    BY <1>1 DEF Orderly, InPtr, InStack
  <2> QED BY <1>1, <2>1 DEF OwnerIn
<1>2. CASE o = "R" /\ InPtr(m, p, c)
  <2>1. c \notin l /\ ~ InStack(m, s, c, Route)
    BY <1>2 DEF Orderly, InPtr, InStack
  <2>2. ~ InStack(m, s, c, {"to_sexp"}) /\ ~ InStack(m, s, c, Route \ {"to_sexp"})
    BY <2>1 DEF InStack, Orderly
  <2> QED BY <1>2, <2>1, <2>2 DEF OwnerIn
<1>3. CASE \E i \in DOMAIN s : s[i].at # Null /\ m[s[i].at] = c /\ o = RouteOwner(s[i].route)
  <2>1. PICK i \in DOMAIN s : s[i].at # Null /\ m[s[i].at] = c /\ o = RouteOwner(s[i].route)
    BY <1>3
  <2>2. s[i].at \in Addr /\ s[i].route \in Route
    BY <2>1 DEF Orderly
  <2>3. c \notin l /\ ~ InPtr(m, p, c)
    BY <2>1, <2>2 DEF Orderly, InPtr
  <2>4. \A j \in DOMAIN s : s[j].at # Null /\ m[s[j].at] = c => j = i
    BY <2>1, <2>2 DEF Orderly
  <2>5. /\ InStack(m, s, c, {"to_sexp"}) <=> s[i].route = "to_sexp"
        /\ InStack(m, s, c, Route \ {"to_sexp"}) <=> s[i].route # "to_sexp"
    BY <2>1, <2>2, <2>4 DEF InStack
  <2> QED BY <2>1, <2>3, <2>5 DEF OwnerIn, RouteOwner
<1>4. CASE o = "none" /\ c \notin l /\ \A a \in Addr : m[a] # c
  <2>1. ~ InPtr(m, p, c) /\ ~ InStack(m, s, c, {"to_sexp"}) /\ ~ InStack(m, s, c, Route \ {"to_sexp"})
    BY <1>4 DEF Orderly, InPtr, InStack
  <2> QED BY <1>4, <2>1 DEF OwnerIn
<1> QED BY <1>1, <1>2, <1>3, <1>4 DEF Has

LEMMA SomeHolder ==
  ASSUME NEW m, NEW p, NEW s, NEW l, Orderly(m, p, s, l), NEW c \in Chain
  PROVE  \E o : Has(m, p, s, l, c, o)
<1>1. CASE c \in l
  BY <1>1 DEF Has
<1>2. CASE \E a \in Addr : m[a] = c
  <2>1. PICK a \in Addr : m[a] = c
    BY <1>2
  <2>2. a # Null /\ c # Freed
    BY StoreTransferAssumption
  <2>3. \/ \E i \in DOMAIN s : s[i].at = a
        \/ \E x \in Ptr : p[x].addr = a
    BY <2>1, <2>2 DEF Orderly
  <2> QED BY <2>1, <2>2, <2>3 DEF Has, InPtr
<1>3. CASE c \notin l /\ \A a \in Addr : m[a] # c
  BY <1>3 DEF Has
<1> QED BY <1>1, <1>2, <1>3

(* The same of the states before and after a step.                         *)
LEMMA OwnerBefore ==
  ASSUME IInv, NEW c \in Chain, NEW o, Has(mem, ptr, calls, lost, c, o)
  PROVE  OwnerOf(c) = o
<1>1. OwnerOf(c) = OwnerIn(mem, ptr, calls, lost, c)
  BY DEF OwnerOf, OwnerIn, InR, InCall, InPtr, InStack
<1> QED BY <1>1, InvOrderly, OneHolder

LEMMA OwnerAfter ==
  ASSUME IInv', NEW c \in Chain, NEW o, Has(mem', ptr', calls', lost', c, o)
  PROVE  OwnerOf(c)' = o
<1>1. OwnerOf(c)' = OwnerIn(mem', ptr', calls', lost', c)
  BY DEF OwnerOf, OwnerIn, InR, InCall, InPtr, InStack
<1> QED BY <1>1, InvOrderlyNext, OneHolder

(* Who has a chain keeps it while neither its address nor that address's   *)
(* owner changes.                                                          *)
LEMMA OwnerKept ==
  ASSUME IInv, IInv', NEW c \in Chain, c \in lost' <=> c \in lost,
         \A a \in Addr : mem'[a] = c <=> mem[a] = c,
         \A x \in Ptr : ptr[x].addr # Null /\ mem[ptr[x].addr] = c => ptr'[x].addr = ptr[x].addr,
         \A i \in DOMAIN calls : calls[i].at # Null /\ mem[calls[i].at] = c =>
           i \in DOMAIN calls' /\ calls'[i].at = calls[i].at /\ calls'[i].route = calls[i].route
  PROVE  OwnerOf(c)' = OwnerOf(c)
<1>1. PICK o : Has(mem, ptr, calls, lost, c, o)
  BY InvOrderly, SomeHolder
<1>2. Has(mem', ptr', calls', lost', c, o)
  <2>1. CASE o = "lost" /\ c \in lost
    BY <2>1 DEF Has
  <2>2. CASE o = "R" /\ InPtr(mem, ptr, c)
    <3>1. PICK x \in Ptr : ptr[x].addr # Null /\ mem[ptr[x].addr] = c
      BY <2>2 DEF InPtr
    <3>2. ptr[x].addr \in Addr
      BY <3>1, InvOrderly DEF Orderly
    <3>3. ptr'[x].addr # Null /\ mem'[ptr'[x].addr] = c
      BY <3>1, <3>2
    <3> QED BY <2>2, <3>3 DEF Has, InPtr
  <2>3. CASE \E i \in DOMAIN calls :
               calls[i].at # Null /\ mem[calls[i].at] = c /\ o = RouteOwner(calls[i].route)
    <3>1. PICK i \in DOMAIN calls :
            calls[i].at # Null /\ mem[calls[i].at] = c /\ o = RouteOwner(calls[i].route)
      BY <2>3
    <3>2. calls[i].at \in Addr
      BY <3>1, InvOrderly DEF Orderly
    <3>3. /\ i \in DOMAIN calls' /\ calls'[i].at # Null /\ mem'[calls'[i].at] = c
          /\ o = RouteOwner(calls'[i].route)
      BY <3>1, <3>2
    <3> QED BY <3>3 DEF Has
  <2>4. CASE o = "none" /\ c \notin lost /\ \A a \in Addr : mem[a] # c
    BY <2>4 DEF Has
  <2> QED BY <1>1, <2>1, <2>2, <2>3, <2>4 DEF Has
<1> QED BY <1>1, <1>2, OwnerBefore, OwnerAfter

-----------------------------------------------------------------------------
(* Steps of StoreOwner.                                                    *)
owners == [c \in Chain |-> OwnerOf(c)]

OwnersStep == Promise!Next \/ UNCHANGED owners

LEMMA Stays == ASSUME \A c \in Chain : OwnerOf(c)' = OwnerOf(c) PROVE OwnersStep
BY DEF OwnersStep, owners

(* One chain changes hands.                                                *)
LEMMA Passes ==
  ASSUME NEW c \in Chain, NEW from, NEW to, OwnerOf(c) = from, OwnerOf(c)' = to,
         <<from, to>> \in ({"none"} \X {"guarded", "exposed"}) \cup
                          ({"guarded", "exposed"} \X {"R"}) \cup
                          ({"guarded", "exposed", "R"} \X {"none"}) \cup
                          {<<"exposed", "lost">>},
         \A d \in Chain \ {c} : OwnerOf(d)' = OwnerOf(d)
  PROVE  OwnersStep
<1>1. owners[c] = from /\ owners' = [owners EXCEPT ![c] = to]
  BY DEF owners
<1>2. Promise!Build(c) \/ Promise!HandOver(c) \/ Promise!Free(c) \/ Promise!Lose(c)
  BY <1>1 DEF owners, Promise!Build, Promise!HandOver, Promise!Free, Promise!Lose, Promise!Goes
<1> QED BY <1>2 DEF OwnersStep, Promise!Next

LEMMA Replaced ==
  ASSUME NEW c \in Chain, NEW d \in Chain, c # d, OwnerOf(d) \in {"guarded", "exposed"},
         OwnerOf(c) = "none", OwnerOf(c)' = OwnerOf(d), OwnerOf(d)' = "none",
         \A e \in Chain \ {c, d} : OwnerOf(e)' = OwnerOf(e)
  PROVE  OwnersStep
<1>1. /\ owners[d] \in {"guarded", "exposed"} /\ owners[c] = "none"
      /\ owners' = [owners EXCEPT ![d] = "none", ![c] = owners[d]]
  BY DEF owners
<1>2. Promise!Replace(d, c)
  BY <1>1 DEF owners, Promise!Replace
<1> QED BY <1>2 DEF OwnersStep, Promise!Next

(* Steps that leave Stores and pointers where they are.                    *)
LEMMA Still ==
  ASSUME IInv, IInv', UNCHANGED lost,
         \A c \in Chain : \A a \in Addr : mem'[a] = c <=> mem[a] = c,
         \A x \in Ptr : ptr[x].addr # Null => ptr'[x].addr = ptr[x].addr,
         \A i \in DOMAIN calls : calls[i].at # Null =>
           i \in DOMAIN calls' /\ calls'[i].at = calls[i].at /\ calls'[i].route = calls[i].route
  PROVE  OwnersStep
BY OwnerKept, Stays

LEMMA TopStill ==
  ASSUME IInv, IInv', UNCHANGED <<mem, lost>>, calls # << >>,
         NEW f \in Call, Becomes(f), f.at = Top.at, f.route = Top.route,
         \A x \in Ptr : ptr[x].addr # Null => ptr'[x].addr = ptr[x].addr
  PROVE  OwnersStep
<1>1. \A i \in DOMAIN calls :
         i \in DOMAIN calls' /\ calls'[i].at = calls[i].at /\ calls'[i].route = calls[i].route
  BY TopReplaced DEF IInv, Top
<1> QED BY <1>1, Still

(* What the innermost call has is its own.                                 *)
LEMMA TopHas ==
  ASSUME IInv, calls # << >>, Top.at # Null, mem[Top.at] \in Chain
  PROVE  /\ Top.at \in Addr
         /\ OwnerOf(mem[Top.at]) = RouteOwner(Top.route)
         /\ RouteOwner(Top.route) \in {"guarded", "exposed"}
         /\ \A a \in Addr : mem[a] = mem[Top.at] => a = Top.at
         /\ \A i \in DOMAIN calls : i # Len(calls) => calls[i].at # Top.at
         /\ \A x \in Ptr : ptr[x].addr # Top.at
         /\ mem[Top.at] \notin lost
<1>1. Has(mem, ptr, calls, lost, mem[Top.at], RouteOwner(Top.route))
  BY TopOK DEF Has
<1>2. OwnerOf(mem[Top.at]) = RouteOwner(Top.route)
  BY <1>1, OwnerBefore
<1> QED BY <1>2, TopOK DEF IInv, ChainsOnce, RouteOwner

LEMMA TopFrees ==
  ASSUME IInv, IInv', calls # << >>, Ends, mem' = Deleted(Top.at),
         lost' = lost \/ (Top.route = "to_sexp" /\ Top.at # Null /\ mem[Top.at] \in Chain
                          /\ lost' = lost \cup {mem[Top.at]}),
         \A x \in Ptr : ptr'[x].addr = ptr[x].addr
  PROVE  OwnersStep
<1> DEFINE n == Len(calls)
<1>1. /\ DOMAIN calls' = DOMAIN calls \ {n} /\ n \in DOMAIN calls
      /\ \A i \in DOMAIN calls' : calls'[i] = calls[i]
  BY TopGone DEF IInv
<1>2. \A a \in Addr : mem'[a] = IF a = Top.at THEN Freed ELSE mem[a]
  BY DEF Deleted
<1>3. CASE Top.at = Null \/ mem[Top.at] \notin Chain
  <2>1. UNCHANGED lost
    BY <1>3
  <2>2. ASSUME NEW c \in Chain PROVE OwnerOf(c)' = OwnerOf(c)
    <3>1. \A a \in Addr : mem'[a] = c <=> mem[a] = c
      BY <1>2, <1>3, StoreTransferAssumption
    <3>2. \A i \in DOMAIN calls : calls[i].at # Null /\ mem[calls[i].at] = c => i # n
      BY <1>3 DEF Top
    <3> QED BY <1>1, <2>1, <3>1, <3>2, OwnerKept
  <2> QED BY <2>2, Stays
<1>4. CASE Top.at # Null /\ mem[Top.at] \in Chain
  <2>1. PICK c \in Chain : c = mem[Top.at]
    BY <1>4
  <2>2. \A a \in Addr : mem'[a] # c
    BY <1>2, <1>4, <2>1, TopHas, StoreTransferAssumption
  <2>3. ASSUME NEW d \in Chain \ {c} PROVE OwnerOf(d)' = OwnerOf(d)
    <3>1. \A a \in Addr : mem'[a] = d <=> mem[a] = d
      BY <1>2, <2>1, StoreTransferAssumption
    <3>2. \A i \in DOMAIN calls : calls[i].at # Null /\ mem[calls[i].at] = d => i # n
      BY <2>1 DEF Top
    <3>3. d \in lost' <=> d \in lost
      BY <2>1
    <3> QED BY <1>1, <3>1, <3>2, <3>3, OwnerKept
  <2>4. CASE lost' = lost
    <3>1. Has(mem', ptr', calls', lost', c, "none")
      BY <1>4, <2>1, <2>2, <2>4, TopHas DEF Has
    <3>2. OwnerOf(c)' = "none"
      BY <3>1, OwnerAfter
    <3>3. OwnerOf(c) \in {"guarded", "exposed"}
      BY <1>4, <2>1, TopHas
    <3> QED BY <2>3, <3>2, <3>3, Passes
  <2>5. CASE Top.route = "to_sexp" /\ lost' = lost \cup {c}
    <3>1. OwnerOf(c)' = "lost"
      BY <2>5, OwnerAfter DEF Has
    <3>2. OwnerOf(c) = "exposed"
      BY <1>4, <2>1, <2>5, TopHas DEF RouteOwner
    <3> QED BY <2>3, <3>1, <3>2, Passes
  <2> QED BY <2>1, <2>4, <2>5
<1> QED BY <1>3, <1>4

(* A pointer's Store is deleted.                                           *)
LEMMA PointerFrees ==
  ASSUME IInv, IInv', NEW x \in Ptr, NEW p \in Pointer, Finalize(x, p),
         UNCHANGED <<calls, lost>>
  PROVE  OwnersStep
<1>1. /\ ptr' = [ptr EXCEPT ![x] = [p EXCEPT !.addr = Null]] /\ ptr \in [Ptr -> Pointer]
      /\ \A a \in Addr : mem'[a] = IF a = ptr[x].addr THEN Freed ELSE mem[a]
  BY DEF Finalize, Deleted, IInv
<1>2. \A y \in Ptr : y # x => ptr'[y] = ptr[y]
  BY <1>1
<1>3. CASE ptr[x].addr = Null
  <2>1. \A a \in Addr : mem'[a] = mem[a]
    BY <1>1, <1>3, StoreTransferAssumption
  <2>2. \A y \in Ptr : ptr[y].addr # Null => ptr'[y].addr = ptr[y].addr
    BY <1>2, <1>3
  <2> QED BY <2>1, <2>2, Still
<1>4. CASE ptr[x].addr # Null
  <2>1. PICK c \in Chain, a \in Addr : a = ptr[x].addr /\ c = mem[a]
    BY <1>4 DEF IInv, PointerOK, Pointer
  <2>2. /\ c \notin lost /\ \A b \in Addr : mem[b] = c => b = a
        /\ \A i \in DOMAIN calls : calls[i].at # Null => calls[i].at # a
    BY <1>4, <2>1 DEF IInv, ChainsOnce, Apart
  <2>3. \A b \in Addr : mem'[b] # c
    BY <1>1, <2>1, <2>2, StoreTransferAssumption
  <2>4. OwnerOf(c) = "R"
    <3>1. Has(mem, ptr, calls, lost, c, "R")
      BY <1>4, <2>1 DEF Has, InPtr
    <3> QED BY <3>1, OwnerBefore
  <2>5. OwnerOf(c)' = "none"
    <3>1. Has(mem', ptr', calls', lost', c, "none")
      BY <2>2, <2>3 DEF Has
    <3> QED BY <3>1, OwnerAfter
  <2>6. ASSUME NEW d \in Chain \ {c} PROVE OwnerOf(d)' = OwnerOf(d)
    <3>1. \A b \in Addr : mem'[b] = d <=> mem[b] = d
      BY <1>1, <2>1, StoreTransferAssumption
    <3>2. \A y \in Ptr : ptr[y].addr # Null /\ mem[ptr[y].addr] = d => y # x
      BY <2>1
    <3> QED BY <1>2, <3>1, <3>2, OwnerKept
  <2> QED BY <2>4, <2>5, <2>6, Passes
<1> QED BY <1>3, <1>4

-----------------------------------------------------------------------------
(* The actions.                                                            *)
LEMMA BeginRefines == ASSUME IInv, IInv', NEW r \in Route, Begin(r) PROVE OwnersStep
<1>1. \E f : calls' = Append(calls, f)
  BY DEF Begin
<1>2. \A i \in DOMAIN calls : i \in DOMAIN calls' /\ calls'[i] = calls[i]
  BY <1>1 DEF IInv
<1>3. \A c \in Chain : \A a \in Addr : mem'[a] = c <=> mem[a] = c
  BY StoreTransferAssumption DEF Begin, FreeAddr, IInv
<1> QED BY <1>2, <1>3, Still DEF Begin

LEMMA BuildRefines == ASSUME IInv, IInv', NEW c \in Chain, Build(c) PROVE OwnersStep
<1> DEFINE n == Len(calls)
<1>1. /\ calls # << >> /\ UNCHANGED <<ptr, lost>>
      /\ c \notin lost /\ \A a \in Addr : mem[a] # c
  BY DEF Build, At, FreeChain
<1>2. PICK g \in Call : g = Top /\ FrameOK(g)
  BY <1>1, TopOK
<1>3. PICK a \in Addr : /\ Becomes([g EXCEPT !.step = "make", !.at = a])
                        /\ mem' = [mem EXCEPT ![a] = c]
                        /\ (g.at = Null /\ a \in FreeAddr) \/ g.at = a
  BY <1>1, <1>2, TopOK DEF Build, FreeAddr
<1> DEFINE f == [g EXCEPT !.step = "make", !.at = a]
<1>4. f \in Call /\ f.at = a /\ f.route = g.route /\ a # Null
  BY <1>2, StoreTransferAssumption DEF Call, Step
<1> HIDE DEF f
<1>5. /\ DOMAIN calls' = DOMAIN calls /\ n \in DOMAIN calls /\ calls'[n] = f
      /\ \A i \in DOMAIN calls : i # n => calls'[i] = calls[i]
  BY <1>1, <1>3, <1>4, TopReplaced DEF IInv, f
<1>6. \A b \in Addr : mem'[b] = IF b = a THEN c ELSE mem[b]
  BY <1>3 DEF IInv
<1>7. OwnerOf(c) = "none"
  <2>1. Has(mem, ptr, calls, lost, c, "none")
    BY <1>1 DEF Has
  <2> QED BY <2>1, OwnerBefore
<1>8. OwnerOf(c)' = RouteOwner(g.route)
  <2>1. Has(mem', ptr', calls', lost', c, RouteOwner(g.route))
    BY <1>4, <1>5, <1>6 DEF Has
  <2> QED BY <2>1, OwnerAfter
<1>9. RouteOwner(g.route) \in {"guarded", "exposed"}
  BY DEF RouteOwner
<1>10. ASSUME NEW d \in Chain \ {c}, mem[a] # d PROVE OwnerOf(d)' = OwnerOf(d)
  <2>1. \A b \in Addr : mem'[b] = d <=> mem[b] = d
    BY <1>6, <1>10
  <2>2. ASSUME NEW i \in DOMAIN calls, calls[i].at # Null, mem[calls[i].at] = d
        PROVE  i # n
    <3>1. CASE g.at = Null
      BY <1>2, <2>2, <3>1 DEF Top
    <3>2. CASE g.at = a
      BY <1>2, <1>10, <2>2, <3>2 DEF Top
    <3> QED BY <1>3, <3>1, <3>2
  <2> QED BY <1>1, <1>5, <2>1, <2>2, OwnerKept
<1>11. CASE mem[a] \notin Chain
  BY <1>7, <1>8, <1>9, <1>10, <1>11, Passes
<1>12. CASE mem[a] \in Chain
  <2>1. PICK d \in Chain : d = mem[a]
    BY <1>12
  <2>2. g.at = a
    BY <1>3, <1>12, StoreTransferAssumption DEF FreeAddr
  <2>3. d # c /\ d \notin lost /\ OwnerOf(d) = RouteOwner(g.route)
        /\ \A b \in Addr : mem[b] = d => b = a
    BY <1>1, <1>2, <1>4, <2>1, <2>2, TopHas
  <2>4. Has(mem', ptr', calls', lost', d, "none")
    BY <1>1, <1>6, <2>3 DEF Has
  <2>5. OwnerOf(d)' = "none"
    BY <2>4, OwnerAfter
  <2> QED BY <1>7, <1>8, <1>9, <1>10, <2>1, <2>3, <2>5, Replaced
<1> QED BY <1>11, <1>12

LEMMA StillRefines ==
  ASSUME IInv, IInv',
         \/ Args \/ Retry \/ Shell \/ Register \/ \E x \in Ptr : MakePtr(x)
         \/ (Return /\ Top.route \in Scoped)
         \/ (RError /\ Top.route \in Scoped \ Unprotected)
  PROVE  OwnersStep
<1>1. calls # << >> /\ UNCHANGED <<mem, lost>>
  BY DEF Args, Retry, Shell, Register, MakePtr, Return, RError, At, Scoped, Unprotected
<1>2. PICK s \in Step, x \in Ptr \cup {Null, Top.xp} : Becomes([Top EXCEPT !.step = s, !.xp = x])
  <2>1. CASE \E s \in Step : Becomes([Top EXCEPT !.step = s])
    <3>1. PICK s \in Step : Becomes([Top EXCEPT !.step = s])
      BY <2>1
    <3>2. Top \in Call
      BY <1>1, TopOK
    <3>3. [Top EXCEPT !.step = s] = [Top EXCEPT !.step = s, !.xp = Top.xp]
      BY <3>2 DEF Call
    <3>4. Becomes([Top EXCEPT !.step = s, !.xp = Top.xp])
      BY <3>1, <3>3 DEF Becomes
    <3> QED BY <3>4
  <2>2. CASE \E x \in Ptr : MakePtr(x)
    BY <2>2 DEF MakePtr, Step
  <2>3. CASE (Return /\ Top.route \in Scoped) \/ (RError /\ Top.route \in Scoped \ Unprotected)
    BY <2>3 DEF Return, RError, Step
  <2> QED BY <2>1, <2>2, <2>3 DEF Args, Retry, Shell, Register, Step
<1>3. PICK g \in Call : g = Top
  BY <1>1, TopOK
<1> DEFINE f == [g EXCEPT !.step = s, !.xp = x]
<1>4. f \in Call /\ f.at = Top.at /\ f.route = Top.route /\ Becomes(f)
  BY <1>2, <1>3 DEF Call
<1>5. \A y \in Ptr : ptr[y].addr # Null => ptr'[y].addr = ptr[y].addr
  <2>1. ASSUME NEW y \in Ptr, MakePtr(y), NEW z \in Ptr, ptr[z].addr # Null
        PROVE  ptr'[z].addr = ptr[z].addr
    BY <2>1 DEF MakePtr, IInv, PointerOK, NoPtr
  <2>2. CASE Args \/ Retry \/ Shell \/ RError
    BY <2>2 DEF Args, Retry, Shell, RError
  <2>3. CASE Register \/ Return
    <3>1. ptr \in [Ptr -> Pointer]
      BY DEF IInv
    <3> QED BY <2>3, <3>1 DEF Register, Return, Pointer
  <2> QED BY <2>1, <2>2, <2>3
<1> QED BY <1>1, <1>4, <1>5, TopStill

LEMMA FreeRefines ==
  ASSUME IInv, IInv',
         \/ Abandon
         \/ (Return /\ Top.route \notin Scoped)
         \/ (RError /\ Top.route \notin Scoped \ Unprotected)
  PROVE  OwnersStep
<1>1. calls # << >> /\ Ends /\ mem' = Deleted(Top.at)
  BY DEF Abandon, Return, RError, At, cleanup
<1>2. PICK g \in Call : g = Top /\ FrameOK(g)
  BY <1>1, TopOK
<1>3. lost' = lost \/ (Top.route = "to_sexp" /\ Top.at # Null /\ mem[Top.at] \in Chain
                       /\ lost' = lost \cup {mem[Top.at]})
  <2>1. CASE Abandon \/ Return
    BY <2>1 DEF Abandon, Return
  <2>2. CASE RError
    BY <1>2, <2>2 DEF RError, At, FrameOK, Scoped, Unprotected
  <2> QED BY <2>1, <2>2
<1>4. \A x \in Ptr : ptr'[x].addr = ptr[x].addr
  <2>1. ptr \in [Ptr -> Pointer]
    BY DEF IInv
  <2> QED BY <2>1 DEF Abandon, Return, RError, Pointer
<1> QED BY <1>1, <1>3, <1>4, TopFrees

(* The address, the pointer and R have it, in one step.                    *)
LEMMA HandOverRefines ==
  ASSUME IInv, IInv', NEW f \in Call, NEW b \in Addr,
         calls # << >>, Top.at # Null, mem[Top.at] \in Chain,
         Top.xp \in Ptr, ptr[Top.xp].addr = Null,
         Becomes(f), ptr' = [ptr EXCEPT ![Top.xp].addr = b], UNCHANGED lost,
         mem'[b] = mem[Top.at],
         \A a \in Addr : mem'[a] = mem[a] \/ (a \in {b, Top.at} /\ mem[a] \in {mem[Top.at], Freed}
                                              /\ mem'[a] \in {mem[Top.at], Empty})
  PROVE  OwnersStep
<1> DEFINE n == Len(calls)
<1>1. PICK c \in Chain : c = mem[Top.at]
  OBVIOUS
<1>2. /\ DOMAIN calls' = DOMAIN calls /\ n \in DOMAIN calls
      /\ \A i \in DOMAIN calls : i # n => calls'[i] = calls[i]
  BY TopReplaced DEF IInv
<1>3. /\ ptr'[Top.xp].addr = b
      /\ \A x \in Ptr : x # Top.xp => ptr'[x] = ptr[x]
  BY DEF IInv, Pointer
<1>4. OwnerOf(c) \in {"guarded", "exposed"}
  BY <1>1, TopHas
<1>5. OwnerOf(c)' = "R"
  <2>1. Has(mem', ptr', calls', lost', c, "R")
    BY <1>1, <1>3, StoreTransferAssumption DEF Has, InPtr
  <2> QED BY <2>1, OwnerAfter
<1>6. ASSUME NEW d \in Chain \ {c} PROVE OwnerOf(d)' = OwnerOf(d)
  <2>1. \A a \in Addr : mem'[a] = d <=> mem[a] = d
    BY <1>1, StoreTransferAssumption
  <2>2. \A i \in DOMAIN calls : calls[i].at # Null /\ mem[calls[i].at] = d => i # n
    BY <1>1 DEF Top
  <2>3. \A x \in Ptr : ptr[x].addr # Null => x # Top.xp
    OBVIOUS
  <2> QED BY <1>2, <1>3, <2>1, <2>2, <2>3, OwnerKept
<1> QED BY <1>4, <1>5, <1>6, Passes

LEMMA InstallRefines == ASSUME IInv, IInv', InstallPending \/ InstallMoved PROVE OwnersStep
<1>1. calls # << >> /\ Top.step = "install" /\ UNCHANGED lost
  BY DEF InstallPending, InstallMoved, At
<1>2. PICK g \in Call : g = Top /\ FrameOK(g) /\ (g.xp # Null => PtrFits(ptr[g.xp], g.step))
  BY <1>1, TopOK
<1>3. g.at \in Addr /\ g.at # Null /\ mem[g.at] \in Chain
  BY <1>1, <1>2, TopOK DEF FrameOK
<1>4. g.xp \in Ptr /\ ptr[g.xp].addr = Null
  BY <1>1, <1>2, TopOK DEF FrameOK, PtrFits
<1>5. CASE InstallPending
  <2>1. handed_over(g) \in Call
    BY <1>2 DEF handed_over, Call, Step
  <2>2. Becomes(handed_over(g)) /\ ptr' = [ptr EXCEPT ![g.xp].addr = g.at] /\ mem' = mem
    BY <1>2, <1>5 DEF InstallPending
  <2> QED BY <1>1, <1>2, <1>3, <1>4, <2>1, <2>2, HandOverRefines
<1>6. CASE InstallMoved
  <2>1. PICK b \in FreeAddr : mem' = move_contents(g.at, b) /\ ptr' = [ptr EXCEPT ![g.xp].addr = b]
    BY <1>2, <1>6 DEF InstallMoved
  <2> DEFINE f == [g EXCEPT !.step = "return"]
  <2>2. f \in Call /\ Becomes(f)
    BY <1>2, <1>6 DEF InstallMoved, Call, Step
  <2>3. b \in Addr /\ mem[b] = Freed /\ b # g.at
    BY <1>3, <2>1, StoreTransferAssumption DEF FreeAddr
  <2>4. \A a \in Addr : mem'[a] = IF a = g.at THEN Empty ELSE IF a = b THEN mem[g.at] ELSE mem[a]
    BY <1>3, <2>1, <2>3 DEF move_contents, IInv
  <2> HIDE DEF f
  <2> QED BY <1>1, <1>2, <1>3, <1>4, <2>1, <2>2, <2>3, <2>4, HandOverRefines
<1> QED BY <1>5, <1>6

LEMMA PointerRefines ==
  ASSUME IInv, IInv', NEW x \in Ptr,
         Materialize(x) \/ RunFinalizer(x) \/ RunExitFinalizer(x)
  PROVE  OwnersStep
<1>1. ptr[x] \in Pointer /\ UNCHANGED <<calls, lost>>
  BY DEF IInv, Materialize, RunFinalizer, RunExitFinalizer
<1>2. \E p \in Pointer : Finalize(x, p)
  <2>1. CASE Materialize(x)
    <3>1. [ptr[x] EXCEPT !.materialized = TRUE] \in Pointer
      BY <1>1 DEF Pointer
    <3> QED BY <2>1, <3>1 DEF Materialize
  <2>2. CASE RunFinalizer(x) \/ RunExitFinalizer(x)
    <3>1. [ptr[x] EXCEPT !.armed = FALSE] \in Pointer
      BY <1>1 DEF Pointer
    <3> QED BY <2>2, <3>1 DEF RunFinalizer, RunExitFinalizer
  <2> QED BY <2>1, <2>2
<1> QED BY <1>1, <1>2, PointerFrees

LEMMA RestRefines ==
  ASSUME IInv, IInv',
         Quit \/ UNCHANGED vars \/ \E x \in Ptr : Drop(x) \/ Reclaim(x)
  PROVE  OwnersStep
<1>1. UNCHANGED <<mem, calls, lost>>
  BY DEF Quit, vars, Drop, Reclaim
<1>2. \A y \in Ptr : ptr[y].addr # Null => ptr'[y].addr = ptr[y].addr
  <2>1. ptr \in [Ptr -> Pointer] /\ \A y \in Ptr : ptr[y].addr # Null => ptr[y].armed
    BY DEF IInv, PointerOK
  <2>2. CASE Quit \/ UNCHANGED vars
    BY <2>2 DEF Quit, vars
  <2>3. ASSUME NEW x \in Ptr, Drop(x) PROVE \A y \in Ptr : ptr'[y].addr = ptr[y].addr
    BY <2>1, <2>3 DEF Drop, Pointer
  <2>4. ASSUME NEW x \in Ptr, Reclaim(x) PROVE \A y \in Ptr : y # x => ptr'[y] = ptr[y]
    BY <2>1, <2>4 DEF Reclaim
  <2> QED BY <2>1, <2>2, <2>3, <2>4 DEF Reclaim
<1> QED BY <1>1, <1>2, Still

-----------------------------------------------------------------------------
LEMMA InitRefines == Init => Promise!Init
<1> SUFFICES ASSUME Init, NEW c \in Chain PROVE OwnerOf(c) = "none"
  BY DEF Promise!Init
<1>1. IInv /\ Has(mem, ptr, calls, lost, c, "none")
  BY InitInv, StoreTransferAssumption DEF Init, Has
<1> QED BY <1>1, OwnerBefore

LEMMA NextRefines == IInv /\ [Next]_vars => [Promise!Next]_owners
<1> SUFFICES ASSUME IInv, [Next]_vars PROVE OwnersStep
  BY DEF OwnersStep
<1>1. IInv'
  BY NextInv
<1> QED
  BY <1>1, BeginRefines, BuildRefines, StillRefines, FreeRefines, InstallRefines,
     PointerRefines, RestRefines
  DEF Next, Wrapping

(* What C++ builds has one owner at a time, is R's once R has it, and is   *)
(* lost only from a scope that nothing guards: for any nesting of calls,   *)
(* whichever R call fails.                                                 *)
THEOREM Refinement == Spec => ImplementsStoreOwner
BY InitRefines, NextRefines, Invariance, PTL
DEF Spec, ImplementsStoreOwner, Promise!Spec, owners
=============================================================================
