--------------------------- MODULE StoreTransfer ---------------------------
(***************************************************************************)
(* Who owns a Store while it becomes an R object (wrap_store_with_cleanup  *)
(* and MoveStore in src/charvec_altrep.h, the entry points of              *)
(* charvec_api.cpp, to_sexp and its framework variants in builder.h).      *)
(*                                                                         *)
(* A call builds strings in C++ and wraps them in three R allocations and  *)
(* one step that cannot fail.  Any R allocation may raise an R error, and  *)
(* may run the collector, whose finalizers may themselves call charport:   *)
(* calls in progress are a stack.  An R error within a finalizer ends      *)
(* there.  Routes differ in who has the Store meanwhile:                   *)
(*   "heap"       a heap Store, pending in R_ExecWithCleanup               *)
(*                (as_charvec, alloc_na, Duplicate, subset, Unserialize)   *)
(*   "views"      a heap Builder, deleted by R_ExecWithCleanup             *)
(*   "framework"  a Builder in a C++ scope, to_sexp_with_rcpp or _cpp11    *)
(*   "to_sexp"    the same with to_sexp: an R error jumps over the scope   *)
(***************************************************************************)
EXTENDS Naturals, Sequences

CONSTANTS
  Chain,       \* the slices of a Store, with the records that use them
  Addr,        \* where Stores may be: on the heap, or in a Builder
  Ptr,         \* R's external pointers
  Route,
  MaxCalls,    \* bound of a run: calls nested within each other
  Empty,       \* the contents of a Store that has been moved from, or is new
  Freed,       \* the contents of memory that holds no Store
  Null

Scoped == {"framework", "to_sexp"}

ASSUME StoreTransferAssumption ==
  /\ Route \subseteq {"heap", "views"} \cup Scoped
  /\ Empty \notin Chain /\ Freed \notin Chain /\ Empty # Freed
  /\ Null \notin Addr /\ Null \notin Ptr
  /\ MaxCalls \in Nat

VARIABLES
  mem,       \* the Store at every address
  ptr,       \* every external pointer: data1 of one charvec
  calls,     \* calls in progress, the innermost last
  lost,      \* history: what R errors have leaked
  running    \* the R session has not ended

vars == <<mem, ptr, calls, lost, running>>

Step == {"args", "build", "make", "register", "shell", "install", "return"}

Call    == [route : Route, step : Step, at : Addr \cup {Null}, xp : Ptr \cup {Null}]
Pointer == [made : BOOLEAN, addr : Addr \cup {Null}, armed : BOOLEAN,
            held : BOOLEAN, materialized : BOOLEAN]

NoPtr == [made |-> FALSE, addr |-> Null, armed |-> FALSE, held |-> FALSE,
          materialized |-> FALSE]

Top  == calls[Len(calls)]
At(step) == running /\ calls # << >> /\ Top.step = step
Becomes(f) == calls' = [calls EXCEPT ![Len(calls)] = f]
Ends == calls' = SubSeq(calls, 1, Len(calls) - 1)

(* R code, another call among it, may run: outside of any call, within an  *)
(* R allocation, and within a scope that belongs to a consumer.            *)
MayRunR ==
  /\ running
  /\ calls # << >> =>
       \/ Top.step \in {"args", "make", "register", "shell"}
       \/ Top.step = "build" /\ Top.route \in Scoped

FreeAddr  == {a \in Addr : mem[a] = Freed}
FreeChain == {c \in Chain \ lost : \A a \in Addr : mem[a] # c}

(* Memory once the Store at a is deleted; delete of Null does nothing.     *)
Deleted(a) == [b \in Addr |-> IF b = a THEN Freed ELSE mem[b]]

(***************************************************************************)
(* Building, in C++.  The arguments that may call R, as an ALTREP index,   *)
(* are read before anything is owned.                                      *)
(***************************************************************************)
Begin(route) ==
  /\ MayRunR /\ Len(calls) < MaxCalls
  /\ IF route = "heap"
     THEN /\ calls' = Append(calls, [route |-> route, step |-> "args", at |-> Null, xp |-> Null])
          /\ UNCHANGED mem
     ELSE \E a \in FreeAddr :
            /\ calls' = Append(calls, [route |-> route, step |-> "build", at |-> a, xp |-> Null])
            /\ mem'   = [mem EXCEPT ![a] = Empty]
  /\ UNCHANGED <<ptr, lost, running>>

Args ==
  /\ At("args")
  /\ Becomes([Top EXCEPT !.step = "build"])
  /\ UNCHANGED <<mem, ptr, lost, running>>

Build(c) ==
  /\ At("build") /\ c \in FreeChain
  /\ \E a \in IF Top.at = Null THEN FreeAddr ELSE {Top.at} :
       /\ Becomes([Top EXCEPT !.step = "make", !.at = a])
       /\ mem' = [mem EXCEPT ![a] = c]
  /\ UNCHANGED <<ptr, lost, running>>

(* A scope that kept its Builder through a failed conversion tries again.  *)
Retry ==
  /\ At("build") /\ Top.at # Null /\ mem[Top.at] \in Chain
  /\ Becomes([Top EXCEPT !.step = "make"])
  /\ UNCHANGED <<mem, ptr, lost, running>>

(* A C++ exception while building, or the end of a scope: a local is       *)
(* destroyed, and the heap Builder of from_views deleted.                  *)
Abandon ==
  /\ At("build")
  /\ mem' = Deleted(Top.at)
  /\ Ends
  /\ UNCHANGED <<ptr, lost, running>>

(***************************************************************************)
(* store_wrap_exec and MoveStore.                                          *)
(***************************************************************************)
MakePtr(x) ==
  /\ At("make") /\ ~ ptr[x].made
  /\ ptr' = [ptr EXCEPT ![x] = [NoPtr EXCEPT !.made = TRUE]]
  /\ Becomes([Top EXCEPT !.step = "register", !.xp = x])
  /\ UNCHANGED <<mem, lost, running>>

(* R_RegisterCFinalizerEx(xp, Finalize, TRUE).                             *)
Register ==
  /\ At("register")
  /\ ptr' = [ptr EXCEPT ![Top.xp].armed = TRUE]
  /\ Becomes([Top EXCEPT !.step = "shell"])
  /\ UNCHANGED <<mem, lost, running>>

(* R_new_altrep: the vector is protected and not yet anyone's.             *)
Shell ==
  /\ At("shell")
  /\ Becomes([Top EXCEPT !.step = "install"])
  /\ UNCHANGED <<mem, ptr, lost, running>>

(* Mutated: a scope's vector stays protected once it is returned.          *)
ReturnStillProtected ==
  /\ At("return")
  /\ ptr' = [ptr EXCEPT ![Top.xp].held = TRUE]
  /\ IF Top.route \in Scoped
     THEN Becomes([Top EXCEPT !.step = "build"]) /\ UNCHANGED mem
     ELSE Ends /\ mem' = Deleted(Top.at)
  /\ UNCHANGED <<lost, running>>

(* Mutated: the wrapped Store stays pending.                               *)
handed_overPending(f) == [f EXCEPT !.step = "return"]

handed_over(f) == [f EXCEPT !.step = "return", !.at = Null]

(* The pending Store itself, in store_wrap_exec.                           *)
InstallPending ==
  /\ At("install") /\ Top.route = "heap"
  /\ ptr' = [ptr EXCEPT ![Top.xp].addr = Top.at]
  /\ Becomes(handed_over(Top))
  /\ UNCHANGED <<mem, lost, running>>

(* Mutated: the Store is copied, and the source keeps its slices.          *)
move_contentsCopies(a, b) == [mem EXCEPT ![b] = mem[a]]

move_contents(a, b) == [mem EXCEPT ![b] = mem[a], ![a] = Empty]

(* A new Store that takes the contents of the caller's, in MoveStore.      *)
InstallMoved ==
  /\ At("install") /\ Top.route # "heap"
  /\ \E b \in FreeAddr :
       /\ mem' = move_contents(Top.at, b)
       /\ ptr' = [ptr EXCEPT ![Top.xp].addr = b]
  /\ Becomes([Top EXCEPT !.step = "return"])
  /\ UNCHANGED <<lost, running>>

(* R has the vector.  A cleanup function deletes what is still pending, or *)
(* the Builder; a scope keeps its Builder, and may use it again.           *)
Return ==
  /\ At("return")
  /\ ptr' = [ptr EXCEPT ![Top.xp].held = TRUE]
  /\ IF Top.route \in Scoped
     THEN Becomes([Top EXCEPT !.step = "build", !.xp = Null]) /\ UNCHANGED mem
     ELSE Ends /\ mem' = Deleted(Top.at)
  /\ UNCHANGED <<lost, running>>

(* Mutated: the framework's call does not protect the scope.               *)
UnprotectedAlways == Scoped

Unprotected == {"to_sexp"}

(* store_wrap_cleanup, bulk_builder_cleanup, and the destructor of a scope *)
(* that unwinds; the memory of a scope that does not is reused as well.    *)
cleanup(f) == Deleted(f.at)

(* Mutated: an allocation that failed is tried again, until it succeeds.   *)
RErrorTriesAgain ==
  /\ \E step \in {"make", "register", "shell"} : At(step)
  /\ Becomes([Top EXCEPT !.step = "make", !.xp = Null])
  /\ UNCHANGED <<mem, ptr, lost, running>>

(* An R error in any of the allocations, or when MoveStore has no memory   *)
(* for its Store.  The cleanup function runs; a framework turns the error  *)
(* into an exception, which the scope may handle; the rest is jumped over. *)
RError ==
  /\ \/ \E step \in {"args", "make", "register", "shell"} : At(step)
     \/ At("install") /\ Top.route # "heap"
  /\ IF Top.route \in Scoped \ Unprotected
     THEN Becomes([Top EXCEPT !.step = "build", !.xp = Null]) /\ UNCHANGED mem
     ELSE Ends /\ mem' = cleanup(Top)
  /\ lost' = IF Top.route \in Unprotected THEN lost \cup {mem[Top.at]} ELSE lost
  /\ UNCHANGED <<ptr, running>>

(***************************************************************************)
(* The vector's life in R.                                                 *)
(***************************************************************************)
(* Finalize is called by the collector, by R at its end, and by            *)
(* install_materialized: the Store is deleted and the address cleared.     *)
Finalize(x, p) ==
  /\ mem' = Deleted(ptr[x].addr)
  /\ ptr' = [ptr EXCEPT ![x] = [p EXCEPT !.addr = Null]]

Garbage(x) == ~ ptr[x].held /\ \A i \in DOMAIN calls : calls[i].xp # x

Materialize(x) ==
  /\ MayRunR /\ ptr[x].held /\ ~ ptr[x].materialized
  /\ Finalize(x, [ptr[x] EXCEPT !.materialized = TRUE])
  /\ UNCHANGED <<calls, lost, running>>

Drop(x) ==
  /\ MayRunR /\ ptr[x].held
  /\ ptr' = [ptr EXCEPT ![x].held = FALSE]
  /\ UNCHANGED <<mem, calls, lost, running>>

RunFinalizer(x) ==
  /\ MayRunR /\ ptr[x].armed /\ Garbage(x)
  /\ Finalize(x, [ptr[x] EXCEPT !.armed = FALSE])
  /\ UNCHANGED <<calls, lost, running>>

Reclaim(x) ==
  /\ MayRunR /\ ptr[x].made /\ ~ ptr[x].armed /\ Garbage(x)
  /\ ptr' = [ptr EXCEPT ![x] = NoPtr]
  /\ UNCHANGED <<mem, calls, lost, running>>

Quit ==
  /\ running /\ calls = << >>
  /\ running' = FALSE
  /\ UNCHANGED <<mem, ptr, calls, lost>>

(* Mutated: the finalizer is not registered for the end of the session.    *)
onexitNot(x) == FALSE

onexit(x) == ptr[x].armed

(* R_RunExitFinalizers: reachable or not.                                  *)
RunExitFinalizer(x) ==
  /\ ~ running /\ onexit(x)
  /\ Finalize(x, [ptr[x] EXCEPT !.armed = FALSE])
  /\ UNCHANGED <<calls, lost, running>>

-----------------------------------------------------------------------------
Init ==
  /\ mem = [a \in Addr |-> Freed]
  /\ ptr = [x \in Ptr |-> NoPtr]
  /\ calls = << >>
  /\ lost = {}
  /\ running = TRUE

(* The innermost call goes on: an R API call returns, or raises an error.  *)
Wrapping ==
  \/ \E x \in Ptr : MakePtr(x)
  \/ Args \/ Register \/ Shell \/ InstallPending \/ InstallMoved \/ Return \/ RError

Next ==
  \/ \E route \in Route : Begin(route)
  \/ \E c \in Chain : Build(c)
  \/ Retry \/ Abandon \/ Wrapping
  \/ \E x \in Ptr : \/ Materialize(x) \/ Drop(x) \/ RunFinalizer(x) \/ Reclaim(x)
                    \/ RunExitFinalizer(x)
  \/ Quit

Spec == Init /\ [][Next]_vars

(* Calls into R come back, functions come to their end, and R runs exit    *)
(* finalizers.  Strong fairness of calls: each waits for the calls nested  *)
(* in it, of which one allocation makes finitely many.                     *)
Fairness ==
  /\ \A i \in 1 .. MaxCalls :
       /\ SF_vars(Len(calls) = i /\ Wrapping)
       /\ SF_vars(Len(calls) = i /\ Abandon)
  /\ \A x \in Ptr : WF_vars(RunExitFinalizer(x))

FairSpec == Spec /\ Fairness

-----------------------------------------------------------------------------
(* Every variable has its type, an external pointer is in use only once    *)
(* made, and a call has a Store exactly when its step needs one.           *)
TypeOK ==
  /\ mem \in [Addr -> Chain \cup {Empty, Freed}]
  /\ ptr \in [Ptr -> Pointer]
  /\ calls \in Seq(Call) /\ Len(calls) <= MaxCalls
  /\ lost \subseteq Chain
  /\ running \in BOOLEAN
  /\ \A x \in Ptr : ~ ptr[x].made => ptr[x] = NoPtr
  /\ \A i \in DOMAIN calls :
       /\ calls[i].step \in {"make", "register", "shell", "install"} =>
            calls[i].at # Null /\ mem[calls[i].at] \in Chain
       /\ calls[i].xp # Null <=> calls[i].step \in {"register", "shell", "install", "return"}

(* Every Store is owned by one call or one external pointer, and by no     *)
(* other, and nobody holds the address of what is not a Store: through R   *)
(* errors at any point, finalizers in the middle of a call, reused         *)
(* addresses and retries, each is deleted once.                            *)
OneOwner ==
  /\ \A i \in DOMAIN calls : calls[i].at # Null =>
       /\ mem[calls[i].at] # Freed
       /\ \A j \in DOMAIN calls : calls[j].at = calls[i].at => j = i
  /\ \A x \in Ptr : ptr[x].addr # Null =>
       /\ mem[ptr[x].addr] # Freed
       /\ \A y \in Ptr : ptr[y].addr = ptr[x].addr => y = x
       /\ \A i \in DOMAIN calls : calls[i].at # ptr[x].addr
  /\ \A a \in Addr : mem[a] # Freed =>
       (\E i \in DOMAIN calls : calls[i].at = a) \/ (\E x \in Ptr : ptr[x].addr = a)

(* A vector R can reach has the strings that were built for it, alone, and *)
(* a finalizer that will free them, from the moment R has it until it is   *)
(* materialized.                                                           *)
VectorsComplete ==
  \A x \in Ptr :
    /\ running /\ ptr[x].held /\ ~ ptr[x].materialized => ptr[x].addr # Null
    /\ ptr[x].addr # Null =>
         /\ ptr[x].armed
         /\ mem[ptr[x].addr] \in Chain
         /\ \A a \in Addr : mem[a] = mem[ptr[x].addr] => a = ptr[x].addr

InR(c) == \E x \in Ptr : ptr[x].addr # Null /\ mem[ptr[x].addr] = c

InCall(c, routes) ==
  \E i \in DOMAIN calls :
    calls[i].at # Null /\ mem[calls[i].at] = c /\ calls[i].route \in routes

OwnerOf(c) ==
  CASE c \in lost                    -> "lost"
    [] InR(c)                        -> "R"
    [] InCall(c, {"to_sexp"})        -> "exposed"
    [] InCall(c, Route \ {"to_sexp"}) -> "guarded"
    [] OTHER                         -> "none"

(* What is built has one owner at a time, passes to R at most once, and is *)
(* lost only by a to_sexp that no framework and no cleanup guards.         *)
Promise == INSTANCE StoreOwner WITH owner <- [c \in Chain |-> OwnerOf(c)]

ImplementsStoreOwner == Promise!Spec

(* Strings a guarded call or scope has built do not stay with it: R gets   *)
(* them, or they are freed.                                                *)
CallsSettle == \A c \in Chain : OwnerOf(c) = "guarded" ~> InR(c) \/ c \in FreeChain

(* When the session has ended every Store is freed, the reachable ones     *)
(* too: finalizers are registered for the exit.                            *)
ExitFreesAll == ~ running ~> \A a \in Addr : mem[a] = Freed
=============================================================================
