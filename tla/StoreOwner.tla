---------------------------- MODULE StoreOwner -----------------------------
(***************************************************************************)
(* What the wrapping of Stores promises: strings built in C++ belong to    *)
(* one party at a time.  They are handed to R once, or freed, and what a   *)
(* scope guards against R errors is never lost.                            *)
(***************************************************************************)
CONSTANT Chain   \* the slices of a Store, with the records that use them

VARIABLE owner   \* who has to free them

Owner == {"none", "guarded", "exposed", "R", "lost"}

Init == owner = [c \in Chain |-> "none"]

Goes(c, from, to) == owner[c] \in from /\ owner' = [owner EXCEPT ![c] = to]

Build(c) == Goes(c, {"none"}, "guarded") \/ Goes(c, {"none"}, "exposed")

HandOver(c) == Goes(c, {"guarded", "exposed"}, "R")

Free(c) == Goes(c, {"guarded", "exposed", "R"}, "none")

(* An R error jumps over the destructor of a scope that is not guarded.    *)
Lose(c) == Goes(c, {"exposed"}, "lost")

(* A builder that is reset frees what it has for what it builds next.      *)
Replace(c, d) ==
  /\ owner[c] \in {"guarded", "exposed"} /\ owner[d] = "none"
  /\ owner' = [owner EXCEPT ![c] = "none", ![d] = owner[c]]

Next ==
  \/ \E c \in Chain : Build(c) \/ HandOver(c) \/ Free(c) \/ Lose(c)
  \/ \E c, d \in Chain : Replace(c, d)

Spec == Init /\ [][Next]_owner
=============================================================================
