----------------------------- MODULE MCBroker -------------------------------
(* Small instances of Broker: a class with no release callback that drops  *)
(* its data (as charvec and charpack), a class with allocated states, and  *)
(* wrappers, some of them too deep for a max_unwrap_depth of 2.            *)
EXTENDS Broker, TLC

CONSTANTS charvec, other,             \* classes
          v, w, ww, u, p, wp, wwp, wwwp,  \* vectors; w wraps v, ww wraps w...
          f0, f1, f2                  \* callbacks

ClassOfEach ==
  [x \in Vec |-> CASE x = v -> charvec [] x = u -> other [] x = p -> "plain"
                   [] OTHER -> "wrap_string"]
Inside == (w :> v) @@ (ww :> w) @@ (wp :> p) @@ (wwp :> wp) @@ (wwwp :> wwp)
DataOfEach == [x \in {y \in Vec : ClassOf[y] = "wrap_string"} |-> Inside[x]]
SameLength == [x \in Vec |-> 2]
TwoOffers  == {<<charvec, f0>>, <<other, f1>>, <<other, f2>>}
OneOffer   == {<<charvec, f0>>}

SymmetrySlots == Permutations(Slot) \cup Permutations(State)
=============================================================================
