---------------------------- MODULE StringVector ----------------------------
(***************************************************************************)
(* What R expects of every character vector, whatever its representation:  *)
(* a handle is a function from zero-based positions to CHARSXPs, a copy is *)
(* independent of its source, an assignment changes one element of one     *)
(* vector, and reading an element returns what was last put there.         *)
(***************************************************************************)
EXTENDS Strings, Subscripts

CONSTANTS Vec,        \* vector handles
          MaxLen,     \* longest vector
          Inputs,     \* the subscripts a subset operation is given
          Absent,     \* the value of a handle no vector has
          NoResult,   \* an operation that changes no vector, or fails
          NewStrings  \* an operation that made a vector of new strings

VARIABLES val,        \* val[v]: Absent, or the strings of vector v
          out         \* what the last operation was asked, and returned

vars == <<val, out>>

Length(v) == CHOOSE n \in 0 .. MaxLen : DOMAIN val[v] = 0 .. n-1

Init == /\ val = [v \in Vec |-> Absent]
        /\ out = NoResult

OnlyChanges(v) == \A u \in Vec \ {v} : val'[u] = val[u]

(* A vector of any contents appears under an unused handle.                *)
Create(v) == /\ out' = NewStrings
             /\ val[v] = Absent
             /\ \E n \in 0 .. MaxLen : val'[v] \in [0 .. n-1 -> CHARSXP]
             /\ OnlyChanges(v)

Assign(v) == /\ val[v] # Absent /\ val'[v] # Absent
             /\ DOMAIN val'[v] = DOMAIN val[v]
             /\ \E i \in DOMAIN val[v] :
                  /\ out' = <<"assign", v, i, val'[v][i]>>
                  /\ val'[v][i] \in CHARSXP
                  /\ val' = [val EXCEPT ![v][i] = val'[v][i]]

Read(v) == /\ val[v] # Absent
           /\ \E i \in DOMAIN val[v] : out' = <<"read", v, i, val[v][i]>>
           /\ UNCHANGED val

Copy(v, w) == /\ out' = <<"copy", v, w>>
              /\ val[v] # Absent /\ val[w] = Absent
              /\ val' = [val EXCEPT ![w] = val[v]]

(* x[s]: a position within the vector, after truncation, or NA.            *)
Subset(v, w) ==
  /\ val[v] # Absent /\ val[w] = Absent
  /\ \E m \in 0 .. MaxLen : \E s \in [0 .. m-1 -> Inputs] :
       /\ out' = <<"subset", v, w, s>>
       /\ val' = [val EXCEPT ![w] =
                    [j \in 0 .. m-1 |->
                       IF RSubscript(s[j]) \in 1 .. Length(v)
                       THEN val[v][RSubscript(s[j]) - 1] ELSE NA_STRING]]

Drop(v) == /\ out' = <<"drop", v>>
           /\ val[v] # Absent
           /\ val' = [val EXCEPT ![v] = Absent]

(* Changes of representation, and operations that fail.                    *)
Internal == out' = NoResult /\ UNCHANGED val

Next == \/ \E v \in Vec : Create(v) \/ Assign(v) \/ Read(v) \/ Drop(v)
        \/ \E v, w \in Vec : Copy(v, w) \/ Subset(v, w)
        \/ Internal

Spec == Init /\ [][Next]_vars
=============================================================================
