------------------------------ MODULE LeafStore ------------------------------
(***************************************************************************)
(* What a store of dotted keys promises: a flat map from paths to scalars  *)
(* in which no key lies above another, and the copy of it that was saved   *)
(* last.  There are no tables here: a table is what its leaves are.        *)
(***************************************************************************)
EXTENDS Naturals, Sequences

CONSTANTS
  Paths, Values, Absent,
  Updates   \* the maps that are laid over the store (no leaf above another)

VARIABLES
  leaves,  \* [Paths -> value or Absent]
  saved    \* the copy a restart finds

\* p lies strictly above q.
Above(p, q) == Len(p) < Len(q) /\ \A i \in 1..Len(p) : p[i] = q[i]
Related(p, q) == p = q \/ Above(p, q) \/ Above(q, p)

Nothing == [p \in Paths |-> Absent]

\* The map m with everything related to k replaced by one leaf, or by none.
Put(m, k, v) ==
  [p \in Paths |-> IF p = k THEN v ELSE IF Related(p, k) THEN Absent ELSE m[p]]

\* u laid over m: a leaf of u displaces whatever is related to it.
Overlay(m, u) ==
  [p \in Paths |-> IF u[p] # Absent THEN u[p]
                   ELSE IF \E q \in Paths : u[q] # Absent /\ Related(p, q)
                        THEN Absent ELSE m[p]]

\* The same, a whole top-level entry at a time.
Replace(m, u) ==
  [p \in Paths |-> IF \E q \in Paths : u[q] # Absent /\ q[1] = p[1]
                   THEN u[p] ELSE m[p]]

Init == leaves = Nothing /\ saved = Nothing

Change ==
  /\ \/ \E k \in Paths, v \in Values \union {Absent} :
          /\ \A p \in Paths : Above(p, k) => leaves[p] = Absent
          /\ leaves' = Put(leaves, k, v)
     \/ \E u \in Updates : leaves' \in {Overlay(leaves, u), Replace(leaves, u), u}
  /\ UNCHANGED saved

Save == saved' = leaves /\ UNCHANGED leaves

\* A write that does not come to its end leaves nothing saved.
SpoilSaved == saved' = Nothing /\ UNCHANGED leaves

\* The process ends, perhaps in the middle of a write; the next one starts
\* from what is saved.
Restart == saved' \in {saved, Nothing} /\ leaves' = saved'

Next == Change \/ Save \/ SpoilSaved \/ Restart

Spec == Init /\ [][Next]_<<leaves, saved>>
=============================================================================
