------------------------------ MODULE TOMLFile ------------------------------
(***************************************************************************)
(* TOMLFileProtocol (adapters/file.py): nested dicts addressed by dotted   *)
(* keys, kept in memory and written as a whole to one file.  No operation  *)
(* suspends, but a write opens (truncates) the file before it fills it,    *)
(* and the process may die in between.                                     *)
(*                                                                         *)
(* The dict `_data' is a function from paths to what is found there: a     *)
(* scalar, Dict or Absent.  A file that is missing reads like an empty one.*)
(***************************************************************************)
EXTENDS Naturals, Sequences

CONSTANTS
  Paths,        \* dotted keys as sequences, with every prefix of each
  Values,       \* scalars
  Unencodable,  \* a value TOML has no form for (None)
  Dict, Absent,
  Updates       \* bound: what callers merge or write, as flat maps

VARIABLES
  data,   \* _data
  file,   \* what the file decodes to
  stage,  \* "down", "up", or "writing" between truncation and content
  acked,  \* history: the data of the last write that returned True
  torn    \* history: the last write that truncated the file did not fill it

vars == <<data, file, stage, acked, torn>>

Scalars == Values \union {Unencodable}
Leaves  == INSTANCE LeafStore WITH Values <- Scalars, leaves <- data, saved <- file

Above(p, q) == Leaves!Above(p, q)
Empty == [p \in Paths |-> Absent]

\* The nested dict with the leaves of the flat map u: what a caller passes
\* to write and merge.  (Empty dicts come from set and from delete.)
Nested(u) ==
  [p \in Paths |-> IF u[p] # Absent THEN u[p]
                   ELSE IF \E q \in Paths : Above(p, q) /\ u[q] # Absent
                        THEN Dict ELSE Absent]

\* What the constants stand for: dotted keys with their prefixes, scalars that
\* are no dicts, and maps whose keys lie beside one another.
DottedKeys ==
  /\ Paths \subseteq Seq(STRING) \ {<<>>}
  /\ \A p \in Paths : \A n \in 1..Len(p) : SubSeq(p, 1, n) \in Paths
  /\ Dict \notin Scalars /\ Absent \notin Scalars /\ Dict # Absent
  /\ \A u \in Updates :
       /\ u \in [Paths -> Scalars \union {Absent}]
       /\ \A p, q \in Paths : Above(p, q) /\ u[p] # Absent => u[q] = Absent

Encodes(t) == \A p \in Paths : t[p] # Unencodable

Init ==
  /\ data = Empty /\ file = Empty /\ acked = Empty
  /\ stage = "down" /\ torn = FALSE

\* A plausible bug: the file is opened before the data is encoded.
writeOpensFirst(t) ==
  /\ data' = t
  /\ file' = Empty
  /\ IF Encodes(t) THEN stage' = "writing" ELSE UNCHANGED stage

\* write of t: encoding raises TypeError before the file is touched, and t
\* stays in memory.  Otherwise the file is truncated.
write(t) ==
  /\ data' = t
  /\ IF Encodes(t) THEN stage' = "writing" /\ file' = Empty
     ELSE UNCHANGED <<stage, file>>

\* The end of set, delete and merge: t is in memory, and written if flush.
Change(t, flush) ==
  /\ stage = "up"
  /\ IF flush THEN write(t) ELSE data' = t /\ UNCHANGED <<stage, file>>
  /\ UNCHANGED <<acked, torn>>

\* _resolve_key finds no scalar on its way to k.  Through one, delete
\* returns False and set raises TypeError: neither changes anything.
Resolves(k) == \A p \in Paths : Above(p, k) => data[p] \in {Dict, Absent}

\* set creates the missing parents; v may be an (empty) dict.
set(k, v, flush) ==
  /\ Resolves(k)
  /\ Change([p \in Paths |-> IF p = k THEN v
                             ELSE IF Above(p, k) THEN Dict
                             ELSE IF Above(k, p) THEN Absent
                             ELSE data[p]], flush)

\* delete leaves the parents, which may be empty dicts from then on.
delete(k, flush) ==
  /\ Resolves(k) /\ data[k] # Absent
  /\ Change([p \in Paths |-> IF p = k \/ Above(k, p) THEN Absent ELSE data[p]],
            flush)

\* A plausible bug: what the store has already wins.
deepMergeKeeps(t, u) ==
  [p \in Paths |->
     IF t[p] # Absent THEN t[p]
     ELSE IF \E q \in Paths : Above(q, p) /\ t[q] \notin {Dict, Absent} THEN Absent
     ELSE u[p]]

\* _deep_merge goes down where both sides have a dict and replaces elsewhere.
deep_merge(t, u) ==
  [p \in Paths |->
     IF u[p] # Absent THEN u[p]
     ELSE IF \E q \in Paths : /\ Above(q, p) /\ u[q] # Absent
                              /\ ~(u[q] = Dict /\ t[q] = Dict)
          THEN Absent
     ELSE t[p]]

\* dict.update: only the top-level entries that u names are replaced.
update(t, u) ==
  [p \in Paths |-> IF u[<<p[1]>>] # Absent THEN u[p] ELSE t[p]]

merge(u, deep, flush) ==
  Change(IF deep THEN deep_merge(data, u) ELSE update(data, u), flush)

\* The rest of write: the content reaches the file, or the disk is full and
\* write raises OSError.
WriteContent ==
  /\ stage = "writing" /\ stage' = "up"
  /\ file' = data /\ acked' = data /\ torn' = FALSE
  /\ UNCHANGED data

WriteFails ==
  /\ stage = "writing" /\ stage' = "up"
  /\ torn' = TRUE
  /\ UNCHANGED <<data, file, acked>>

Crash ==
  /\ stage # "down" /\ stage' = "down"
  /\ data' = Empty
  /\ torn' = (torn \/ stage = "writing")
  /\ UNCHANGED <<file, acked>>

on_start ==
  /\ stage = "down" /\ stage' = "up"
  /\ data' = file
  /\ UNCHANGED <<file, acked, torn>>

Next ==
  \/ \E flush \in BOOLEAN :
       \/ \E k \in Paths, v \in Scalars \union {Dict} : set(k, v, flush)
       \/ \E k \in Paths : delete(k, flush)
       \/ \E u \in Updates, deep \in BOOLEAN : merge(Nested(u), deep, flush)
  \/ \E u \in Updates : Change(Nested(u), TRUE)
  \/ WriteContent \/ WriteFails \/ Crash \/ on_start

Spec == Init /\ [][Next]_vars
-----------------------------------------------------------------------------
(* A write that returned True survives: the file holds the last            *)
(* acknowledged data, whatever failed or crashed since, unless a write was *)
(* cut between the truncation and the content.                             *)
FileHoldsAcked == stage # "writing" /\ ~torn => file = acked

LeafOf(t) == [p \in Paths |-> IF t[p] \in Scalars THEN t[p] ELSE Absent]
OnDisk == IF stage = "writing" /\ ~torn THEN LeafOf(acked) ELSE LeafOf(file)

Abstract == INSTANCE LeafStore
  WITH Values <- Scalars,
       leaves <- IF stage = "down" THEN OnDisk ELSE LeafOf(data),
       saved <- OnDisk

(* Through the nested dicts, set, delete and merge behave like operations  *)
(* on a flat map of dotted keys: they touch the keys above and below the   *)
(* ones they name and no others, and a restart finds what was saved.       *)
ImplementsLeafStore == Abstract!Spec
=============================================================================
