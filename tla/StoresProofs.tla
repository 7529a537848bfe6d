---------------------------- MODULE StoresProofs ----------------------------
(***************************************************************************)
(* Proofs about the stores.  Each has an inductive invariant of its own,   *)
(* which the steps of the others leave alone.                              *)
(*                                                                         *)
(* TOMLFile: for any dotted keys, the nested dicts and their file          *)
(* implement a flat map of keys, and what was acknowledged survives.       *)
(* Session: for any handlers, sessions and items, appended turns stay.     *)
(* SqlBlocks: for any tasks, blocks and rows, a block ends its own         *)
(* transaction, the way it was left.                                       *)
(***************************************************************************)
EXTENDS Stores, SequenceTheorems, TLAPS

\* Nested dicts: whatever lies above something is a dict.
Tree(t) ==
  /\ t \in [Paths -> File!Scalars \union {Dict, Absent}]
  /\ \A p, q \in Paths : File!Above(q, p) /\ t[p] # Absent => t[q] = Dict

FileTypeInv == stage \in {"down", "up", "writing"} /\ torn \in BOOLEAN

\* Once a write is cut the file stays empty until another one succeeds.
CutEmpty == stage = "writing" \/ torn => file = File!Empty

FileInv == FileTypeInv /\ Tree(data) /\ Tree(file) /\ CutEmpty /\ File!FileHoldsAcked

\* The flat map that the dicts stand for.
Shown == IF stage = "down" THEN File!OnDisk ELSE File!LeafOf(data)

\* A dotted key has a first part.
LEMMA FileLengths ==
  ASSUME NEW S, NEW p \in Seq(S), p # <<>>
  PROVE  Len(p) \in Nat /\ Len(p) >= 1 /\ SubSeq(p, 1, 1) = <<p[1]>>
<1>1. Len(p) \in Nat /\ Len(p) >= 1
  OBVIOUS
<1> DEFINE q == SubSeq(p, 1, 1)
<1>2. p[1] \in S
  BY <1>1
<1>3. \A i \in 1..1 : p[i] \in S
  BY <1>2
<1> HIDE DEF q
<1>4. q \in Seq(S) /\ Len(q) = 1 /\ q[1] = p[1]
  <2>1. /\ q \in Seq(S) /\ Len(q) = IF 1 <= 1 THEN 1 - 1 + 1 ELSE 0
        /\ \A i \in 1..(1 - 1 + 1) : q[i] = p[1 + i - 1]
    BY <1>3, SubSeqProperties DEF q
  <2> QED
    BY <2>1
<1>5. q = <<p[1]>>
  BY <1>4
<1> QED
  BY <1>1, <1>5 DEF q

\* Its first part is a key too.
LEMMA FileKeys ==
  ASSUME NEW p \in Paths
  PROVE  /\ Len(p) \in Nat /\ Len(p) >= 1 /\ <<p[1]>> \in Paths
         /\ Len(p) = 1 => p = <<p[1]>>
<1>1. p \in Seq(STRING) /\ p # <<>> /\ \A n \in 1..Len(p) : SubSeq(p, 1, n) \in Paths
  BY FileAssumption, Zenon DEF File!DottedKeys
<1>2. Len(p) \in Nat /\ Len(p) >= 1 /\ SubSeq(p, 1, 1) = <<p[1]>>
  BY <1>1, FileLengths
<1>3. <<p[1]>> \in Paths
  <2>1. 1 \in 1..Len(p)
    BY <1>2
  <2>2. SubSeq(p, 1, 1) \in Paths
    BY <1>1, <2>1, Zenon
  <2> QED
    BY <2>2, <1>2, Zenon
<1>4. Len(p) = 1 => p = <<p[1]>>
  BY <1>1, SMTT(20)
<1> QED
  BY <1>2, <1>3, <1>4

\* Above is an order: no key is above itself.
LEMMA AboveOrder ==
  /\ \A p \in Paths : ~File!Above(p, p)
  /\ \A p, q, r \in Paths : File!Above(p, q) /\ File!Above(q, r) => File!Above(p, r)
<1>1. \A p \in Paths : Len(p) \in Nat
  BY FileKeys
<1> QED
  BY <1>1 DEF File!Above, File!Leaves!Above

\* A prefix of one segment.
LEMMA FileHeads ==
  ASSUME NEW p \in Paths
  PROVE  /\ <<p[1]>> \in Paths /\ <<p[1]>>[1] = p[1]
         /\ p = <<p[1]>> \/ File!Above(<<p[1]>>, p)
         /\ \A q \in Paths : File!Above(p, q) => p[1] = q[1]
<1>1. /\ Len(p) \in Nat /\ Len(p) >= 1 /\ <<p[1]>> \in Paths
      /\ Len(p) = 1 => p = <<p[1]>>
  BY FileKeys
<1> DEFINE h == <<p[1]>>
<1>3. Len(h) = 1 /\ h[1] = p[1]
  OBVIOUS
<1> HIDE DEF h
<1>4. Len(p) # 1 => File!Above(h, p)
  BY <1>1, <1>3 DEF File!Above, File!Leaves!Above
<1>5. \A q \in Paths : File!Above(p, q) => p[1] = q[1]
  BY <1>1 DEF File!Above, File!Leaves!Above
<1> QED
  BY <1>1, <1>3, <1>4, <1>5, Zenon DEF h

\* An empty document is a tree, and has no leaves.
LEMMA FileEmptyTree == Tree(File!Empty) /\ File!LeafOf(File!Empty) = File!Abstract!Nothing
<1>1. \A p \in Paths : File!Empty[p] = Absent /\ File!Empty[p] \notin File!Scalars
  BY FileAssumption DEF File!Empty, File!DottedKeys
<1>2. Tree(File!Empty)
  BY <1>1 DEF Tree, File!Empty
<1> QED
  BY <1>1, <1>2 DEF File!LeafOf, File!Abstract!Nothing

\* The file holds the document at first.
LEMMA FileInitInv == File!Init => FileInv
BY FileEmptyTree DEF File!Init, FileInv, FileTypeInv, CutEmpty, File!FileHoldsAcked

\* The end of set, delete, merge and write: the flat map changes with the
\* dicts, and what a restart finds does not.
LEMMA FileChangeInv ==
  ASSUME FileInv, NEW t, Tree(t), NEW flush \in BOOLEAN, File!Change(t, flush)
  PROVE  FileInv' /\ Shown = File!LeafOf(data) /\ Shown' = File!LeafOf(t) /\ File!OnDisk' = File!OnDisk
<1>1. stage = "up" /\ data' = t /\ acked' = acked /\ torn' = torn
  BY DEF File!Change, File!write
<1>2. \/ stage' = "writing" /\ file' = File!Empty
      \/ stage' = stage /\ file' = file
  BY DEF File!Change, File!write
<1>3. FileInv'
  BY <1>1, <1>2, FileEmptyTree DEF FileInv, FileTypeInv, CutEmpty, File!FileHoldsAcked
<1>4. Shown = File!LeafOf(data) /\ Shown' = File!LeafOf(t)
  BY <1>1, <1>2 DEF Shown, File!LeafOf
<1>5. File!OnDisk' = File!OnDisk
  <2>1. File!OnDisk = File!LeafOf(file)
    BY <1>1 DEF File!OnDisk
  <2>2. CASE torn
    BY <2>1, <2>2, <1>1, <1>2 DEF File!OnDisk, File!LeafOf, FileInv, CutEmpty
  <2>3. CASE ~torn
    BY <2>1, <2>3, <1>1, <1>2 DEF File!OnDisk, File!LeafOf, FileInv, File!FileHoldsAcked
  <2> QED
    BY <2>2, <2>3
<1> QED
  BY <1>3, <1>4, <1>5

\* The two modules mean the same by "above".
LEMMA FileSameOrder ==
  /\ \A p, q \in Paths : File!Abstract!Above(p, q) <=> File!Above(p, q)
  /\ \A p, q \in Paths : File!Abstract!Related(p, q) <=> p = q \/ File!Above(p, q) \/ File!Above(q, p)
BY DEF File!Abstract!Related, File!Abstract!Above, File!Above, File!Leaves!Above

\* A node is a scalar, a dict or absent.
LEMMA FileThreeKinds ==
  /\ Dict \notin File!Scalars /\ Absent \notin File!Scalars /\ Dict # Absent
BY FileAssumption, Zenon DEF File!DottedKeys

\* One leaf, or an empty dict, in the place of all that is related to k.
LeafPlaced(k, v, t) ==
  /\ \A p \in Paths : File!Above(p, k) => File!LeafOf(data)[p] = Absent
  /\ File!LeafOf(t) = File!Abstract!Put(File!LeafOf(data), k, v)

\* set puts a leaf in the tree, or clears the way for a dict.
LEMMA FileSetIn ==
  ASSUME Tree(data), NEW k \in Paths, NEW v \in File!Scalars \union {Dict}, File!Resolves(k),
         NEW t, t = [p \in Paths |-> IF p = k THEN v
                                    ELSE IF File!Above(p, k) THEN Dict
                                    ELSE IF File!Above(k, p) THEN Absent
                                    ELSE data[p]]
  PROVE  Tree(t) /\ \E w \in File!Scalars \union {Absent} : LeafPlaced(k, w, t)
<1>1. t \in [Paths -> File!Scalars \union {Dict, Absent}]
  BY DEF Tree
<1>2. \A p, q \in Paths : File!Above(q, p) /\ t[p] # Absent => t[q] = Dict
  BY AboveOrder DEF Tree
<1>3. \A p \in Paths : File!Above(p, k) => File!LeafOf(data)[p] = Absent
  BY FileThreeKinds DEF File!LeafOf, File!Resolves
<1> DEFINE w == IF v = Dict THEN Absent ELSE v
<1>4. \A p \in Paths : File!LeafOf(t)[p] = File!Abstract!Put(File!LeafOf(data), k, w)[p]
  BY FileThreeKinds, FileSameOrder, AboveOrder DEF File!LeafOf, File!Abstract!Put
<1>5. File!LeafOf(t) = File!Abstract!Put(File!LeafOf(data), k, w)
  BY <1>4 DEF File!LeafOf, File!Abstract!Put
<1> QED
  BY <1>1, <1>2, <1>3, <1>5 DEF Tree, LeafPlaced

\* delete takes a key and what is below out of the tree.
LEMMA FileDeleteIn ==
  ASSUME Tree(data), NEW k \in Paths, File!Resolves(k),
         NEW t, t = [p \in Paths |-> IF p = k \/ File!Above(k, p) THEN Absent ELSE data[p]]
  PROVE  Tree(t) /\ LeafPlaced(k, Absent, t)
<1>1. t \in [Paths -> File!Scalars \union {Dict, Absent}]
  BY DEF Tree
<1>2. \A p, q \in Paths : File!Above(q, p) /\ t[p] # Absent => t[q] = Dict
  BY AboveOrder DEF Tree
<1>3. \A p \in Paths : File!Above(p, k) => File!LeafOf(data)[p] = Absent
  BY FileThreeKinds DEF File!LeafOf, File!Resolves
<1>4. \A p \in Paths : File!LeafOf(t)[p] = File!Abstract!Put(File!LeafOf(data), k, Absent)[p]
  BY FileThreeKinds, FileSameOrder, <1>3 DEF File!LeafOf, File!Abstract!Put
<1>5. File!LeafOf(t) = File!Abstract!Put(File!LeafOf(data), k, Absent)
  BY <1>4 DEF File!LeafOf, File!Abstract!Put
<1> QED
  BY <1>1, <1>2, <1>3, <1>5 DEF Tree, LeafPlaced

\* The nested dict of a flat map is a tree, and its leaves are the map.
LEMMA FileNestedTree ==
  ASSUME NEW u \in Updates
  PROVE  /\ Tree(File!Nested(u)) /\ File!LeafOf(File!Nested(u)) = u
         /\ u \in [Paths -> File!Scalars \union {Absent}]
         /\ \A p \in Paths :
              /\ u[p] # Absent => File!Nested(u)[p] = u[p] /\ u[p] \in File!Scalars
              /\ u[p] = Absent => File!Nested(u)[p] \in {Dict, Absent}
              /\ File!Nested(u)[p] = Dict => \E q \in Paths : File!Above(p, q) /\ u[q] # Absent
              /\ \A q \in Paths : File!Above(p, q) /\ u[q] # Absent => File!Nested(u)[p] = Dict
<1>1. /\ u \in [Paths -> File!Scalars \union {Absent}]
      /\ \A p, q \in Paths : File!Above(p, q) /\ u[p] # Absent => u[q] = Absent
  BY FileAssumption, Zenon DEF File!DottedKeys
<1>2. \A p \in Paths :
        /\ u[p] # Absent => File!Nested(u)[p] = u[p] /\ u[p] \in File!Scalars
        /\ u[p] = Absent => File!Nested(u)[p] \in {Dict, Absent}
        /\ File!Nested(u)[p] = Dict => \E q \in Paths : File!Above(p, q) /\ u[q] # Absent
        /\ \A q \in Paths : File!Above(p, q) /\ u[q] # Absent => File!Nested(u)[p] = Dict
  BY <1>1, FileThreeKinds DEF File!Nested
<1>3. File!Nested(u) \in [Paths -> File!Scalars \union {Dict, Absent}]
  BY <1>1 DEF File!Nested
<1>4. \A p, q \in Paths : File!Above(q, p) /\ File!Nested(u)[p] # Absent => File!Nested(u)[q] = Dict
  BY <1>1, <1>2, AboveOrder
<1>5. \A p \in Paths : File!LeafOf(File!Nested(u))[p] = u[p]
  BY <1>1, <1>2, FileThreeKinds DEF File!LeafOf
<1>6. File!LeafOf(File!Nested(u)) = u
  BY <1>1, <1>5 DEF File!LeafOf
<1> QED
  BY <1>1, <1>2, <1>3, <1>4, <1>6 DEF Tree

\* Merging dicts lays one flat map over another.
LEMMA FileDeepMerge ==
  ASSUME NEW t, Tree(t), NEW u \in Updates
  PROVE  /\ Tree(File!deep_merge(t, File!Nested(u)))
         /\ File!LeafOf(File!deep_merge(t, File!Nested(u))) = File!Abstract!Overlay(File!LeafOf(t), u)
<1> DEFINE n == File!Nested(u)
           m == File!deep_merge(t, n)
           Displaced(p) == \E q \in Paths : /\ File!Above(q, p) /\ n[q] # Absent
                                            /\ ~(n[q] = Dict /\ t[q] = Dict)
<1>1. /\ Tree(n) /\ u \in [Paths -> File!Scalars \union {Absent}]
      /\ \A p \in Paths :
           /\ u[p] # Absent => n[p] = u[p] /\ u[p] \in File!Scalars
           /\ u[p] = Absent => n[p] \in {Dict, Absent}
           /\ n[p] = Dict => \E q \in Paths : File!Above(p, q) /\ u[q] # Absent
           /\ \A q \in Paths : File!Above(p, q) /\ u[q] # Absent => n[p] = Dict
  BY FileNestedTree
<1> HIDE DEF n
<1>2. \A p \in Paths :
        /\ n[p] # Absent => m[p] = n[p]
        /\ n[p] = Absent /\ Displaced(p) => m[p] = Absent
        /\ n[p] = Absent /\ ~Displaced(p) => m[p] = t[p]
  BY DEF File!deep_merge
<1>3. m \in [Paths -> File!Scalars \union {Dict, Absent}]
  BY <1>1 DEF File!deep_merge, Tree
<1>4. ASSUME NEW p \in Paths, NEW q \in Paths, File!Above(q, p), m[p] # Absent
      PROVE  m[q] = Dict
  <2>1. CASE n[p] # Absent
    <3>1. n[q] = Dict
      BY <2>1, <1>1, <1>4 DEF Tree
    <3> QED
      BY <3>1, <1>2, FileThreeKinds
  <2>2. CASE n[p] = Absent
    <3>1. ~Displaced(p) /\ m[p] = t[p]
      BY <2>2, <1>2, <1>4
    <3>2. t[q] = Dict
      BY <3>1, <1>4 DEF Tree
    <3>3. ~Displaced(q)
      BY <3>1, <1>4, AboveOrder
    <3>4. n[q] # Absent => n[q] = Dict
      BY <3>1, <1>4
    <3> QED
      BY <3>2, <3>3, <3>4, <1>2
  <2> QED
    BY <2>1, <2>2
<1>5. ASSUME NEW p \in Paths
      PROVE  File!LeafOf(m)[p] = File!Abstract!Overlay(File!LeafOf(t), u)[p]
  <2>1. File!LeafOf(m)[p] = IF m[p] \in File!Scalars THEN m[p] ELSE Absent
    BY DEF File!LeafOf
  <2>2. File!LeafOf(t)[p] = IF t[p] \in File!Scalars THEN t[p] ELSE Absent
    BY DEF File!LeafOf
  <2> DEFINE o == File!Abstract!Overlay(File!LeafOf(t), u)[p]
  <2>3. /\ u[p] # Absent => o = u[p]
        /\ u[p] = Absent /\ (\E q \in Paths : u[q] # Absent /\ File!Abstract!Related(p, q)) => o = Absent
        /\ u[p] = Absent /\ ~(\E q \in Paths : u[q] # Absent /\ File!Abstract!Related(p, q)) => o = File!LeafOf(t)[p]
    BY DEF File!Abstract!Overlay
  <2> HIDE DEF m, o
  <2>4. CASE u[p] # Absent
    BY <2>4, <2>1, <2>3, <1>1, <1>2, FileThreeKinds DEF o
  <2>5. CASE u[p] = Absent /\ n[p] # Absent
    <3>1. n[p] = Dict /\ m[p] = Dict
      BY <2>5, <1>1, <1>2
    <3>2. o = Absent
      BY <3>1, <2>5, <2>3, <1>1, FileSameOrder
    <3> QED
      BY <3>1, <3>2, <2>1, FileThreeKinds DEF o
  <2>6. CASE u[p] = Absent /\ n[p] = Absent /\ Displaced(p)
    <3>1. m[p] = Absent
      BY <2>6, <1>2
    <3>2. PICK q \in Paths : File!Above(q, p) /\ n[q] # Absent /\ ~(n[q] = Dict /\ t[q] = Dict)
      BY <2>6
    <3>3. CASE u[q] # Absent
      BY <3>1, <3>2, <3>3, <2>1, <2>3, <2>6, FileSameOrder, FileThreeKinds DEF o
    <3>4. CASE u[q] = Absent
      <4>1. t[q] # Dict
        BY <3>2, <3>4, <1>1
      <4>2. t[p] = Absent
        BY <4>1, <3>2 DEF Tree
      <4> QED
        BY <4>2, <3>1, <2>1, <2>2, <2>3, <2>6 DEF o
    <3> QED
      BY <3>3, <3>4
  <2>7. CASE u[p] = Absent /\ n[p] = Absent /\ ~Displaced(p)
    <3>1. m[p] = t[p]
      BY <2>7, <1>2
    <3>2. ASSUME NEW q \in Paths, u[q] # Absent, File!Abstract!Related(p, q) PROVE FALSE
      <4>1. q # p /\ ~File!Above(p, q)
        BY <3>2, <2>7, <1>1, FileThreeKinds
      <4>2. File!Above(q, p)
        BY <4>1, <3>2, FileSameOrder
      <4> QED
        BY <4>2, <3>2, <2>7, <1>1, FileThreeKinds
    <3> QED
      BY <3>1, <3>2, <2>1, <2>2, <2>3, <2>7 DEF o
  <2> QED
    BY <2>4, <2>5, <2>6, <2>7
<1>6. File!LeafOf(m) = File!Abstract!Overlay(File!LeafOf(t), u)
  BY <1>5 DEF File!LeafOf, File!Abstract!Overlay
<1> QED
  BY <1>3, <1>4, <1>6 DEF Tree, n

\* dict.update replaces the top-level entries that the flat map names.
LEMMA FileUpdate ==
  ASSUME NEW t, Tree(t), NEW u \in Updates
  PROVE  /\ Tree(File!update(t, File!Nested(u)))
         /\ File!LeafOf(File!update(t, File!Nested(u))) = File!Abstract!Replace(File!LeafOf(t), u)
<1> DEFINE n == File!Nested(u)
           m == File!update(t, n)
           Named(p) == \E q \in Paths : u[q] # Absent /\ q[1] = p[1]
<1>1. /\ Tree(n) /\ u \in [Paths -> File!Scalars \union {Absent}] /\ File!LeafOf(n) = u
      /\ \A p \in Paths :
           /\ u[p] # Absent => n[p] = u[p] /\ u[p] \in File!Scalars
           /\ n[p] = Dict => \E q \in Paths : File!Above(p, q) /\ u[q] # Absent
           /\ \A q \in Paths : File!Above(p, q) /\ u[q] # Absent => n[p] = Dict
           /\ u[p] = Absent => n[p] \in {Dict, Absent}
  BY FileNestedTree
<1> HIDE DEF n
<1>2. ASSUME NEW p \in Paths
      PROVE  n[<<p[1]>>] # Absent <=> Named(p)
  <2> DEFINE h == <<p[1]>>
  <2>1. h \in Paths /\ h[1] = p[1] /\ \A q \in Paths : File!Above(h, q) => q[1] = p[1]
    BY FileHeads
  <2>2. \A q \in Paths : q[1] = p[1] => q = h \/ File!Above(h, q)
    BY FileHeads
  <2> HIDE DEF h
  <2>3. ASSUME n[h] # Absent PROVE Named(p)
    BY <2>1, <2>3, <1>1, FileThreeKinds
  <2>4. ASSUME Named(p) PROVE n[h] # Absent
    BY <2>1, <2>2, <2>4, <1>1, FileThreeKinds
  <2> QED
    BY <2>3, <2>4 DEF h
<1>3. \A p \in Paths : m[p] = IF Named(p) THEN n[p] ELSE t[p]
  BY <1>2 DEF File!update
<1>4. m \in [Paths -> File!Scalars \union {Dict, Absent}]
  BY <1>1 DEF File!update, Tree
<1>5. \A p, q \in Paths : File!Above(q, p) => (Named(p) <=> Named(q))
  BY FileHeads
<1>6. ASSUME NEW p \in Paths
      PROVE  File!LeafOf(m)[p] = File!Abstract!Replace(File!LeafOf(t), u)[p]
  <2>1. File!Abstract!Replace(File!LeafOf(t), u)[p] = IF Named(p) THEN u[p] ELSE File!LeafOf(t)[p]
    BY DEF File!Abstract!Replace
  <2>2. u[p] = File!LeafOf(n)[p]
    BY <1>1
  <2> HIDE DEF m, Named
  <2> QED
    BY <2>1, <2>2, <1>3 DEF File!LeafOf
<1> HIDE DEF Named
<1>7. \A p, q \in Paths : File!Above(q, p) /\ m[p] # Absent => m[q] = Dict
  BY <1>1, <1>3, <1>5 DEF Tree
<1>8. File!LeafOf(m) = File!Abstract!Replace(File!LeafOf(t), u)
  BY <1>6 DEF File!LeafOf, File!Abstract!Replace
<1> QED
  BY <1>4, <1>7, <1>8 DEF Tree, n

\* A step of the flat map, as Abstract!Change has it.
Altered(t) ==
  \/ \E k \in Paths, w \in File!Scalars \union {Absent} : LeafPlaced(k, w, t)
  \/ \E u \in Updates :
       File!LeafOf(t) \in {File!Abstract!Overlay(File!LeafOf(data), u), File!Abstract!Replace(File!LeafOf(data), u), u}

\* A change of the tree is a change of its leaves.
LEMMA FileAlteredStep ==
  ASSUME FileInv, NEW t, Tree(t), Altered(t), NEW flush \in BOOLEAN, File!Change(t, flush)
  PROVE  FileInv' /\ File!Abstract!Change
<1>1. FileInv' /\ Shown = File!LeafOf(data) /\ Shown' = File!LeafOf(t) /\ File!OnDisk' = File!OnDisk
  BY FileChangeInv
<1>2. CASE \E k \in Paths, w \in File!Scalars \union {Absent} : LeafPlaced(k, w, t)
  <2>1. PICK k \in Paths, w \in File!Scalars \union {Absent} : LeafPlaced(k, w, t)
    BY <1>2
  <2>2. \A p \in Paths : File!Abstract!Above(p, k) => Shown[p] = Absent
    BY <2>1, <1>1, FileSameOrder DEF LeafPlaced
  <2>3. Shown' = File!Abstract!Put(Shown, k, w)
    BY <2>1, <1>1 DEF LeafPlaced
  <2> QED
    BY <2>2, <2>3, <1>1 DEF File!Abstract!Change, Shown
<1>3. CASE \E u \in Updates :
             File!LeafOf(t) \in {File!Abstract!Overlay(File!LeafOf(data), u), File!Abstract!Replace(File!LeafOf(data), u), u}
  <2>1. \E u \in Updates :
          Shown' \in {File!Abstract!Overlay(Shown, u), File!Abstract!Replace(Shown, u), u}
    BY <1>1, <1>3
  <2> QED
    BY <2>1, <1>1 DEF File!Abstract!Change, Shown
<1> QED
  BY <1>1, <1>2, <1>3 DEF Altered

\* set changes the leaves it names.
LEMMA FileSetStep ==
  ASSUME FileInv, NEW k \in Paths, NEW v \in File!Scalars \union {Dict}, NEW flush \in BOOLEAN,
         File!set(k, v, flush)
  PROVE  FileInv' /\ File!Abstract!Change
<1> DEFINE t == [p \in Paths |-> IF p = k THEN v
                                ELSE IF File!Above(p, k) THEN Dict
                                ELSE IF File!Above(k, p) THEN Absent
                                ELSE data[p]]
<1>1. File!Resolves(k) /\ File!Change(t, flush)
  BY DEF File!set
<1>2. Tree(t) /\ \E w \in File!Scalars \union {Absent} : LeafPlaced(k, w, t)
  BY <1>1, FileSetIn DEF FileInv
<1> HIDE DEF t
<1>3. Altered(t)
  BY <1>2 DEF Altered
<1> QED
  BY <1>1, <1>2, <1>3, FileAlteredStep

\* So does delete,
LEMMA FileDeleteStep ==
  ASSUME FileInv, NEW k \in Paths, NEW flush \in BOOLEAN, File!delete(k, flush)
  PROVE  FileInv' /\ File!Abstract!Change
<1> DEFINE t == [p \in Paths |-> IF p = k \/ File!Above(k, p) THEN Absent ELSE data[p]]
<1>1. File!Resolves(k) /\ File!Change(t, flush)
  BY DEF File!delete
<1>2. Tree(t) /\ LeafPlaced(k, Absent, t)
  BY <1>1, FileDeleteIn DEF FileInv
<1> HIDE DEF t
<1>3. Altered(t)
  BY <1>2 DEF Altered
<1> QED
  BY <1>1, <1>2, <1>3, FileAlteredStep

\* merge,
LEMMA FileMergeStep ==
  ASSUME FileInv, NEW u \in Updates, NEW deep \in BOOLEAN, NEW flush \in BOOLEAN,
         File!merge(File!Nested(u), deep, flush)
  PROVE  FileInv' /\ File!Abstract!Change
<1>1. Tree(data)
  BY DEF FileInv
<1>2. CASE deep
  <2>1. File!Change(File!deep_merge(data, File!Nested(u)), flush)
    BY <1>2 DEF File!merge
  <2>2. Tree(File!deep_merge(data, File!Nested(u))) /\ Altered(File!deep_merge(data, File!Nested(u)))
    BY <1>1, FileDeepMerge DEF Altered
  <2> QED
    BY <2>1, <2>2, FileAlteredStep
<1>3. CASE ~deep
  <2>1. File!Change(File!update(data, File!Nested(u)), flush)
    BY <1>3 DEF File!merge
  <2>2. Tree(File!update(data, File!Nested(u))) /\ Altered(File!update(data, File!Nested(u)))
    BY <1>1, FileUpdate DEF Altered
  <2> QED
    BY <2>1, <2>2, FileAlteredStep
<1> QED
  BY <1>2, <1>3

\* and write.
LEMMA FileWriteStep ==
  ASSUME FileInv, NEW u \in Updates, File!Change(File!Nested(u), TRUE)
  PROVE  FileInv' /\ File!Abstract!Change
<1>1. Tree(File!Nested(u)) /\ Altered(File!Nested(u))
  BY FileNestedTree DEF Altered
<1> QED
  BY <1>1, FileAlteredStep

\* The content of a write reaches the file.
LEMMA FileWriteContentStep ==
  ASSUME FileInv, File!WriteContent
  PROVE  FileInv' /\ File!Abstract!Save
<1>1. /\ stage = "writing" /\ stage' = "up" /\ file' = data /\ acked' = data
      /\ torn' = FALSE /\ data' = data
  BY DEF File!WriteContent
<1>2. FileInv'
  BY <1>1 DEF FileInv, FileTypeInv, CutEmpty, File!FileHoldsAcked
<1>3. Shown = File!LeafOf(data) /\ Shown' = File!LeafOf(data) /\ File!OnDisk' = File!LeafOf(data)
  BY <1>1 DEF Shown, File!OnDisk, File!LeafOf
<1> QED
  BY <1>2, <1>3 DEF File!Abstract!Save, Shown

\* A write that fails between truncation and content spoils the file.
LEMMA FileWriteFailsStep ==
  ASSUME FileInv, File!WriteFails
  PROVE  FileInv' /\ File!Abstract!SpoilSaved
<1>1. /\ stage = "writing" /\ stage' = "up" /\ torn' = TRUE
      /\ data' = data /\ file' = file /\ acked' = acked /\ file = File!Empty
  BY DEF File!WriteFails, FileInv, CutEmpty
<1>2. FileInv'
  BY <1>1 DEF FileInv, FileTypeInv, CutEmpty, File!FileHoldsAcked
<1>3. Shown' = Shown /\ File!OnDisk' = File!Abstract!Nothing
  BY <1>1, FileEmptyTree DEF Shown, File!OnDisk, File!LeafOf
<1> QED
  BY <1>2, <1>3 DEF File!Abstract!SpoilSaved, Shown

\* So may a crash; and a restart finds what was saved.
LEMMA FileCrashStep ==
  ASSUME FileInv, File!Crash
  PROVE  FileInv' /\ File!Abstract!Restart
<1>1. /\ stage # "down" /\ stage' = "down" /\ data' = File!Empty
      /\ torn' = (torn \/ stage = "writing") /\ file' = file /\ acked' = acked
  BY DEF File!Crash
<1>2. FileInv'
  BY <1>1, FileEmptyTree DEF FileInv, FileTypeInv, CutEmpty, File!FileHoldsAcked
<1>3. Shown' = File!OnDisk' /\ File!OnDisk' = File!LeafOf(file)
  BY <1>1 DEF Shown, File!OnDisk, File!LeafOf
<1>4. CASE stage = "writing"
  <2>1. file = File!Empty
    BY <1>4 DEF FileInv, CutEmpty
  <2> QED
    BY <2>1, <1>2, <1>3, FileEmptyTree DEF File!Abstract!Restart, Shown
<1>5. CASE stage # "writing"
  <2>1. File!OnDisk = File!LeafOf(file)
    BY <1>5 DEF File!OnDisk
  <2> QED
    BY <2>1, <1>2, <1>3 DEF File!Abstract!Restart, Shown
<1> QED
  BY <1>4, <1>5

\* A start reads what the file shows.
LEMMA FileStartStep ==
  ASSUME FileInv, File!on_start
  PROVE  FileInv' /\ Shown' = Shown /\ File!OnDisk' = File!OnDisk
<1>1. /\ stage = "down" /\ stage' = "up" /\ data' = file
      /\ torn' = torn /\ file' = file /\ acked' = acked
  BY DEF File!on_start
<1>2. FileInv'
  BY <1>1 DEF FileInv, FileTypeInv, CutEmpty, File!FileHoldsAcked
<1> QED
  BY <1>1, <1>2 DEF Shown, File!OnDisk, File!LeafOf

\* Every step keeps the invariant and maps to one of the leaf store.
LEMMA FileStepInv ==
  FileInv /\ [File!Next]_(File!vars) => FileInv' /\ [File!Abstract!Next]_<<Shown, File!OnDisk>>
<1> SUFFICES ASSUME FileInv, [File!Next]_(File!vars) PROVE FileInv' /\ [File!Abstract!Next]_<<Shown, File!OnDisk>>
  OBVIOUS
<1>1. CASE UNCHANGED File!vars
  BY <1>1 DEF File!vars, FileInv, FileTypeInv, Tree, CutEmpty, File!FileHoldsAcked, Shown,
     File!OnDisk, File!LeafOf
<1>2. CASE \E flush \in BOOLEAN : \E k \in Paths, v \in File!Scalars \union {Dict} : File!set(k, v, flush)
  BY <1>2, FileSetStep DEF File!Abstract!Next
<1>3. CASE \E flush \in BOOLEAN : \E k \in Paths : File!delete(k, flush)
  BY <1>3, FileDeleteStep DEF File!Abstract!Next
<1>4. CASE \E flush \in BOOLEAN : \E u \in Updates, deep \in BOOLEAN : File!merge(File!Nested(u), deep, flush)
  BY <1>4, FileMergeStep DEF File!Abstract!Next
<1>5. CASE \E u \in Updates : File!Change(File!Nested(u), TRUE)
  BY <1>5, FileWriteStep DEF File!Abstract!Next
<1>6. CASE File!WriteContent
  BY <1>6, FileWriteContentStep DEF File!Abstract!Next
<1>7. CASE File!WriteFails
  BY <1>7, FileWriteFailsStep DEF File!Abstract!Next
<1>8. CASE File!Crash
  BY <1>8, FileCrashStep DEF File!Abstract!Next
<1>9. CASE File!on_start
  BY <1>9, FileStartStep
<1> QED
  BY <1>1, <1>2, <1>3, <1>4, <1>5, <1>6, <1>7, <1>8, <1>9 DEF File!Next

\* The store is empty at first, and so is the leaf store.
LEMMA FileInitShown == File!Init => File!Abstract!Init
BY FileEmptyTree DEF File!Init, File!Abstract!Init, File!OnDisk, File!LeafOf
-----------------------------------------------------------------------------
TurnsTypeInv ==
  /\ turns \in [Sessions -> Seq(Items)]
  /\ append \in [Handlers -> {Free} \union [key : Sessions, item : Items, seen : Seq(Items)]]
  /\ kept \in [Sessions -> SUBSET Items]
  /\ rivals \in [Items -> SUBSET Handlers]

\* A list of items that were stored in s, each once.
Genuine(s, l) == Turns!ToSet(l) \subseteq kept[s] /\ Turns!IsInjective(l)

\* An item belongs to one session.
OneSession ==
  /\ removed \subseteq UNION {kept[s] : s \in Sessions}
  /\ \A s, u \in Sessions : s # u => kept[s] \intersect kept[u] = {}

\* What an append in flight is about to store, and what it has read.
NewItems ==
  /\ \A h \in Handlers : append[h] # Free =>
       /\ suspends
       /\ \A s \in Sessions : append[h].item \notin kept[s]
  /\ \A g, h \in Handlers :
       append[g] # Free /\ append[h] # Free /\ append[g].item = append[h].item => g = h

\* h has read every item of s, but what was stored after it read and what
\* is gone for a reason.
Knows(h, s, l) ==
  \A j \in kept[s] : j \in Turns!ToSet(l) \union removed \union overwritten \/ h \in rivals[j]

HasRead ==
  \A h \in Handlers : append[h] # Free =>
    /\ Genuine(append[h].key, append[h].seen)
    /\ Knows(h, append[h].key, append[h].seen)

TurnsInv == TurnsTypeInv /\ OneSession /\ NewItems /\ HasRead /\ Turns!AppendsKept

\* No session has a history at first.
LEMMA TurnsInitInv == Turns!Init => TurnsInv
<1> SUFFICES ASSUME Turns!Init PROVE TurnsInv
  OBVIOUS
<1>1. TurnsTypeInv
  BY DEF Turns!Init, TurnsTypeInv
<1>2. OneSession /\ NewItems /\ HasRead
  BY DEF Turns!Init, OneSession, NewItems, HasRead
<1>3. Turns!ToSet(<<>>) = {} /\ Turns!IsInjective(<<>>)
  BY DEF Turns!ToSet, Turns!IsInjective
<1>4. Turns!AppendsKept
  BY <1>3 DEF Turns!Init, Turns!AppendsKept
<1> QED
  BY <1>1, <1>2, <1>4 DEF TurnsInv

\* One item more at the end of a list.
LEMMA Extended ==
  ASSUME NEW l \in Seq(Items), NEW i \in Items
  PROVE  /\ Append(l, i) \in Seq(Items) /\ Turns!ToSet(Append(l, i)) = Turns!ToSet(l) \union {i}
         /\ Turns!IsInjective(l) /\ i \notin Turns!ToSet(l) => Turns!IsInjective(Append(l, i))
<1> DEFINE m == Append(l, i)
           n == Len(l)
<1>1. /\ n \in Nat /\ m \in Seq(Items) /\ DOMAIN l = 1..n /\ DOMAIN m = 1..(n + 1)
      /\ m[n + 1] = i /\ \A j \in 1..n : m[j] = l[j]
  OBVIOUS
<1> HIDE DEF m, n
<1>2. 1..(n + 1) = 1..n \union {n + 1}
  BY <1>1
<1>3. Turns!ToSet(m) = Turns!ToSet(l) \union {i}
  <2>1. /\ \A x : x \in Turns!ToSet(m) <=> \E j \in 1..(n + 1) : x = m[j]
        /\ \A x : x \in Turns!ToSet(l) <=> \E j \in 1..n : x = l[j]
    BY <1>1, Zenon DEF Turns!ToSet
  <2>2. \A x : x \in Turns!ToSet(m) <=> x \in Turns!ToSet(l) \/ x = i
    BY <2>1, <1>1, <1>2
  <2> QED
    BY <2>2
<1>4. ASSUME Turns!IsInjective(l), i \notin Turns!ToSet(l) PROVE Turns!IsInjective(m)
  <2>1. \A j \in 1..n : l[j] # i
    BY <1>1, <1>4 DEF Turns!ToSet
  <2> QED
    BY <2>1, <1>1, <1>2, <1>4 DEF Turns!IsInjective
<1> QED
  BY <1>1, <1>3, <1>4 DEF m

\* What the history of s becomes, by an append or a set of item i: the list l
\* with i behind it, where l may lack only what is gone for a reason.
Stored(s, l, i) ==
  /\ turns' = [turns EXCEPT ![s] = Append(l, i)]
  /\ kept' = [kept EXCEPT ![s] = @ \union {i}]
  /\ removed \subseteq removed' /\ removed' \subseteq removed \union Turns!ToSet(turns[s])
  /\ overwritten \subseteq overwritten' /\ suspends' = suspends
  /\ kept[s] \subseteq Turns!ToSet(l) \union removed' \union overwritten'
  /\ ~suspends => Turns!ToSet(l) = kept[s] \ removed'

\* It keeps the histories as promised.
LEMMA TurnsStoredInv ==
  ASSUME TurnsInv, NEW s \in Sessions, NEW l \in Seq(Items), NEW i \in Items,
         Stored(s, l, i), Genuine(s, l), \A u \in Sessions : i \notin kept[u]
  PROVE  /\ OneSession' /\ Turns!AppendsKept'
         /\ turns' \in [Sessions -> Seq(Items)] /\ kept' \in [Sessions -> SUBSET Items]
         /\ kept'[s] = kept[s] \union {i}
         /\ \A u \in Sessions \ {s} : kept'[u] = kept[u]
<1> DEFINE m == Append(l, i)
<1>1. m \in Seq(Items) /\ Turns!ToSet(m) = Turns!ToSet(l) \union {i} /\ Turns!IsInjective(m)
  BY Extended DEF Genuine
<1> HIDE DEF m
<1>2. /\ turns \in [Sessions -> Seq(Items)] /\ kept \in [Sessions -> SUBSET Items]
      /\ turns' = [turns EXCEPT ![s] = m]
      /\ kept' = [kept EXCEPT ![s] = @ \union {i}]
  BY DEF TurnsInv, TurnsTypeInv, Stored, m
<1>3. /\ turns' \in [Sessions -> Seq(Items)] /\ kept' \in [Sessions -> SUBSET Items]
      /\ turns'[s] = m /\ kept'[s] = kept[s] \union {i}
      /\ \A u \in Sessions \ {s} : kept'[u] = kept[u] /\ turns'[u] = turns[u]
  BY <1>1, <1>2
<1>4. OneSession /\ Turns!AppendsKept
  BY DEF TurnsInv
<1>5. Turns!ToSet(turns[s]) \subseteq kept[s]
  BY <1>4 DEF Turns!AppendsKept
<1>6. OneSession'
  <2>1. \A u \in Sessions : kept[u] \subseteq kept'[u]
    BY <1>3
  <2>2. removed' \subseteq UNION {kept'[u] : u \in Sessions}
    <3> SUFFICES ASSUME NEW j \in removed' PROVE \E u \in Sessions : j \in kept'[u]
      OBVIOUS
    <3>1. j \in removed \/ j \in kept[s]
      BY <1>5 DEF Stored
    <3>2. j \in removed => \E u \in Sessions : j \in kept[u]
      BY <1>4, Zenon DEF OneSession
    <3>3. CASE j \in removed
      <4>1. PICK u \in Sessions : j \in kept[u]
        BY <3>3, <3>2
      <4> QED
        BY <4>1, <2>1
    <3>4. CASE j \in kept[s]
      BY <3>4, <2>1
    <3> QED
      BY <3>1, <3>3, <3>4
  <2>3. \A t, u \in Sessions : t # u => kept'[t] \intersect kept'[u] = {}
    <3> SUFFICES ASSUME NEW t \in Sessions, NEW u \in Sessions, t # u
                 PROVE  kept'[t] \intersect kept'[u] = {}
      OBVIOUS
    <3>1. kept[t] \intersect kept[u] = {} /\ i \notin kept[t] /\ i \notin kept[u]
      BY <1>4 DEF OneSession
    <3>2. /\ kept'[t] = IF t = s THEN kept[t] \union {i} ELSE kept[t]
          /\ kept'[u] = IF u = s THEN kept[u] \union {i} ELSE kept[u]
      BY <1>3
    <3> QED
      BY <3>1, <3>2
  <2> QED
    BY <2>2, <2>3 DEF OneSession
<1>7. i \notin removed'
  BY <1>4, <1>5 DEF OneSession, Stored
<1>8. ASSUME NEW u \in Sessions
      PROVE  /\ \A j \in kept'[u] : j \in Turns!ToSet(turns'[u]) \union removed' \union overwritten'
             /\ Turns!ToSet(turns'[u]) \subseteq kept'[u] /\ Turns!IsInjective(turns'[u])
             /\ ~suspends' => Turns!ToSet(turns'[u]) = kept'[u] \ removed'
  <2>1. CASE u = s
    <3>1. /\ Turns!ToSet(turns'[s]) = Turns!ToSet(l) \union {i} /\ Turns!IsInjective(turns'[s])
          /\ Turns!ToSet(l) \subseteq kept[s]
      BY <1>1, <1>3 DEF Genuine
    <3> QED
      BY <2>1, <3>1, <1>3, <1>7 DEF Stored
  <2>2. CASE u # s
    <3>1. turns'[u] = turns[u] /\ kept'[u] = kept[u]
      BY <2>2, <1>3
    <3>2. /\ \A j \in kept[u] : j \in Turns!ToSet(turns[u]) \union removed \union overwritten
          /\ Turns!ToSet(turns[u]) \subseteq kept[u] /\ Turns!IsInjective(turns[u])
          /\ ~suspends => Turns!ToSet(turns[u]) = kept[u] \ removed
      BY <1>4 DEF Turns!AppendsKept
    <3>3. Turns!ToSet(turns[s]) \intersect kept[u] = {}
      BY <1>4, <1>5, <2>2 DEF OneSession
    <3>4. kept[u] \ removed' = kept[u] \ removed
      BY <3>3 DEF Stored
    <3> QED
      BY <3>1, <3>2, <3>4 DEF Stored
  <2> QED
    BY <2>1, <2>2
<1>9. Turns!AppendsKept'
  BY <1>8 DEF Turns!AppendsKept
<1> QED
  BY <1>3, <1>6, <1>9

\* Appends that stay in flight while item i is stored in s: they know of it
\* or are its rivals.
LEMMA TurnsOthersRead ==
  ASSUME TurnsInv, NEW s \in Sessions, NEW i \in Items, NEW W, Turns!noted(s, i, W),
         removed \subseteq removed', overwritten \subseteq overwritten',
         \A u \in Sessions : i \notin kept[u],
         \A h \in Handlers \ W : append'[h] = append[h], \A h \in Handlers \intersect W : append'[h] = Free
  PROVE  HasRead' /\ rivals' \in [Items -> SUBSET Handlers]
<1>1. /\ rivals' \in [Items -> SUBSET Handlers]
      /\ rivals'[i] = {h \in Handlers : append[h] # Free /\ append[h].key = s} \ W
      /\ \A j \in Items \ {i} : rivals'[j] = rivals[j] \ W
  BY DEF Turns!noted, TurnsInv, TurnsTypeInv
<1>2. kept \in [Sessions -> SUBSET Items] /\ kept' = [kept EXCEPT ![s] = @ \union {i}]
  BY DEF Turns!noted, TurnsInv, TurnsTypeInv
<1>3. kept'[s] = kept[s] \union {i} /\ \A u \in Sessions \ {s} : kept'[u] = kept[u]
  BY <1>2
<1>4. ASSUME NEW h \in Handlers, append'[h] # Free
      PROVE  Genuine(append[h].key, append[h].seen)' /\ Knows(h, append[h].key, append[h].seen)'
  <2>1. h \notin W /\ append'[h] = append[h] /\ append[h].key \in Sessions
    BY <1>4 DEF TurnsInv, TurnsTypeInv
  <2>2. PICK u \in Sessions, l \in {append[h].seen} : u = append[h].key /\ l = append[h].seen
    BY <2>1
  <2>3. Turns!ToSet(l) \subseteq kept[u] /\ Turns!IsInjective(l) /\ Knows(h, u, l)
    BY <1>4, <2>1, <2>2 DEF TurnsInv, HasRead, Genuine
  <2>4. Turns!ToSet(l) \subseteq kept'[u]
    BY <2>3, <1>3
  <2>5. ASSUME NEW j \in kept'[u]
        PROVE  j \in Turns!ToSet(l) \union removed' \union overwritten' \/ h \in rivals'[j]
    <3>1. CASE j = i /\ u = s
      BY <3>1, <1>1, <1>4, <2>1, <2>2
    <3>2. CASE j \in kept[u] /\ j # i
      BY <3>2, <1>1, <1>2, <2>1, <2>3 DEF Knows
    <3> QED
      BY <3>1, <3>2, <1>3
  <2> QED
    BY <2>1, <2>2, <2>3, <2>4, <2>5 DEF Genuine, Knows
<1> QED
  BY <1>1, <1>4 DEF HasRead

\* An append that does not suspend adds its turn.
LEMMA TurnsAppendAtOnceInv ==
  ASSUME TurnsInv, NEW s \in Sessions, NEW i \in Items, Turns!AppendAtOnce(s, i)
  PROVE  TurnsInv'
<1>1. /\ ~suspends /\ Turns!New(i) /\ turns' = [turns EXCEPT ![s] = Append(turns[s], i)]
      /\ Turns!noted(s, i, {}) /\ suspends' = suspends /\ append' = append
      /\ removed' = removed /\ overwritten' = overwritten
  BY DEF Turns!AppendAtOnce, Turns!store
<1>2. /\ turns[s] \in Seq(Items) /\ Genuine(s, turns[s])
      /\ Turns!ToSet(turns[s]) = kept[s] \ removed
  BY <1>1 DEF TurnsInv, TurnsTypeInv, Turns!AppendsKept, Genuine
<1>3. \A u \in Sessions : i \notin kept[u]
  BY <1>1 DEF Turns!New
<1>4. Stored(s, turns[s], i)
  BY <1>1, <1>2 DEF Stored, Turns!noted
<1>5. /\ OneSession' /\ Turns!AppendsKept'
      /\ turns' \in [Sessions -> Seq(Items)] /\ kept' \in [Sessions -> SUBSET Items]
  BY <1>2, <1>3, <1>4, TurnsStoredInv
<1>6. HasRead' /\ rivals' \in [Items -> SUBSET Handlers]
  BY <1>1, <1>3, TurnsOthersRead
<1>7. \A h \in Handlers : append'[h] = Free
  BY <1>1 DEF TurnsInv, NewItems
<1> QED
  BY <1>1, <1>5, <1>6, <1>7 DEF TurnsInv, TurnsTypeInv, NewItems

\* An append reads the history.
LEMMA TurnsAppendReadInv ==
  ASSUME TurnsInv, NEW h \in Handlers, NEW s \in Sessions, NEW i \in Items, Turns!AppendRead(h, s, i)
  PROVE  TurnsInv'
<1> DEFINE a == [key |-> s, item |-> i, seen |-> turns[s]]
<1>1. /\ suspends /\ append[h] = Free /\ Turns!New(i) /\ append' = [append EXCEPT ![h] = a]
      /\ suspends' = suspends /\ turns' = turns /\ kept' = kept /\ rivals' = rivals
      /\ removed' = removed /\ overwritten' = overwritten
  BY DEF Turns!AppendRead
<1>2. turns[s] \in Seq(Items) /\ Genuine(s, turns[s]) /\ Knows(h, s, turns[s])
  BY DEF TurnsInv, TurnsTypeInv, Turns!AppendsKept, Genuine, Knows
<1>3. /\ append'[h] = a /\ \A g \in Handlers \ {h} : append'[g] = append[g]
      /\ append' \in [Handlers -> {Free} \union [key : Sessions, item : Items, seen : Seq(Items)]]
  BY <1>1, <1>2 DEF TurnsInv, TurnsTypeInv
<1>4. a.key = s /\ a.item = i /\ a.seen = turns[s]
  OBVIOUS
<1> HIDE DEF a
<1>5. NewItems'
  <2>1. \A g \in Handlers : append'[g] # Free =>
          suspends' /\ \A u \in Sessions : append'[g].item \notin kept'[u]
    BY <1>1, <1>3, <1>4 DEF TurnsInv, NewItems, Turns!New
  <2>2. \A g \in Handlers \ {h} : append[g] # Free => append[g].item # i
    BY <1>1 DEF Turns!New
  <2>3. \A f, g \in Handlers :
          append'[f] # Free /\ append'[g] # Free /\ append'[f].item = append'[g].item => f = g
    BY <2>2, <1>3, <1>4 DEF TurnsInv, NewItems
  <2> QED
    BY <2>1, <2>3, Zenon DEF NewItems
<1>6. HasRead'
  <2>1. ASSUME NEW g \in Handlers, append'[g] # Free
        PROVE  Genuine(append'[g].key, append'[g].seen) /\ Knows(g, append'[g].key, append'[g].seen)
    <3>1. CASE g = h
      BY <3>1, <1>2, <1>3, <1>4
    <3>2. CASE g # h
      BY <3>2, <2>1, <1>3 DEF TurnsInv, HasRead
    <3> QED
      BY <3>1, <3>2
  <2> QED
    BY <2>1, <1>1 DEF HasRead, Genuine, Knows
<1>7. TurnsTypeInv' /\ OneSession' /\ Turns!AppendsKept'
  BY <1>1, <1>3 DEF TurnsInv, TurnsTypeInv, OneSession, Turns!AppendsKept
<1> QED
  BY <1>5, <1>6, <1>7 DEF TurnsInv

\* An append writes what it read, and its turn.
LEMMA TurnsAppendWriteInv ==
  ASSUME TurnsInv, NEW h \in Handlers, Turns!AppendWrite(h)
  PROVE  TurnsInv'
<1> DEFINE s == append[h].key
           i == append[h].item
           l == append[h].seen
<1>1. /\ append[h] # Free /\ turns' = [turns EXCEPT ![s] = Append(l, i)]
      /\ Turns!noted(s, i, {h}) /\ append' = [append EXCEPT ![h] = Free]
      /\ suspends' = suspends /\ removed' = removed
      /\ overwritten' = overwritten \union {j \in Items : h \in rivals[j]}
  BY DEF Turns!AppendWrite, Turns!store
<1>2. s \in Sessions /\ i \in Items /\ l \in Seq(Items)
  BY <1>1 DEF TurnsInv, TurnsTypeInv
<1>3. /\ suspends /\ Genuine(s, l) /\ Knows(h, s, l) /\ \A u \in Sessions : i \notin kept[u]
  BY <1>1 DEF TurnsInv, NewItems, HasRead
<1>4. \A g \in Handlers \ {h} : append[g] # Free => append[g].item # i
  BY <1>1 DEF TurnsInv, NewItems
<1> HIDE DEF s, i, l
<1>5. Stored(s, l, i)
  <2>1. kept[s] \subseteq Items
    BY <1>2 DEF TurnsInv, TurnsTypeInv
  <2>2. kept[s] \subseteq Turns!ToSet(l) \union removed' \union overwritten'
    BY <2>1, <1>1, <1>3 DEF Knows
  <2> QED
    BY <2>2, <1>1, <1>3 DEF Stored, Turns!noted
<1>6. /\ OneSession' /\ Turns!AppendsKept'
      /\ turns' \in [Sessions -> Seq(Items)] /\ kept' \in [Sessions -> SUBSET Items]
      /\ kept'[s] = kept[s] \union {i}
      /\ \A u \in Sessions \ {s} : kept'[u] = kept[u]
  BY <1>2, <1>3, <1>5, TurnsStoredInv
<1>7. /\ append'[h] = Free /\ \A g \in Handlers \ {h} : append'[g] = append[g]
      /\ append' \in [Handlers -> {Free} \union [key : Sessions, item : Items, seen : Seq(Items)]]
  BY <1>1 DEF TurnsInv, TurnsTypeInv
<1>8. HasRead' /\ rivals' \in [Items -> SUBSET Handlers]
  BY <1>1, <1>2, <1>3, <1>7, TurnsOthersRead
<1>9. NewItems'
  <2>1. \A g \in Handlers : append'[g] # Free =>
          suspends' /\ \A u \in Sessions : append'[g].item \notin kept'[u]
    BY <1>1, <1>3, <1>4, <1>6, <1>7 DEF TurnsInv, NewItems
  <2>2. \A f, g \in Handlers :
          append'[f] # Free /\ append'[g] # Free /\ append'[f].item = append'[g].item => f = g
    BY <1>7 DEF TurnsInv, NewItems
  <2> QED
    BY <2>1, <2>2 DEF NewItems
<1> QED
  BY <1>6, <1>7, <1>8, <1>9 DEF TurnsInv, TurnsTypeInv

\* An append ends without its write.
LEMMA TurnsAppendFailsInv ==
  ASSUME TurnsInv, NEW h \in Handlers, Turns!AppendFails(h)
  PROVE  TurnsInv'
<1>1. /\ append' = [append EXCEPT ![h] = Free] /\ rivals' = [j \in Items |-> rivals[j] \ {h}]
      /\ suspends' = suspends /\ turns' = turns /\ kept' = kept
      /\ removed' = removed /\ overwritten' = overwritten
  BY DEF Turns!AppendFails
<1>2. /\ append'[h] = Free /\ \A g \in Handlers \ {h} : append'[g] = append[g]
      /\ append' \in [Handlers -> {Free} \union [key : Sessions, item : Items, seen : Seq(Items)]]
      /\ rivals' \in [Items -> SUBSET Handlers]
  BY <1>1 DEF TurnsInv, TurnsTypeInv
<1>3. HasRead'
  <2> SUFFICES ASSUME NEW g \in Handlers, append'[g] # Free
               PROVE  Genuine(append[g].key, append[g].seen)' /\ Knows(g, append[g].key, append[g].seen)'
    BY DEF HasRead
  <2>1. g # h /\ append'[g] = append[g] /\ append[g].key \in Sessions
    BY <1>2 DEF TurnsInv, TurnsTypeInv
  <2>2. kept[append[g].key] \subseteq Items
    BY <2>1 DEF TurnsInv, TurnsTypeInv
  <2>3. Genuine(append[g].key, append[g].seen) /\ Knows(g, append[g].key, append[g].seen)
    BY <1>2, <2>1 DEF TurnsInv, HasRead
  <2> QED
    BY <1>1, <2>1, <2>2, <2>3 DEF Genuine, Knows
<1>4. NewItems'
  BY <1>1, <1>2 DEF TurnsInv, NewItems
<1>5. TurnsTypeInv' /\ OneSession' /\ Turns!AppendsKept'
  BY <1>1, <1>2 DEF TurnsInv, TurnsTypeInv, OneSession, Turns!AppendsKept
<1> QED
  BY <1>3, <1>4, <1>5 DEF TurnsInv

\* set replaces the history of a session by an item.
LEMMA TurnsSetInv ==
  ASSUME TurnsInv, NEW s \in Sessions, NEW i \in Items, Turns!set(s, i)
  PROVE  TurnsInv'
<1>1. /\ Turns!New(i) /\ turns' = [turns EXCEPT ![s] = <<i>>]
      /\ removed' = removed \union Turns!ToSet(turns[s])
      /\ Turns!noted(s, i, {}) /\ suspends' = suspends /\ append' = append
      /\ overwritten' = overwritten
  BY DEF Turns!set
<1>2. /\ <<>> \in Seq(Items) /\ Append(<<>>, i) = <<i>>
      /\ Turns!ToSet(<<>>) = {} /\ Turns!IsInjective(<<>>)
  BY DEF Turns!ToSet, Turns!IsInjective
<1>3. \A u \in Sessions : i \notin kept[u]
  BY <1>1 DEF Turns!New
<1>4. PICK l \in Seq(Items) : l = <<>>
  BY <1>2
<1>5. Genuine(s, l) /\ Turns!ToSet(l) = {}
  BY <1>2, <1>4 DEF Genuine
<1>6. Stored(s, l, i)
  <2>1. /\ kept[s] \subseteq Turns!ToSet(turns[s]) \union removed \union overwritten
        /\ ~suspends => Turns!ToSet(turns[s]) = kept[s] \ removed
    BY DEF TurnsInv, Turns!AppendsKept
  <2> QED
    BY <2>1, <1>1, <1>2, <1>4, <1>5 DEF Stored, Turns!noted
<1>7. /\ OneSession' /\ Turns!AppendsKept'
      /\ turns' \in [Sessions -> Seq(Items)] /\ kept' \in [Sessions -> SUBSET Items]
      /\ kept'[s] = kept[s] \union {i}
      /\ \A u \in Sessions \ {s} : kept'[u] = kept[u]
  BY <1>3, <1>5, <1>6, TurnsStoredInv
<1>8. HasRead' /\ rivals' \in [Items -> SUBSET Handlers]
  BY <1>1, <1>3, TurnsOthersRead
<1>9. NewItems'
  <2>1. \A h \in Handlers : append[h] # Free => append[h].item # i
    BY <1>1 DEF Turns!New
  <2> QED
    BY <2>1, <1>1, <1>7 DEF TurnsInv, NewItems
<1> QED
  BY <1>1, <1>7, <1>8, <1>9 DEF TurnsInv, TurnsTypeInv

\* delete takes the history of a session away.
LEMMA TurnsDeleteInv ==
  ASSUME TurnsInv, NEW s \in Sessions, Turns!delete(s)
  PROVE  TurnsInv'
<1>1. /\ turns' = [turns EXCEPT ![s] = <<>>] /\ removed' = removed \union Turns!ToSet(turns[s])
      /\ suspends' = suspends /\ append' = append /\ kept' = kept /\ rivals' = rivals
      /\ overwritten' = overwritten
  BY DEF Turns!delete
<1>2. /\ turns'[s] = <<>> /\ \A u \in Sessions \ {s} : turns'[u] = turns[u]
      /\ turns' \in [Sessions -> Seq(Items)]
  BY <1>1 DEF TurnsInv, TurnsTypeInv
<1>3. Turns!ToSet(<<>>) = {} /\ Turns!IsInjective(<<>>)
  BY DEF Turns!ToSet, Turns!IsInjective
<1>4. OneSession /\ Turns!AppendsKept
  BY DEF TurnsInv
<1>5. Turns!ToSet(turns[s]) \subseteq kept[s]
  BY <1>4 DEF Turns!AppendsKept
<1>6. OneSession'
  BY <1>1, <1>4, <1>5 DEF OneSession
<1>7. \A u \in Sessions \ {s} : Turns!ToSet(turns[s]) \intersect kept[u] = {}
  BY <1>4, <1>5 DEF OneSession
<1>8. Turns!AppendsKept'
  <2>1. \A u \in Sessions \ {s} : kept[u] \ removed' = kept[u] \ removed
    BY <1>1, <1>7
  <2> QED
    BY <2>1, <1>1, <1>2, <1>3, <1>4 DEF Turns!AppendsKept
<1>9. TurnsTypeInv' /\ NewItems' /\ HasRead'
  BY <1>1, <1>2 DEF TurnsInv, TurnsTypeInv, NewItems, HasRead, Genuine, Knows
<1> QED
  BY <1>6, <1>8, <1>9 DEF TurnsInv

\* Every step of the sessions keeps their invariant.
LEMMA TurnsNextInv == TurnsInv /\ [Turns!Next]_(Turns!vars) => TurnsInv'
<1> SUFFICES ASSUME TurnsInv, [Turns!Next]_(Turns!vars) PROVE TurnsInv'
  OBVIOUS
<1>1. CASE UNCHANGED Turns!vars
  BY <1>1 DEF Turns!vars, TurnsInv, TurnsTypeInv, OneSession, NewItems, HasRead, Genuine,
     Knows, Turns!AppendsKept
<1>2. CASE \E s \in Sessions, i \in Items : Turns!AppendAtOnce(s, i) \/ Turns!set(s, i)
  BY <1>2, TurnsAppendAtOnceInv, TurnsSetInv
<1>3. CASE \E s \in Sessions, i \in Items, h \in Handlers : Turns!AppendRead(h, s, i)
  BY <1>3, TurnsAppendReadInv
<1>4. CASE \E h \in Handlers : Turns!AppendWrite(h) \/ Turns!AppendFails(h)
  BY <1>4, TurnsAppendWriteInv, TurnsAppendFailsInv
<1>5. CASE \E s \in Sessions : Turns!delete(s)
  BY <1>5, TurnsDeleteInv
<1> QED
  BY <1>1, <1>2, <1>3, <1>4, <1>5 DEF Turns!Next
-----------------------------------------------------------------------------
SqlTypeInv ==
  /\ inside \in [Tasks -> Seq(Blocks)]
  /\ current \in [Tasks -> Blocks \union {Unset}]
  /\ kind \in [Blocks -> {"unused", "protocol", "transaction"}]
  /\ ended \in [Blocks -> {"open", "committed", "rolled back"}]
  /\ left \in [Blocks -> {"inside", "ok", "raised"}]

Depths(t) == 1..Len(inside[t])

\* A block is in one place of one task, and has not been left.
Placed ==
  /\ \A b \in Blocks : kind[b] = "unused" => left[b] = "inside"
  /\ \A t \in Tasks : \A i \in Depths(t) :
       kind[inside[t][i]] # "unused" /\ left[inside[t][i]] = "inside"
  /\ \A t, u \in Tasks : \A i \in Depths(t), j \in Depths(u) :
       inside[t][i] = inside[u][j] => t = u /\ i = j

\* What the exit of a protocol block finds: the innermost one, or one that
\* has ended already.  An outer one finds itself unless it is shadowed.
Found(t, i) ==
  /\ current[t] \in Blocks /\ kind[current[t]] = "protocol"
  /\ ended[current[t]] # "open" \/ \E j \in Depths(t) : inside[t][j] = current[t]
  /\ inside[t][i] \notin shadowed => current[t] = inside[t][i]
  /\ \A j \in Depths(t) : inside[t][j] = current[t] => i <= j

Remembered ==
  \A t \in Tasks : \A i \in Depths(t) : kind[inside[t][i]] = "protocol" => Found(t, i)

SqlInv == SqlTypeInv /\ Placed /\ Remembered /\ Sql!BlocksSettled

\* No task is in a block at first.
LEMMA SqlInitInv == Sql!Init => SqlInv
<1> SUFFICES ASSUME Sql!Init PROVE SqlInv
  OBVIOUS
<1>1. SqlTypeInv
  BY DEF Sql!Init, SqlTypeInv
<1>2. \A t \in Tasks : Depths(t) = {}
  BY DEF Sql!Init, Depths
<1>3. Placed /\ Remembered
  BY <1>2 DEF Sql!Init, Placed, Remembered
<1>4. Sql!BlocksSettled
  BY DEF Sql!Init, Sql!BlocksSettled
<1> QED
  BY <1>1, <1>3, <1>4 DEF SqlInv

\* A stack: its top, and what is below.
LEMMA LastFront ==
  ASSUME NEW S, NEW s \in Seq(S), s # <<>>
  PROVE  /\ Len(s) \in Nat \ {0} /\ Sql!Last(s) = s[Len(s)]
         /\ Sql!Front(s) \in Seq(S) /\ Len(Sql!Front(s)) = Len(s) - 1
         /\ \A i \in 1..(Len(s) - 1) : Sql!Front(s)[i] = s[i]
<1>1. Len(s) \in Nat \ {0}
  OBVIOUS
<1>2. Sql!Front(s) = SubSeq(s, 1, Len(s) - 1) /\ Sql!Last(s) = s[Len(s)]
  BY DEF Sql!Front, Sql!Last
<1>3. /\ SubSeq(s, 1, Len(s) - 1) \in Seq(S) /\ Len(SubSeq(s, 1, Len(s) - 1)) = Len(s) - 1
      /\ \A i \in 1..(Len(s) - 1) : SubSeq(s, 1, Len(s) - 1)[i] = s[i]
  <2> DEFINE n == Len(s) - 1
  <2>1. n \in Nat /\ 1 \in Int /\ n \in Int
    BY <1>1
  <2>2. \A i \in 1..n : s[i] \in S
    BY <1>1
  <2> HIDE DEF n
  <2>3. /\ SubSeq(s, 1, n) \in Seq(S)
        /\ Len(SubSeq(s, 1, n)) = IF 1 <= n THEN n - 1 + 1 ELSE 0
        /\ \A i \in 1..(n - 1 + 1) : SubSeq(s, 1, n)[i] = s[1 + i - 1]
    BY <2>1, <2>2, SubSeqProperties
  <2>4. Len(SubSeq(s, 1, n)) = n /\ \A i \in 1..n : SubSeq(s, 1, n)[i] = s[i]
    BY <2>1, <2>3
  <2> QED
    BY <2>3, <2>4 DEF n
<1> QED
  BY <1>1, <1>2, <1>3

\* What Found(t, i) says of the next state.
LEMMA FoundNext ==
  ASSUME NEW t \in Tasks, NEW i \in Depths(t)', NEW c \in Blocks, current'[t] = c,
         kind'[c] = "protocol",
         ended'[c] # "open" \/ \E j \in Depths(t)' : inside'[t][j] = c,
         inside'[t][i] \notin shadowed' => c = inside'[t][i],
         \A j \in Depths(t)' : inside'[t][j] = c => i <= j
  PROVE  Found(t, i)'
BY DEF Found

\* What a task is inside of is a block.
LEMMA InsideBlocks ==
  ASSUME SqlTypeInv, NEW t \in Tasks, NEW i \in Depths(t)
  PROVE  inside[t][i] \in Blocks
<1>1. inside[t] \in Seq(Blocks)
  BY DEF SqlTypeInv
<1> QED
  BY <1>1 DEF Depths

\* A task enters a block.
LEMMA SqlEnterInv ==
  ASSUME SqlInv, NEW t \in Tasks, NEW b \in Blocks, Sql!aenter(t, b) \/ Sql!transaction(t, b)
  PROVE  SqlInv'
<1> USE DEF SqlInv
<1> DEFINE top == Len(inside[t]) + 1
<1>1. /\ kind[b] = "unused" /\ ended' = ended /\ left' = left
      /\ inside' = [inside EXCEPT ![t] = Append(@, b)]
      /\ \/ kind' = [kind EXCEPT ![b] = "protocol"]
         \/ kind' = [kind EXCEPT ![b] = "transaction"]
  BY DEF Sql!aenter, Sql!transaction, Sql!enter
<1>2. inside[t] \in Seq(Blocks) /\ inside'[t] = Append(inside[t], b)
  BY <1>1 DEF SqlTypeInv
<1>3. /\ \A u \in Tasks \ {t} : inside'[u] = inside[u] /\ Depths(u)' = Depths(u)
      /\ Depths(t)' = Depths(t) \union {top} /\ top \notin Depths(t)
      /\ \A i \in Depths(t) : i < top /\ i \in Nat
      /\ inside'[t][top] = b
      /\ \A i \in Depths(t) : inside'[t][i] = inside[t][i]
  <2>1. \A u \in Tasks \ {t} : inside'[u] = inside[u]
    BY <1>1 DEF SqlTypeInv
  <2>2. Len(inside[t]) \in Nat /\ Len(inside'[t]) = top
    BY <1>2
  <2>3. inside'[t][top] = b /\ \A i \in 1..Len(inside[t]) : inside'[t][i] = inside[t][i]
    BY <1>2
  <2>4. 1..top = 1..Len(inside[t]) \union {top}
    BY <2>2
  <2> QED
    BY <2>1, <2>2, <2>3, <2>4 DEF Depths
<1>4. /\ \A c \in Blocks \ {b} : kind'[c] = kind[c]
      /\ kind'[b] # "unused"
  BY <1>1 DEF SqlTypeInv
<1>5. \A u \in Tasks : \A i \in Depths(u) : inside[u][i] \in Blocks /\ inside[u][i] # b
  <2>1. \A u \in Tasks : \A i \in Depths(u) : kind[inside[u][i]] # "unused"
    BY DEF Placed
  <2>2. \A u \in Tasks : \A i \in Depths(u) : inside[u][i] \in Blocks
    BY InsideBlocks
  <2> QED
    BY <2>1, <2>2, <1>1
<1>6. SqlTypeInv'
  <2>1. inside' \in [Tasks -> Seq(Blocks)]
    <3>1. inside \in [Tasks -> Seq(Blocks)]
      BY DEF SqlTypeInv
    <3>2. inside[t] \in Seq(Blocks)
      BY <1>2
    <3>3. Append(inside[t], b) \in Seq(Blocks)
      BY <3>2
    <3> QED
      BY <3>1, <3>3, <1>1
  <2>2. current' \in [Tasks -> Blocks \union {Unset}]
    BY DEF SqlTypeInv, Sql!aenter, Sql!transaction
  <2> QED
    BY <2>1, <2>2, <1>1 DEF SqlTypeInv
<1>7. Placed'
  <2>1. \A c \in Blocks : kind'[c] = "unused" => left'[c] = "inside"
    BY <1>1, <1>4 DEF Placed
  <2>2. \A u \in Tasks : \A i \in Depths(u)' :
          kind'[inside'[u][i]] # "unused" /\ left'[inside'[u][i]] = "inside"
    <3>1. left'[b] = "inside"
      BY <1>1 DEF Placed
    <3>2. ASSUME NEW u \in Tasks, NEW i \in Depths(u)
          PROVE  kind'[inside[u][i]] # "unused" /\ left'[inside[u][i]] = "inside"
      BY <1>1, <1>4, <1>5 DEF Placed
    <3> QED
      BY <3>1, <3>2, <1>3, <1>4
  <2>3. \A u, v \in Tasks : \A i \in Depths(u)', j \in Depths(v)' :
          inside'[u][i] = inside'[v][j] => u = v /\ i = j
    BY <1>3, <1>5 DEF Placed
  <2> QED
    BY <2>1, <2>2, <2>3 DEF Placed
<1>8. Sql!BlocksSettled'
  BY <1>1 DEF Sql!BlocksSettled, Placed, SqlTypeInv, Sql!aenter, Sql!transaction
<1>9. Remembered'
  <2> SUFFICES ASSUME NEW u \in Tasks, NEW i \in Depths(u)',
                      kind'[inside'[u][i]] = "protocol"
               PROVE  Found(u, i)'
    BY DEF Remembered
  <2>1. CASE u # t
    <3>1. inside'[u] = inside[u] /\ i \in Depths(u) /\ Depths(u)' = Depths(u)
      BY <2>1, <1>3
    <3>2. current'[u] = current[u]
      BY <2>1 DEF Sql!aenter, Sql!transaction, SqlTypeInv
    <3>3. kind[inside[u][i]] = "protocol" /\ Found(u, i)
      BY <3>1, <1>4, <1>5 DEF Remembered
    <3>4. kind'[current[u]] = "protocol"
      BY <3>3, <1>1, <1>4 DEF Found
    <3>5. inside[u][i] \in shadowed => inside[u][i] \in shadowed'
      BY DEF Sql!aenter, Sql!transaction
    <3> QED
      BY <3>1, <3>2, <3>3, <3>4, <3>5, <1>1 DEF Found
  <2>2. CASE u = t /\ Sql!aenter(t, b)
    <3>1. current'[t] = b /\ kind'[b] = "protocol"
      BY <2>2, <1>1 DEF Sql!aenter, Sql!enter, SqlTypeInv
    <3>2. \E j \in Depths(t)' : inside'[t][j] = b
      BY <1>3
    <3>3. i # top => inside'[t][i] \in shadowed'
      <4> SUFFICES ASSUME i # top PROVE inside'[t][i] \in shadowed'
        OBVIOUS
      <4>1. i \in Depths(t) /\ inside'[t][i] = inside[t][i] /\ kind[inside[t][i]] = "protocol"
        BY <2>2, <1>3, <1>4, <1>5
      <4>2. inside[t][i] \in Sql!ToSet(inside[t])
        BY <4>1 DEF Sql!ToSet, Depths
      <4> QED
        BY <4>1, <4>2, <2>2 DEF Sql!aenter
    <3>4. \A j \in Depths(t)' : inside'[t][j] = b => i <= j
      <4> SUFFICES ASSUME NEW j \in Depths(t)', inside'[t][j] = b PROVE i <= j
        OBVIOUS
      <4>1. j = top
        BY <1>3, <1>5
      <4>2. top \in Nat /\ i \in Depths(t)'
        BY <2>2, <1>2
      <4>3. i = top \/ (i \in Nat /\ i < top)
        BY <4>2, <1>3
      <4> QED
        BY <4>1, <4>2, <4>3
    <3> QED
      BY <3>1, <3>2, <3>3, <3>4, <2>2, <1>3 DEF Found
  <2>3. CASE u = t /\ Sql!transaction(t, b)
    <3>1. current' = current /\ shadowed' = shadowed /\ kind'[b] = "transaction"
      BY <2>3 DEF Sql!transaction, Sql!enter, SqlTypeInv
    <3>2. i \in Depths(t) /\ inside'[t][i] = inside[t][i]
      BY <2>3, <1>3, <3>1
    <3>3. Found(t, i)
      BY <3>2, <2>3, <1>4, <1>5 DEF Remembered
    <3>4. current[t] # b /\ kind'[current[t]] = "protocol"
      BY <3>3, <1>1, <1>4 DEF Found
    <3>5. \A j \in Depths(t)' : inside'[t][j] = current[t] => i <= j
      <4> SUFFICES ASSUME NEW j \in Depths(t)', inside'[t][j] = current[t] PROVE i <= j
        OBVIOUS
      <4>1. j \in Depths(t) /\ inside[t][j] = current[t]
        BY <1>3, <3>4
      <4> QED
        BY <4>1, <3>3 DEF Found
    <3>6. ended[current[t]] # "open" \/ \E j \in Depths(t)' : inside'[t][j] = current[t]
      BY <3>3, <1>3 DEF Found
    <3>7. current[t] \in Blocks /\ (inside[t][i] \notin shadowed => current[t] = inside[t][i])
      BY <3>3 DEF Found
    <3> QED
      <4>1. /\ i \in Depths(t)' /\ current[t] \in Blocks /\ current'[t] = current[t]
            /\ kind'[current[t]] = "protocol"
        BY <3>1, <3>4, <3>7, <2>3
      <4>2. ended'[current[t]] # "open" \/ \E j \in Depths(t)' : inside'[t][j] = current[t]
        BY <3>6, <1>1
      <4>3. inside'[t][i] \notin shadowed' => current[t] = inside'[t][i]
        BY <3>1, <3>2, <3>7
      <4>4. Found(t, i)'
        BY <4>1, <4>2, <4>3, <3>5, FoundNext
      <4> QED
        BY <4>4, <2>3
  <2> QED
    BY <2>1, <2>2, <2>3
<1> QED
  BY <1>6, <1>7, <1>8, <1>9

\* Leaving the innermost block: its transaction ends, and no other one.
LEMMA SqlLeaveEnds ==
  ASSUME SqlInv, NEW t \in Tasks, NEW b \in Blocks, NEW how \in {"ok", "raised"},
         Sql!aexit(t, b, how) \/ Sql!endTransaction(t, b, how)
  PROVE  /\ Sql!leave(t, b, how)
         /\ ended' = ended \/ ended' = [ended EXCEPT ![b] = IF how = "ok" THEN "committed" ELSE "rolled back"]
         /\ b \notin shadowed => ended' # ended
         /\ ended[b] = "open" /\ left[b] = "inside"
         /\ kind[b] = "protocol" /\ current[t] = b => ended' # ended
<1> USE DEF SqlInv
<1>1. Sql!leave(t, b, how)
  BY DEF Sql!aexit, Sql!endTransaction
<1> DEFINE top == Len(inside[t])
<1>2. inside[t] \in Seq(Blocks) /\ top \in Depths(t) /\ inside[t][top] = b
  <2>1. inside[t] \in Seq(Blocks) /\ inside[t] # <<>> /\ Sql!Last(inside[t]) = b
    BY <1>1 DEF Sql!leave, SqlTypeInv
  <2>2. Len(inside[t]) \in Nat \ {0} /\ Sql!Last(inside[t]) = inside[t][Len(inside[t])]
    BY <2>1, LastFront
  <2> QED
    BY <2>1, <2>2 DEF Depths
<1>3. left[b] = "inside" /\ ended[b] = "open"
  BY <1>2 DEF Placed, Sql!BlocksSettled
<1>4. CASE Sql!endTransaction(t, b, how)
  BY <1>1, <1>3, <1>4 DEF Sql!endTransaction, Sql!end, SqlTypeInv
<1>5. CASE Sql!aexit(t, b, how)
  <2>1. Found(t, top) /\ kind[b] = "protocol" /\ Sql!end(current[t], how)
    BY <1>2, <1>5 DEF Sql!aexit, Remembered
  <2>2. CASE current[t] = b
    BY <1>1, <1>3, <2>1, <2>2 DEF Sql!end, SqlTypeInv
  <2>3. CASE current[t] # b
    <3>1. b \in shadowed
      BY <2>1, <2>3, <1>2 DEF Found
    <3>2. ended[current[t]] # "open"
      BY <2>1, <2>3, <1>2 DEF Found, Depths
    <3> QED
      BY <1>1, <1>3, <2>1, <2>3, <3>1, <3>2 DEF Sql!end
  <2> QED
    BY <2>2, <2>3
<1> QED
  BY <1>4, <1>5

\* A task leaves a block.
LEMMA SqlLeaveInv ==
  ASSUME SqlInv, NEW t \in Tasks, NEW b \in Blocks, NEW how \in {"ok", "raised"},
         Sql!aexit(t, b, how) \/ Sql!endTransaction(t, b, how)
  PROVE  SqlInv'
<1> USE DEF SqlInv
<1> DEFINE top == Len(inside[t])
           outcome == IF how = "ok" THEN "committed" ELSE "rolled back"
<1>1. /\ Sql!leave(t, b, how)
      /\ ended' = ended \/ ended' = [ended EXCEPT ![b] = outcome]
      /\ b \notin shadowed => ended' # ended
      /\ ended[b] = "open" /\ left[b] = "inside"
      /\ kind[b] = "protocol" /\ current[t] = b => ended' # ended
  BY SqlLeaveEnds
<1>2. /\ inside[t] \in Seq(Blocks) /\ inside[t] # <<>> /\ Sql!Last(inside[t]) = b
      /\ inside'[t] = Sql!Front(inside[t])
      /\ \A u \in Tasks \ {t} : inside'[u] = inside[u]
  BY <1>1 DEF Sql!leave, SqlTypeInv
<1>3. /\ top \in Nat \ {0} /\ inside[t][top] = b
      /\ inside'[t] \in Seq(Blocks) /\ Len(inside'[t]) = top - 1
      /\ \A i \in 1..(top - 1) : inside'[t][i] = inside[t][i]
  BY <1>2, LastFront
<1>4. /\ \A u \in Tasks \ {t} : inside'[u] = inside[u] /\ Depths(u)' = Depths(u)
      /\ top \in Depths(t)
      /\ Depths(t)' = Depths(t) \ {top}
      /\ \A i \in Depths(t) \ {top} : inside'[t][i] = inside[t][i]
  <2>1. top \in 1..top /\ 1..(top - 1) = (1..top) \ {top}
    BY <1>3
  <2> QED
    BY <1>2, <1>3, <2>1 DEF Depths
<1>5. /\ left' = [left EXCEPT ![b] = how]
      /\ current' = current /\ kind' = kind /\ shadowed' = shadowed
  BY <1>1 DEF Sql!leave
<1>6. \A u \in Tasks : \A i \in Depths(u)' :
        /\ i \in Depths(u) /\ inside'[u][i] = inside[u][i]
        /\ inside[u][i] \in Blocks /\ inside[u][i] # b
  <2> SUFFICES ASSUME NEW u \in Tasks, NEW i \in Depths(u)'
               PROVE  /\ i \in Depths(u) /\ inside'[u][i] = inside[u][i]
                      /\ inside[u][i] \in Blocks /\ inside[u][i] # b
    OBVIOUS
  <2>1. i \in Depths(u) /\ inside'[u][i] = inside[u][i] /\ ~(u = t /\ i = top)
    BY <1>4
  <2>2. inside[u][i] \in Blocks
    BY <2>1, InsideBlocks
  <2>3. inside[u][i] # b
    BY <2>1, <1>4, <1>3 DEF Placed
  <2> QED
    BY <2>1, <2>2, <2>3
<1>7. SqlTypeInv'
  <2>1. inside' \in [Tasks -> Seq(Blocks)]
    <3>1. inside \in [Tasks -> Seq(Blocks)]
      BY DEF SqlTypeInv
    <3>2. inside' = [inside EXCEPT ![t] = Sql!Front(inside[t])] /\ Sql!Front(inside[t]) \in Seq(Blocks)
      BY <1>1, <1>2, <1>3 DEF Sql!leave
    <3> QED
      BY <3>1, <3>2
  <2> QED
    BY <2>1, <1>1, <1>5 DEF SqlTypeInv
<1>8. Placed'
  <2>1. \A c \in Blocks : kind'[c] = "unused" => left'[c] = "inside"
    <3>1. kind[b] # "unused"
      BY <1>3, <1>4 DEF Placed
    <3>2. \A c \in Blocks \ {b} : left'[c] = left[c]
      BY <1>5 DEF SqlTypeInv
    <3> QED
      BY <3>1, <3>2, <1>5 DEF Placed
  <2>2. \A u \in Tasks : \A i \in Depths(u)' :
          kind'[inside'[u][i]] # "unused" /\ left'[inside'[u][i]] = "inside"
    <3>1. \A c \in Blocks \ {b} : left'[c] = left[c]
      BY <1>5 DEF SqlTypeInv
    <3> QED
      BY <3>1, <1>5, <1>6 DEF Placed
  <2>3. \A u, v \in Tasks : \A i \in Depths(u)', j \in Depths(v)' :
          inside'[u][i] = inside'[v][j] => u = v /\ i = j
    BY <1>6 DEF Placed
  <2> QED
    BY <2>1, <2>2, <2>3 DEF Placed
<1>9. Sql!BlocksSettled'
  <2>1. b \notin shadowed => ended'[b] = outcome
    BY <1>1 DEF SqlTypeInv
  <2>2. left'[b] = how
    BY <1>5 DEF SqlTypeInv
  <2>3. \A c \in Blocks \ {b} : ended'[c] = ended[c] /\ left'[c] = left[c]
    BY <1>1, <1>5 DEF SqlTypeInv
  <2> QED
    BY <2>1, <2>2, <2>3, <1>5 DEF Sql!BlocksSettled
<1>10. Remembered'
  <2> SUFFICES ASSUME NEW u \in Tasks, NEW i \in Depths(u)',
                      kind'[inside'[u][i]] = "protocol"
               PROVE  Found(u, i)'
    BY DEF Remembered
  <2>1. i \in Depths(u) /\ inside'[u][i] = inside[u][i] /\ Found(u, i)
    BY <1>5, <1>6 DEF Remembered
  <2>2. \A j \in Depths(u)' : inside'[u][j] = current'[u] => i <= j
    BY <2>1, <1>5, <1>6 DEF Found
  <2>3. ended'[current[u]] # "open" \/ \E j \in Depths(u)' : inside'[u][j] = current[u]
    <3>1. CASE ended[current[u]] # "open"
      BY <2>1, <3>1, <1>1 DEF SqlTypeInv, Found
    <3>2. CASE \E j \in Depths(u) : inside[u][j] = current[u]
      <4>1. PICK j \in Depths(u) : inside[u][j] = current[u]
        BY <3>2
      <4>2. CASE u = t /\ j = top
        <5>1. current[t] = b /\ kind[b] = "protocol"
          BY <4>1, <4>2, <1>3, <2>1 DEF Found
        <5>2. ended'[b] = outcome
          BY <5>1, <1>1 DEF SqlTypeInv
        <5> QED
          BY <5>1, <5>2, <4>2
      <4>3. CASE ~(u = t /\ j = top)
        BY <4>1, <4>3, <1>4
      <4> QED
        BY <4>2, <4>3
    <3> QED
      BY <2>1, <3>1, <3>2 DEF Found
  <2> QED
    BY <2>1, <2>2, <2>3, <1>5 DEF Found
<1> QED
  BY <1>7, <1>8, <1>9, <1>10

\* Every step of the blocks keeps their invariant.
LEMMA SqlStepInv == SqlInv /\ [Sql!Next]_(Sql!vars) => SqlInv'
<1> SUFFICES ASSUME SqlInv, [Sql!Next]_(Sql!vars) PROVE SqlInv'
  OBVIOUS
<1>1. ASSUME NEW t \in Tasks, NEW b \in Blocks, Sql!aenter(t, b) \/ Sql!transaction(t, b)
      PROVE  SqlInv'
  BY <1>1, SqlEnterInv
<1>2. ASSUME NEW t \in Tasks, NEW b \in Blocks, NEW how \in {"ok", "raised"},
             Sql!aexit(t, b, how) \/ Sql!endTransaction(t, b, how)
      PROVE  SqlInv'
  BY <1>2, SqlLeaveInv
<1>3. CASE UNCHANGED <<inside, current, kind, ended, left, shadowed>>
  <2>1. SqlTypeInv' /\ Sql!BlocksSettled'
    BY <1>3 DEF SqlInv, SqlTypeInv, Sql!BlocksSettled
  <2>2. \A t \in Tasks : Depths(t)' = Depths(t) /\ inside'[t] = inside[t]
    BY <1>3 DEF Depths
  <2>3. Placed'
    BY <1>3, <2>2 DEF SqlInv, Placed
  <2>4. Remembered'
    BY <1>3, <2>2 DEF SqlInv, Remembered, Found
  <2> QED
    BY <2>1, <2>3, <2>4 DEF SqlInv
<1> QED
  BY <1>1, <1>2, <1>3 DEF Sql!Next, Sql!vars, Sql!blockVars, Sql!Operation, Sql!Upsert,
     Sql!Statement
-----------------------------------------------------------------------------
(* A write of TOMLFileProtocol that returned True is what the file holds,  *)
(* whatever failed or crashed since, unless a later write was cut between  *)
(* truncation and content: for any keys, scalars and updates.              *)
THEOREM FileHolds == StoresSpec => []FileHoldsAcked
<1>1. StoresInit => FileInv
  BY FileInitInv DEF StoresInit
<1>2. FileInv /\ [StoresNext]_storesVars => FileInv'
  <2>1. [StoresNext]_storesVars => [File!Next]_(File!vars)
    BY DEF StoresNext, storesVars, fileVars, File!vars
  <2> QED
    BY <2>1, FileStepInv
<1>3. FileInv => FileHoldsAcked
  BY DEF FileInv, FileHoldsAcked
<1> QED
  BY <1>1, <1>2, <1>3, PTL DEF StoresSpec

(* The nested dicts of TOMLFileProtocol, with their file, implement the    *)
(* flat map of dotted keys: set, delete, merge and write change the leaves *)
(* they name and those above and below them and no others, and a restart   *)
(* finds what was saved or, after a write that was cut, nothing.           *)
THEOREM LeafStoreImplemented == StoresSpec => ImplementsLeafStore
<1>1. StoresInit => FileInv /\ File!Abstract!Init
  BY FileInitInv, FileInitShown DEF StoresInit
<1>2. FileInv /\ [StoresNext]_storesVars => FileInv' /\ [File!Abstract!Next]_<<Shown, File!OnDisk>>
  <2>1. [StoresNext]_storesVars => [File!Next]_(File!vars)
    BY DEF StoresNext, storesVars, fileVars, File!vars
  <2> QED
    BY <2>1, FileStepInv
<1>3. [File!Abstract!Next]_<<Shown, File!OnDisk>> <=>
        [File!Abstract!Next]_<<IF stage = "down" THEN File!OnDisk ELSE File!LeafOf(data), File!OnDisk>>
  BY DEF Shown
<1> QED
  BY <1>1, <1>2, <1>3, PTL
     DEF StoresSpec, ImplementsLeafStore, File!ImplementsLeafStore, File!Abstract!Spec

(* Whatever handlers overlap in Session, an item of a history stays in it, *)
(* once and in no other, unless a delete or a set took it away, or an      *)
(* append that was in flight as it was stored wrote afterwards; with a     *)
(* protocol that does not suspend only a delete or a set does, for good.   *)
THEOREM TurnsKept == StoresSpec => []AppendsKept
<1>1. StoresInit => TurnsInv
  BY TurnsInitInv DEF StoresInit
<1>2. TurnsInv /\ [StoresNext]_storesVars => TurnsInv'
  <2>1. [StoresNext]_storesVars => [Turns!Next]_(Turns!vars)
    BY DEF StoresNext, storesVars, turnsVars, Turns!vars
  <2> QED
    BY <2>1, TurnsNextInv
<1>3. TurnsInv => AppendsKept
  BY DEF TurnsInv, AppendsKept
<1> QED
  BY <1>1, <1>2, <1>3, PTL DEF StoresSpec

(* A transaction block ends its own transaction, the way it was left, for  *)
(* any number of tasks, blocks and rows and however deep the blocks nest;  *)
(* the exception is a protocol block in which its task entered another.    *)
THEOREM SqlBlocksSettled == StoresSpec => []BlocksSettled
<1>1. StoresInit => SqlInv
  BY SqlInitInv DEF StoresInit
<1>2. SqlInv /\ [StoresNext]_storesVars => SqlInv'
  <2>1. [StoresNext]_storesVars => [Sql!Next]_(Sql!vars)
    BY DEF StoresNext, storesVars, sqlVars, Sql!vars, Sql!blockVars
  <2> QED
    BY <2>1, SqlStepInv
<1>3. SqlInv => BlocksSettled
  BY DEF SqlInv, BlocksSettled
<1> QED
  BY <1>1, <1>2, <1>3, PTL DEF StoresSpec
=============================================================================
