--------------------------- MODULE ServicesProofs ---------------------------
(***************************************************************************)
(* Proofs about what services do beside the hub.  Each part has an         *)
(* inductive invariant of its own, which the steps of the others leave     *)
(* alone.                                                                  *)
(*                                                                         *)
(* Exchange: match_topic accepts what a pattern means, for patterns and    *)
(* topics of any words and any length, and an event triggers what matched  *)
(* it.  Registry: what the services declare is what is registered.         *)
(* Services: no service is ready before what it needs, and sub-commands    *)
(* run on apps whose start has ended, whatever the configuration.          *)
(***************************************************************************)
EXTENDS ServiceParts, FiniteSetTheorems, SequenceTheorems, WellFoundedInduction, TLAPS

TopicHash(p, i) == p[i] = "#"
TopicTakes(p, t, i, j) == p[i] \in {"*", t[j]}

\* An entry, and a line, of the table that match_topic fills, from the next.
TopicEntry(p, t, f, pi, ti) ==
  IF pi > Len(p) THEN ti > Len(t)
  ELSE IF TopicHash(p, pi)
       THEN pi = Len(p) \/ \E skip \in ti..(Len(t) + 1) : f[pi + 1][skip]
       ELSE ti <= Len(t) /\ TopicTakes(p, t, pi, ti) /\ f[pi + 1][ti + 1]

TopicRow(p, t, f, pi) == [ti \in 1..(Len(t) + 1) |-> TopicEntry(p, t, f, pi, ti)]

IsTopicTable(p, t, n, f) == f = [pi \in n..(Len(p) + 1) |-> TopicRow(p, t, f, pi)]

\* A line depends on the next one only.
LEMMA RowOfNext ==
  ASSUME NEW p, NEW t, Len(p) \in Nat, Len(t) \in Nat, NEW pi \in Nat,
         NEW f, NEW g, pi <= Len(p) => f[pi + 1] = g[pi + 1]
  PROVE  TopicRow(p, t, f, pi) = TopicRow(p, t, g, pi)
<1>1. \A ti \in 1..(Len(t) + 1) : TopicEntry(p, t, f, pi, ti) = TopicEntry(p, t, g, pi, ti)
  BY DEF TopicEntry
<1> QED
  BY <1>1 DEF TopicRow

\* match_topic is the first entry of the table.
LEMMA MatchIsTable ==
  ASSUME NEW p, NEW t
  PROVE  Events!match_topic(p, t) = (CHOOSE f : IsTopicTable(p, t, 1, f))[1][1]
BY Zenon DEF Events!match_topic, IsTopicTable, TopicRow, TopicEntry, TopicHash, TopicTakes

\* The table can be filled, from its last line up.
LEMMA TopicTableExists ==
  ASSUME NEW p, NEW t, Len(p) \in Nat, Len(t) \in Nat
  PROVE  \E f : IsTopicTable(p, t, 1, f)
<1> DEFINE n(k) == Len(p) + 1 - k
           S == {k \in 0..Len(p) : ~ \E f : IsTopicTable(p, t, n(k), f)}
<1>1. CASE S = {}
  <2>1. Len(p) \in 0..Len(p) /\ n(Len(p)) = 1
    OBVIOUS
  <2> QED
    BY <1>1, <2>1
<1>2. CASE S # {}
  <2>0. S \subseteq Nat
    OBVIOUS
  <2>1. PICK k \in S : \A i \in S : ~(i < k)
    <3>1. IsWellFoundedOn(OpToRel(<, Nat), Nat)
      BY NatLessThanWellFounded
    <3> HIDE DEF S
    <3>2. PICK k \in S : \A i \in S : ~(<<i, k>> \in OpToRel(<, Nat))
      BY <1>2, <2>0, <3>1, WFMin, Zenon
    <3> QED
      BY <2>0, <3>2 DEF OpToRel
  <2>2. k \in 0..Len(p) /\ ~ \E f : IsTopicTable(p, t, n(k), f)
    OBVIOUS
  <2>3. CASE k = 0
    <3> DEFINE f == [pi \in {Len(p) + 1} |-> TopicRow(p, t, <<>>, pi)]
    <3>1. n(k) = Len(p) + 1 /\ n(k)..(Len(p) + 1) = {Len(p) + 1}
      BY <2>3
    <3>2. TopicRow(p, t, <<>>, Len(p) + 1) = TopicRow(p, t, f, Len(p) + 1)
      BY RowOfNext
    <3>3. f = [pi \in {Len(p) + 1} |-> TopicRow(p, t, f, pi)]
      BY <3>2
    <3>4. IsTopicTable(p, t, n(k), f)
      BY <3>1, <3>3 DEF IsTopicTable
    <3> QED
      BY <3>4, <2>2
  <2>4. CASE k # 0
    <3>1. k - 1 \in 0..Len(p) /\ k - 1 < k
      BY <2>2, <2>4
    <3>2. PICK g : IsTopicTable(p, t, n(k - 1), g)
      BY <3>1, <2>1
    <3> DEFINE N == n(k)
               f == [pi \in N..(Len(p) + 1) |-> IF pi = N THEN TopicRow(p, t, g, N) ELSE g[pi]]
    <3>3. N \in Nat /\ N <= Len(p) /\ n(k - 1) = N + 1
      BY <2>2, <2>4
    <3> HIDE DEF n, N
    <3>4. \A pi \in (N + 1)..(Len(p) + 1) : g[pi] = TopicRow(p, t, g, pi)
      BY <3>2, <3>3 DEF IsTopicTable
    <3>5. /\ f[N] = TopicRow(p, t, g, N)
          /\ \A pi \in (N + 1)..(Len(p) + 1) : f[pi] = g[pi]
          /\ f = [pi \in N..(Len(p) + 1) |-> f[pi]]
      BY <3>3
    <3> HIDE DEF f
    <3>6. ASSUME NEW pi \in N..(Len(p) + 1)
          PROVE  /\ pi \in Nat /\ (pi = N \/ pi \in (N + 1)..(Len(p) + 1))
                 /\ pi <= Len(p) => pi + 1 \in (N + 1)..(Len(p) + 1)
      BY <3>3
    <3>7. ASSUME NEW pi \in N..(Len(p) + 1) PROVE TopicRow(p, t, f, pi) = TopicRow(p, t, g, pi)
      <4>1. pi <= Len(p) => f[pi + 1] = g[pi + 1]
        BY <3>5, <3>6
      <4> QED
        BY <4>1, <3>6, RowOfNext
    <3>8. \A pi \in N..(Len(p) + 1) : f[pi] = TopicRow(p, t, f, pi)
      BY <3>4, <3>5, <3>6, <3>7
    <3>9. IsTopicTable(p, t, N, f)
      BY <3>5, <3>8, Zenon DEF IsTopicTable
    <3> QED
      BY <3>9, <2>2 DEF N
  <2> QED
    BY <2>3, <2>4
<1> QED
  BY <1>1, <1>2

\* What is left of the meaning at pi and ti: the rest of the topic can be
\* cut into pieces for the rest of the pattern.
Fits(p, t, cut, i) ==
  IF TopicHash(p, i) THEN cut[i - 1] <= cut[i]
  ELSE cut[i] = cut[i - 1] + 1 /\ TopicTakes(p, t, i, cut[i])

IsCut(p, t, pi, ti, cut) ==
  /\ cut \in [(pi - 1)..Len(p) -> 0..Len(t)]
  /\ cut[pi - 1] = ti - 1 /\ cut[Len(p)] = Len(t)
  /\ \A i \in pi..Len(p) : Fits(p, t, cut, i)

TopicRest(p, t, pi, ti) == \E cut : IsCut(p, t, pi, ti, cut)

\* From the first parts on, the rest is pattern and topic.
LEMMA RestOfAll ==
  ASSUME NEW p, NEW t
  PROVE  TopicRest(p, t, 1, 1) <=> Events!Meaning(p, t)
<1>1. ASSUME NEW cut
      PROVE  IsCut(p, t, 1, 1, cut) <=>
               /\ cut \in [0..Len(p) -> 0..Len(t)]
               /\ cut[0] = 0 /\ cut[Len(p)] = Len(t)
               /\ \A i \in 1..Len(p) :
                    IF p[i] = "#" THEN cut[i - 1] <= cut[i]
                    ELSE cut[i] = cut[i - 1] + 1 /\ p[i] \in {"*", t[cut[i]]}
  <2>1. 1 - 1 = 0
    OBVIOUS
  <2> QED
    BY <2>1, Zenon DEF IsCut, Fits, TopicHash, TopicTakes
<1> QED
  BY <1>1, Zenon DEF TopicRest, Events!Meaning

\* At the end of the pattern nothing may be left.
LEMMA RestAtEnd ==
  ASSUME NEW p, NEW t, Len(p) \in Nat, Len(t) \in Nat, NEW ti \in 1..(Len(t) + 1)
  PROVE  TopicRest(p, t, Len(p) + 1, ti) <=> ti > Len(t)
<1>1. ASSUME TopicRest(p, t, Len(p) + 1, ti) PROVE ti > Len(t)
  BY <1>1 DEF TopicRest, IsCut
<1>2. ASSUME ti > Len(t) PROVE TopicRest(p, t, Len(p) + 1, ti)
  <2> DEFINE cut == [i \in Len(p)..Len(p) |-> Len(t)]
  <2>1. IsCut(p, t, Len(p) + 1, ti, cut)
    BY <1>2 DEF IsCut
  <2> QED
    BY <2>1 DEF TopicRest
<1> QED
  BY <1>1, <1>2

\* The first part takes its piece, and the rest of the pattern the others.
LEMMA RestOfPart ==
  ASSUME NEW p, NEW t, Len(p) \in Nat, Len(t) \in Nat, NEW pi \in 1..Len(p),
         NEW ti \in 1..(Len(t) + 1)
  PROVE  TopicRest(p, t, pi, ti) <=>
           \E to \in 1..(Len(t) + 1) :
             /\ TopicRest(p, t, pi + 1, to)
             /\ IF TopicHash(p, pi) THEN ti <= to
                ELSE to = ti + 1 /\ TopicTakes(p, t, pi, ti)
<1>1. ASSUME NEW cut, IsCut(p, t, pi, ti, cut)
      PROVE  \E to \in 1..(Len(t) + 1) :
               /\ TopicRest(p, t, pi + 1, to)
               /\ IF TopicHash(p, pi) THEN ti <= to
                  ELSE to = ti + 1 /\ TopicTakes(p, t, pi, ti)
  <2> DEFINE to == cut[pi] + 1
             tail == [i \in pi..Len(p) |-> cut[i]]
  <2>1. cut[pi] \in 0..Len(t) /\ to \in 1..(Len(t) + 1)
    BY <1>1 DEF IsCut
  <2>2. IF TopicHash(p, pi) THEN ti <= to ELSE to = ti + 1 /\ TopicTakes(p, t, pi, ti)
    <3>1. Fits(p, t, cut, pi) /\ cut[pi - 1] = ti - 1
      BY <1>1 DEF IsCut
    <3>2. ~TopicHash(p, pi) => cut[pi] = ti
      BY <3>1 DEF Fits
    <3> QED
      BY <2>1, <3>1, <3>2 DEF Fits
  <2>3. IsCut(p, t, pi + 1, to, tail)
    <3>1. tail \in [((pi + 1) - 1)..Len(p) -> 0..Len(t)]
      BY <1>1 DEF IsCut
    <3>2. tail[(pi + 1) - 1] = to - 1 /\ tail[Len(p)] = Len(t)
      BY <1>1, <2>1 DEF IsCut
    <3>3. ASSUME NEW i \in (pi + 1)..Len(p) PROVE Fits(p, t, tail, i)
      <4>1. Fits(p, t, cut, i)
        BY <1>1 DEF IsCut
      <4>2. tail[i] = cut[i] /\ tail[i - 1] = cut[i - 1]
        OBVIOUS
      <4> HIDE DEF tail
      <4> QED
        BY <4>1, <4>2 DEF Fits
    <3> HIDE DEF tail
    <3> QED
      BY <3>1, <3>2, <3>3 DEF IsCut
  <2> QED
    BY <2>1, <2>2, <2>3 DEF TopicRest
<1>2. ASSUME NEW to \in 1..(Len(t) + 1), NEW tail, IsCut(p, t, pi + 1, to, tail),
             IF TopicHash(p, pi) THEN ti <= to ELSE to = ti + 1 /\ TopicTakes(p, t, pi, ti)
      PROVE  TopicRest(p, t, pi, ti)
  <2> DEFINE cut == [i \in (pi - 1)..Len(p) |-> IF i = pi - 1 THEN ti - 1 ELSE tail[i]]
  <2>1. /\ tail \in [pi..Len(p) -> 0..Len(t)] /\ tail[pi] = to - 1 /\ tail[Len(p)] = Len(t)
        /\ \A i \in (pi + 1)..Len(p) : Fits(p, t, tail, i)
    BY <1>2 DEF IsCut
  <2>2. /\ cut \in [(pi - 1)..Len(p) -> 0..Len(t)] /\ cut[pi - 1] = ti - 1
        /\ \A i \in pi..Len(p) : cut[i] = tail[i]
    BY <2>1
  <2> HIDE DEF cut
  <2>3. Fits(p, t, cut, pi)
    <3>1. cut[pi] = to - 1
      BY <2>1, <2>2
    <3>2. ~TopicHash(p, pi) => cut[pi] = ti
      BY <3>1, <1>2
    <3> QED
      BY <3>1, <3>2, <2>2, <1>2 DEF Fits
  <2>4. ASSUME NEW i \in (pi + 1)..Len(p) PROVE Fits(p, t, cut, i)
    <3>1. cut[i] = tail[i] /\ cut[i - 1] = tail[i - 1]
      BY <2>2
    <3> QED
      BY <3>1, <2>1 DEF Fits
  <2>5. IsCut(p, t, pi, ti, cut)
    BY <2>1, <2>2, <2>3, <2>4 DEF IsCut
  <2> QED
    BY <2>5 DEF TopicRest
<1> QED
  BY <1>1, <1>2 DEF TopicRest

\* Every rest fits the last "#".
LEMMA RestOfLastHash ==
  ASSUME NEW p, NEW t, Len(p) \in Nat \ {0}, Len(t) \in Nat, TopicHash(p, Len(p)),
         NEW ti \in 1..(Len(t) + 1)
  PROVE  TopicRest(p, t, Len(p), ti)
<1>1. TopicRest(p, t, Len(p) + 1, Len(t) + 1)
  BY RestAtEnd
<1> QED
  BY <1>1, RestOfPart

(* match_topic decides what a pattern means, for every pattern and topic of *)
(* any words and length.  The table it fills is compared with the meaning  *)
(* from the last line on: the least count of lines for which they differ   *)
(* does not exist.                                                         *)
THEOREM MatchTopicMeans ==
  ASSUME NEW p, NEW t, Len(p) \in Nat, Len(t) \in Nat
  PROVE  Events!match_topic(p, t) <=> Events!Meaning(p, t)
<1> DEFINE f == CHOOSE f : IsTopicTable(p, t, 1, f)
<1>1. \A pi \in 1..(Len(p) + 1) : \A ti \in 1..(Len(t) + 1) : f[pi][ti] = TopicEntry(p, t, f, pi, ti)
  <2>1. IsTopicTable(p, t, 1, f)
    BY TopicTableExists, Zenon
  <2> HIDE DEF f
  <2>2. \A pi \in 1..(Len(p) + 1) : f[pi] = TopicRow(p, t, f, pi)
    BY <2>1, Zenon DEF IsTopicTable
  <2> QED
    BY <2>2, Zenon DEF TopicRow
<1>2. Events!match_topic(p, t) = f[1][1]
  BY MatchIsTable, Zenon
<1> HIDE DEF f
<1> DEFINE Right(pi) == \A ti \in 1..(Len(t) + 1) : f[pi][ti] <=> TopicRest(p, t, pi, ti)
           S == {k \in 0..Len(p) : ~Right(Len(p) + 1 - k)}
<1>3. CASE S = {}
  <2>1. Len(p) \in 0..Len(p) /\ Len(p) + 1 - Len(p) = 1
    OBVIOUS
  <2>2. Right(1)
    BY <1>3, <2>1
  <2>3. f[1][1] <=> TopicRest(p, t, 1, 1)
    BY <2>2
  <2> QED
    BY <2>3, <1>2, RestOfAll
<1>4. CASE S # {}
  <2>0. S \subseteq Nat
    OBVIOUS
  <2>1. PICK k \in S : \A i \in S : ~(i < k)
    <3>1. IsWellFoundedOn(OpToRel(<, Nat), Nat)
      BY NatLessThanWellFounded
    <3> HIDE DEF S
    <3>2. PICK k \in S : \A i \in S : ~(<<i, k>> \in OpToRel(<, Nat))
      BY <1>4, <2>0, <3>1, WFMin, Zenon
    <3> QED
      BY <2>0, <3>2 DEF OpToRel
  <2> DEFINE pi == Len(p) + 1 - k
  <2>2. k \in 0..Len(p) /\ ~Right(pi) /\ pi \in 1..(Len(p) + 1)
    OBVIOUS
  <2>3. CASE k = 0
    <3>1. pi = Len(p) + 1
      BY <2>3
    <3> HIDE DEF pi
    <3>2. ASSUME NEW ti \in 1..(Len(t) + 1) PROVE f[pi][ti] <=> TopicRest(p, t, pi, ti)
      <4>1. TopicEntry(p, t, f, pi, ti) <=> ti > Len(t)
        BY <3>1 DEF TopicEntry
      <4>2. TopicRest(p, t, pi, ti) <=> ti > Len(t)
        BY <3>1, RestAtEnd
      <4>3. f[pi][ti] = TopicEntry(p, t, f, pi, ti)
        BY <1>1, <2>2
      <4> QED
        BY <4>1, <4>2, <4>3, Zenon
    <3> QED
      BY <3>2, <2>2, Zenon DEF pi
  <2>4. CASE k # 0
    <3>1. k - 1 \in 0..Len(p) /\ k - 1 < k /\ Len(p) + 1 - (k - 1) = pi + 1 /\ pi \in 1..Len(p)
      BY <2>2, <2>4
    <3>2. Right(pi + 1)
      BY <3>1, <2>1
    <3> HIDE DEF pi
    <3>3. ASSUME NEW ti \in 1..(Len(t) + 1) PROVE f[pi][ti] <=> TopicRest(p, t, pi, ti)
      <4>0. f[pi][ti] = TopicEntry(p, t, f, pi, ti)
        BY <1>1, <2>2
      <4>1. CASE TopicHash(p, pi) /\ pi = Len(p)
        <5>1. TopicRest(p, t, pi, ti)
          BY <4>1, <3>1, RestOfLastHash
        <5>2. TopicEntry(p, t, f, pi, ti)
          BY <4>1, <3>1 DEF TopicEntry
        <5> QED
          BY <4>0, <5>1, <5>2, Zenon
      <4>2. CASE TopicHash(p, pi) /\ pi # Len(p)
        <5>1. TopicEntry(p, t, f, pi, ti) <=> \E skip \in ti..(Len(t) + 1) : f[pi + 1][skip]
          BY <4>2, <3>1 DEF TopicEntry
        <5>2. \A skip \in ti..(Len(t) + 1) : skip \in 1..(Len(t) + 1)
          OBVIOUS
        <5>3. (\E skip \in ti..(Len(t) + 1) : f[pi + 1][skip])
                <=> \E skip \in ti..(Len(t) + 1) : TopicRest(p, t, pi + 1, skip)
          BY <3>2, <5>2, Zenon
        <5>4. TopicRest(p, t, pi, ti) <=> \E to \in 1..(Len(t) + 1) : TopicRest(p, t, pi + 1, to) /\ ti <= to
          BY <3>1, <4>2, RestOfPart
        <5>5. TopicRest(p, t, pi, ti) <=> \E skip \in ti..(Len(t) + 1) : TopicRest(p, t, pi + 1, skip)
          BY <5>4
        <5> QED
          BY <4>0, <5>1, <5>3, <5>5, Zenon
      <4>3. CASE ~TopicHash(p, pi)
        <5>1. TopicEntry(p, t, f, pi, ti) <=> ti <= Len(t) /\ TopicTakes(p, t, pi, ti) /\ f[pi + 1][ti + 1]
          BY <4>3, <3>1 DEF TopicEntry
        <5>2. TopicRest(p, t, pi, ti) <=>
                \E to \in 1..(Len(t) + 1) :
                  TopicRest(p, t, pi + 1, to) /\ to = ti + 1 /\ TopicTakes(p, t, pi, ti)
          BY <3>1, <4>3, RestOfPart
        <5>3. ti + 1 \in 1..(Len(t) + 1) <=> ti <= Len(t)
          OBVIOUS
        <5>4. TopicRest(p, t, pi, ti) <=> ti <= Len(t) /\ TopicTakes(p, t, pi, ti) /\ TopicRest(p, t, pi + 1, ti + 1)
          BY <5>2, <5>3, Zenon
        <5> QED
          BY <4>0, <5>1, <5>3, <5>4, <3>2, Zenon
      <4> QED
        BY <4>1, <4>2, <4>3
    <3> QED
      BY <3>3, <2>2, Zenon DEF pi
  <2> QED
    BY <2>3, <2>4
<1> QED
  BY <1>3, <1>4

\* A topic and a pattern are sequences, and a word stands for itself.
LEMMA Dotted ==
  /\ \A t \in Events!Topics : t # Events!NoTopic /\ Len(t) \in Nat
  /\ \A p \in Events!Patterns : Len(p) \in Nat
  /\ \A t \in Events!Topics : Events!Meaning(t, t)
<1>1. ASSUME NEW parts, NEW s \in Events!DottedNames(parts)
      PROVE  Len(s) \in Nat \ {0} /\ s \in [1..Len(s) -> parts]
  <2>1. PICK n \in 1..MaxParts : s \in [1..n -> parts]
    BY <1>1 DEF Events!DottedNames
  <2>2. n \in Nat \ {0}
    BY EventsAssumption DEF Events!ExchangeAssumption
  <2>3. s \in Seq(parts) /\ Len(s) = n
    BY <2>1, <2>2
  <2> QED
    BY <2>1, <2>2, <2>3
<1>2. \A t \in Events!Topics : t # Events!NoTopic /\ Len(t) \in Nat /\ t \in [1..Len(t) -> Words]
  <2>1. Len(<<>>) = 0
    OBVIOUS
  <2> QED
    BY <2>1, <1>1 DEF Events!Topics, Events!NoTopic
<1>3. \A p \in Events!Patterns : Len(p) \in Nat
  BY <1>1 DEF Events!Patterns
<1>4. ASSUME NEW t \in Events!Topics PROVE Events!Meaning(t, t)
  <2> DEFINE cut == [i \in 0..Len(t) |-> i]
  <2>1. Len(t) \in Nat /\ t \in [1..Len(t) -> Words]
    BY <1>2
  <2>2. cut \in [0..Len(t) -> 0..Len(t)] /\ cut[0] = 0 /\ cut[Len(t)] = Len(t)
    BY <2>1
  <2>3. ASSUME NEW i \in 1..Len(t)
        PROVE  cut[i] = i /\ cut[i - 1] = i - 1 /\ t[i] # "#"
    <3>1. "#" \notin Words
      BY EventsAssumption DEF Events!ExchangeAssumption
    <3> QED
      BY <2>1, <3>1
  <2> HIDE DEF cut
  <2>4. \A i \in 1..Len(t) :
          IF t[i] = "#" THEN cut[i - 1] <= cut[i]
          ELSE cut[i] = cut[i - 1] + 1 /\ t[i] \in {"*", t[cut[i]]}
    BY <2>3
  <2> QED
    BY <2>2, <2>4 DEF Events!Meaning
<1> QED
  BY <1>2, <1>3, <1>4

\* The handlers whose command is created, or will be, are those expected.
EventsInv ==
  /\ \A s \in subscribers : s[1] \in Events!Patterns
  /\ topic = Events!NoTopic => callbacks = {} /\ created = {}
  /\ topic # Events!NoTopic => created \union (callbacks \intersect commands) = expected

\* Nothing is subscribed at first.
LEMMA EventsInitInv == Events!Init => EventsInv
BY DEF Events!Init, EventsInv

\* Every step of the exchange keeps its invariant.
LEMMA EventsNextInv == EventsInv /\ [Events!Next]_(Events!vars) => EventsInv'
<1> SUFFICES ASSUME EventsInv, [Events!Next]_(Events!vars) PROVE EventsInv'
  OBVIOUS
<1>1. CASE UNCHANGED Events!vars
  BY <1>1 DEF Events!vars, EventsInv
<1>2. ASSUME NEW p \in Events!Patterns, NEW d \in Destinations, Events!subscribe(p, d) \/ Events!unsubscribe(p, d)
      PROVE  EventsInv'
  <2>1. /\ subscribers' \subseteq subscribers \union {<<p, d>>}
        /\ topic' = topic /\ created' = created /\ callbacks' = callbacks /\ expected' = expected
    BY <1>2 DEF Events!subscribe, Events!unsubscribe
  <2>2. <<p, d>>[1] = p
    OBVIOUS
  <2> QED
    BY <2>1, <2>2 DEF EventsInv
<1>3. ASSUME NEW t \in Events!Topics, Events!bind_subscriber_callbacks(t) PROVE EventsInv'
  <2>1. /\ topic = Events!NoTopic /\ topic' = t /\ callbacks' = Events!match(t) /\ created' = created /\ subscribers' = subscribers
        /\ expected' = {s[2] : s \in {s \in subscribers : s[2] \in commands /\ Events!Meaning(s[1], t)}}
    BY <1>3 DEF Events!bind_subscriber_callbacks
  <2>2. \A s \in subscribers : (s[1] = t \/ Events!match_topic(s[1], t)) <=> Events!Meaning(s[1], t)
    <3>1. ASSUME NEW s \in subscribers
          PROVE  Events!match_topic(s[1], t) <=> Events!Meaning(s[1], t)
      <4>1. Len(s[1]) \in Nat /\ Len(t) \in Nat
        BY Dotted DEF EventsInv
      <4> QED
        BY <4>1, MatchTopicMeans
    <3>2. Events!Meaning(t, t)
      BY Dotted
    <3> QED
      BY <3>1, <3>2, Zenon
  <2>3. Events!match(t) \intersect commands = expected'
    BY <2>1, <2>2, Zenon DEF Events!match
  <2> QED
    BY <2>1, <2>3, Dotted DEF EventsInv
<1>4. ASSUME NEW d \in Destinations, Events!on_subscriber_done(d) PROVE EventsInv'
  BY <1>4 DEF Events!on_subscriber_done, EventsInv
<1>5. CASE Events!NextEvent
  BY <1>5 DEF Events!NextEvent, EventsInv
<1> QED
  BY <1>1, <1>2, <1>3, <1>4, <1>5 DEF Events!Next

-----------------------------------------------------------------------------
\* The services that have been registered at least once.
Done == IF calls > 0 THEN Tables!Services ELSE {declared.order[i] : i \in 1..(visit - 1)}

Entries(owner) == {owner} \X (Tables!Names(owner) \union Tables!Methods(owner))

\* What the tables hold for destination d.
Proper(d) ==
  IF d[2] \in Tables!Methods(d[1]) THEN table[d] = Tables!Handler(d)
  ELSE \E c \in Tables!Declared(d[1], d[2]) : table[d] = Tables!Bind(d[1], c)

Holds ==
  /\ \A s : s \in topics <=> \E owner \in Done : s \in Tables!Topics(owner)
  /\ \A d : d \in DOMAIN table <=> \E owner \in Done : d \in Entries(owner)
  /\ \A d \in DOMAIN table : Proper(d)

TablesInv ==
  /\ declared \in Declarations /\ calls \in Nat /\ Tables!Calls \in {1, 2}
  /\ visit \in 1..(Len(declared.order) + 1)
  /\ ~raised => Holds

\* A configuration of the assumption.
LEMMA OrderedServices ==
  ASSUME declared \in Declarations
  PROVE  /\ Len(declared.order) \in Nat
         /\ \A i \in 1..Len(declared.order) : declared.order[i] \in Tables!Services
         /\ \A owner \in Tables!Services : \E i \in 1..Len(declared.order) : owner = declared.order[i]
         /\ Entries(Hub) = {} /\ Tables!Topics(Hub) = {}
         /\ \A owner \in Tables!Services : \A c \in declared.classes[owner] : "destination" \in DOMAIN c
<1> DEFINE o == declared.order
<1>1. /\ o \in Seq(Tables!ToSet(o))
      /\ declared.classes[Hub] = {} /\ declared.handlers[Hub] = {}
      /\ \A owner \in Tables!ToSet(o) : \A k \in declared.classes[owner] : "destination" \in DOMAIN k
  BY DeclarationsAssumption, Zenon DEF Tables!Declaring
<1>2. Len(o) \in Nat /\ DOMAIN o = 1..Len(o)
  BY <1>1
<1>3. /\ \A i \in 1..Len(o) : o[i] \in Tables!ToSet(o)
      /\ \A owner \in Tables!ToSet(o) : \E i \in 1..Len(o) : owner = o[i]
  BY <1>2, Zenon DEF Tables!ToSet
<1>4. Tables!Names(Hub) = {} /\ Tables!Methods(Hub) = {} /\ Tables!Topics(Hub) = {}
  BY <1>1 DEF Tables!Names, Tables!Methods, Tables!Topics
<1>5. Entries(Hub) = {}
  BY <1>4 DEF Entries
<1> QED
  BY <1>1, <1>2, <1>3, <1>4, <1>5 DEF Tables!Services

\* Nothing is registered at first.
LEMMA TablesInitInv == Tables!Init => TablesInv
<1> SUFFICES ASSUME Tables!Init PROVE TablesInv
  OBVIOUS
<1>1. declared \in Declarations /\ calls = 0 /\ visit = 1 /\ topics = {} /\ DOMAIN table = {}
  BY DEF Tables!Init
<1>2. Tables!Calls \in {1, 2}
  BY DEF Tables!Calls
<1>3. Done = {}
  BY <1>1 DEF Done
<1>4. Holds
  BY <1>1, <1>3 DEF Holds
<1> QED
  BY <1>1, <1>2, <1>4, OrderedServices DEF TablesInv

\* The services registered after the next visit.
LEMMA DoneNext ==
  ASSUME TablesInv, visit <= Len(declared.order), visit' = visit + 1, calls' = calls, declared' = declared
  PROVE  /\ Done' = Done \union {declared.order[visit]}
         /\ declared.order[visit] \in Tables!Services
<1>1. visit \in 1..Len(declared.order) /\ visit \in Nat /\ calls \in Nat /\ Tables!Services' = Tables!Services
  BY OrderedServices DEF TablesInv, Tables!Services
<1>2. declared.order[visit] \in Tables!Services
  BY <1>1, OrderedServices DEF TablesInv
<1>3. CASE calls > 0
  BY <1>1, <1>2, <1>3 DEF Done
<1>4. CASE ~(calls > 0)
  <2>1. Done = {declared.order[i] : i \in 1..(visit - 1)} /\ Done' = {declared.order[i] : i \in 1..visit}
    BY <1>1, <1>4 DEF Done
  <2>2. 1..visit = 1..(visit - 1) \union {visit}
    BY <1>1
  <2> QED
    BY <1>2, <2>1, <2>2
<1> QED
  BY <1>2, <1>3, <1>4

\* register takes in what one service declares.
LEMMA TableRegisterServiceInv ==
  ASSUME TablesInv, ~raised, visit <= Len(declared.order), visit' = visit + 1, calls' = calls,
         declared' = declared, Tables!RegisterService(declared.order[visit])
  PROVE  Holds'
<1> DEFINE owner == declared.order[visit]
<1>1. Done' = Done \union {owner} /\ owner \in Tables!Services /\ Holds
  BY DoneNext DEF TablesInv
<1> HIDE DEF owner
<1>2. topics' = topics \union Tables!Topics(owner)
  BY DEF Tables!RegisterService, owner
<1>3. PICK winner \in [Tables!Names(owner) -> declared.classes[owner]] :
        /\ \A n \in Tables!Names(owner) : winner[n] \in Tables!Declared(owner, n)
        /\ table' =
             [d \in DOMAIN table \union {<<owner, n>> : n \in Tables!Names(owner) \union Tables!Methods(owner)} |->
               IF d[1] # owner THEN table[d]
               ELSE IF d[2] \in Tables!Methods(owner) THEN Tables!Handler(d)
               ELSE Tables!Bind(owner, winner[d[2]])]
  BY Zenon DEF Tables!RegisterService, owner
<1>4. /\ \A k, n : Tables!Declared(k, n)' = Tables!Declared(k, n)
      /\ \A k : Tables!Names(k)' = Tables!Names(k) /\ Tables!Methods(k)' = Tables!Methods(k) /\ Tables!Topics(k)' = Tables!Topics(k)
      /\ \A k : Entries(k)' = Entries(k)
  BY DEF Tables!Declared, Tables!Names, Tables!Methods, Tables!Topics, Entries
<1>5. \A s : s \in topics' <=> \E k \in Done' : s \in Tables!Topics(k)'
  BY <1>1, <1>2, <1>4, Zenon DEF Holds
<1>6. \A d : d \in Entries(owner) <=> d \in {<<owner, n>> : n \in Tables!Names(owner) \union Tables!Methods(owner)}
  BY DEF Entries
<1>7. \A d : d \in DOMAIN table' <=> \E k \in Done' : d \in Entries(k)'
  BY <1>1, <1>3, <1>4, <1>6, Zenon DEF Holds
<1>8. ASSUME NEW d \in DOMAIN table' PROVE Proper(d)'
  <2>1. CASE d[1] # owner
    <3>1. d \in DOMAIN table /\ table'[d] = table[d]
      BY <2>1, <1>3
    <3>2. Proper(d)
      BY <3>1, <1>1 DEF Holds
    <3> QED
      BY <3>1, <3>2, <1>4, Zenon DEF Proper
  <2>2. CASE d[1] = owner
    <3>1. PICK k \in Done' : d \in Entries(k)
      BY <1>4, <1>7
    <3>2. k = owner /\ d[2] \in Tables!Names(owner) \union Tables!Methods(owner)
      BY <2>2, <3>1 DEF Entries
    <3>3. table'[d] = IF d[2] \in Tables!Methods(owner) THEN Tables!Handler(d) ELSE Tables!Bind(owner, winner[d[2]])
      BY <2>2, <1>3
    <3>4. CASE d[2] \in Tables!Methods(owner)
      BY <2>2, <3>3, <3>4, <1>4, Zenon DEF Proper
    <3>5. CASE d[2] \notin Tables!Methods(owner)
      <4>1. winner[d[2]] \in Tables!Declared(owner, d[2])
        BY <3>2, <3>5, <1>3
      <4> QED
        BY <2>2, <3>3, <3>5, <4>1, <1>4, Zenon DEF Proper
    <3> QED
      BY <3>4, <3>5
  <2> QED
    BY <2>1, <2>2
<1> QED
  BY <1>5, <1>7, <1>8 DEF Holds

\* Every step of a call of register keeps the invariant.
LEMMA TableVisitInv ==
  ASSUME TablesInv, Tables!Visit
  PROVE  TablesInv'
<1>1. /\ ~raised /\ visit <= Len(declared.order) /\ visit' = visit + 1
      /\ declared' = declared /\ entry' = entry /\ calls' = calls
  BY DEF Tables!Visit
<1>2. /\ declared' \in Declarations /\ calls' \in Nat /\ Tables!Calls' \in {1, 2}
      /\ visit' \in 1..(Len(declared'.order) + 1)
  <2>1. Len(declared.order) \in Nat
    BY OrderedServices DEF TablesInv
  <2> QED
    BY <1>1, <2>1 DEF TablesInv, Tables!Calls
<1>3. CASE declared.order[visit] = Hub /\ Tables!RegisterItself
  <2>1. Done' = Done \union {Hub}
    BY <1>1, <1>3, DoneNext
  <2>2. table' = table /\ topics' = topics
    BY <1>3 DEF Tables!RegisterItself
  <2>3. /\ \A k, n : Tables!Declared(k, n)' = Tables!Declared(k, n)
        /\ \A k : Tables!Names(k)' = Tables!Names(k) /\ Tables!Methods(k)' = Tables!Methods(k) /\ Tables!Topics(k)' = Tables!Topics(k)
        /\ \A k : Entries(k)' = Entries(k)
    BY <1>1 DEF Tables!Declared, Tables!Names, Tables!Methods, Tables!Topics, Entries
  <2>4. Entries(Hub) = {} /\ Tables!Topics(Hub) = {} /\ Holds
    BY <1>1, OrderedServices DEF TablesInv
  <2>5. \A d \in DOMAIN table : Proper(d)'
    BY <2>2, <2>3, <2>4, Zenon DEF Holds, Proper
  <2>6. Holds'
    BY <2>1, <2>2, <2>3, <2>4, <2>5 DEF Holds
  <2> QED
    BY <1>2, <2>6 DEF TablesInv
<1>4. CASE Tables!RegisterService(declared.order[visit])
  BY <1>1, <1>2, <1>4, TableRegisterServiceInv DEF TablesInv
<1>5. CASE Tables!NoSuchMethod(declared.order[visit])
  BY <1>2, <1>5 DEF TablesInv, Tables!NoSuchMethod
<1> QED
  BY <1>3, <1>4, <1>5 DEF Tables!Visit

\* A call of register returns after the last service.
LEMMA TableReturnInv ==
  ASSUME TablesInv, Tables!Return
  PROVE  TablesInv'
<1>1. /\ ~raised /\ visit > Len(declared.order) /\ calls' = calls + 1
      /\ visit' = (IF calls' < Tables!Calls THEN 1 ELSE visit)
      /\ declared' = declared /\ entry' = entry /\ table' = table
      /\ topics' = topics /\ raised' = raised
  BY DEF Tables!Return
<1>2. Len(declared.order) \in Nat /\ visit = Len(declared.order) + 1 /\ calls \in Nat
  <2>1. Len(declared.order) \in Nat
    BY OrderedServices DEF TablesInv
  <2> QED
    BY <1>1, <2>1 DEF TablesInv
<1>3. \A owner : owner \in {declared.order[i] : i \in 1..(visit - 1)} <=> owner \in Tables!Services
  <2>1. visit - 1 = Len(declared.order)
    BY <1>2
  <2> QED
    BY <2>1, OrderedServices DEF TablesInv
<1>4. Done' = Done
  <2>1. Done' = Tables!Services
    BY <1>1, <1>2 DEF Done, Tables!Services
  <2>2. Done = Tables!Services
    BY <1>3 DEF Done
  <2> QED
    BY <2>1, <2>2
<1>5. \A d : Proper(d)' <=> Proper(d)
  BY <1>1 DEF Proper, Tables!Methods, Tables!Declared
<1>6. Holds'
  BY <1>1, <1>4, <1>5 DEF TablesInv, Holds, Tables!Topics, Entries, Tables!Names, Tables!Methods
<1> QED
  BY <1>1, <1>2, <1>6 DEF TablesInv, Tables!Calls

\* Every step of the registry keeps its invariant.
LEMMA TablesNextInv == TablesInv /\ [Tables!Next]_(Tables!vars) => TablesInv'
<1> SUFFICES ASSUME TablesInv, [Tables!Next]_(Tables!vars) PROVE TablesInv'
  OBVIOUS
<1>1. CASE UNCHANGED Tables!vars
  <2>1. Done' = Done /\ \A d : Proper(d)' <=> Proper(d)
    BY <1>1 DEF Tables!vars, Done, Tables!Services, Proper, Tables!Methods, Tables!Declared
  <2>2. Holds => Holds'
    BY <1>1, <2>1 DEF Tables!vars, Holds, Tables!Topics, Entries, Tables!Names, Tables!Methods
  <2> QED
    BY <1>1, <2>2 DEF Tables!vars, TablesInv, Tables!Calls
<1> QED
  BY <1>1, TableVisitInv, TableReturnInv DEF Tables!Next

\* Once a call has returned, the tables hold what is declared.
LEMMA InvRegistered ==
  ASSUME TablesInv
  PROVE  Tables!Registered
<1> SUFFICES ASSUME calls > 0, ~raised PROVE Tables!Registered
  BY DEF Tables!Registered
<1>1. Done = Tables!Services /\ Holds
  BY DEF Done, TablesInv
<1>2. topics = UNION {Tables!Topics(owner) : owner \in Tables!Services}
  BY <1>1, Zenon DEF Holds
<1>3. ASSUME NEW s \in topics PROVE table[s[2]] = Tables!Handler(s[2])
  <2>1. PICK owner \in Tables!Services : s \in Tables!Topics(owner)
    BY <1>1, Zenon DEF Holds
  <2>2. PICK h \in declared.handlers[owner] : s = <<h[1], <<owner, h[2]>>>>
    BY <2>1, Zenon DEF Tables!Topics
  <2>3. h[2] \in Tables!Methods(owner)
    BY <2>2 DEF Tables!Methods
  <2>4. s[2] = <<owner, h[2]>> /\ s[2][1] = owner /\ s[2][2] = h[2]
    BY <2>2
  <2>5. s[2] \in DOMAIN table
    BY <1>1, <2>1, <2>3, <2>4 DEF Holds, Entries
  <2>6. Proper(s[2])
    BY <1>1, <2>5, Zenon DEF Holds
  <2> QED
    BY <2>3, <2>4, <2>6, Zenon DEF Proper
<1>4. DOMAIN table =
         UNION {{owner} \X (Tables!Methods(owner) \union
                          {c.alias : c \in {c \in declared.classes[owner] :
                                              (c.call /\ ~c.event) \/ (c.event /\ ~c.own)}})
               : owner \in Tables!Services}
  <2>1. ASSUME NEW owner
        PROVE  Entries(owner) =
                 {owner} \X (Tables!Methods(owner) \union
                          {c.alias : c \in {c \in declared.classes[owner] :
                                              (c.call /\ ~c.event) \/ (c.event /\ ~c.own)}})
    <3>1. \A c : Tables!Registrable(c) <=> (c.call /\ ~c.event) \/ (c.event /\ ~c.own)
      BY DEF Tables!Registrable
    <3>2. {c \in declared.classes[owner] : Tables!Registrable(c)} =
          {c \in declared.classes[owner] : (c.call /\ ~c.event) \/ (c.event /\ ~c.own)}
      BY <3>1, Zenon
    <3>3. Tables!Names(owner) = {c.alias : c \in {c \in declared.classes[owner] :
                                              (c.call /\ ~c.event) \/ (c.event /\ ~c.own)}}
      BY <3>2, Zenon DEF Tables!Names
    <3>4. Entries(owner) = {owner} \X (Tables!Names(owner) \union Tables!Methods(owner))
      BY DEF Entries
    <3>5. \A S, T : S \union T = T \union S
      OBVIOUS
    <3> QED
      BY <3>3, <3>4, <3>5, Zenon
  <2>2. DOMAIN table = UNION {Entries(owner) : owner \in Tables!Services}
    BY <1>1, Zenon DEF Holds
  <2> QED
    BY <2>1, <2>2, Zenon
<1>5. ASSUME NEW d \in DOMAIN table
      PROVE  Tables!AppOf(d) = d[1] \/ \E c \in declared.classes[d[1]] : table[d] = c
  <2>1. Proper(d)
    BY <1>1 DEF Holds
  <2>2. PICK owner \in Tables!Services : d \in Entries(owner)
    BY <1>1 DEF Holds
  <2>3. d[1] = owner
    BY <2>2 DEF Entries
  <2>4. CASE d[2] \in Tables!Methods(d[1])
    BY <2>1, <2>4 DEF Proper, Tables!AppOf, Tables!Handler
  <2>5. CASE d[2] \notin Tables!Methods(d[1])
    <3>1. PICK c \in Tables!Declared(owner, d[2]) : table[d] = Tables!Bind(owner, c)
      BY <2>1, <2>3, <2>5 DEF Proper
    <3>2. c \in declared.classes[owner] /\ "destination" \in DOMAIN c
      BY <3>1, <2>2, OrderedServices DEF Tables!Declared, TablesInv
    <3>3. CASE c.destination # Unknown
      BY <3>1, <3>2, <3>3, <2>3 DEF Tables!Bind
    <3>4. CASE c.destination = Unknown
      <4>1. table[d] = [c EXCEPT !.destination = <<owner, c.alias>>]
        BY <3>1, <3>4 DEF Tables!Bind
      <4>2. table[d].destination = <<owner, c.alias>>
        BY <4>1, <3>2
      <4> QED
        BY <4>2, <2>3 DEF Tables!AppOf
    <3> QED
      BY <3>3, <3>4
  <2> QED
    BY <2>4, <2>5
<1> QED
  BY <1>2, <1>3, <1>4, <1>5 DEF Tables!Registered

-----------------------------------------------------------------------------
Phases == {"new", "starting", "running", "stopping", "stopped", "failed"}
Runs == {"service", "execute", "run_hub", "run_execute"}
Progress == {"new", "starting", "handling", "done"}

WiringTypeInv ==
  /\ config \in Configs /\ run \in Runs /\ phase \in Phases
  /\ children \in [Nodes -> Seq(Nodes)]
  /\ next \in [Nodes -> Nat \ {0}]
  /\ starting \in [Wiring!Commands -> Seq(Nodes)]
  /\ app \in [Wiring!Commands -> Nodes]
  /\ command \in [Wiring!Commands -> Progress]
  /\ started \subseteq Nodes /\ ready \subseteq Nodes

\* Once the services are built, the children of a node are what it needs.
Built ==
  /\ phase \in {"new", "failed"} => started = {} /\ ready = {} /\ \A n \in Nodes : next[n] = 1
  /\ phase \notin {"new", "failed"} => \A n \in Nodes : Wiring!ToSet(children[n]) = Wiring!Needs(n)

\* Which coroutine may be in a start.
Turn ==
  /\ starting[Boot] # <<>> => phase = "starting" /\ visited # {}
  /\ command[Boot] # "starting"
  /\ command[Boot] = "handling" => phase = "running" /\ run \notin {"service", "run_hub"}
  /\ \A c \in Subs :
       /\ starting[c] # <<>> => command[c] = "starting"
       /\ Wiring!Busy(c) => phase = "running" /\ command[Boot] = "handling" /\ app[c] \in started
  /\ ~config.parallel => \A c, d \in Subs : Wiring!Busy(c) /\ Wiring!Busy(d) => c = d

\* A start has been through the first children of its node.
Handled ==
  /\ \A n \in Nodes : \A i \in 1..Len(children[n]) :
       i < next[n] => children[n][i] \in started
  /\ \A n \in ready : next[n] > Len(children[n])
  /\ started \subseteq ready \union broken \union Wiring!InStart
  /\ Wiring!InStart \subseteq started

\* What a needs, directly or not, has b among it.
Leads(a, b) == \A S \in SUBSET Nodes : Wiring!Needs(a) \subseteq S /\ Wiring!Closed(S) => b \in S

\* A start within a start is the start of something that one needs.
Nested ==
  \A c \in Wiring!Commands : \A i, j \in 1..Len(starting[c]) :
    i < j => Leads(starting[c][i], starting[c][j])

WiringInv == WiringTypeInv /\ Built /\ Turn /\ Handled /\ Nested /\ Wiring!ReadyAfterNeeds /\ Wiring!SubcommandAppStarted

-----------------------------------------------------------------------------
\* Stacks.
LEMMA Pushed ==
  ASSUME NEW S, NEW s \in Seq(S), NEW x \in S
  PROVE  /\ Append(s, x) \in Seq(S) /\ Append(s, x) # <<>>
         /\ Len(s) \in Nat /\ Len(Append(s, x)) = Len(s) + 1 /\ Append(s, x)[Len(s) + 1] = x
         /\ \A i \in 1..Len(s) : Append(s, x)[i] = s[i]
         /\ Wiring!ToSet(Append(s, x)) = Wiring!ToSet(s) \union {x}
<1> DEFINE t == Append(s, x)
           n == Len(s)
<1>1. /\ t \in Seq(S) /\ t # <<>> /\ n \in Nat /\ Len(t) = n + 1 /\ t[n + 1] = x
      /\ DOMAIN s = 1..n /\ DOMAIN t = 1..(n + 1)
      /\ \A i \in 1..n : t[i] = s[i]
  OBVIOUS
<1> HIDE DEF t, n
<1>2. /\ \A y : y \in Wiring!ToSet(t) <=> \E i \in 1..(n + 1) : y = t[i]
      /\ \A y : y \in Wiring!ToSet(s) <=> \E i \in 1..n : y = s[i]
  BY <1>1, Zenon DEF Wiring!ToSet
<1>3. 1..(n + 1) = 1..n \union {n + 1}
  BY <1>1
<1>4. \A y : y \in Wiring!ToSet(t) <=> y \in Wiring!ToSet(s) \/ y = x
  BY <1>1, <1>2, <1>3
<1>5. Wiring!ToSet(t) = Wiring!ToSet(s) \union {x}
  BY <1>4
<1> QED
  BY <1>1, <1>5 DEF t, n

\* A stack without its top.
LEMMA Popped ==
  ASSUME NEW S, NEW s \in Seq(S), s # <<>>
  PROVE  /\ Len(s) \in Nat \ {0} /\ Wiring!Last(s) = s[Len(s)] /\ Wiring!Last(s) \in S
         /\ Wiring!Front(s) \in Seq(S) /\ Len(Wiring!Front(s)) = Len(s) - 1
         /\ \A i \in 1..(Len(s) - 1) : Wiring!Front(s)[i] = s[i]
         /\ Wiring!ToSet(s) = Wiring!ToSet(Wiring!Front(s)) \union {Wiring!Last(s)}
<1>1. Len(s) \in Nat \ {0}
  OBVIOUS
<1>2. Wiring!Front(s) = SubSeq(s, 1, Len(s) - 1) /\ Wiring!Last(s) = s[Len(s)]
  BY DEF Wiring!Front, Wiring!Last
<1> DEFINE n == Len(s) - 1
           f == SubSeq(s, 1, n)
<1>3. n \in Nat /\ 1 \in Int /\ n \in Int /\ Len(s) = n + 1
  BY <1>1
<1>4. \A i \in 1..n : s[i] \in S
  BY <1>1
<1> HIDE DEF n, f
<1>5. /\ f \in Seq(S)
      /\ Len(f) = IF 1 <= n THEN n - 1 + 1 ELSE 0
      /\ \A i \in 1..(n - 1 + 1) : f[i] = s[1 + i - 1]
  BY <1>3, <1>4, SubSeqProperties DEF f
<1>6. Len(f) = n /\ \A i \in 1..n : f[i] = s[i]
  BY <1>3, <1>5
<1>7. s[n + 1] \in S /\ DOMAIN s = 1..(n + 1) /\ DOMAIN f = 1..n
  BY <1>1, <1>3, <1>5, <1>6
<1>8. /\ \A y : y \in Wiring!ToSet(s) <=> \E i \in 1..(n + 1) : y = s[i]
      /\ \A y : y \in Wiring!ToSet(f) <=> \E i \in 1..n : y = f[i]
  BY <1>7, Zenon DEF Wiring!ToSet
<1>9. 1..(n + 1) = 1..n \union {n + 1}
  BY <1>3
<1>10. \A y : y \in Wiring!ToSet(s) <=> y \in Wiring!ToSet(f) \/ y = s[n + 1]
  BY <1>6, <1>8, <1>9
<1>11. Wiring!ToSet(s) = Wiring!ToSet(f) \union {s[n + 1]}
  BY <1>10
<1> QED
  BY <1>1, <1>2, <1>3, <1>5, <1>6, <1>7, <1>11 DEF n, f

\* Nothing is on an empty stack.
LEMMA EmptySet == Wiring!ToSet(<<>>) = {}
BY DEF Wiring!ToSet

\* The coroutines.
LEMMA Coroutines ==
  /\ Boot \in Wiring!Commands /\ Boot \notin Subs /\ Wiring!Root = Boot
  /\ \A c : c \in Wiring!Commands <=> c = Boot \/ c \in Subs
  /\ Hub \in Nodes /\ Executor \in Nodes /\ Wiring!Entry \in Nodes /\ Hub # Executor
BY WiringAssumption DEF Wiring!Wired, Wiring!Commands, Wiring!Root, Wiring!Entry

\* What is in a start is on the stack of a coroutine.
LEMMA InStartMember ==
  \A n : n \in Wiring!InStart <=> \E c \in Wiring!Commands : n \in Wiring!ToSet(starting[c])
BY Zenon DEF Wiring!InStart

\* No service is built at first.
LEMMA WiringInitInv == Wiring!Init => WiringInv
<1> SUFFICES ASSUME Wiring!Init PROVE WiringInv
  OBVIOUS
<1>1. WiringTypeInv
  BY Coroutines DEF Wiring!Init, WiringTypeInv, Runs, Phases, Progress
<1>2. Wiring!InStart = {}
  BY EmptySet, InStartMember DEF Wiring!Init
<1>3. Built /\ Turn
  BY Coroutines DEF Wiring!Init, Built, Turn, Wiring!Busy
<1>4. Handled
  BY <1>2 DEF Wiring!Init, Handled
<1>5. Nested
  BY DEF Wiring!Init, Nested
<1>6. Wiring!ReadyAfterNeeds /\ Wiring!SubcommandAppStarted
  BY DEF Wiring!Init, Wiring!ReadyAfterNeeds, Wiring!SubcommandAppStarted, Wiring!Commands
<1> QED
  BY <1>1, <1>3, <1>4, <1>5, <1>6 DEF WiringInv

\* What maybe_start does to the nodes in a start.
LEMMA MaybeStart ==
  ASSUME WiringTypeInv, Wiring!InStart \subseteq started, NEW c \in Wiring!Commands, NEW n \in Nodes, Wiring!maybe_start(c, n)
  PROVE  /\ started' = started \union {n} /\ started' \subseteq Nodes
         /\ starting' \in [Wiring!Commands -> Seq(Nodes)]
         /\ \A d \in Wiring!Commands \ {c} : starting'[d] = starting[d]
         /\ n \in started => starting' = starting /\ Wiring!InStart' = Wiring!InStart
         /\ n \notin started => starting'[c] = Append(starting[c], n) /\ n \in Wiring!InStart'
         /\ Wiring!InStart \subseteq Wiring!InStart' /\ Wiring!InStart' \subseteq Wiring!InStart \union {n}
<1>1. CASE n \in started
  BY <1>1 DEF Wiring!maybe_start, WiringTypeInv, Wiring!InStart
<1>2. CASE n \notin started
  <2>1. started' = started \union {n} /\ starting' = [starting EXCEPT ![c] = Append(@, n)]
    BY <1>2 DEF Wiring!maybe_start
  <2>2. starting[c] \in Seq(Nodes) /\ starting \in [Wiring!Commands -> Seq(Nodes)]
    BY DEF WiringTypeInv
  <2>3. Append(starting[c], n) \in Seq(Nodes) /\ Wiring!ToSet(Append(starting[c], n)) = Wiring!ToSet(starting[c]) \union {n}
    BY <2>2, Pushed
  <2>4. /\ starting' \in [Wiring!Commands -> Seq(Nodes)] /\ starting'[c] = Append(starting[c], n)
        /\ \A d \in Wiring!Commands \ {c} : starting'[d] = starting[d]
    BY <2>1, <2>2, <2>3
  <2>5. \A m : m \in Wiring!InStart' <=> \E d \in Wiring!Commands : m \in Wiring!ToSet(starting'[d])
    BY Zenon DEF Wiring!InStart
  <2>6. \A m : m \in Wiring!InStart' <=> m \in Wiring!InStart \/ m = n
    BY <2>3, <2>4, <2>5, InStartMember
  <2> QED
    BY <1>2, <2>1, <2>4, <2>6 DEF WiringTypeInv
<1> QED
  BY <1>1, <1>2

\* Nobody forgets what is ready, broken or under way.
LEMMA Persist ==
  ASSUME Wiring!ReadyAfterNeeds, config' = config, ready' = ready, broken \subseteq broken',
         Wiring!InStart \subseteq broken' \union Wiring!InStart'
  PROVE  Wiring!ReadyAfterNeeds'
BY DEF Wiring!ReadyAfterNeeds, Wiring!Needs, Wiring!SelfNeeding, Wiring!Closed

\* The same of the apps that sub-commands run on.
LEMMA PersistSubs ==
  ASSUME config' = config, ready \subseteq ready', broken \subseteq broken',
         Wiring!InStart \subseteq ready' \union broken' \union Wiring!InStart',
         \A c \in Subs : command'[c] = "handling" =>
           app'[c] \in ready \union broken \union (IF config.parallel THEN Wiring!InStart ELSE {})
  PROVE  Wiring!SubcommandAppStarted'
BY DEF Wiring!SubcommandAppStarted

\* While no sub-command is busy and Bootstrap is done, nothing is in a start.
LEMMA NothingStarts ==
  ASSUME Turn, phase = "running", NEW c, ~config.parallel,
         \A d \in Subs : Wiring!Busy(d) => d = c, c \in Subs => starting[c] = <<>>
  PROVE  Wiring!InStart = {}
<1>1. \A d \in Wiring!Commands : starting[d] = <<>>
  BY Coroutines DEF Turn, Wiring!Busy
<1> QED
  BY <1>1, EmptySet, InStartMember

\* A start may go on with what its innermost node needs.
LEMMA NestedPush ==
  ASSUME WiringTypeInv, Nested, config' = config, NEW c \in Wiring!Commands, NEW n \in Nodes,
         starting[c] # <<>> => n \in Wiring!Needs(Wiring!Last(starting[c])),
         \A d \in Wiring!Commands \ {c} : starting'[d] = starting[d],
         starting'[c] \in {starting[c], Append(starting[c], n)}
  PROVE  Nested'
<1> SUFFICES ASSUME NEW d \in Wiring!Commands, NEW i \in 1..Len(starting'[d]), NEW j \in 1..Len(starting'[d]), i < j
             PROVE  Leads(starting[d][i], starting[d][j])'
  BY Zenon DEF Nested
<1>0. \A a, b : Leads(a, b)' <=> Leads(a, b)
  BY DEF Leads, Wiring!Closed, Wiring!Needs
<1>1. CASE starting'[d] = starting[d]
  BY <1>0, <1>1 DEF Nested
<1>2. CASE d = c /\ starting'[c] = Append(starting[c], n)
  <2> DEFINE s == starting[c]
  <2>1. /\ s \in Seq(Nodes) /\ Len(s) \in Nat /\ Len(Append(s, n)) = Len(s) + 1
        /\ Append(s, n)[Len(s) + 1] = n /\ \A k \in 1..Len(s) : Append(s, n)[k] = s[k]
    BY Pushed DEF WiringTypeInv
  <2>2. CASE j <= Len(s)
    <3>1. i \in 1..Len(s) /\ j \in 1..Len(s)
      BY <1>2, <2>1, <2>2
    <3>2. Leads(s[i], s[j])
      BY <3>1 DEF Nested
    <3> QED
      BY <3>1, <3>2, <1>0, <1>2, <2>1
  <2>3. CASE j > Len(s)
    <3>1. i \in 1..Len(s) /\ j = Len(s) + 1 /\ s # <<>>
      BY <1>2, <2>1, <2>3
    <3>2. Wiring!Last(s) = s[Len(s)] /\ Len(s) \in 1..Len(s)
      <4>1. Wiring!Last(s) = s[Len(s)]
        BY <2>1, <3>1, Popped, Zenon
      <4> QED
        BY <4>1, <3>1, <2>1
    <3>3. n \in Wiring!Needs(s[Len(s)])
      BY <3>1, <3>2
    <3>4. Leads(s[i], n)
      <4>1. CASE i = Len(s)
        BY <4>1, <3>3 DEF Leads
      <4>2. CASE i # Len(s)
        <5>1. Leads(s[i], s[Len(s)])
          BY <4>2, <3>1, <3>2, <2>1 DEF Nested
        <5> QED
          BY <5>1, <3>3 DEF Leads, Wiring!Closed
      <4> QED
        BY <4>1, <4>2
    <3> QED
      BY <3>1, <3>4, <1>0, <1>2, <2>1
  <2> QED
    BY <2>1, <2>2, <2>3, <1>2
<1> QED
  BY <1>1, <1>2

-----------------------------------------------------------------------------
\* A step in which maybe_start(c, n) is called.
LEMMA StartMore ==
  ASSUME WiringInv, phase' = phase, phase \notin {"new", "failed"}, NEW c \in Wiring!Commands, NEW n \in Nodes,
         Wiring!maybe_start(c, n), config' = config, children' = children, ready' = ready, broken' = broken,
         starting[c] # <<>> => n \in Wiring!Needs(Wiring!Last(starting[c])),
         \A m \in Nodes : next'[m] \in Nat /\ next'[m] >= next[m],
         \A m \in Nodes : \A i \in 1..Len(children[m]) :
           i < next'[m] => i < next[m] \/ children[m][i] = n
  PROVE  /\ Built' /\ Handled' /\ Nested' /\ Wiring!ReadyAfterNeeds'
         /\ Wiring!InStart \subseteq Wiring!InStart'
         /\ started' = started \union {n} /\ started' \subseteq Nodes
         /\ starting' \in [Wiring!Commands -> Seq(Nodes)]
         /\ \A d \in Wiring!Commands \ {c} : starting'[d] = starting[d]
         /\ n \in started => starting' = starting
<1>1. /\ started' = started \union {n} /\ started' \subseteq Nodes
      /\ starting' \in [Wiring!Commands -> Seq(Nodes)]
      /\ \A d \in Wiring!Commands \ {c} : starting'[d] = starting[d]
      /\ n \in started => starting' = starting /\ Wiring!InStart' = Wiring!InStart
      /\ n \notin started => starting'[c] = Append(starting[c], n) /\ n \in Wiring!InStart'
      /\ Wiring!InStart \subseteq Wiring!InStart' /\ Wiring!InStart' \subseteq Wiring!InStart \union {n}
  BY MaybeStart DEF WiringInv, Handled
<1>2. Built'
  <2>1. \A m : Wiring!Needs(m)' = Wiring!Needs(m)
    BY DEF Wiring!Needs
  <2> QED
    BY <2>1 DEF WiringInv, Built
<1>3. Handled'
  <2>1. \A m \in Nodes : \A i \in 1..Len(children'[m]) : i < next'[m] => children'[m][i] \in started'
    BY <1>1 DEF WiringInv, Handled
  <2>2. \A m \in ready' : next'[m] > Len(children'[m])
    <3>1. \A m \in ready : m \in Nodes /\ next[m] \in Nat /\ next[m] > Len(children[m]) /\ Len(children[m]) \in Nat
      BY DEF WiringInv, Handled, WiringTypeInv
    <3> QED
      BY <3>1
  <2>3. started' \subseteq ready' \union broken' \union Wiring!InStart'
    BY <1>1 DEF WiringInv, Handled
  <2>4. Wiring!InStart' \subseteq started'
    BY <1>1 DEF WiringInv, Handled
  <2> QED
    BY <2>1, <2>2, <2>3, <2>4 DEF Handled
<1>4. starting'[c] \in {starting[c], Append(starting[c], n)}
  BY <1>1
<1>5. Nested'
  BY <1>1, <1>4, NestedPush DEF WiringInv
<1>6. Wiring!ReadyAfterNeeds'
  BY <1>1, Persist DEF WiringInv
<1> QED
  BY <1>1, <1>2, <1>3, <1>5, <1>6

\* A step that starts nothing and ends no start.
LEMMA Quiet ==
  ASSUME WiringInv, config' = config, children' = children, started' = started, ready' = ready,
         broken' = broken, starting' = starting, next' = next,
         \/ phase' = phase
         \/ phase \notin {"new", "failed"} /\ phase' \notin {"new", "failed"}
  PROVE  /\ Built' /\ Handled' /\ Nested' /\ Wiring!ReadyAfterNeeds' /\ Wiring!InStart' = Wiring!InStart
<1>1. Wiring!InStart' = Wiring!InStart /\ \A n : Wiring!Needs(n)' = Wiring!Needs(n)
  BY DEF Wiring!InStart, Wiring!Needs
<1>2. \A a, b : Leads(a, b)' <=> Leads(a, b)
  BY <1>1 DEF Leads, Wiring!Closed
<1>3. Built'
  BY <1>1 DEF WiringInv, Built
<1>4. Handled'
  BY <1>1 DEF WiringInv, Handled
<1>5. Nested'
  BY <1>2 DEF WiringInv, Nested
<1>6. Wiring!ReadyAfterNeeds'
  BY <1>1, Persist DEF WiringInv
<1> QED
  BY <1>1, <1>3, <1>4, <1>5, <1>6

\* Bootstrap starts a service.
LEMMA VisitServiceInv ==
  ASSUME WiringInv, NEW n \in Nodes, Wiring!VisitService(n)
  PROVE  WiringInv'
<1>1. /\ phase = "starting" /\ starting[Boot] = <<>> /\ visited' = visited \union {n}
      /\ Wiring!maybe_start(Boot, n) /\ config' = config /\ run' = run /\ children' = children
      /\ phase' = phase /\ ready' = ready /\ broken' = broken /\ next' = next
      /\ app' = app /\ command' = command
  BY DEF Wiring!VisitService, Wiring!wiring, Wiring!stopVars, Wiring!commandVars, Wiring!Bottom
<1>2. \A m \in Nodes : next[m] \in Nat /\ next[m] >= next[m]
  BY DEF WiringInv, WiringTypeInv
<1>3. /\ Built' /\ Handled' /\ Nested' /\ Wiring!ReadyAfterNeeds'
      /\ Wiring!InStart \subseteq Wiring!InStart'
      /\ started' = started \union {n} /\ started' \subseteq Nodes
      /\ starting' \in [Wiring!Commands -> Seq(Nodes)]
      /\ \A d \in Wiring!Commands \ {Boot} : starting'[d] = starting[d]
  BY <1>1, <1>2, Coroutines, StartMore
<1>4. WiringTypeInv'
  BY <1>1, <1>3 DEF WiringInv, WiringTypeInv
<1>5. Turn'
  BY <1>1, <1>3, Coroutines DEF WiringInv, Turn, Wiring!Busy
<1>6. Wiring!SubcommandAppStarted'
  BY <1>1, <1>3, PersistSubs DEF WiringInv, Wiring!SubcommandAppStarted
<1> QED
  BY <1>3, <1>4, <1>5, <1>6 DEF WiringInv

\* run_hub, run_execute or execute mode start their service.
LEMMA EnterInv ==
  ASSUME WiringInv, Wiring!Enter
  PROVE  WiringInv'
<1>1. /\ phase = "starting" /\ visited = {} /\ visited' = {Wiring!Entry} /\ Wiring!Entry \in Nodes
      /\ Wiring!maybe_start(Boot, Wiring!Entry) /\ config' = config /\ run' = run /\ children' = children
      /\ phase' = phase /\ ready' = ready /\ broken' = broken /\ next' = next
      /\ app' = app /\ command' = command
  BY Coroutines DEF Wiring!Enter, Wiring!wiring, Wiring!stopVars, Wiring!commandVars
<1>2. starting[Boot] = <<>> /\ \A m \in Nodes : next[m] \in Nat /\ next[m] >= next[m]
  BY <1>1 DEF WiringInv, WiringTypeInv, Turn
<1>3. /\ Built' /\ Handled' /\ Nested' /\ Wiring!ReadyAfterNeeds'
      /\ Wiring!InStart \subseteq Wiring!InStart'
      /\ started' = started \union {Wiring!Entry} /\ started' \subseteq Nodes
      /\ starting' \in [Wiring!Commands -> Seq(Nodes)]
      /\ \A d \in Wiring!Commands \ {Boot} : starting'[d] = starting[d]
  BY <1>1, <1>2, Coroutines, StartMore
<1>4. WiringTypeInv'
  BY <1>1, <1>3 DEF WiringInv, WiringTypeInv
<1>5. Turn'
  BY <1>1, <1>3, Coroutines DEF WiringInv, Turn, Wiring!Busy
<1>6. Wiring!SubcommandAppStarted'
  BY <1>1, <1>3, PersistSubs DEF WiringInv, Wiring!SubcommandAppStarted
<1> QED
  BY <1>3, <1>4, <1>5, <1>6 DEF WiringInv

\* A start goes on with the next child.
LEMMA StartChildInv ==
  ASSUME WiringInv, NEW c \in Wiring!Commands, Wiring!StartChild(c)
  PROVE  WiringInv'
<1> DEFINE top == Wiring!Last(starting[c])
           n == children[top][next[top]]
<1>1. /\ starting[c] # <<>> /\ next[top] <= Len(children[top])
      /\ next' = [next EXCEPT ![top] = @ + 1] /\ Wiring!maybe_start(c, n)
      /\ config' = config /\ run' = run /\ children' = children
      /\ phase' = phase /\ ready' = ready /\ broken' = broken
      /\ visited' = visited /\ app' = app /\ command' = command
  BY DEF Wiring!StartChild, Wiring!wiring, Wiring!stopVars, Wiring!commandVars, Wiring!Bottom
<1>2. top \in Nodes
  BY <1>1, Popped DEF WiringInv, WiringTypeInv
<1> HIDE DEF top
<1>3. /\ next[top] \in Nat \ {0} /\ children[top] \in Seq(Nodes) /\ next \in [Nodes -> Nat \ {0}]
      /\ phase \in {"starting", "running"}
  BY <1>1, <1>2, Coroutines DEF WiringInv, WiringTypeInv, Turn, Wiring!Busy
<1>4. next[top] \in 1..Len(children[top]) /\ n \in Nodes
  BY <1>1, <1>3
<1>5. n \in Wiring!Needs(top)
  <2>1. n \in Wiring!ToSet(children[top])
    BY <1>3, <1>4 DEF Wiring!ToSet
  <2> QED
    BY <2>1, <1>2, <1>3 DEF WiringInv, Built
<1> HIDE DEF n
<1>6. /\ next' \in [Nodes -> Nat \ {0}]
      /\ \A m \in Nodes : next'[m] \in Nat /\ next'[m] >= next[m]
      /\ next'[top] = next[top] + 1 /\ \A m \in Nodes \ {top} : next'[m] = next[m]
  BY <1>1, <1>2, <1>3
<1>7. \A m \in Nodes : \A i \in 1..Len(children[m]) :
        i < next'[m] => i < next[m] \/ children[m][i] = n
  <2>1. \A i \in 1..Len(children[top]) : i < next[top] + 1 => i < next[top] \/ i = next[top]
    BY <1>3
  <2> QED
    BY <2>1, <1>6 DEF n
<1>8. /\ Built' /\ Handled' /\ Nested' /\ Wiring!ReadyAfterNeeds'
      /\ Wiring!InStart \subseteq Wiring!InStart'
      /\ started' = started \union {n} /\ started' \subseteq Nodes
      /\ starting' \in [Wiring!Commands -> Seq(Nodes)]
      /\ \A d \in Wiring!Commands \ {c} : starting'[d] = starting[d]
  <2>1. phase \notin {"new", "failed"}
    BY <1>3
  <2>2. n \in Wiring!Needs(Wiring!Last(starting[c]))
    BY <1>5 DEF top
  <2>3. \A m \in Nodes : next'[m] \in Nat /\ next'[m] >= next[m]
    BY <1>6
  <2> QED
    BY <1>1, <1>4, <1>7, <2>1, <2>2, <2>3, StartMore
<1>9. WiringTypeInv'
  BY <1>1, <1>6, <1>8 DEF WiringInv, WiringTypeInv
<1>10. Turn'
  BY <1>1, <1>8, Coroutines DEF WiringInv, Turn, Wiring!Busy
<1>11. Wiring!SubcommandAppStarted'
  BY <1>1, <1>8, PersistSubs DEF WiringInv, Wiring!SubcommandAppStarted
<1> QED
  BY <1>8, <1>9, <1>10, <1>11 DEF WiringInv

\* A sub-command is submitted, and its app started on demand.
LEMMA SubmitInv ==
  ASSUME WiringInv, NEW c \in Subs, NEW n \in Nodes, Wiring!submit(c, n)
  PROVE  WiringInv'
<1>1. /\ phase = "running" /\ command[Boot] = "handling" /\ command[c] = "new"
      /\ config.parallel \/ \A d \in Subs : ~Wiring!Busy(d)
      /\ app' = [app EXCEPT ![c] = n] /\ Wiring!maybe_start(c, n)
      /\ command' = [command EXCEPT ![c] = IF n \in started THEN "handling" ELSE "starting"]
      /\ config' = config /\ run' = run /\ children' = children
      /\ phase' = phase /\ ready' = ready /\ broken' = broken /\ next' = next /\ visited' = visited
  BY Coroutines DEF Wiring!submit, Wiring!wiring, Wiring!stopVars
<1>2. c \in Wiring!Commands /\ c # Boot /\ starting[c] = <<>>
  BY <1>1, Coroutines DEF WiringInv, Turn
<1>3. \A m \in Nodes : next[m] \in Nat /\ next[m] >= next[m]
  BY DEF WiringInv, WiringTypeInv
<1>4. /\ Built' /\ Handled' /\ Nested' /\ Wiring!ReadyAfterNeeds'
      /\ Wiring!InStart \subseteq Wiring!InStart'
      /\ started' = started \union {n} /\ started' \subseteq Nodes
      /\ starting' \in [Wiring!Commands -> Seq(Nodes)]
      /\ \A d \in Wiring!Commands \ {c} : starting'[d] = starting[d]
      /\ n \in started => starting' = starting
  BY <1>1, <1>2, <1>3, StartMore
<1>5. /\ app' \in [Wiring!Commands -> Nodes] /\ app'[c] = n /\ \A d \in Wiring!Commands \ {c} : app'[d] = app[d]
      /\ command' \in [Wiring!Commands -> Progress]
      /\ command'[c] = (IF n \in started THEN "handling" ELSE "starting")
      /\ \A d \in Wiring!Commands \ {c} : command'[d] = command[d]
  BY <1>1, <1>2 DEF WiringInv, WiringTypeInv, Progress
<1>6. WiringTypeInv'
  BY <1>1, <1>4, <1>5 DEF WiringInv, WiringTypeInv
<1>7. Turn'
  <2>1. /\ starting'[Boot] # <<>> => phase' = "starting" /\ visited' # {}
        /\ command'[Boot] # "starting"
        /\ command'[Boot] = "handling" => phase' = "running" /\ run' \notin {"service", "run_hub"}
    BY <1>1, <1>2, <1>4, <1>5, Coroutines DEF WiringInv, Turn
  <2>2. ASSUME NEW d \in Subs
        PROVE  /\ starting'[d] # <<>> => command'[d] = "starting"
               /\ Wiring!Busy(d)' => phase' = "running" /\ command'[Boot] = "handling" /\ app'[d] \in started'
    <3>1. CASE d = c
      BY <3>1, <1>1, <1>2, <1>4, <1>5 DEF Wiring!Busy
    <3>2. CASE d # c
      BY <3>2, <1>1, <1>4, <1>5, Coroutines DEF WiringInv, Turn, Wiring!Busy
    <3> QED
      BY <3>1, <3>2
  <2>3. ~config'.parallel => \A d, g \in Subs : Wiring!Busy(d)' /\ Wiring!Busy(g)' => d = g
    <3>1. \A d \in Subs \ {c} : Wiring!Busy(d)' <=> Wiring!Busy(d)
      BY <1>5, Coroutines DEF Wiring!Busy
    <3> QED
      BY <3>1, <1>1
  <2> QED
    BY <2>1, <2>2, <2>3 DEF Turn
<1>8. ASSUME NEW d \in Subs, command'[d] = "handling"
      PROVE  app'[d] \in ready \union broken \union (IF config.parallel THEN Wiring!InStart ELSE {})
  <2>1. CASE d # c
    BY <2>1, <1>5, <1>8, Coroutines DEF WiringInv, Wiring!SubcommandAppStarted
  <2>2. CASE d = c
    <3>1. n \in started /\ app'[d] = n
      BY <2>2, <1>5, <1>8
    <3>2. n \in ready \union broken \union Wiring!InStart
      BY <3>1 DEF WiringInv, Handled
    <3>3. ~config.parallel => Wiring!InStart = {}
      BY <1>1, <1>2, NothingStarts DEF WiringInv
    <3> QED
      BY <3>1, <3>2, <3>3
  <2> QED
    BY <2>1, <2>2
<1>9. Wiring!SubcommandAppStarted'
  BY <1>1, <1>4, <1>8, PersistSubs
<1> QED
  BY <1>4, <1>6, <1>7, <1>9 DEF WiringInv

\* Unless commands are yielded as a list, one coroutine at most is in a start.
LEMMA OneStack ==
  ASSUME Turn, ~config.parallel, NEW c \in Wiring!Commands, NEW d \in Wiring!Commands,
         starting[c] # <<>>, starting[d] # <<>>
  PROVE  c = d
BY Coroutines DEF Turn, Wiring!Busy

\* The innermost start of c ends: what is in a start is so still, or was it.
LEMMA Pop ==
  ASSUME WiringTypeInv, Nested, NEW c \in Wiring!Commands, starting[c] # <<>>, config' = config,
         starting' = [starting EXCEPT ![c] = Wiring!Front(@)]
  PROVE  /\ starting' \in [Wiring!Commands -> Seq(Nodes)] /\ Nested'
         /\ \A d \in Wiring!Commands : starting'[d] # <<>> => starting[d] # <<>>
         /\ Wiring!InStart \subseteq Wiring!InStart' \union {Wiring!Last(starting[c])} /\ Wiring!InStart' \subseteq Wiring!InStart
         /\ Wiring!Last(starting[c]) \in Nodes /\ Wiring!Last(starting[c]) \in Wiring!InStart
<1> DEFINE s == starting[c]
           f == Wiring!Front(s)
<1>1. s \in Seq(Nodes) /\ starting \in [Wiring!Commands -> Seq(Nodes)]
  BY DEF WiringTypeInv
<1>2. /\ Len(s) \in Nat \ {0} /\ Wiring!Last(s) \in Nodes /\ f \in Seq(Nodes) /\ Len(f) = Len(s) - 1
      /\ \A i \in 1..(Len(s) - 1) : f[i] = s[i]
      /\ Wiring!ToSet(s) = Wiring!ToSet(f) \union {Wiring!Last(s)}
  BY <1>1, Popped
<1>3. /\ starting' \in [Wiring!Commands -> Seq(Nodes)] /\ starting'[c] = f
      /\ \A d \in Wiring!Commands \ {c} : starting'[d] = starting[d]
  BY <1>1, <1>2
<1> HIDE DEF f
<1>4. \A m : m \in Wiring!InStart' <=> \E d \in Wiring!Commands : m \in Wiring!ToSet(starting'[d])
  BY Zenon DEF Wiring!InStart
<1>5. /\ Wiring!InStart \subseteq Wiring!InStart' \union {Wiring!Last(s)} /\ Wiring!InStart' \subseteq Wiring!InStart
      /\ Wiring!Last(s) \in Wiring!InStart
  BY <1>2, <1>3, <1>4, InStartMember
<1>6. \A a, b : Leads(a, b)' <=> Leads(a, b)
  BY DEF Leads, Wiring!Closed, Wiring!Needs
<1>7. ASSUME NEW d \in Wiring!Commands, NEW i \in 1..Len(starting'[d]), NEW j \in 1..Len(starting'[d]), i < j
      PROVE  Leads(starting[d][i], starting[d][j])'
  <2>1. CASE d # c
    BY <2>1, <1>3, <1>6, <1>7 DEF Nested
  <2>2. CASE d = c
    <3>1. i \in 1..Len(s) /\ j \in 1..Len(s) /\ starting'[d][i] = s[i] /\ starting'[d][j] = s[j]
      BY <2>2, <1>2, <1>3
    <3>2. Leads(s[i], s[j])
      BY <3>1, <1>7 DEF Nested
    <3> QED
      BY <3>1, <3>2, <1>6
  <2> QED
    BY <2>1, <2>2
<1>8. Nested'
  BY <1>7, Zenon DEF Nested
<1>9. starting'[c] # <<>> => starting[c] # <<>>
  OBVIOUS
<1> QED
  BY <1>2, <1>3, <1>5, <1>8

\* on_started runs after the last child.
LEMMA StartedInv ==
  ASSUME WiringInv, NEW c \in Wiring!Commands, Wiring!Started(c)
  PROVE  WiringInv'
<1> DEFINE n == Wiring!Last(starting[c])
<1>1. /\ starting[c] # <<>> /\ next[n] > Len(children[n]) /\ ready' = ready \union {n}
      /\ starting' = [starting EXCEPT ![c] = Wiring!Front(@)]
      /\ config' = config /\ run' = run /\ children' = children /\ phase' = phase
      /\ started' = started /\ broken' = broken /\ next' = next /\ visited' = visited
      /\ app' = app /\ command' = command
  BY DEF Wiring!Started, Wiring!wiring, Wiring!stopVars, Wiring!commandVars, Wiring!Bottom
<1>2. /\ starting' \in [Wiring!Commands -> Seq(Nodes)] /\ Nested'
      /\ \A d \in Wiring!Commands : starting'[d] # <<>> => starting[d] # <<>>
      /\ Wiring!InStart \subseteq Wiring!InStart' \union {n} /\ Wiring!InStart' \subseteq Wiring!InStart
      /\ n \in Nodes /\ n \in Wiring!InStart
  BY <1>1, Pop DEF WiringInv
<1> HIDE DEF n
<1>3. phase \notin {"new", "failed"}
  BY <1>1, Coroutines DEF WiringInv, Turn, Wiring!Busy
<1>4. WiringTypeInv'
  BY <1>1, <1>2 DEF WiringInv, WiringTypeInv
<1>5. Built'
  BY <1>1, <1>3 DEF WiringInv, Built, Wiring!Needs
<1>6. Turn'
  BY <1>1, <1>2, Coroutines DEF WiringInv, Turn, Wiring!Busy
<1>7. Handled'
  BY <1>1, <1>2 DEF WiringInv, Handled
<1>8. ASSUME NEW d \in Wiring!Needs(n)
      PROVE  \/ d \in ready' \union broken
             \/ d \in Wiring!InStart' /\ (config.parallel \/ Wiring!SelfNeeding(d))
  <2>1. d \in Wiring!ToSet(children[n])
    BY <1>2, <1>3 DEF WiringInv, Built
  <2>2. children[n] \in Seq(Nodes) /\ next[n] \in Nat
    BY <1>2 DEF WiringInv, WiringTypeInv
  <2>3. PICK i \in 1..Len(children[n]) : d = children[n][i]
    BY <2>1, <2>2 DEF Wiring!ToSet
  <2>4. i < next[n]
    BY <2>2, <1>1
  <2>5. d \in ready \union broken \union Wiring!InStart
    BY <2>3, <2>4, <1>2 DEF WiringInv, Handled
  <2>6. ASSUME d \in Wiring!InStart, d # n, ~config.parallel PROVE Wiring!SelfNeeding(d)
    <3>1. PICK g \in Wiring!Commands : d \in Wiring!ToSet(starting[g])
      BY <2>6, InStartMember
    <3>2. starting[g] # <<>>
      BY <3>1, EmptySet
    <3>3. g = c
      BY <3>2, <1>1, <2>6, OneStack DEF WiringInv
    <3>4. starting[c] \in Seq(Nodes) /\ Len(starting[c]) \in Nat \ {0} /\ n = starting[c][Len(starting[c])]
      BY <1>1, Popped DEF WiringInv, WiringTypeInv, n
    <3>5. PICK k \in 1..Len(starting[c]) : d = starting[c][k]
      BY <3>1, <3>3, <3>4 DEF Wiring!ToSet
    <3>6. k < Len(starting[c]) /\ Len(starting[c]) \in 1..Len(starting[c])
      BY <3>4, <3>5, <2>6
    <3>7. Leads(d, n)
      BY <3>4, <3>5, <3>6 DEF WiringInv, Nested
    <3> QED
      BY <3>7 DEF Leads, Wiring!SelfNeeding, Wiring!Closed
  <2> QED
    BY <2>5, <2>6, <1>1, <1>2
<1>9. Wiring!ReadyAfterNeeds'
  <2>1. /\ \A m : Wiring!Needs(m)' = Wiring!Needs(m)
        /\ \A m : Wiring!SelfNeeding(m)' <=> Wiring!SelfNeeding(m)
    BY <1>1 DEF Wiring!Needs, Wiring!SelfNeeding, Wiring!Closed
  <2>2. ASSUME NEW m \in ready', NEW d \in Wiring!Needs(m)
        PROVE  \/ d \in ready' \union broken'
               \/ d \in Wiring!InStart' /\ (config'.parallel \/ Wiring!SelfNeeding(d))
    <3>1. CASE m = n
      BY <3>1, <1>1, <1>8
    <3>2. CASE m \in ready
      BY <3>2, <1>1, <1>2 DEF WiringInv, Wiring!ReadyAfterNeeds
    <3> QED
      BY <3>1, <3>2, <1>1
  <2> QED
    BY <2>1, <2>2 DEF Wiring!ReadyAfterNeeds
<1>10. Wiring!SubcommandAppStarted'
  <2>1. ready \subseteq ready' /\ broken \subseteq broken' /\ Wiring!InStart \subseteq ready' \union broken' \union Wiring!InStart'
    BY <1>1, <1>2
  <2> QED
    BY <2>1, <1>1, PersistSubs DEF WiringInv, Wiring!SubcommandAppStarted
<1> QED
  BY <1>2, <1>4, <1>5, <1>6, <1>7, <1>9, <1>10 DEF WiringInv

\* A start fails, and so does every start around it.
LEMMA StartFailsInv ==
  ASSUME WiringInv, NEW c \in Wiring!Commands, Wiring!StartFails(c)
  PROVE  WiringInv'
<1>1. /\ starting[c] # <<>> /\ broken' = broken \union Wiring!ToSet(starting[c])
      /\ starting' = [starting EXCEPT ![c] = <<>>]
      /\ \/ c = Boot /\ phase' = "stopping" /\ command' = command
         \/ c # Boot /\ command' = [command EXCEPT ![c] = "done"] /\ phase' = phase
      /\ config' = config /\ run' = run /\ children' = children /\ ready' = ready
      /\ started' = started /\ next' = next /\ visited' = visited /\ app' = app
  BY DEF Wiring!StartFails, Wiring!wiring, Wiring!stopVars, Wiring!Bottom
<1>2. /\ starting' \in [Wiring!Commands -> Seq(Nodes)] /\ starting'[c] = <<>>
      /\ \A d \in Wiring!Commands \ {c} : starting'[d] = starting[d]
  BY <1>1 DEF WiringInv, WiringTypeInv
<1>3. /\ command' \in [Wiring!Commands -> Progress]
      /\ \A d \in Wiring!Commands \ {c} : command'[d] = command[d]
      /\ c # Boot => command'[c] = "done"
  BY <1>1 DEF WiringInv, WiringTypeInv, Progress
<1>4. phase \in {"starting", "running"} /\ (c = Boot => phase = "starting")
  BY <1>1, Coroutines DEF WiringInv, Turn, Wiring!Busy
<1>5. \A m : m \in Wiring!InStart' <=> \E d \in Wiring!Commands : m \in Wiring!ToSet(starting'[d])
  BY Zenon DEF Wiring!InStart
<1>6. /\ Wiring!InStart \subseteq Wiring!InStart' \union Wiring!ToSet(starting[c]) /\ Wiring!InStart' \subseteq Wiring!InStart
  BY <1>2, <1>5, InStartMember, EmptySet
<1>7. WiringTypeInv'
  BY <1>1, <1>2, <1>3 DEF WiringInv, WiringTypeInv, Phases
<1>8. Built'
  BY <1>1, <1>4 DEF WiringInv, Built, Wiring!Needs
<1>9. Turn'
  <2>1. /\ starting'[Boot] # <<>> => phase' = "starting" /\ visited' # {}
        /\ command'[Boot] # "starting"
        /\ command'[Boot] = "handling" => phase' = "running" /\ run' \notin {"service", "run_hub"}
    BY <1>1, <1>2, <1>3, <1>4, Coroutines DEF WiringInv, Turn
  <2>2. ASSUME NEW d \in Subs
        PROVE  /\ starting'[d] # <<>> => command'[d] = "starting"
               /\ Wiring!Busy(d)' => phase' = "running" /\ command'[Boot] = "handling" /\ app'[d] \in started'
               /\ Wiring!Busy(d)' => Wiring!Busy(d)
    <3>1. CASE d = c
      BY <3>1, <1>2, <1>3, Coroutines DEF Wiring!Busy
    <3>2. CASE d # c
      BY <3>2, <1>1, <1>2, <1>3, <1>4, Coroutines DEF WiringInv, Turn, Wiring!Busy
    <3> QED
      BY <3>1, <3>2
  <2> QED
    BY <2>1, <2>2, <1>1 DEF WiringInv, Turn
<1>10. Handled'
  BY <1>1, <1>6 DEF WiringInv, Handled
<1>11. Nested'
  <2>1. \A a, b : Leads(a, b)' <=> Leads(a, b)
    BY <1>1 DEF Leads, Wiring!Closed, Wiring!Needs
  <2>2. ASSUME NEW d \in Wiring!Commands, NEW i \in 1..Len(starting'[d]), NEW j \in 1..Len(starting'[d]), i < j
        PROVE  Leads(starting[d][i], starting[d][j])'
    <3>1. d # c
      BY <1>2, <2>2
    <3> QED
      BY <3>1, <2>1, <2>2, <1>2 DEF WiringInv, Nested
  <2> QED
    BY <2>2, Zenon DEF Nested
<1>12. Wiring!ReadyAfterNeeds'
  BY <1>1, <1>6, Persist DEF WiringInv
<1>13. Wiring!SubcommandAppStarted'
  <2>1. \A d \in Subs : command'[d] = "handling" => d # c
    BY <1>3, Coroutines
  <2>2. \A d \in Subs : command'[d] = "handling" =>
          app'[d] \in ready \union broken \union (IF config.parallel THEN Wiring!InStart ELSE {})
    BY <2>1, <1>1, <1>3, Coroutines DEF WiringInv, Wiring!SubcommandAppStarted
  <2> QED
    BY <2>2, <1>1, <1>6, PersistSubs
<1> QED
  BY <1>7, <1>8, <1>9, <1>10, <1>11, <1>12, <1>13 DEF WiringInv

\* An order of a finite set names every member.
LEMMA OrderOfAll ==
  ASSUME NEW S, IsFiniteSet(S), NEW o \in Wiring!SetToSeqs(S)
  PROVE  Wiring!ToSet(o) = S /\ o \in Seq(S)
<1> DEFINE n == Cardinality(S)
<1>1. n \in Nat
  BY FS_CardinalityType
<1>2. o \in [1..n -> S] /\ \A i, j \in 1..n : i # j => o[i] # o[j]
  BY DEF Wiring!SetToSeqs, Wiring!Cardinality, Cardinality
<1> HIDE DEF n
<1>3. IsFiniteSet(1..n) /\ Cardinality(1..n) = n
  BY <1>1, FS_Interval
<1>4. o \in Injection(1..n, S)
  BY <1>2 DEF Injection, IsInjective
<1>5. o \in Surjection(1..n, S)
  BY <1>3, <1>4, FS_Injection DEF n
<1>6. \A x \in S : \E i \in 1..n : o[i] = x
  BY <1>5 DEF Surjection
<1>7. o \in Seq(S) /\ DOMAIN o = 1..n
  BY <1>1, <1>2
<1> QED
  BY <1>2, <1>6, <1>7 DEF Wiring!ToSet

\* Two sequences after each other.
LEMMA Joined ==
  ASSUME NEW S, NEW s \in Seq(S), NEW t \in Seq(S)
  PROVE  s \o t \in Seq(S) /\ Wiring!ToSet(s \o t) = Wiring!ToSet(s) \union Wiring!ToSet(t)
<1> DEFINE r == s \o t
           m == Len(s)
           n == Len(t)
<1>1. /\ r \in Seq(S) /\ m \in Nat /\ n \in Nat /\ Len(r) = m + n
      /\ DOMAIN s = 1..m /\ DOMAIN t = 1..n /\ DOMAIN r = 1..(m + n)
      /\ \A i \in 1..m : r[i] = s[i]
      /\ \A i \in 1..n : r[m + i] = t[i]
  OBVIOUS
<1> HIDE DEF r, m, n
<1>2. /\ \A y : y \in Wiring!ToSet(r) <=> \E i \in 1..(m + n) : y = r[i]
      /\ \A y : y \in Wiring!ToSet(s) <=> \E i \in 1..m : y = s[i]
      /\ \A y : y \in Wiring!ToSet(t) <=> \E i \in 1..n : y = t[i]
  BY <1>1, Zenon DEF Wiring!ToSet
<1>3. ASSUME NEW y \in Wiring!ToSet(r) PROVE y \in Wiring!ToSet(s) \union Wiring!ToSet(t)
  <2>1. PICK i \in 1..(m + n) : y = r[i]
    BY <1>2, <1>3
  <2>2. CASE i <= m
    BY <2>1, <2>2, <1>1, <1>2
  <2>3. CASE i > m
    <3>1. i - m \in 1..n /\ m + (i - m) = i
      BY <2>3, <1>1
    <3> QED
      BY <2>1, <3>1, <1>1, <1>2
  <2> QED
    BY <2>2, <2>3, <1>1
<1>4. \A i \in 1..n : m + i \in 1..(m + n)
  BY <1>1
<1>5. \A i \in 1..m : i \in 1..(m + n)
  BY <1>1
<1>6. \A y \in Wiring!ToSet(s) \union Wiring!ToSet(t) : y \in Wiring!ToSet(r)
  BY <1>1, <1>2, <1>4, <1>5
<1> QED
  BY <1>1, <1>3, <1>6 DEF r

\* The services are built, dependencies in any order.
LEMMA BuildServicesInv ==
  ASSUME WiringInv, Wiring!build_services
  PROVE  WiringInv'
<1>1. /\ phase = "new" /\ config' = config /\ run' = run /\ started' = started /\ ready' = ready
      /\ broken' = broken /\ starting' = starting /\ next' = next /\ visited' = visited
      /\ app' = app /\ command' = command
  BY DEF Wiring!build_services, Wiring!startVars, Wiring!commandVars
<1>2. /\ started = {} /\ ready = {} /\ \A n \in Nodes : next[n] = 1
      /\ Wiring!InStart = {} /\ starting[Boot] = <<>>
      /\ \A c \in Subs : ~Wiring!Busy(c) /\ starting[c] = <<>>
      /\ command[Boot] \notin {"starting", "handling"}
  BY <1>1, Coroutines DEF WiringInv, Built, Handled, Turn, Wiring!Busy
<1>3. phase' \in {"failed", "starting"}
  BY Zenon DEF Wiring!build_services
<1>4. Turn'
  BY <1>1, <1>2 DEF Turn, Wiring!Busy
<1>5. Wiring!InStart' = Wiring!InStart /\ Nested'
  BY <1>1 DEF Wiring!InStart, WiringInv, Nested, Leads, Wiring!Closed, Wiring!Needs
<1>6. Wiring!ReadyAfterNeeds' /\ Wiring!SubcommandAppStarted'
  BY <1>1, <1>2 DEF Wiring!ReadyAfterNeeds, Wiring!SubcommandAppStarted, Wiring!Busy
<1>7. \/ phase' = "failed" /\ children' = children
      \/ /\ phase' = "starting"
         /\ \A n \in Nodes : children'[n] \in Seq(Nodes) /\ Wiring!ToSet(children'[n]) = Wiring!Needs(n)
         /\ children' = [n \in Nodes |-> children'[n]]
  <2>1. CASE \E n \in Nodes : Unknown \in config.depends[n]
    BY <2>1, Zenon DEF Wiring!build_services
  <2>2. CASE ~ \E n \in Nodes : Unknown \in config.depends[n]
    <3>1. phase' = "starting"
      BY <2>2, Zenon DEF Wiring!build_services
    <3>2. PICK order \in [Nodes -> UNION {Wiring!SetToSeqs(config.depends[n]) : n \in Nodes}] :
            /\ \A n \in Nodes : order[n] \in Wiring!SetToSeqs(config.depends[n])
            /\ children' = [n \in Nodes |-> config.protocol[n] \o order[n]]
      BY <2>2, Zenon DEF Wiring!build_services
    <3>3. config.protocol \in [Nodes -> Seq(Nodes)] /\ config.depends \in [Nodes -> SUBSET (Nodes \union {Unknown})]
      BY WiringAssumption DEF Wiring!Wired, WiringInv, WiringTypeInv
    <3>4. ASSUME NEW n \in Nodes
          PROVE  children'[n] \in Seq(Nodes) /\ Wiring!ToSet(children'[n]) = Wiring!Needs(n)
      <4>1. config.depends[n] \subseteq Nodes /\ config.protocol[n] \in Seq(Nodes)
        BY <2>2, <3>3
      <4>2. IsFiniteSet(config.depends[n])
        BY <4>1, NodesAssumption, FS_Subset
      <4>3. Wiring!ToSet(order[n]) = config.depends[n] /\ order[n] \in Seq(config.depends[n])
        BY <3>2, <4>2, OrderOfAll
      <4>4. order[n] \in Seq(Nodes)
        BY <4>1, <4>3
      <4>5. children'[n] = config.protocol[n] \o order[n]
        BY <3>2
      <4> QED
        BY <4>1, <4>3, <4>4, <4>5, Joined DEF Wiring!Needs
    <3> QED
      BY <3>1, <3>2, <3>4
  <2> QED
    BY <2>1, <2>2
<1>8. WiringTypeInv'
  <2>1. children' \in [Nodes -> Seq(Nodes)]
    BY <1>7 DEF WiringInv, WiringTypeInv
  <2> QED
    BY <2>1, <1>1, <1>3 DEF WiringInv, WiringTypeInv, Phases
<1>9. Built'
  BY <1>1, <1>2, <1>7 DEF Built, Wiring!Needs
<1>10. Handled'
  <2>1. \A n \in Nodes : \A i \in 1..Len(children'[n]) : ~(i < next'[n])
    BY <1>1, <1>2
  <2> QED
    BY <2>1, <1>1, <1>2, <1>5 DEF Handled
<1> QED
  BY <1>4, <1>5, <1>6, <1>8, <1>9, <1>10 DEF WiringInv

\* The steps that start nothing and end no start.
LEMMA AllVisitedInv ==
  ASSUME WiringInv, Wiring!AllVisited
  PROVE  WiringInv'
<1>1. /\ phase = "starting" /\ phase' = "running" /\ starting[Boot] = <<>>
      /\ config' = config /\ run' = run /\ children' = children /\ started' = started
      /\ ready' = ready /\ broken' = broken /\ starting' = starting /\ next' = next
      /\ visited' = visited /\ app' = app /\ command' = command
  BY DEF Wiring!AllVisited, Wiring!wiring, Wiring!startVars, Wiring!commandVars, Wiring!Bottom
<1>2. Built' /\ Handled' /\ Nested' /\ Wiring!ReadyAfterNeeds' /\ Wiring!InStart' = Wiring!InStart
  BY <1>1, Quiet
<1>3. WiringTypeInv'
  BY <1>1 DEF WiringInv, WiringTypeInv, Phases
<1>4. Turn'
  BY <1>1, Coroutines DEF WiringInv, Turn, Wiring!Busy
<1>5. Wiring!SubcommandAppStarted'
  BY <1>1, <1>2 DEF WiringInv, Wiring!SubcommandAppStarted
<1> QED
  BY <1>2, <1>3, <1>4, <1>5 DEF WiringInv

\* The service of run_hub has started.
LEMMA EnteredInv ==
  ASSUME WiringInv, Wiring!Entered
  PROVE  WiringInv'
<1>1. /\ phase = "starting" /\ phase' = "running" /\ starting[Boot] = <<>>
      /\ config' = config /\ run' = run /\ children' = children /\ started' = started
      /\ ready' = ready /\ broken' = broken /\ starting' = starting /\ next' = next
      /\ visited' = visited /\ app' = app /\ command' = command
  BY DEF Wiring!Entered, Wiring!wiring, Wiring!startVars, Wiring!commandVars, Wiring!Bottom
<1>2. Built' /\ Handled' /\ Nested' /\ Wiring!ReadyAfterNeeds' /\ Wiring!InStart' = Wiring!InStart
  BY <1>1, Quiet
<1>3. WiringTypeInv'
  BY <1>1 DEF WiringInv, WiringTypeInv, Phases
<1>4. Turn'
  BY <1>1, Coroutines DEF WiringInv, Turn, Wiring!Busy
<1>5. Wiring!SubcommandAppStarted'
  BY <1>1, <1>2 DEF WiringInv, Wiring!SubcommandAppStarted
<1> QED
  BY <1>2, <1>3, <1>4, <1>5 DEF WiringInv

\* The executed command begins.
LEMMA ExecuteInv ==
  ASSUME WiringInv, NEW n \in Nodes, Wiring!execute(n)
  PROVE  WiringInv'
<1>1. /\ phase = "starting" /\ phase' = "running" /\ starting[Boot] = <<>>
      /\ Wiring!Entry = Executor /\ run # "service"
      /\ app' = [app EXCEPT ![Boot] = n] /\ command' = [command EXCEPT ![Boot] = "handling"]
      /\ config' = config /\ run' = run /\ children' = children /\ started' = started
      /\ ready' = ready /\ broken' = broken /\ starting' = starting /\ next' = next
      /\ visited' = visited
  BY Coroutines DEF Wiring!execute, Wiring!wiring, Wiring!startVars, Wiring!Bottom
<1>2. Built' /\ Handled' /\ Nested' /\ Wiring!ReadyAfterNeeds' /\ Wiring!InStart' = Wiring!InStart
  BY <1>1, Quiet
<1>3. /\ app' \in [Wiring!Commands -> Nodes] /\ command' \in [Wiring!Commands -> Progress]
      /\ command'[Boot] = "handling"
      /\ \A d \in Subs : app'[d] = app[d] /\ command'[d] = command[d]
  BY <1>1, Coroutines DEF WiringInv, WiringTypeInv, Progress
<1>4. WiringTypeInv'
  BY <1>1, <1>3 DEF WiringInv, WiringTypeInv, Phases
<1>5. run # "run_hub"
  BY <1>1, Coroutines DEF Wiring!Entry
<1>6. Turn'
  BY <1>1, <1>3, <1>5, Coroutines DEF WiringInv, Turn, Wiring!Busy
<1>7. Wiring!SubcommandAppStarted'
  BY <1>1, <1>2, <1>3 DEF WiringInv, Wiring!SubcommandAppStarted
<1> QED
  BY <1>2, <1>4, <1>6, <1>7 DEF WiringInv

\* The start of the app of a sub-command has ended.
LEMMA SubmittedInv ==
  ASSUME WiringInv, NEW c \in Wiring!Commands, Wiring!Submitted(c)
  PROVE  WiringInv'
<1>1. /\ command[c] = "starting" /\ starting[c] = <<>>
      /\ command' = [command EXCEPT ![c] = "handling"]
      /\ config' = config /\ run' = run /\ children' = children /\ started' = started
      /\ ready' = ready /\ broken' = broken /\ starting' = starting /\ next' = next
      /\ visited' = visited /\ phase' = phase /\ app' = app
  BY DEF Wiring!Submitted, Wiring!wiring, Wiring!startVars, Wiring!Bottom
<1>2. Built' /\ Handled' /\ Nested' /\ Wiring!ReadyAfterNeeds' /\ Wiring!InStart' = Wiring!InStart
  BY <1>1, Quiet
<1>3. c \in Subs /\ Wiring!Busy(c) /\ phase = "running" /\ app[c] \in started
  BY <1>1, Coroutines DEF WiringInv, Turn, Wiring!Busy
<1>4. /\ command' \in [Wiring!Commands -> Progress] /\ command'[c] = "handling"
      /\ \A d \in Wiring!Commands \ {c} : command'[d] = command[d]
      /\ \A d \in Subs : Wiring!Busy(d)' <=> Wiring!Busy(d)
  BY <1>1, <1>3, Coroutines DEF WiringInv, WiringTypeInv, Progress, Wiring!Busy
<1>5. WiringTypeInv'
  BY <1>1, <1>4 DEF WiringInv, WiringTypeInv
<1>6. Turn'
  BY <1>1, <1>3, <1>4, Coroutines, EmptySet DEF WiringInv, Turn
<1>7. app[c] \in ready \union broken \union (IF config.parallel THEN Wiring!InStart ELSE {})
  <2>1. app[c] \in ready \union broken \union Wiring!InStart
    BY <1>3 DEF WiringInv, Handled
  <2>2. ~config.parallel => \A d \in Subs : Wiring!Busy(d) => d = c
    BY <1>3 DEF WiringInv, Turn
  <2>3. ~config.parallel => Wiring!InStart = {}
    BY <1>1, <1>3, <2>2, NothingStarts DEF WiringInv
  <2> QED
    BY <2>1, <2>3
<1>8. Wiring!SubcommandAppStarted'
  BY <1>1, <1>2, <1>4, <1>7, Coroutines DEF WiringInv, Wiring!SubcommandAppStarted
<1> QED
  BY <1>2, <1>5, <1>6, <1>8 DEF WiringInv

\* A sub-command ends.
LEMMA SubDoneInv ==
  ASSUME WiringInv, NEW c \in Wiring!Commands, Wiring!SubDone(c)
  PROVE  WiringInv'
<1>1. /\ c \in Subs /\ command[c] = "handling"
      /\ command' = [command EXCEPT ![c] = "done"]
      /\ config' = config /\ run' = run /\ children' = children /\ started' = started
      /\ ready' = ready /\ broken' = broken /\ starting' = starting /\ next' = next
      /\ visited' = visited /\ phase' = phase /\ app' = app
  BY DEF Wiring!SubDone, Wiring!wiring, Wiring!startVars
<1>2. Built' /\ Handled' /\ Nested' /\ Wiring!ReadyAfterNeeds' /\ Wiring!InStart' = Wiring!InStart
  BY <1>1, Quiet
<1>3. starting[c] = <<>>
  BY <1>1 DEF WiringInv, Turn
<1>4. /\ command' \in [Wiring!Commands -> Progress] /\ command'[c] = "done"
      /\ \A d \in Wiring!Commands \ {c} : command'[d] = command[d]
      /\ \A d \in Subs : Wiring!Busy(d)' => Wiring!Busy(d) /\ d # c
  BY <1>1, Coroutines DEF WiringInv, WiringTypeInv, Progress, Wiring!Busy
<1>5. WiringTypeInv'
  BY <1>1, <1>4 DEF WiringInv, WiringTypeInv
<1>6. Turn'
  BY <1>1, <1>3, <1>4, Coroutines DEF WiringInv, Turn
<1>7. Wiring!SubcommandAppStarted'
  BY <1>1, <1>2, <1>4, Coroutines DEF WiringInv, Wiring!SubcommandAppStarted
<1> QED
  BY <1>2, <1>5, <1>6, <1>7 DEF WiringInv

\* The executed command ends.
LEMMA ExecutedInv ==
  ASSUME WiringInv, Wiring!Executed
  PROVE  WiringInv'
<1>1. /\ command[Boot] = "handling" /\ \A d \in Subs : ~Wiring!Busy(d)
      /\ command' = [command EXCEPT ![Boot] = "done"] /\ phase' = "stopping"
      /\ config' = config /\ run' = run /\ children' = children /\ started' = started
      /\ ready' = ready /\ broken' = broken /\ starting' = starting /\ next' = next
      /\ visited' = visited /\ app' = app
  BY Coroutines DEF Wiring!Executed, Wiring!wiring, Wiring!startVars
<1>2. phase = "running" /\ starting[Boot] = <<>>
  BY <1>1 DEF WiringInv, Turn
<1>3. Built' /\ Handled' /\ Nested' /\ Wiring!ReadyAfterNeeds' /\ Wiring!InStart' = Wiring!InStart
  BY <1>1, <1>2, Quiet
<1>4. /\ command' \in [Wiring!Commands -> Progress] /\ command'[Boot] = "done"
      /\ \A d \in Subs : command'[d] = command[d]
  BY <1>1, Coroutines DEF WiringInv, WiringTypeInv, Progress
<1>5. WiringTypeInv'
  BY <1>1, <1>4 DEF WiringInv, WiringTypeInv, Phases
<1>6. Turn'
  BY <1>1, <1>2, <1>4 DEF WiringInv, Turn, Wiring!Busy
<1>7. Wiring!SubcommandAppStarted'
  BY <1>1, <1>3, <1>4 DEF WiringInv, Wiring!SubcommandAppStarted
<1> QED
  BY <1>3, <1>5, <1>6, <1>7 DEF WiringInv

\* The stop begins.
LEMMA SignalInv ==
  ASSUME WiringInv, Wiring!Signal
  PROVE  WiringInv'
<1>1. /\ run \in {"service", "run_hub"} /\ phase = "running" /\ phase' = "stopping"
      /\ config' = config /\ run' = run /\ children' = children /\ started' = started
      /\ ready' = ready /\ broken' = broken /\ starting' = starting /\ next' = next
      /\ visited' = visited /\ app' = app /\ command' = command
  BY DEF Wiring!Signal, Wiring!wiring, Wiring!startVars, Wiring!commandVars
<1>2. Built' /\ Handled' /\ Nested' /\ Wiring!ReadyAfterNeeds' /\ Wiring!InStart' = Wiring!InStart
  BY <1>1, Quiet
<1>3. WiringTypeInv'
  BY <1>1 DEF WiringInv, WiringTypeInv, Phases
<1>4. Turn'
  BY <1>1 DEF WiringInv, Turn, Wiring!Busy
<1>5. Wiring!SubcommandAppStarted'
  BY <1>1, <1>2 DEF WiringInv, Wiring!SubcommandAppStarted
<1> QED
  BY <1>2, <1>3, <1>4, <1>5 DEF WiringInv

\* The steps of a stop, and stuttering.
LEMMA StoppingInv ==
  ASSUME WiringInv, Wiring!Leave \/ Wiring!StopChild \/ Wiring!ChildrenStopped \/ Wiring!Shutdown \/ (UNCHANGED Wiring!vars)
  PROVE  WiringInv'
<1>1. /\ config' = config /\ run' = run /\ children' = children /\ started' = started
      /\ ready' = ready /\ broken' = broken /\ starting' = starting /\ next' = next
      /\ visited' = visited /\ app' = app /\ command' = command
      /\ \/ phase' = phase
         \/ phase = "stopping" /\ phase' = "stopped"
  <2>1. CASE Wiring!Leave
    BY <2>1 DEF Wiring!Leave, Wiring!wiring, Wiring!startVars, Wiring!commandVars
  <2>2. CASE Wiring!StopChild
    BY <2>2 DEF Wiring!StopChild, Wiring!wiring, Wiring!startVars, Wiring!commandVars
  <2>3. CASE Wiring!ChildrenStopped
    BY <2>3 DEF Wiring!ChildrenStopped, Wiring!wiring, Wiring!startVars, Wiring!commandVars
  <2>4. CASE Wiring!Shutdown
    BY <2>4 DEF Wiring!Shutdown, Wiring!wiring, Wiring!startVars, Wiring!commandVars
  <2>5. CASE UNCHANGED Wiring!vars
    BY <2>5 DEF Wiring!vars, Wiring!wiring, Wiring!startVars, Wiring!commandVars
  <2> QED
    BY <2>1, <2>2, <2>3, <2>4, <2>5
<1>2. Built' /\ Handled' /\ Nested' /\ Wiring!ReadyAfterNeeds' /\ Wiring!InStart' = Wiring!InStart
  BY <1>1, Quiet
<1>3. WiringTypeInv'
  BY <1>1 DEF WiringInv, WiringTypeInv, Phases
<1>4. Turn'
  BY <1>1 DEF WiringInv, Turn, Wiring!Busy
<1>5. Wiring!SubcommandAppStarted'
  BY <1>1, <1>2 DEF WiringInv, Wiring!SubcommandAppStarted
<1> QED
  BY <1>2, <1>3, <1>4, <1>5 DEF WiringInv

\* Every step of the wiring keeps its invariant.
LEMMA WiringNextInv == WiringInv /\ [Wiring!Next]_(Wiring!vars) => WiringInv'
<1> SUFFICES ASSUME WiringInv, [Wiring!Next]_(Wiring!vars) PROVE WiringInv'
  OBVIOUS
<1>1. \/ Wiring!build_services \/ Wiring!AllVisited \/ Wiring!Enter \/ Wiring!Entered \/ Wiring!Executed \/ Wiring!Signal
      \/ Wiring!Leave \/ Wiring!StopChild \/ Wiring!ChildrenStopped \/ Wiring!Shutdown \/ UNCHANGED Wiring!vars
      \/ \E n \in Nodes : Wiring!VisitService(n)
      \/ \E n \in Nodes : Wiring!execute(n)
      \/ \E n \in Nodes : \E c \in Subs : Wiring!submit(c, n)
      \/ \E c \in Wiring!Commands : Wiring!StartChild(c)
      \/ \E c \in Wiring!Commands : Wiring!Started(c)
      \/ \E c \in Wiring!Commands : Wiring!StartFails(c)
      \/ \E c \in Wiring!Commands : Wiring!Submitted(c)
      \/ \E c \in Wiring!Commands : Wiring!SubDone(c)
  BY Zenon DEF Wiring!Next
<1> QED
  BY <1>1, BuildServicesInv, AllVisitedInv, EnterInv, EnteredInv, ExecutedInv, SignalInv,
     StoppingInv, VisitServiceInv, ExecuteInv, SubmitInv, StartChildInv, StartedInv,
     StartFailsInv, SubmittedInv, SubDoneInv, Zenon

-----------------------------------------------------------------------------
(* An event triggers a handler once if a pattern it was subscribed with    *)
(* matched the topic when the event was dispatched, whatever subscribes or *)
(* unsubscribes, for topics of any words and any length.                   *)
THEOREM EventsTrigger == PartsSpec => []TriggersMatching
<1>1. PartsInit => EventsInv
  BY EventsInitInv DEF PartsInit
<1>2. EventsInv /\ [PartsNext]_partsVars => EventsInv'
  <2>1. [PartsNext]_partsVars => [Events!Next]_(Events!vars)
    BY DEF PartsNext, partsVars, eventVars, Events!vars
  <2> QED
    BY <2>1, EventsNextInv
<1>3. EventsInv => TriggersMatching
  BY DEF EventsInv, TriggersMatching, Events!TriggersMatching
<1> QED
  BY <1>1, <1>2, <1>3, PTL DEF PartsSpec

(* After RegistryService.register, by Bootstrap or once more by run_hub or *)
(* run_execute, exactly what the services declare is registered, whatever  *)
(* they declare and in whatever order.                                     *)
THEOREM TablesRegistered == PartsSpec => []Registered
<1>1. PartsInit => TablesInv
  BY TablesInitInv DEF PartsInit
<1>2. TablesInv /\ [PartsNext]_partsVars => TablesInv'
  <2>1. [PartsNext]_partsVars => [Tables!Next]_(Tables!vars)
    BY DEF PartsNext, partsVars, tableVars, Tables!vars
  <2> QED
    BY <2>1, TablesNextInv
<1>3. TablesInv => Registered
  BY InvRegistered DEF TablesInv, Registered
<1> QED
  BY <1>1, <1>2, <1>3, PTL DEF PartsSpec

(* A service whose on_started has run has what it holds and depends on     *)
(* ready, failed or under way, whatever the configuration: nested starts,  *)
(* shared and cyclic dependencies, and starts on demand included.          *)
THEOREM WiredInOrder == PartsSpec => []ReadyAfterNeeds
<1>1. PartsInit => WiringInv
  BY WiringInitInv DEF PartsInit
<1>2. WiringInv /\ [PartsNext]_partsVars => WiringInv'
  <2>1. [PartsNext]_partsVars => [Wiring!Next]_(Wiring!vars)
    BY DEF PartsNext, partsVars, wiringVars, Wiring!vars, Wiring!wiring,
           Wiring!startVars, Wiring!stopVars, Wiring!commandVars
  <2> QED
    BY <2>1, WiringNextInv
<1>3. WiringInv => ReadyAfterNeeds
  BY DEF WiringInv, ReadyAfterNeeds
<1> QED
  BY <1>1, <1>2, <1>3, PTL DEF PartsSpec

(* A sub-command that ExecuteService submits runs on an app whose start    *)
(* has ended, or that another of a list of commands is starting.           *)
THEOREM SubcommandsRunStarted == PartsSpec => []SubcommandAppStarted
<1>1. PartsInit => WiringInv
  BY WiringInitInv DEF PartsInit
<1>2. WiringInv /\ [PartsNext]_partsVars => WiringInv'
  <2>1. [PartsNext]_partsVars => [Wiring!Next]_(Wiring!vars)
    BY DEF PartsNext, partsVars, wiringVars, Wiring!vars, Wiring!wiring,
           Wiring!startVars, Wiring!stopVars, Wiring!commandVars
  <2> QED
    BY <2>1, WiringNextInv
<1>3. WiringInv => SubcommandAppStarted
  BY DEF WiringInv, SubcommandAppStarted
<1> QED
  BY <1>1, <1>2, <1>3, PTL DEF PartsSpec

=============================================================================
