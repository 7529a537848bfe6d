---------------------------- MODULE CacheProofs ----------------------------
(***************************************************************************)
(* What the cache layers guarantee, for every number of keys, values and   *)
(* clients and every flush threshold.                                      *)
(*                                                                         *)
(* The argument is about Drained, what the backend will hold of a key when *)
(* it has served its queue.  A request changes it for one key, unless the  *)
(* backend refuses it; serving or refusing a request, or cancelling its    *)
(* client, never does.  A get is only sent for a key that will be missing  *)
(* by then (all keys are loaded at the start), unless a removal of it has  *)
(* failed, so no answer ever puts an old value of a sound key into the     *)
(* cache.  That makes reads right (ReadInv).  That no update is forgotten  *)
(* needs a single client that sets, and a shutdown that waits for the      *)
(* clients: the dirty set is cleared as a whole at the end of a flush, and *)
(* then every key the flush is done with must have its last value on its   *)
(* way (ListFlush, TableFlush).  A flush that waits for a request that     *)
(* will be refused (Doomed) never gets there, and leaves the set as it is. *)
(***************************************************************************)
EXTENDS KVCache, SequenceTheorems, FiniteSetTheorems, WellFoundedInduction, TLAPS

List  == INSTANCE CacheLayer
Table == INSTANCE TableCacheLayer

\* Request i of w changes key k.
Writes(w, i, k) == w[i].key = k /\ w[i].op \in {"set", "remove"}

\* What it leaves there.
Outcome(r) == IF r.op = "set" THEN r.value ELSE Missing

\* What the last of the requests W of w leaves of k where there was b[k].
LastOf(w, b, k, W) ==
  IF W = {} THEN b[k] ELSE Outcome(w[CHOOSE i \in W : \A j \in W : j <= i])

\* The value of k once a backend that holds b has served n requests of w.
After(w, b, n, k) == LastOf(w, b, k, {i \in 1..n : Writes(w, i, k)})

\* A process has one request in the queue at most, and waits for it.
WireWaits ==
  /\ \A i \in 1..Len(wire) : wire[i].who # Nobody => answer[wire[i].who] = Waiting
  /\ \A i, j \in 1..Len(wire) :
       wire[i].who # Nobody /\ wire[i].who = wire[j].who => i = j

\* What is known of a get, and of a removal, that is under way.
GetKeys ==
  /\ \A i \in 1..Len(wire) : wire[i].op = "get" /\ wire[i].who # Nobody
       => doing[wire[i].who] = "get" /\ key[wire[i].who] = wire[i].key
  /\ \A p \in Procs : doing[p] \in {"get", "remove"} => key[p] \in Keys

\* A get finds no value, but of a key a removal of which has failed; and a
\* process that does nothing waits for nothing.
Answered ==
  \A p \in Procs :
    /\ answer[p] \notin {Missing, Waiting} => doing[p] = "get" /\ key[p] \in unremoved
    /\ Idle(p) => Ready(p)

\* The key of a get will be missing when the get is served, but for those.
GetsMiss ==
  \A i \in 1..Len(wire) : wire[i].op = "get" =>
    wire[i].key \in unremoved \/ After(wire, backend, i - 1, wire[i].key) = Missing

\* What is under way at which stage of the process.
Staged ==
  /\ ~Serving => wire = <<>> /\ \A p \in Procs : Idle(p)
  /\ stage # "stopping" => Idle(Stopper)
  /\ stage = "stopping" /\ QuietStop => \A p \in Clients : Idle(p)

WireInv == WireWaits /\ GetKeys /\ Answered /\ GetsMiss

ReadInv == TypeOK /\ WireInv /\ Staged /\ ReadsLatest

\* One client sets; one client sets and removes.
SoleSetter == \A c, d \in Setters : c = d
SoleWriter == \A c, d \in Setters \union Removers : c = d

\* Flushes are started by set and by on_stop.
Flushers == \A p \in Procs : Flushing(p) => p \in Setters \union {Stopper}

\* The backend will refuse what p waits for.
Doomed(p) == \E i \in 1..Len(wire) : wire[i].who = p /\ wire[i].op = "refused"

\* What the flush of CacheLayer is done with is on its way.
ListFlush == \A p \in Procs :
  doing[p] = "flush" => Doomed(p) \/ \A k \in Sound \ todo[p] : latest[k] = Drained(k)

\* The flush of TableCacheLayer takes out dirty keys only; then what is in
\* its batch is what the cache holds, and the rest is on its way.
TableFlush == \A p \in Procs :
  /\ doing[p] \in {"flush", "clear"} => todo[p] \subseteq dirty
  /\ doing[p] = "fill" => Doomed(p) \/ \A k \in Sound :
       IF batch[p][k] # Missing THEN batch[p][k] = cache[k] ELSE latest[k] = Drained(k)

\* A flush starts in time, again if the last one failed.
DirtyBounded ==
  /\ IsFiniteSet(dirty) /\ Cardinality(dirty) <= FlushThreshold + failures
  /\ (\A p \in Procs : ~Flushing(p)) => Cardinality(dirty) < FlushThreshold + failures

\* on_stop flushes what is dirty before the process ends, or raises.
StopFlushes ==
  /\ stage = "stopping" => dirty = {} \/ Flushing(Stopper) \/ failures # 0
  /\ stage = "stopped" => failures # 0 \/ \A k \in Sound : backend[k] = latest[k]

WriteInv == Flushers /\ NothingForgotten /\ DirtyBounded /\ StopFlushes

ListInv  == ReadInv /\ WriteInv /\ ListFlush
TableInv == ReadInv /\ WriteInv /\ TableFlush
-----------------------------------------------------------------------------
(* A nonempty set of numbers up to n has a largest one.                    *)
LEMMA LargestExists ==
  ASSUME NEW n \in Nat, NEW W \in SUBSET (1..n), W # {}
  PROVE  \E i \in W : \A j \in W : j <= i
<1> DEFINE T == {n - i : i \in W}
<1>1. T \subseteq Nat /\ T # {}
  <2>1. \A i \in W : i \in 1..n /\ n - i \in Nat
    OBVIOUS
  <2>2. PICK h \in W : TRUE
    OBVIOUS
  <2>3. n - h \in T
    OBVIOUS
  <2> QED
    BY <2>1, <2>3
<1>2. PICK t \in T : \A u \in T : ~ (<<u, t>> \in OpToRel(<, Nat))
  <2>1. IsWellFoundedOn(OpToRel(<, Nat), Nat)
    BY NatLessThanWellFounded
  <2> QED
    BY <1>1, <2>1, WFMin, Zenon
<1>3. \A u \in T : ~ (u < t)
  BY <1>1, <1>2 DEF OpToRel
<1>4. PICK i \in W : t = n - i
  OBVIOUS
<1>5. \A j \in W : j <= i
  <2> TAKE j \in W
  <2>1. n - j \in T
    OBVIOUS
  <2>2. ~ (n - j < n - i)
    BY <1>3, <1>4, <2>1
  <2> QED
    BY <2>2
<1> QED
  BY <1>5

(* What After says: the backend's value if no request writes k, and what   *)
(* the last one that does leaves otherwise; one of the two is the case.    *)
LEMMA AfterNone ==
  ASSUME NEW w, NEW b, NEW n, NEW k, \A i \in 1..n : ~ Writes(w, i, k)
  PROVE  After(w, b, n, k) = b[k]
BY DEF After, LastOf

\* A key holds what the last request that writes it sets.
LEMMA AfterLast ==
  ASSUME NEW w, NEW b, NEW n \in Nat, NEW k, NEW i \in 1..n, Writes(w, i, k),
         \A j \in 1..n : Writes(w, j, k) => j <= i
  PROVE  After(w, b, n, k) = Outcome(w[i])
<1> DEFINE W == {j \in 1..n : Writes(w, j, k)}
<1>1. i \in W /\ \A j \in W : j <= i
  OBVIOUS
<1>2. W # {}
  BY <1>1
<1>3. \A h \in W : (\A j \in W : j <= h) => h = i
  BY <1>1
<1>4. (CHOOSE h \in W : \A j \in W : j <= h) = i
  <2> HIDE DEF W
  <2> QED
    BY <1>1, <1>3
<1> QED
  BY <1>2, <1>4 DEF After, LastOf

\* A key is written by no request of a wire, or by a last one.
LEMMA AfterCases ==
  ASSUME NEW w, NEW n \in Nat, NEW k
  PROVE  \/ \A i \in 1..n : ~ Writes(w, i, k)
         \/ \E i \in 1..n : Writes(w, i, k) /\ \A j \in 1..n : Writes(w, j, k) => j <= i
<1> DEFINE W == {j \in 1..n : Writes(w, j, k)}
<1>1. CASE W = {}
  BY <1>1
<1>2. CASE W # {}
  <2>1. PICK i \in W : \A j \in W : j <= i
    <3> HIDE DEF W
    <3>1. W \in SUBSET (1..n)
      BY DEF W
    <3> QED
      BY <1>2, <3>1, LargestExists
  <2> QED
    BY <2>1
<1> QED
  BY <1>1, <1>2

\* Two queues ask the same of the backend, up to their n-th request.
Alike(w, x, n) ==
  \A i \in 1..n : w[i].key = x[i].key /\ w[i].op = x[i].op /\ w[i].value = x[i].value

(* Requests behind the first n make no difference, nor does who waits.     *)
LEMMA AfterSame ==
  ASSUME NEW w, NEW x, NEW b, NEW n \in Nat, NEW k, Alike(w, x, n)
  PROVE  After(w, b, n, k) = After(x, b, n, k)
<1> USE DEF Alike
<1>1. \A i \in 1..n : Writes(w, i, k) <=> Writes(x, i, k)
  BY DEF Writes
<1>2. CASE \A i \in 1..n : ~ Writes(w, i, k)
  BY <1>1, <1>2, AfterNone
<1>3. ASSUME NEW i \in 1..n, Writes(w, i, k), \A j \in 1..n : Writes(w, j, k) => j <= i
      PROVE  After(w, b, n, k) = After(x, b, n, k)
  <2>1. After(w, b, n, k) = Outcome(w[i])
    BY <1>3, AfterLast
  <2>2. After(x, b, n, k) = Outcome(x[i])
    BY <1>1, <1>3, AfterLast
  <2>3. Outcome(w[i]) = Outcome(x[i])
    BY DEF Outcome
  <2> QED
    BY <2>1, <2>2, <2>3
<1> QED
  BY <1>2, <1>3, AfterCases

(* Request n decides if it writes k.                                       *)
LEMMA AfterStep ==
  ASSUME NEW w, NEW b, NEW n \in Nat \ {0}, NEW k
  PROVE  After(w, b, n, k) =
           IF Writes(w, n, k) THEN Outcome(w[n]) ELSE After(w, b, n - 1, k)
<1>1. CASE Writes(w, n, k)
  BY <1>1, AfterLast
<1>2. CASE ~ Writes(w, n, k)
  <2>1. CASE \A i \in 1..(n - 1) : ~ Writes(w, i, k)
    <3>1. \A i \in 1..n : ~ Writes(w, i, k)
      BY <1>2, <2>1
    <3> QED
      BY <1>2, <2>1, <3>1, AfterNone
  <2>2. ASSUME NEW i \in 1..(n - 1), Writes(w, i, k),
               \A j \in 1..(n - 1) : Writes(w, j, k) => j <= i
        PROVE  After(w, b, n, k) = After(w, b, n - 1, k)
    <3>1. After(w, b, n - 1, k) = Outcome(w[i])
      BY <2>2, AfterLast
    <3>2. i \in 1..n /\ \A j \in 1..n : Writes(w, j, k) => j <= i
      BY <1>2, <2>2
    <3>3. After(w, b, n, k) = Outcome(w[i])
      BY <2>2, <3>2, AfterLast
    <3> QED
      BY <3>1, <3>3
  <2>3. n - 1 \in Nat
    OBVIOUS
  <2> QED
    BY <1>2, <2>1, <2>2, <2>3, AfterCases
<1> QED
  BY <1>1, <1>2

\* The first n requests of x are those behind the first of w; c[k] is what
\* the first makes of b[k].
Behind(x, w, n) == \A i \in 1..n : x[i] = w[i + 1]
Served(c, w, b, k) == c[k] = IF Writes(w, 1, k) THEN Outcome(w[1]) ELSE b[k]

(* Serving the first request leaves what the others will make of it.       *)
LEMMA AfterServe ==
  ASSUME NEW w, NEW x, NEW b, NEW c, NEW n \in Nat, NEW k,
         Behind(x, w, n), Served(c, w, b, k)
  PROVE  After(x, c, n, k) = After(w, b, n + 1, k)
<1> USE DEF Behind, Served
<1>1. \A i \in 1..n : Writes(x, i, k) <=> Writes(w, i + 1, k)
  BY DEF Writes
<1>2. CASE \A i \in 1..n : ~ Writes(x, i, k)
  <2>1. After(x, c, n, k) = c[k]
    BY <1>2, AfterNone
  <2>2. \A j \in 1..(n + 1) : Writes(w, j, k) => j = 1
    <3> SUFFICES ASSUME NEW j \in 1..(n + 1), Writes(w, j, k), j # 1
                 PROVE  FALSE
      OBVIOUS
    <3>1. j - 1 \in 1..n /\ (j - 1) + 1 = j
      OBVIOUS
    <3> QED
      BY <1>1, <1>2, <3>1
  <2>3. CASE Writes(w, 1, k)
    <3>1. 1 \in 1..(n + 1) /\ \A j \in 1..(n + 1) : Writes(w, j, k) => j <= 1
      BY <2>2
    <3>2. After(w, b, n + 1, k) = Outcome(w[1])
      BY <2>3, <3>1, AfterLast
    <3> QED
      BY <2>1, <2>3, <3>2
  <2>4. CASE ~ Writes(w, 1, k)
    <3>1. \A j \in 1..(n + 1) : ~ Writes(w, j, k)
      BY <2>2, <2>4
    <3>2. After(w, b, n + 1, k) = b[k]
      BY <3>1, AfterNone
    <3> QED
      BY <2>1, <2>4, <3>2
  <2> QED
    BY <2>3, <2>4
<1>3. ASSUME NEW i \in 1..n, Writes(x, i, k), \A j \in 1..n : Writes(x, j, k) => j <= i
      PROVE  After(x, c, n, k) = After(w, b, n + 1, k)
  <2>1. After(x, c, n, k) = Outcome(x[i])
    BY <1>3, AfterLast
  <2>2. i + 1 \in 1..(n + 1) /\ Writes(w, i + 1, k)
    BY <1>1, <1>3
  <2>3. \A j \in 1..(n + 1) : Writes(w, j, k) => j <= i + 1
    <3> TAKE j \in 1..(n + 1)
    <3> HAVE Writes(w, j, k)
    <3>1. CASE j = 1
      BY <3>1
    <3>2. CASE j # 1
      <4>1. j - 1 \in 1..n /\ (j - 1) + 1 = j
        BY <3>2
      <4> QED
        BY <1>1, <1>3, <4>1
    <3> QED
      BY <3>1, <3>2
  <2>4. After(w, b, n + 1, k) = Outcome(w[i + 1])
    BY <2>2, <2>3, AfterLast
  <2> QED
    BY <2>1, <2>4
<1> QED
  BY <1>2, <1>3, AfterCases

(* What the model calls Drained is After every request, now and next.      *)
LEMMA DrainedIsAfter ==
  ASSUME wire \in Seq(Requests), NEW k
  PROVE  Drained(k) = After(wire, backend, Len(wire), k)
<1> DEFINE V == {i \in DOMAIN wire : wire[i].key = k /\ wire[i].op \in {"set", "remove"}}
<1>1. Drained(k) = LastOf(wire, backend, k, V)
  BY Zenon DEF Drained, LastOf, Outcome
<1>2. V = {i \in 1..Len(wire) : Writes(wire, i, k)}
  <2>1. DOMAIN wire = 1..Len(wire)
    OBVIOUS
  <2> QED
    BY <2>1 DEF Writes
<1> QED
  BY <1>1, <1>2, Zenon DEF After

\* The same of the next wire and backend.
LEMMA DrainedIsAfterNext ==
  ASSUME wire' \in Seq(Requests), NEW k
  PROVE  Drained(k)' = After(wire', backend', Len(wire'), k)
<1> DEFINE V == {i \in DOMAIN wire' : wire'[i].key = k /\ wire'[i].op \in {"set", "remove"}}
<1>1. Drained(k)' = LastOf(wire', backend', k, V)
  BY Zenon DEF Drained, LastOf, Outcome
<1>2. V = {i \in 1..Len(wire') : Writes(wire', i, k)}
  <2>1. DOMAIN wire' = 1..Len(wire')
    OBVIOUS
  <2> QED
    BY <2>1 DEF Writes
<1> QED
  BY <1>1, <1>2, Zenon DEF After
-----------------------------------------------------------------------------
\* What a request and the backend's answer to one do to the queue, and to
\* the values the keys will have in the end.
Requested(p, op, k, v) ==
  /\ wire' \in Seq(Requests)
  /\ answer' \in [Procs -> Maybe \union {Waiting}]
  /\ Len(wire') = Len(wire) + 1
  /\ \A i \in 1..Len(wire) : wire'[i] = wire[i]
  /\ wire'[Len(wire) + 1] = [who |-> p, op |-> op, key |-> k, value |-> v]
  /\ \A j : \A n \in 0..Len(wire) :
       After(wire', backend', n, j) = After(wire, backend, n, j)
  /\ \A j : Drained(j)' = IF j = k /\ op = "set" THEN v
                          ELSE IF j = k /\ op = "remove" THEN Missing
                          ELSE Drained(j)

HeadServed ==
  /\ wire' \in Seq(Requests) /\ backend' \in [Keys -> Maybe]
  /\ Head(wire) \in Requests /\ Head(wire) = wire[1] /\ 1 \in 1..Len(wire)
  /\ Len(wire') = Len(wire) - 1
  /\ \A i \in 1..Len(wire') : wire'[i] = wire[i + 1]
  /\ \A j \in Keys : \A n \in 0..Len(wire') :
       After(wire', backend', n, j) = After(wire, backend, n + 1, j)
  /\ \A j \in Keys : Drained(j)' = Drained(j)

(* The requests in the queue are of processes, about keys.                 *)
LEMMA WireTypes ==
  ASSUME TypeOK
  PROVE  /\ Len(wire) \in Nat
         /\ \A i \in 1..Len(wire) : wire[i].who \in Procs \union {Nobody} /\ wire[i].key \in Keys
<1>1. wire \in Seq(Requests)
  BY DEF TypeOK
<1>2. Len(wire) \in Nat /\ \A i \in 1..Len(wire) : wire[i] \in Requests
  BY <1>1
<1>3. \A r \in Requests : r.who \in Procs \union {Nobody} /\ r.key \in Keys
  BY DEF Requests
<1> QED
  BY <1>2, <1>3

(* A request is queued last, and changes what the backend will hold for    *)
(* its key only.                                                           *)
LEMMA RequestEffect ==
  ASSUME TypeOK, NEW p \in Procs, NEW op \in {"get", "set", "remove", "refused"},
         NEW k \in Keys, NEW v \in Maybe, request(p, op, k, v), backend' = backend
  PROVE  Requested(p, op, k, v)
<1> DEFINE r == [who |-> p, op |-> op, key |-> k, value |-> v]
<1>1. r \in Requests
  BY DEF Requests
<1>2. wire \in Seq(Requests) /\ wire' = Append(wire, r)
  BY DEF TypeOK, request
<1>3. /\ wire' \in Seq(Requests) /\ Len(wire') = Len(wire) + 1
      /\ \A i \in 1..Len(wire) : wire'[i] = wire[i]
      /\ wire'[Len(wire) + 1] = r
  <2> HIDE DEF r
  <2> QED
    BY <1>1, <1>2, AppendProperties
<1>4. answer' \in [Procs -> Maybe \union {Waiting}]
  BY DEF TypeOK, request
<1>5. Len(wire) \in Nat
  BY <1>2
<1>6. \A j : \A n \in 0..Len(wire) :
        After(wire', backend', n, j) = After(wire, backend, n, j)
  <2> TAKE j
  <2> TAKE n \in 0..Len(wire)
  <2>1. n \in Nat /\ Alike(wire, wire', n)
    BY <1>3, <1>5 DEF Alike
  <2> QED
    BY <2>1, AfterSame
<1>7. ASSUME NEW j
      PROVE  Drained(j)' = IF j = k /\ op = "set" THEN v
                           ELSE IF j = k /\ op = "remove" THEN Missing ELSE Drained(j)
  <2>1. Drained(j) = After(wire, backend, Len(wire), j)
    BY <1>2, DrainedIsAfter
  <2>2. Drained(j)' = After(wire', backend', Len(wire'), j)
    BY <1>3, DrainedIsAfterNext
  <2>3. After(wire', backend', Len(wire'), j)
          = IF Writes(wire', Len(wire'), j) THEN Outcome(wire'[Len(wire')])
            ELSE After(wire', backend', Len(wire') - 1, j)
    <3>1. Len(wire') \in Nat \ {0} /\ Len(wire') - 1 = Len(wire)
      BY <1>3, <1>5
    <3> QED
      BY <3>1, AfterStep
  <2>4. After(wire', backend', Len(wire), j) = Drained(j)
    BY <1>5, <1>6, <2>1
  <2>5. Writes(wire', Len(wire) + 1, j) <=> j = k /\ op \in {"set", "remove"}
    BY <1>3 DEF Writes
  <2>6. Outcome(r) = IF op = "set" THEN v ELSE Missing
    BY DEF Outcome
  <2> QED
    BY <1>3, <1>5, <2>2, <2>3, <2>4, <2>5, <2>6
<1> QED
  BY <1>3, <1>4, <1>6, <1>7 DEF Requested

(* The backend serves the first request, or refuses it: no key's final     *)
(* value changes.                                                          *)
LEMMA ServeEffect ==
  ASSUME TypeOK, Serve \/ Refuse
  PROVE  HeadServed
<1>1. wire \in Seq(Requests) /\ wire # <<>> /\ wire' = Tail(wire)
  BY DEF TypeOK, Serve, Refuse
<1>2. /\ Head(wire) \in Requests /\ wire' \in Seq(Requests) /\ Len(wire') = Len(wire) - 1
      /\ \A i \in 1..Len(wire') : wire'[i] = wire[i + 1]
  BY <1>1, HeadTailProperties
<1>3. Head(wire) = wire[1] /\ Len(wire) \in Nat /\ 1 \in 1..Len(wire) /\ Len(wire') \in Nat
  BY <1>1, <1>2
<1>4. backend' \in [Keys -> Maybe]
      /\ \A j \in Keys : backend'[j] = IF Writes(wire, 1, j) THEN Outcome(wire[1]) ELSE backend[j]
  <2> DEFINE r == Head(wire)
  <2>1. r \in Requests /\ backend \in [Keys -> Maybe]
    BY <1>2 DEF TypeOK
  <2>2. r.op \in {"get", "set", "remove", "refused"} /\ r.key \in Keys /\ r.value \in Maybe
    BY <2>1 DEF Requests
  <2>3. \/ /\ r.op # "refused"
           /\ backend' = CASE r.op = "set"    -> [backend EXCEPT ![r.key] = r.value]
                            [] r.op = "remove" -> [backend EXCEPT ![r.key] = Missing]
                            [] r.op = "get"    -> backend
        \/ r.op = "refused" /\ backend' = backend
    BY DEF Serve, Refuse
  <2>4. r = wire[1]
    BY <1>3
  <2> HIDE DEF r
  <2>5. CASE r.op = "set"
    BY <2>1, <2>2, <2>3, <2>4, <2>5 DEF Writes, Outcome
  <2>6. CASE r.op = "remove"
    BY <2>1, <2>2, <2>3, <2>4, <2>6 DEF Writes, Outcome, Maybe
  <2>7. CASE r.op \in {"get", "refused"}
    BY <2>1, <2>2, <2>3, <2>4, <2>7 DEF Writes
  <2> QED
    BY <2>2, <2>5, <2>6, <2>7
<1>5. \A j \in Keys : \A n \in 0..Len(wire') :
        After(wire', backend', n, j) = After(wire, backend, n + 1, j)
  <2> TAKE j \in Keys
  <2> TAKE n \in 0..Len(wire')
  <2>1. n \in Nat /\ Behind(wire', wire, n)
    BY <1>2, <1>3 DEF Behind
  <2>2. Served(backend', wire, backend, j)
    BY <1>4 DEF Served
  <2> QED
    BY <2>1, <2>2, AfterServe
<1>6. ASSUME NEW j \in Keys
      PROVE  Drained(j)' = Drained(j)
  <2>1. Drained(j) = After(wire, backend, Len(wire), j)
    BY <1>1, DrainedIsAfter
  <2>2. Drained(j)' = After(wire', backend', Len(wire'), j)
    BY <1>2, DrainedIsAfterNext
  <2>3. Len(wire') \in 0..Len(wire') /\ Len(wire') + 1 = Len(wire)
    BY <1>2, <1>3
  <2> QED
    BY <1>5, <2>1, <2>2, <2>3
<1> QED
  BY <1>2, <1>3, <1>4, <1>5, <1>6 DEF HeadServed

\* With nothing under way, the backend is what is drained to.
LEMMA DrainedEmpty ==
  ASSUME wire = <<>>, NEW k
  PROVE  Drained(k) = backend[k]
<1>1. \A i \in DOMAIN wire : FALSE
  OBVIOUS
<1>2. {i \in DOMAIN wire : wire[i].key = k /\ wire[i].op \in {"set", "remove"}} = {}
  BY <1>1
<1> QED
  BY <1>2, Zenon DEF Drained
-----------------------------------------------------------------------------
\* A cancelled request belongs to no process.
LEMMA NobodyElse == Nobody \notin Procs
BY ClientsAssumption DEF Procs

\* What a process that waits for nothing, and was in no get, was told.
LEMMA NoValue ==
  ASSUME TypeOK, WireInv, NEW p \in Procs, Ready(p), doing[p] # "get"
  PROVE  answer[p] = Missing
BY DEF TypeOK, WireInv, Answered, Ready

\* Nothing that a request of another process depends on changes.
OthersStay(p) ==
  \A q \in Procs \ {p} : doing'[q] = doing[q] /\ key'[q] = key[q]

(* A request of a process that waits for none keeps what is known of the   *)
(* queue; it may be a get only of a key that will be missing.              *)
LEMMA RequestWire ==
  ASSUME TypeOK, WireInv, NEW p \in Procs, Ready(p),
         NEW op \in {"get", "set", "remove", "refused"},
         NEW k \in Keys, NEW v \in Maybe, request(p, op, k, v), backend' = backend,
         op = "get" => /\ k \in unremoved \/ Drained(k) = Missing
                       /\ doing'[p] = "get" /\ key'[p] = k,
         doing'[p] # "idle", doing'[p] \in {"get", "remove"} => key'[p] \in Keys,
         OthersStay(p), unremoved \subseteq unremoved'
  PROVE  WireInv'
<1> DEFINE n == Len(wire)
<1>0. Requested(p, op, k, v) /\ Len(wire) \in Nat
  BY RequestEffect, WireTypes
<1>1. n \in Nat /\ Len(wire') = n + 1
  BY <1>0 DEF Requested
<1>2. /\ \A i \in 1..n : wire'[i] = wire[i]
      /\ wire'[n + 1].who = p /\ wire'[n + 1].op = op /\ wire'[n + 1].key = k
  BY <1>0 DEF Requested
<1>3. /\ answer' = [answer EXCEPT ![p] = Waiting] /\ answer \in [Procs -> Maybe \union {Waiting}]
      /\ answer'[p] = Waiting /\ \A q \in Procs \ {p} : answer'[q] = answer[q]
  BY DEF request, TypeOK
<1>4. \A i \in 1..n :
        /\ wire[i].who # p
        /\ wire[i].who # Nobody => wire[i].who \in Procs \ {p} /\ answer[wire[i].who] = Waiting
  BY WireTypes, NobodyElse DEF WireInv, WireWaits, Ready
<1> HIDE DEF n
<1>5. WireWaits'
  <2>1. ASSUME NEW i \in 1..(n + 1), wire'[i].who # Nobody
        PROVE  answer'[wire'[i].who] = Waiting
    <3>1. CASE i = n + 1
      BY <1>2, <1>3, <3>1
    <3>2. CASE i \in 1..n
      BY <1>2, <1>3, <1>4, <2>1, <3>2
    <3> QED
      BY <1>1, <3>1, <3>2
  <2>2. ASSUME NEW i \in 1..(n + 1), NEW j \in 1..(n + 1),
               wire'[i].who # Nobody, wire'[i].who = wire'[j].who
        PROVE  i = j
    <3>1. CASE i \in 1..n /\ j \in 1..n
      BY <1>2, <2>2, <3>1 DEF WireInv, WireWaits, n
    <3>2. CASE i = n + 1 \/ j = n + 1
      BY <1>1, <1>2, <1>4, <2>2, <3>2
    <3> QED
      BY <1>1, <3>1, <3>2
  <2> QED
    BY <1>1, <2>1, <2>2 DEF WireWaits
<1>6. Answered'
  <2>1. ASSUME NEW q \in Procs
        PROVE  /\ answer'[q] \notin {Missing, Waiting} => doing'[q] = "get" /\ key'[q] \in unremoved'
               /\ Idle(q)' => answer'[q] # Waiting
    <3>1. CASE q = p
      BY <1>3, <3>1 DEF Idle
    <3>2. CASE q # p
      BY <1>3, <3>2 DEF WireInv, Answered, Ready, Idle, OthersStay
    <3> QED
      BY <3>1, <3>2
  <2> QED
    BY <2>1 DEF Answered, Ready
<1>7. GetsMiss'
  <2>1. ASSUME NEW i \in 1..(n + 1), wire'[i].op = "get", wire'[i].key \notin unremoved'
        PROVE  After(wire', backend', i - 1, wire'[i].key) = Missing
    <3>1. i - 1 \in 0..n /\ \A j : After(wire', backend', i - 1, j) = After(wire, backend, i - 1, j)
      BY <1>0, <1>1 DEF Requested, n
    <3>2. CASE i = n + 1
      <4>1. After(wire, backend, n, k) = Missing
        BY <1>2, <2>1, <3>2, DrainedIsAfter DEF TypeOK, n
      <4> QED
        BY <1>1, <1>2, <3>1, <3>2, <4>1
    <3>3. CASE i \in 1..n
      BY <1>2, <2>1, <3>1, <3>3 DEF WireInv, GetsMiss, n
    <3> QED
      BY <1>1, <3>2, <3>3
  <2> QED
    BY <1>1, <2>1 DEF GetsMiss
<1>8. GetKeys'
  <2>1. ASSUME NEW i \in 1..(n + 1), wire'[i].op = "get", wire'[i].who # Nobody
        PROVE  doing'[wire'[i].who] = "get" /\ key'[wire'[i].who] = wire'[i].key
    <3>1. CASE i = n + 1
      BY <1>2, <2>1, <3>1
    <3>2. CASE i \in 1..n
      BY <1>2, <1>4, <2>1, <3>2 DEF WireInv, GetKeys, OthersStay, n
    <3> QED
      BY <1>1, <3>1, <3>2
  <2>2. \A q \in Procs : doing'[q] \in {"get", "remove"} => key'[q] \in Keys
    BY DEF WireInv, GetKeys, OthersStay
  <2> QED
    BY <1>1, <2>1, <2>2 DEF GetKeys
<1> QED
  BY <1>5, <1>6, <1>7, <1>8 DEF WireInv

\* What the backend's answer, or its refusal, does to the process that
\* waits for it, and to no other.
Told(p) ==
  /\ answer'[p] \in Maybe
  /\ \/ doing'[p] = doing[p] /\ key'[p] = key[p]
     \/ doing'[p] = "idle"
  /\ answer'[p] # Missing => doing'[p] = "get" /\ key'[p] \in unremoved

(* The backend's answer tells a process a value only when a removal of the *)
(* key has failed.                                                         *)
LEMMA ServeTells ==
  ASSUME TypeOK, WireInv, Serve \/ Refuse
  PROVE  /\ \A q \in Procs : q # Head(wire).who =>
              answer'[q] = answer[q] /\ doing'[q] = doing[q] /\ key'[q] = key[q]
         /\ Head(wire).who \in Procs => Told(Head(wire).who)
         /\ unremoved' = unremoved /\ DOMAIN answer' = Procs
         /\ answer' = [q \in Procs |-> answer'[q]]
<1> DEFINE r == Head(wire)
<1>1. /\ r \in Requests /\ r = wire[1] /\ 1 \in 1..Len(wire)
  BY ServeEffect DEF HeadServed
<1>2. r.key \in Keys /\ r.op \in {"get", "set", "remove", "refused"}
  BY <1>1 DEF Requests
<1>3. Missing \in Maybe /\ backend[r.key] \in Maybe
  BY <1>2 DEF TypeOK, Maybe
<1>4. CASE Serve
  <2>1. /\ doing' = doing /\ key' = key /\ unremoved' = unremoved
        /\ answer' = [q \in Procs |->
                       IF q # r.who THEN answer[q]
                       ELSE IF r.op = "get" THEN backend[r.key] ELSE Missing]
    BY <1>4 DEF Serve, procVars, failVars
  <2>2. ASSUME r.who \in Procs
        PROVE  Told(r.who)
    <3>1. CASE r.op # "get"
      BY <2>1, <2>2, <3>1, <1>3 DEF Told
    <3>2. CASE r.op = "get"
      <4>1. answer'[r.who] = backend[r.key]
        BY <2>1, <2>2, <3>2
      <4>2. doing[r.who] = "get" /\ key[r.who] = r.key
        BY <1>1, <2>2, <3>2, NobodyElse DEF WireInv, GetKeys
      <4>3. r.key \in unremoved \/ backend[r.key] = Missing
        <5>1. After(wire, backend, 0, r.key) = backend[r.key]
          BY AfterNone
        <5>2. r.key \in unremoved \/ After(wire, backend, 1 - 1, r.key) = Missing
          BY <1>1, <3>2 DEF WireInv, GetsMiss
        <5> QED
          BY <5>1, <5>2
      <4> QED
        BY <2>1, <4>1, <4>2, <4>3, <1>3 DEF Told
    <3> QED
      BY <3>1, <3>2
  <2> QED
    BY <2>1, <2>2
<1>5. CASE Refuse
  <2>1. /\ doing' = [q \in Procs |-> IF q = r.who THEN "idle" ELSE doing[q]]
        /\ key' = [q \in Procs |-> IF q = r.who THEN Missing ELSE key[q]]
        /\ answer' = [q \in Procs |-> IF q = r.who THEN Missing ELSE answer[q]]
        /\ unremoved' = unremoved
    BY <1>5 DEF Refuse, interrupted
  <2> HIDE DEF r
  <2>2. r.who \in Procs => Told(r.who)
    BY <2>1, <1>3 DEF Told
  <2> QED
    BY <2>1, <2>2 DEF r
<1> QED
  BY <1>4, <1>5

(* So does the backend when it serves or refuses a request.                *)
LEMMA ServeWire ==
  ASSUME TypeOK, WireInv, Serve \/ Refuse
  PROVE  WireInv' /\ answer' \in [Procs -> Maybe \union {Waiting}]
<1> DEFINE r == Head(wire)
<1>1. /\ r \in Requests /\ r = wire[1] /\ 1 \in 1..Len(wire) /\ Len(wire) \in Nat
      /\ Len(wire') = Len(wire) - 1
      /\ \A i \in 1..Len(wire') : wire'[i] = wire[i + 1]
  BY ServeEffect, WireTypes DEF HeadServed
<1>2. /\ \A q \in Procs : q # r.who =>
           answer'[q] = answer[q] /\ doing'[q] = doing[q] /\ key'[q] = key[q]
      /\ r.who \in Procs => Told(r.who)
      /\ unremoved' = unremoved /\ answer' = [q \in Procs |-> answer'[q]]
  BY ServeTells
<1>3. \A i \in 1..Len(wire') :
        /\ i + 1 \in 1..Len(wire) /\ wire'[i] = wire[i + 1]
        /\ wire[i + 1].who # Nobody =>
             /\ wire[i + 1].who \in Procs /\ wire[i + 1].who # r.who
             /\ answer[wire[i + 1].who] = Waiting
  <2> SUFFICES ASSUME NEW i \in 1..Len(wire')
               PROVE  /\ i + 1 \in 1..Len(wire) /\ wire'[i] = wire[i + 1]
                      /\ wire[i + 1].who # Nobody =>
                           /\ wire[i + 1].who \in Procs /\ wire[i + 1].who # r.who
                           /\ answer[wire[i + 1].who] = Waiting
    OBVIOUS
  <2>1. i + 1 \in 1..Len(wire) /\ i + 1 # 1 /\ wire'[i] = wire[i + 1]
    BY <1>1
  <2> QED
    BY <1>1, <2>1, WireTypes DEF WireInv, WireWaits
<1>4. answer \in [Procs -> Maybe \union {Waiting}]
  BY DEF TypeOK
<1> HIDE DEF r
<1>5. answer' \in [Procs -> Maybe \union {Waiting}]
  <2>1. \A q \in Procs : answer'[q] \in Maybe \union {Waiting}
    BY <1>2, <1>4 DEF Told
  <2> QED
    BY <1>2, <2>1
<1>6. WireWaits'
  <2>1. ASSUME NEW i \in 1..Len(wire'), wire'[i].who # Nobody
        PROVE  answer'[wire'[i].who] = Waiting
    BY <2>1, <1>2, <1>3
  <2>2. ASSUME NEW i \in 1..Len(wire'), NEW j \in 1..Len(wire'),
               wire'[i].who # Nobody, wire'[i].who = wire'[j].who
        PROVE  i = j
    <3>1. i + 1 \in 1..Len(wire) /\ j + 1 \in 1..Len(wire)
      BY <1>3
    <3>2. i + 1 = j + 1
      BY <1>3, <2>2, <3>1 DEF WireInv, WireWaits
    <3> QED
      BY <3>2
  <2> QED
    BY <2>1, <2>2 DEF WireWaits
<1>7. Answered'
  <2>1. Missing # Waiting /\ Waiting \notin Maybe
    BY ValuesAssumption DEF Maybe
  <2>2. ASSUME NEW q \in Procs
        PROVE  /\ answer'[q] \notin {Missing, Waiting} => doing'[q] = "get" /\ key'[q] \in unremoved'
               /\ doing'[q] = "idle" => answer'[q] # Waiting
    <3>1. CASE q = r.who
      BY <1>2, <2>1, <3>1 DEF Told
    <3>2. CASE q # r.who
      BY <1>2, <3>2 DEF WireInv, Answered, Ready, Idle
    <3> QED
      BY <3>1, <3>2
  <2> QED
    BY <2>2 DEF Answered, Ready, Idle
<1>8. GetsMiss'
  <2>1. ASSUME NEW i \in 1..Len(wire'), wire'[i].op = "get", wire'[i].key \notin unremoved'
        PROVE  After(wire', backend', i - 1, wire'[i].key) = Missing
    <3>1. i + 1 \in 1..Len(wire) /\ wire'[i] = wire[i + 1] /\ i - 1 \in 0..Len(wire')
          /\ (i - 1) + 1 = (i + 1) - 1
      BY <1>1
    <3>2. After(wire, backend, (i + 1) - 1, wire[i + 1].key) = Missing
      BY <2>1, <3>1, <1>2 DEF WireInv, GetsMiss
    <3>3. wire[i + 1].key \in Keys
      BY <3>1, WireTypes
    <3>4. After(wire', backend', i - 1, wire[i + 1].key)
            = After(wire, backend, (i - 1) + 1, wire[i + 1].key)
      BY <3>1, <3>3, ServeEffect DEF HeadServed
    <3> QED
      BY <3>1, <3>2, <3>4
  <2> QED
    BY <2>1 DEF GetsMiss
<1>9. GetKeys'
  <2>1. ASSUME NEW i \in 1..Len(wire'), wire'[i].op = "get", wire'[i].who # Nobody
        PROVE  doing'[wire'[i].who] = "get" /\ key'[wire'[i].who] = wire'[i].key
    BY <2>1, <1>2, <1>3 DEF WireInv, GetKeys
  <2>2. \A q \in Procs : doing'[q] \in {"get", "remove"} => key'[q] \in Keys
    BY <1>2 DEF WireInv, GetKeys, Told
  <2> QED
    BY <2>1, <2>2 DEF GetKeys
<1> QED
  BY <1>5, <1>6, <1>7, <1>8, <1>9 DEF WireInv

(* And the cancellation of a client that waits: its request stays.         *)
LEMMA CancelWire ==
  ASSUME TypeOK, WireInv, NEW p \in Procs, Cancel(p)
  PROVE  /\ WireInv' /\ wire' \in Seq(Requests)
         /\ Len(wire') = Len(wire) /\ \A j : Drained(j)' = Drained(j)
         /\ \A i \in 1..Len(wire) :
              /\ wire'[i].op = wire[i].op /\ wire'[i].key = wire[i].key
              /\ wire'[i].who = IF wire[i].who = p THEN Nobody ELSE wire[i].who
<1> DEFINE x == [i \in DOMAIN wire |->
                  [wire[i] EXCEPT !.who = IF wire[i].who = p THEN Nobody ELSE wire[i].who]]
<1>1. /\ wire' = x /\ backend' = backend
      /\ doing' = [q \in Procs |-> IF q = p THEN "idle" ELSE doing[q]]
      /\ key' = [q \in Procs |-> IF q = p THEN Missing ELSE key[q]]
      /\ answer' = [q \in Procs |-> IF q = p THEN Missing ELSE answer[q]]
      /\ unremoved \subseteq unremoved'
  BY DEF Cancel, interrupted
<1>2. wire \in Seq(Requests) /\ Len(wire) \in Nat /\ DOMAIN wire = 1..Len(wire)
  BY DEF TypeOK
<1>3. \A i \in 1..Len(wire) : wire[i] \in Requests
  BY <1>2
<1>4. ASSUME NEW i \in 1..Len(wire)
      PROVE  /\ x[i].op = wire[i].op /\ x[i].key = wire[i].key /\ x[i].value = wire[i].value
             /\ x[i].who = (IF wire[i].who = p THEN Nobody ELSE wire[i].who)
             /\ x[i] \in Requests
  <2>1. x[i] = [wire[i] EXCEPT !.who = IF wire[i].who = p THEN Nobody ELSE wire[i].who]
    BY <1>2
  <2>2. wire[i] \in Requests
    BY <1>3
  <2> HIDE DEF x
  <2> QED
    BY <2>1, <2>2 DEF Requests
<1>5. x \in Seq(Requests) /\ Len(x) = Len(wire)
  <2>1. x \in [1..Len(wire) -> Requests]
    <3>1. x = [i \in 1..Len(wire) |-> x[i]]
      BY <1>2
    <3> HIDE DEF x
    <3> QED
      BY <3>1, <1>4
  <2> HIDE DEF x
  <2>2. x \in Seq(Requests)
    BY <2>1, <1>2, SeqDef
  <2>3. Len(x) = Len(wire)
    BY <2>1, <2>2, <1>2, LenProperties
  <2> QED
    BY <2>2, <2>3
<1>6. /\ wire' \in Seq(Requests) /\ Len(wire') = Len(wire)
      /\ \A i \in 1..Len(wire) :
           /\ wire'[i].op = wire[i].op /\ wire'[i].key = wire[i].key
           /\ wire'[i].value = wire[i].value
           /\ wire'[i].who = IF wire[i].who = p THEN Nobody ELSE wire[i].who
  <2> HIDE DEF x
  <2> QED
    BY <1>1, <1>4, <1>5
<1> HIDE DEF x
<1>7. \A n \in 0..Len(wire) : \A j : After(wire', backend', n, j) = After(wire, backend, n, j)
  <2> TAKE n \in 0..Len(wire)
  <2> TAKE j
  <2>1. n \in Nat /\ Alike(wire', wire, n)
    BY <1>2, <1>6 DEF Alike
  <2> QED
    BY <1>1, <2>1, AfterSame
<1>8. \A j : Drained(j)' = Drained(j)
  <2> TAKE j
  <2>1. Len(wire) \in 0..Len(wire)
    BY <1>2
  <2>2. Drained(j) = After(wire, backend, Len(wire), j)
    BY <1>2, DrainedIsAfter
  <2>3. Drained(j)' = After(wire', backend', Len(wire'), j)
    BY <1>6, DrainedIsAfterNext
  <2> QED
    BY <1>6, <1>7, <2>1, <2>2, <2>3
<1>9. WireWaits'
  <2>1. ASSUME NEW i \in 1..Len(wire'), wire'[i].who # Nobody
        PROVE  answer'[wire'[i].who] = Waiting
    <3>1. wire'[i].who = wire[i].who /\ wire[i].who # p /\ wire[i].who \in Procs
      BY <1>6, <2>1, WireTypes
    <3> QED
      BY <1>1, <1>6, <2>1, <3>1 DEF WireInv, WireWaits
  <2>2. ASSUME NEW i \in 1..Len(wire'), NEW j \in 1..Len(wire'),
               wire'[i].who # Nobody, wire'[i].who = wire'[j].who
        PROVE  i = j
    BY <1>6, <2>2 DEF WireInv, WireWaits
  <2> QED
    BY <2>1, <2>2 DEF WireWaits
<1>10. Answered'
  <2>1. ASSUME NEW q \in Procs
        PROVE  /\ answer'[q] \notin {Missing, Waiting} => doing'[q] = "get" /\ key'[q] \in unremoved'
               /\ doing'[q] = "idle" => answer'[q] # Waiting
    BY <1>1, ValuesAssumption DEF WireInv, Answered, Ready, Idle
  <2> QED
    BY <2>1 DEF Answered, Ready, Idle
<1>11. GetsMiss'
  <2>1. ASSUME NEW i \in 1..Len(wire'), wire'[i].op = "get", wire'[i].key \notin unremoved'
        PROVE  After(wire', backend', i - 1, wire'[i].key) = Missing
    <3>1. After(wire, backend, i - 1, wire[i].key) = Missing
      BY <1>1, <1>6, <2>1 DEF WireInv, GetsMiss
    <3>2. i - 1 \in 0..Len(wire)
      BY <1>2, <1>6
    <3> QED
      BY <1>6, <1>7, <3>1, <3>2
  <2> QED
    BY <2>1 DEF GetsMiss
<1>12. GetKeys'
  <2>1. ASSUME NEW i \in 1..Len(wire'), wire'[i].op = "get", wire'[i].who # Nobody
        PROVE  doing'[wire'[i].who] = "get" /\ key'[wire'[i].who] = wire'[i].key
    <3>1. wire'[i].who = wire[i].who /\ wire[i].who # p /\ wire[i].who \in Procs
      BY <1>6, <2>1, WireTypes
    <3> QED
      BY <1>1, <1>6, <2>1, <3>1 DEF WireInv, GetKeys
  <2>2. \A q \in Procs : doing'[q] \in {"get", "remove"} => key'[q] \in Keys
    BY <1>1 DEF WireInv, GetKeys
  <2> QED
    BY <2>1, <2>2 DEF GetKeys
<1> QED
  BY <1>6, <1>8, <1>9, <1>10, <1>11, <1>12 DEF WireInv

\* What a process may do without a request: nothing, a step of a flush, or
\* the end of what it was in or the begin of a flush, when it waits for
\* nothing.
Moves(q) ==
  \/ answer'[q] = answer[q] /\ doing'[q] = doing[q] /\ key'[q] = key[q]
  \/ answer'[q] = answer[q] /\ Flushing(q) /\ Flushing(q)'
  \/ Ready(q) /\ answer'[q] = Missing /\ doing'[q] \notin {"get", "remove"}

(* And every step that leaves the queue and the backend.                   *)
LEMMA SameWire ==
  ASSUME TypeOK, WireInv, UNCHANGED <<wire, backend>>, unremoved \subseteq unremoved',
         \A q \in Procs : Moves(q)
  PROVE  WireInv' /\ \A j : Drained(j)' = Drained(j)
<1>1. \A q \in Procs : answer[q] = Waiting => answer'[q] = Waiting
  BY DEF Moves, Ready
<1>2. WireWaits'
  BY <1>1, WireTypes DEF WireInv, WireWaits
<1>3. GetsMiss'
  BY DEF WireInv, GetsMiss
<1>4. Answered'
  <2>1. ASSUME NEW q \in Procs
        PROVE  /\ answer'[q] \notin {Missing, Waiting} => doing'[q] = "get" /\ key'[q] \in unremoved'
               /\ doing'[q] = "idle" => answer'[q] # Waiting
    BY ValuesAssumption DEF Moves, WireInv, Answered, Ready, Idle, Flushing
  <2> QED
    BY <2>1 DEF Answered, Ready, Idle
<1>5. GetKeys'
  <2>1. ASSUME NEW q \in Procs, doing[q] = "get", answer[q] = Waiting
        PROVE  doing'[q] = "get" /\ key'[q] = key[q]
    BY <2>1 DEF Moves, Flushing, Ready
  <2>2. ASSUME NEW i \in 1..Len(wire'), wire'[i].op = "get", wire'[i].who # Nobody
        PROVE  doing'[wire'[i].who] = "get" /\ key'[wire'[i].who] = wire'[i].key
    <3>1. wire' = wire /\ wire[i].who \in Procs
      BY <2>2, WireTypes
    <3> QED
      BY <2>1, <2>2, <3>1 DEF WireInv, GetKeys, WireWaits
  <2>3. \A q \in Procs : doing'[q] \in {"get", "remove"} => key'[q] \in Keys
    BY DEF Moves, Flushing, WireInv, GetKeys
  <2> QED
    BY <2>2, <2>3 DEF GetKeys
<1>6. \A j : Drained(j)' = Drained(j)
  <2> SUFFICES ASSUME NEW j
               PROVE  Drained(j)' = Drained(j)
    OBVIOUS
  <2>1. wire' = wire /\ backend' = backend
    OBVIOUS
  <2> QED
    BY <2>1 DEF Drained
<1> QED
  BY <1>2, <1>3, <1>4, <1>5, <1>6 DEF WireInv

(* An empty queue: nothing is known of it that could be wrong.             *)
LEMMA NoWire ==
  ASSUME wire' = <<>>, \A q \in Procs : answer'[q] = Missing /\ doing'[q] = "idle"
  PROVE  WireInv' /\ \A j : Drained(j)' = backend'[j]
<1>1. ~ \E i : i \in 1..Len(wire')
  OBVIOUS
<1>2. WireWaits' /\ GetsMiss' /\ GetKeys'
  BY <1>1 DEF WireWaits, GetsMiss, GetKeys
<1>3. Answered'
  BY ValuesAssumption DEF Answered, Ready
<1>4. ASSUME NEW j
      PROVE  Drained(j)' = backend'[j]
  <2>1. wire' \in Seq(Requests)
    OBVIOUS
  <2>2. Drained(j)' = After(wire', backend', Len(wire'), j)
    BY <2>1, DrainedIsAfterNext
  <2> QED
    BY <1>1, <2>2, AfterNone
<1> QED
  BY <1>2, <1>3, <1>4 DEF WireInv
-----------------------------------------------------------------------------
(* The reads are right: initially, and after each step that both layers    *)
(* have.                                                                   *)
LEMMA ReadInit == Init => ReadInv
<1> SUFFICES ASSUME Init
             PROVE  ReadInv
  OBVIOUS
<1>1. TypeOK
  <2>1. wire \in Seq(Requests)
    BY DEF Init
  <2> QED
    BY <2>1 DEF Init, TypeOK, NothingDone, Maybe, Stage, Operation
<1>2. ~ \E i : i \in 1..Len(wire)
  BY DEF Init
<1>3. WireInv
  BY <1>2, ValuesAssumption DEF WireInv, WireWaits, GetKeys, GetsMiss, Answered, Ready, Init
<1>4. Staged
  BY ClientsAssumption DEF Staged, Init, Idle, Procs, Serving
<1>5. ReadsLatest
  <2>1. \A k : Drained(k) = backend[k]
    BY DrainedEmpty DEF Init
  <2> QED
    BY <2>1 DEF ReadsLatest, Sound, Init, NothingDone
<1> QED
  BY <1>1, <1>3, <1>4, <1>5 DEF ReadInv

\* A get that misses asks the backend.
LEMMA GetMissRead ==
  ASSUME ReadInv, NEW p \in Clients, NEW k \in Keys, GetMiss(p, k),
         stage = "stopping" => ~QuietStop
  PROVE  ReadInv' /\ \A j : Drained(j)' = Drained(j)
<1> USE DEF ReadInv
<1>1. /\ p \in Procs /\ Missing \in Maybe /\ backend' = backend
      /\ UNCHANGED <<cache, dirty, stage, todo, batch, latest, failures, unremoved>>
  BY DEF GetMiss, Procs, Maybe, cacheVars, failVars
<1>2. PICK op \in {"get", "refused"} : request(p, op, k, Missing)
  BY DEF GetMiss, attempt
<1>3. Requested(p, op, k, Missing)
  BY <1>1, <1>2, RequestEffect
<1>4. k \in unremoved \/ Drained(k) = Missing
  BY DEF GetMiss, ReadsLatest, Sound
<1>5. /\ doing' = [doing EXCEPT ![p] = "get"] /\ doing \in [Procs -> Operation]
      /\ key' = [key EXCEPT ![p] = k] /\ key \in [Procs -> Keys \union {Missing}]
  BY DEF GetMiss, TypeOK
<1>6. TypeOK'
  BY <1>1, <1>3, <1>5 DEF TypeOK, Requested, Operation
<1>7. WireInv'
  <2>1. OthersStay(p) /\ doing'[p] = "get" /\ key'[p] = k
    BY <1>1, <1>5 DEF OthersStay
  <2>2. Ready(p)
    BY <1>1 DEF GetMiss, WireInv, Answered
  <2> QED
    BY <1>1, <1>2, <1>4, <2>1, <2>2, RequestWire
<1>8. Staged'
  BY <1>1, <1>5, ClientsAssumption DEF Staged, GetMiss, Serving, Idle, Procs
<1>9. \A j : Drained(j)' = Drained(j)
  BY <1>3 DEF Requested
<1>10. ReadsLatest'
  BY <1>1, <1>9 DEF ReadsLatest, Sound, Serving
<1> QED
  BY <1>6, <1>7, <1>8, <1>9, <1>10

\* What a removal leaves in the backend, if it is not refused.
RemoveDrains(k) ==
  \/ unremoved' = unremoved /\ \A j : Drained(j)' = IF j = k THEN Missing ELSE Drained(j)
  \/ unremoved' = unremoved \union {k} /\ \A j : Drained(j)' = Drained(j)

\* remove forgets the cache entry and sends the removal.
LEMMA RemoveRead ==
  ASSUME ReadInv, NEW p \in Clients, NEW k \in Keys, Remove(p, k),
         stage = "stopping" => ~QuietStop
  PROVE  ReadInv' /\ RemoveDrains(k)
<1> USE DEF ReadInv
<1>1. /\ p \in Procs /\ Missing \in Maybe /\ backend' = backend
      /\ cache' = [cache EXCEPT ![k] = Missing] /\ latest' = [latest EXCEPT ![k] = Missing]
      /\ dirty' = dirty \ {k} /\ UNCHANGED <<stage, todo, batch, failures>>
  BY DEF Remove, Procs, Maybe
<1>2. PICK op \in {"remove", "refused"} :
        /\ request(p, op, k, Missing)
        /\ unremoved' = IF op = "remove" THEN unremoved ELSE unremoved \union {k}
  BY DEF Remove
<1>3. Requested(p, op, k, Missing)
  BY <1>1, <1>2, RequestEffect
<1>4. /\ doing' = [doing EXCEPT ![p] = "remove"] /\ doing \in [Procs -> Operation]
      /\ key' = [key EXCEPT ![p] = k] /\ key \in [Procs -> Keys \union {Missing}]
  BY DEF Remove, TypeOK
<1>5. TypeOK'
  BY <1>1, <1>2, <1>3, <1>4 DEF TypeOK, Requested, Operation
<1>6. WireInv'
  <2>1. OthersStay(p) /\ doing'[p] = "remove" /\ key'[p] = k
    BY <1>1, <1>4 DEF OthersStay
  <2>2. Ready(p)
    BY <1>1 DEF Remove, WireInv, Answered
  <2>3. unremoved \subseteq unremoved'
    BY <1>2
  <2> QED
    BY <1>1, <1>2, <2>1, <2>2, <2>3, RequestWire
<1>7. Staged'
  BY <1>1, <1>4, ClientsAssumption DEF Staged, Remove, Serving, Idle, Procs
<1>8. RemoveDrains(k)
  BY <1>2, <1>3 DEF Requested, RemoveDrains
<1>9. ReadsLatest'
  BY <1>1, <1>8 DEF ReadsLatest, Sound, RemoveDrains, Serving, TypeOK
<1> QED
  BY <1>5, <1>6, <1>7, <1>8, <1>9

\* set fills the cache and leaves the wire alone.
LEMMA SetRead ==
  ASSUME ReadInv, NEW p \in Clients, NEW k \in Keys, NEW v \in Values, Set(p, k, v),
         stage = "stopping" => ~QuietStop
  PROVE  ReadInv' /\ \A j : Drained(j)' = Drained(j)
<1> USE DEF ReadInv
<1>1. p \in Procs /\ v \in Maybe /\ v # Missing
  BY ValuesAssumption DEF Procs, Maybe
<1>2. UNCHANGED <<wire, backend, answer, stage, key, batch, failures, unremoved>>
  BY DEF Set, failVars
<1>3. /\ \A q \in Procs : doing'[q] = doing[q] \/ (q = p /\ doing'[q] = "flush")
      /\ doing' \in [Procs -> Operation] /\ todo' \in [Procs -> SUBSET Keys]
      /\ dirty' \subseteq Keys
  <2>1. dirty' \subseteq Keys /\ doing \in [Procs -> Operation] /\ todo \in [Procs -> SUBSET Keys]
    BY DEF Set, TypeOK
  <2>2. CASE doing' = [doing EXCEPT ![p] = "flush"] /\ todo' = [todo EXCEPT ![p] = dirty']
    BY <1>1, <2>1, <2>2 DEF Operation
  <2>3. CASE UNCHANGED <<doing, todo>>
    BY <2>1, <2>3
  <2> QED
    BY <2>2, <2>3 DEF Set
<1>4. WireInv' /\ \A j : Drained(j)' = Drained(j)
  <2>1. Idle(p) /\ Ready(p) /\ answer[p] = Missing
    <3>1. Idle(p) /\ Ready(p)
      BY <1>1 DEF Set, WireInv, Answered
    <3> QED
      BY <1>1, <3>1, NoValue DEF Idle
  <2>2. \A q \in Procs : Moves(q)
    BY <1>2, <1>3, <2>1 DEF Moves
  <2> QED
    BY <1>2, <2>2, SameWire
<1>5. TypeOK'
  BY <1>1, <1>2, <1>3 DEF TypeOK, Set
<1>6. Staged'
  BY <1>2, <1>3, ClientsAssumption DEF Staged, Set, Serving, Idle, Procs
<1>7. ReadsLatest'
  BY <1>1, <1>2, <1>4 DEF ReadsLatest, Sound, Set, Serving, TypeOK
<1> QED
  BY <1>4, <1>5, <1>6, <1>7

\* p ends its operation; the cache takes a value that was found only of a
\* key a removal of which has failed.
Ends(p) ==
  /\ Ready(p) /\ ~Idle(p) /\ doing' = [doing EXCEPT ![p] = "idle"]
  /\ answer' = [answer EXCEPT ![p] = Missing]
  /\ key' \in [Procs -> Keys \union {Missing}] /\ \A q \in Procs \ {p} : key'[q] = key[q]
  /\ cache' \in [Keys -> Maybe] /\ \A k \in Sound : cache'[k] = cache[k]
  /\ dirty' \subseteq Keys /\ failures' \in Nat
  /\ UNCHANGED <<backend, wire, stage, todo, batch, latest, unremoved>>

\* The end of an operation keeps what is known.
LEMMA EndRead ==
  ASSUME ReadInv, NEW p \in Procs, Ends(p)
  PROVE  ReadInv' /\ \A j : Drained(j)' = Drained(j)
<1> USE DEF ReadInv, Ends
<1>1. doing \in [Procs -> Operation] /\ doing' \in [Procs -> Operation]
  BY DEF TypeOK, Operation
<1>2. answer \in [Procs -> Maybe \union {Waiting}] /\ answer' \in [Procs -> Maybe \union {Waiting}]
  BY DEF TypeOK, Maybe
<1>3. TypeOK'
  BY <1>1, <1>2 DEF TypeOK
<1>4. WireInv' /\ \A j : Drained(j)' = Drained(j)
  <2>1. \A q \in Procs : Moves(q)
    BY <1>1, <1>2 DEF Moves
  <2> QED
    BY <2>1, SameWire
<1>5. Staged'
  BY <1>1, ClientsAssumption DEF Staged, Serving, Idle, Procs
<1>6. ReadsLatest'
  BY <1>4 DEF ReadsLatest, Sound, Serving
<1> QED
  BY <1>3, <1>4, <1>5, <1>6

\* A get and a removal end so.
LEMMA GetEnds ==
  ASSUME ReadInv, NEW p \in Procs, GetEnd(p) \/ RemoveEnd(p)
  PROVE  Ends(p) /\ UNCHANGED <<dirty, failures>> /\ doing[p] \in {"get", "remove"}
<1> USE DEF ReadInv
<1>1. /\ Ready(p) /\ doing' = [doing EXCEPT ![p] = "idle"] /\ doing[p] \in {"get", "remove"}
      /\ key' = [key EXCEPT ![p] = Missing]
      /\ UNCHANGED <<dirty, backend, wire, stage, todo, batch, latest, failures, unremoved>>
  BY DEF GetEnd, RemoveEnd, cacheVars, failVars
<1>2. /\ key' \in [Procs -> Keys \union {Missing}] /\ \A q \in Procs \ {p} : key'[q] = key[q]
      /\ dirty' \subseteq Keys /\ failures' \in Nat /\ cache \in [Keys -> Maybe]
      /\ answer \in [Procs -> Maybe \union {Waiting}]
  BY <1>1 DEF TypeOK
<1>3. CASE GetEnd(p)
  <2>1. answer[p] # Missing => answer[p] \in Maybe /\ key[p] \in unremoved
    BY <1>1, <1>2 DEF WireInv, Answered, Ready
  <2>2. cache' \in [Keys -> Maybe] /\ \A k \in Sound : cache'[k] = cache[k]
    BY <1>2, <1>3, <2>1 DEF GetEnd, Sound
  <2> QED
    BY <1>1, <1>2, <1>3, <2>2 DEF Ends, Idle, GetEnd
<1>4. CASE RemoveEnd(p)
  <2>1. answer[p] = Missing
    BY <1>4, NoValue DEF RemoveEnd
  <2>2. answer' = [answer EXCEPT ![p] = Missing] /\ cache' = cache
    BY <1>2, <1>4, <2>1 DEF RemoveEnd, cacheVars
  <2> QED
    BY <1>1, <1>2, <2>2 DEF Ends, Idle
<1> QED
  BY <1>3, <1>4

\* What an interruption of the operation of p, or its answer, leaves alone.
LEMMA ServeFrame ==
  ASSUME ReadInv, Serve \/ Refuse
  PROVE  /\ UNCHANGED <<cache, dirty, stage, latest, unremoved>> /\ wire # <<>>
         /\ \A q \in Procs : /\ doing'[q] = doing[q] \/ doing'[q] = "idle"
                             /\ todo'[q] = todo[q] \/ doing'[q] = "idle"
                             /\ batch'[q] = batch[q] \/ doing'[q] = "idle"
         /\ doing' \in [Procs -> Operation] /\ key' \in [Procs -> Keys \union {Missing}]
         /\ todo' \in [Procs -> SUBSET Keys] /\ batch' \in [Procs -> [Keys -> Maybe]]
         /\ failures' \in Nat /\ failures <= failures'
<1> USE DEF ReadInv
<1>1. /\ doing \in [Procs -> Operation] /\ key \in [Procs -> Keys \union {Missing}]
      /\ todo \in [Procs -> SUBSET Keys] /\ batch \in [Procs -> [Keys -> Maybe]]
      /\ failures \in Nat /\ "idle" \in Operation /\ NothingDone \in [Keys -> Maybe]
  BY DEF TypeOK, Operation, NothingDone, Maybe
<1>2. CASE Serve
  BY <1>1, <1>2 DEF Serve, cacheVars, procVars, failVars
<1>3. CASE Refuse
  <2> DEFINE p == Head(wire).who
  <2>1. /\ UNCHANGED <<cache, dirty, stage, latest, unremoved>> /\ wire # <<>>
        /\ doing' = [q \in Procs |-> IF q = p THEN "idle" ELSE doing[q]]
        /\ key' = [q \in Procs |-> IF q = p THEN Missing ELSE key[q]]
        /\ todo' = [q \in Procs |-> IF q = p THEN {} ELSE todo[q]]
        /\ batch' = [q \in Procs |-> IF q = p THEN NothingDone ELSE batch[q]]
        /\ failures' = failures \/ failures' = failures + 1
    BY <1>3 DEF Refuse, interrupted, cacheVars
  <2> HIDE DEF p
  <2> QED
    BY <1>1, <2>1
<1> QED
  BY <1>2, <1>3

\* The backend serves or refuses a request: what is drained to stays.
LEMMA ServeRead ==
  ASSUME ReadInv, Serve \/ Refuse
  PROVE  ReadInv' /\ \A j \in Keys : Drained(j)' = Drained(j)
<1> USE DEF ReadInv
<1>1. HeadServed
  BY ServeEffect
<1>2. WireInv' /\ answer' \in [Procs -> Maybe \union {Waiting}]
  BY ServeWire
<1>3. TypeOK'
  BY <1>1, <1>2, ServeFrame DEF TypeOK, HeadServed
<1>4. Staged'
  <2>1. Serving /\ stage' = stage
    BY ServeFrame DEF Staged
  <2> QED
    BY <2>1, ServeFrame, ClientsAssumption DEF Staged, Serving, Idle, Procs
<1>5. \A j \in Keys : Drained(j)' = Drained(j)
  BY <1>1 DEF HeadServed
<1>6. ReadsLatest'
  BY <1>5, ServeFrame DEF ReadsLatest, Sound, Serving
<1> QED
  BY <1>2, <1>3, <1>4, <1>5, <1>6

\* A cancelled client is idle, and a key it was removing is not sound.
LEMMA CancelRead ==
  ASSUME ReadInv, NEW p \in Procs, Cancel(p)
  PROVE  /\ ReadInv' /\ \A j : Drained(j)' = Drained(j)
         /\ UNCHANGED <<cache, dirty, backend, stage, latest>> /\ unremoved \subseteq unremoved'
         /\ doing'[p] = "idle" /\ ~Idle(p)
         /\ \A q \in Procs \ {p} : UNCHANGED <<doing[q], todo[q], batch[q]>>
         /\ failures' = IF Flushing(p) THEN failures + 1 ELSE failures
<1> USE DEF ReadInv
<1>1. /\ UNCHANGED <<cache, dirty, backend, stage, latest>>
      /\ doing' = [q \in Procs |-> IF q = p THEN "idle" ELSE doing[q]]
      /\ key' = [q \in Procs |-> IF q = p THEN Missing ELSE key[q]]
      /\ todo' = [q \in Procs |-> IF q = p THEN {} ELSE todo[q]]
      /\ batch' = [q \in Procs |-> IF q = p THEN NothingDone ELSE batch[q]]
      /\ answer' = [q \in Procs |-> IF q = p THEN Missing ELSE answer[q]]
      /\ failures' = IF Flushing(p) THEN failures + 1 ELSE failures
      /\ unremoved' = IF doing[p] = "remove" THEN unremoved \union {key[p]} ELSE unremoved
      /\ ~Ready(p)
  BY DEF Cancel, interrupted, cacheVars
<1>2. ~Idle(p)
  BY <1>1 DEF WireInv, Answered
<1>3. WireInv' /\ wire' \in Seq(Requests) /\ \A j : Drained(j)' = Drained(j)
  BY CancelWire
<1>4. unremoved \subseteq unremoved' /\ unremoved' \subseteq Keys
  BY <1>1 DEF WireInv, GetKeys, TypeOK
<1>5. TypeOK'
  <2>1. NothingDone \in [Keys -> Maybe] /\ "idle" \in Operation /\ Missing \in Maybe
    BY DEF NothingDone, Maybe, Operation
  <2> QED
    BY <1>1, <1>3, <1>4, <2>1 DEF TypeOK
<1>6. Staged'
  BY <1>1, <1>2, ClientsAssumption DEF Staged, Serving, Idle, Procs
<1>7. ReadsLatest'
  BY <1>1, <1>3, <1>4 DEF ReadsLatest, Sound, Serving
<1> QED
  BY <1>1, <1>2, <1>3, <1>4, <1>5, <1>6, <1>7

\* The layer begins to stop.
LEMMA StopRead ==
  ASSUME ReadInv, Stop
  PROVE  ReadInv' /\ \A j : Drained(j)' = Drained(j)
<1> USE DEF ReadInv
<1>1. /\ UNCHANGED <<cache, dirty, backend, wire, key, batch, answer, latest, failures, unremoved>>
      /\ stage = "running" /\ stage' = "stopping" /\ Idle(Stopper) /\ Stopper \in Procs
  BY DEF Stop, cacheVars, failVars, Staged, Procs
<1>2. /\ doing' \in [Procs -> Operation] /\ todo' \in [Procs -> SUBSET Keys]
      /\ \A q \in Clients : doing'[q] = doing[q]
      /\ doing'[Stopper] \in {"idle", "flush"}
  BY <1>1, ClientsAssumption DEF Stop, TypeOK, Operation, Procs
<1>3. WireInv' /\ \A j : Drained(j)' = Drained(j)
  <2>1. answer[Stopper] = Missing /\ Ready(Stopper)
    BY <1>1, NoValue DEF WireInv, Answered, Idle
  <2>2. \A q \in Procs : Moves(q)
    BY <1>1, <1>2, <2>1 DEF Moves, Procs
  <2> QED
    BY <1>1, <2>2, SameWire
<1>4. TypeOK'
  BY <1>1, <1>2 DEF TypeOK, Stage
<1>5. Staged'
  BY <1>1, <1>2 DEF Staged, Stop, Serving, Idle
<1>6. ReadsLatest'
  BY <1>1, <1>3 DEF ReadsLatest, Sound, Serving
<1> QED
  BY <1>3, <1>4, <1>5, <1>6

\* The layer has stopped: nothing is under way.
LEMMA StoppedRead ==
  ASSUME ReadInv, Stopped
  PROVE  ReadInv' /\ wire = <<>> /\ \A j : Drained(j)' = Drained(j)
<1> USE DEF ReadInv
<1>1. /\ UNCHANGED <<cache, dirty, backend, wire, doing, key, todo, batch, answer, latest,
                     failures, unremoved>>
      /\ stage' = "stopped" /\ (\A p \in Procs : Idle(p)) /\ wire = <<>>
  BY DEF Stopped, cacheVars, procVars, failVars
<1>2. WireInv' /\ \A j : Drained(j)' = Drained(j)
  <2>1. \A q \in Procs : Moves(q)
    BY <1>1 DEF Moves
  <2> QED
    BY <1>1, <2>1, SameWire
<1>3. TypeOK'
  BY <1>1 DEF TypeOK, Stage
<1>4. Staged'
  BY <1>1 DEF Staged, Serving, Idle, Procs
<1>5. ReadsLatest'
  BY <1>1 DEF ReadsLatest, Serving
<1> QED
  BY <1>1, <1>2, <1>3, <1>4, <1>5

\* A crash empties the cache and drops what is under way.
LEMMA CrashRead ==
  ASSUME ReadInv, Crash
  PROVE  ReadInv'
<1> USE DEF ReadInv
<1>1. /\ stage' = "crashed" /\ cache' = NothingDone /\ dirty' = {} /\ wire' = <<>>
      /\ doing' = [p \in Procs |-> "idle"] /\ answer' = [p \in Procs |-> Missing]
      /\ key' = [p \in Procs |-> Missing] /\ todo' = [p \in Procs |-> {}]
      /\ batch' = [p \in Procs |-> NothingDone]
      /\ UNCHANGED <<backend, latest, failures, unremoved>>
  BY DEF Crash, failVars
<1>2. WireInv'
  BY <1>1, NoWire
<1>3. TypeOK'
  <2>1. wire' \in Seq(Requests)
    BY <1>1
  <2> QED
    BY <1>1, <2>1 DEF TypeOK, Stage, Operation, Maybe, NothingDone
<1>4. Staged'
  BY <1>1 DEF Staged, Serving, Idle, Procs
<1>5. ReadsLatest'
  BY <1>1 DEF ReadsLatest, Serving
<1> QED
  BY <1>2, <1>3, <1>4, <1>5

\* A start loads the cache from the backend.
LEMMA loadRead ==
  ASSUME ReadInv, load
  PROVE  ReadInv' /\ wire = <<>> /\ \A j : Drained(j)' = backend[j]
<1> USE DEF ReadInv
<1>1. /\ stage' = "running" /\ cache' = backend /\ dirty' = {} /\ latest' = backend
      /\ failures' = 0 /\ unremoved' = {}
      /\ UNCHANGED <<backend, wire, doing, key, todo, batch, answer>>
      /\ ~Serving
  BY DEF load, procVars, Serving
<1>2. wire = <<>> /\ \A p \in Procs : Idle(p)
  BY <1>1 DEF Staged
<1>3. WireInv' /\ \A j : Drained(j)' = backend'[j]
  <2>1. \A q \in Procs : answer[q] = Missing /\ doing[q] = "idle"
    BY <1>2, NoValue DEF WireInv, Answered, Idle
  <2> QED
    BY <1>1, <1>2, <2>1, NoWire
<1>4. \A j : Drained(j)' = backend[j]
  BY <1>1, <1>3
<1>5. TypeOK'
  BY <1>1 DEF TypeOK, Stage
<1>6. Staged'
  BY <1>1, <1>2 DEF Staged, Serving, Idle, Procs
<1>7. ReadsLatest'
  BY <1>1, <1>4 DEF ReadsLatest, Sound
<1> QED
  BY <1>2, <1>3, <1>4, <1>5, <1>6, <1>7

\* The steps both layers share keep what reads see.
LEMMA CommonRead ==
  ASSUME ReadInv, Common
  PROVE  ReadInv'
<1>1. ASSUME NEW p \in Clients, NEW k \in Keys, stage = "stopping" => ~QuietStop,
             GetMiss(p, k) \/ Remove(p, k) \/ \E v \in Values : Set(p, k, v)
      PROVE  ReadInv'
  BY <1>1, GetMissRead, RemoveRead, SetRead
<1>2. ASSUME NEW p \in Procs, GetEnd(p) \/ RemoveEnd(p) \/ Cancel(p)
      PROVE  ReadInv'
  BY <1>2, GetEnds, EndRead, CancelRead
<1> QED
  BY <1>1, <1>2, ServeRead, StopRead, StoppedRead, CrashRead, loadRead DEF Common

\* A step that changes nothing.
LEMMA StutterRead ==
  ASSUME ReadInv, UNCHANGED vars
  PROVE  ReadInv' /\ \A j : Drained(j)' = Drained(j)
<1> USE DEF ReadInv
<1>1. UNCHANGED <<cache, dirty, backend, wire, stage, doing, key, todo, batch, answer, latest,
                  failures, unremoved>>
  BY DEF vars, cacheVars, procVars, failVars
<1>2. WireInv' /\ \A j : Drained(j)' = Drained(j)
  <2>1. \A q \in Procs : Moves(q)
    BY <1>1 DEF Moves
  <2> QED
    BY <1>1, <2>1, SameWire
<1>3. TypeOK' /\ Staged'
  BY <1>1 DEF TypeOK, Staged, Serving, Idle
<1>4. ReadsLatest'
  BY <1>1, <1>2 DEF ReadsLatest, Sound, Serving
<1> QED
  BY <1>2, <1>3, <1>4
-----------------------------------------------------------------------------
(* With one client that sets, and a shutdown that waits for the clients,   *)
(* no step that both layers have forgets an update, leaves too many dirty  *)
(* keys, or ends the process before everything is stored.                  *)
LEMMA WriteInit == Init => WriteInv
<1> SUFFICES ASSUME Init
             PROVE  WriteInv
  OBVIOUS
<1>1. \A k : Drained(k) = backend[k]
  BY DrainedEmpty DEF Init
<1>2. NothingForgotten
  BY <1>1 DEF NothingForgotten, Init, Sound
<1>3. DirtyBounded
  <2>1. IsFiniteSet({}) /\ Cardinality({}) = 0
    BY FS_EmptySet
  <2> QED
    BY <2>1, BoundsAssumption DEF DirtyBounded, Init
<1> QED
  BY <1>2, <1>3 DEF WriteInv, Flushers, Flushing, StopFlushes, Init

\* A step that changes no key, value or operation that concerns a flush.
LEMMA SameWrite ==
  ASSUME WriteInv, UNCHANGED <<dirty, latest, stage, failures>>, unremoved \subseteq unremoved',
         stage = "stopped" => backend' = backend,
         \A q \in Procs : Flushing(q)' = Flushing(q),
         \A j \in Keys : Drained(j)' = Drained(j)
  PROVE  WriteInv'
<1> USE DEF WriteInv
<1>1. Flushers' /\ DirtyBounded'
  BY DEF Flushers, DirtyBounded
<1>2. NothingForgotten'
  BY DEF NothingForgotten, Serving, Sound
<1>3. StopFlushes'
  BY DEF StopFlushes, Procs, Sound
<1> QED
  BY <1>1, <1>2, <1>3

\* With one client that sets, nobody flushes when it begins to set.
LEMMA NoFlusher ==
  ASSUME SoleSetter, ReadInv, WriteInv, NEW p \in Setters, Idle(p), stage # "stopping"
  PROVE  \A q \in Procs : ~ Flushing(q)
<1>1. ~ Flushing(p) /\ ~ Flushing(Stopper)
  BY DEF Idle, Flushing, ReadInv, Staged
<1> QED
  BY <1>1 DEF WriteInv, Flushers, SoleSetter

\* A flush that fails is counted; what else the backend serves or refuses
\* is no flush.
LEMMA ServeFlush ==
  ASSUME ReadInv, Serve \/ Refuse
  PROVE  \/ failures' = failures + 1 /\ \A q \in Procs : Flushing(q)' => Flushing(q)
         \/ failures' = failures /\ \A q \in Procs : Flushing(q)' = Flushing(q)
<1>1. CASE Serve
  BY <1>1 DEF Serve, procVars, failVars, Flushing
<1>2. CASE Refuse
  <2> DEFINE p == Head(wire).who
  <2>1. /\ doing' = [q \in Procs |-> IF q = p THEN "idle" ELSE doing[q]]
        /\ failures' = IF p \in Procs /\ Flushing(p) THEN failures + 1 ELSE failures
    BY <1>2 DEF Refuse, interrupted
  <2> HIDE DEF p
  <2>2. \A q \in Procs : Flushing(q)' <=> Flushing(q) /\ q # p
    BY <2>1 DEF Flushing
  <2>3. CASE p \in Procs /\ Flushing(p)
    BY <2>1, <2>2, <2>3
  <2>4. CASE ~ (p \in Procs /\ Flushing(p))
    BY <2>1, <2>2, <2>4 DEF Flushing
  <2> QED
    BY <2>3, <2>4
<1> QED
  BY <1>1, <1>2

\* The dirty set stays as it is when a flush fails.
LEMMA FailedWrite ==
  ASSUME ReadInv, WriteInv, UNCHANGED <<dirty, latest, stage>>, unremoved \subseteq unremoved',
         Serving, failures' = failures + 1,
         \A q \in Procs : Flushing(q)' => Flushing(q),
         \A j \in Keys : Drained(j)' = Drained(j)
  PROVE  WriteInv'
<1> USE DEF WriteInv
<1>1. failures \in Nat
  BY DEF ReadInv, TypeOK
<1>2. DirtyBounded'
  <2>1. IsFiniteSet(dirty) /\ Cardinality(dirty) \in Nat
    BY FS_CardinalityType DEF DirtyBounded
  <2>2. Cardinality(dirty) <= FlushThreshold + failures
    BY DEF DirtyBounded
  <2>3. Cardinality(dirty) < FlushThreshold + failures'
    BY <1>1, <2>1, <2>2, BoundsAssumption
  <2>4. Cardinality(dirty) <= FlushThreshold + failures'
    BY <1>1, <2>1, <2>2, BoundsAssumption
  <2> QED
    BY <2>1, <2>3, <2>4 DEF DirtyBounded
<1>3. Flushers' /\ NothingForgotten'
  BY DEF Flushers, NothingForgotten, Serving, Sound
<1>4. StopFlushes'
  BY <1>1 DEF StopFlushes, Serving
<1> QED
  BY <1>2, <1>3, <1>4

\* set leaves one more dirty key, and then flushes if there are too many.
LEMMA SetWrite ==
  ASSUME SoleSetter, ReadInv, WriteInv, stage # "stopping",
         NEW p \in Clients, NEW k \in Keys, NEW v \in Values, Set(p, k, v)
  PROVE  WriteInv'
<1> USE DEF WriteInv
<1>0. /\ doing \in [Procs -> Operation] /\ Clients \subseteq Procs
      /\ latest \in [Keys -> Maybe] /\ failures \in Nat
  BY DEF ReadInv, TypeOK, Procs
<1>1. \A j : Drained(j)' = Drained(j)
  BY SetRead
<1>2. /\ dirty' = dirty \union {k} /\ Serving /\ latest' = [latest EXCEPT ![k] = v]
      /\ p \in Setters /\ Idle(p) /\ UNCHANGED <<stage, failures, unremoved>>
  BY DEF Set, failVars
<1>3. \A q \in Procs : ~ Flushing(q)
  BY <1>2, NoFlusher
<1>4. NothingForgotten' /\ StopFlushes'
  BY <1>0, <1>1, <1>2 DEF NothingForgotten, StopFlushes, Serving, Sound
<1>5. IsFiniteSet(dirty') /\ Cardinality(dirty') \in Nat
      /\ Cardinality(dirty') <= FlushThreshold + failures
  <2>1. IsFiniteSet(dirty) /\ Cardinality(dirty) < FlushThreshold + failures
    BY <1>3 DEF DirtyBounded
  <2>2. /\ IsFiniteSet(dirty')
        /\ Cardinality(dirty') = Cardinality(dirty) \/ Cardinality(dirty') = Cardinality(dirty) + 1
    BY <1>2, <2>1, FS_AddElement
  <2>3. Cardinality(dirty) \in Nat
    BY <2>1, FS_CardinalityType
  <2> QED
    BY <1>0, <2>1, <2>2, <2>3, BoundsAssumption
<1>6. CASE Cardinality(dirty') >= FlushThreshold
  <2>1. doing' = [doing EXCEPT ![p] = "flush"]
    BY <1>6 DEF Set
  <2>2. Flushing(p)' /\ \A q \in Procs \ {p} : Flushing(q)' = Flushing(q)
    BY <1>0, <2>1 DEF Flushing
  <2>3. Flushers' /\ DirtyBounded'
    BY <1>0, <1>2, <1>3, <1>5, <2>2 DEF Flushers, DirtyBounded
  <2> QED
    BY <1>4, <2>3
<1>7. CASE ~ (Cardinality(dirty') >= FlushThreshold)
  <2>1. UNCHANGED <<doing, todo>>
    BY <1>7 DEF Set
  <2>2. Cardinality(dirty') < FlushThreshold + failures
    BY <1>0, <1>5, <1>7, BoundsAssumption
  <2>3. Flushers' /\ DirtyBounded'
    BY <1>2, <1>5, <2>1, <2>2 DEF Flushers, Flushing, DirtyBounded
  <2> QED
    BY <1>4, <2>3
<1> QED
  BY <1>6, <1>7

\* remove leaves one dirty key less.
LEMMA RemoveWrite ==
  ASSUME ReadInv, WriteInv, stage # "stopping",
         NEW p \in Clients, NEW k \in Keys, Remove(p, k)
  PROVE  WriteInv'
<1> USE DEF WriteInv
<1>0. doing \in [Procs -> Operation] /\ p \in Procs /\ latest \in [Keys -> Maybe] /\ failures \in Nat
  BY DEF ReadInv, TypeOK, Procs
<1>1. RemoveDrains(k)
  BY RemoveRead
<1>2. \A q \in Procs : Flushing(q)' = Flushing(q)
  BY <1>0 DEF Remove, Flushing, Idle
<1>3. /\ dirty' = dirty \ {k} /\ Serving /\ latest' = [latest EXCEPT ![k] = Missing]
      /\ UNCHANGED <<stage, failures>>
  BY DEF Remove
<1>4. NothingForgotten'
  BY <1>0, <1>1, <1>3 DEF NothingForgotten, RemoveDrains, Serving, Sound
<1>5. DirtyBounded'
  <2>1. IsFiniteSet(dirty') /\ Cardinality(dirty') <= Cardinality(dirty)
    BY <1>3, FS_Subset DEF DirtyBounded
  <2>2. Cardinality(dirty) \in Nat /\ Cardinality(dirty') \in Nat
    BY <2>1, FS_CardinalityType DEF DirtyBounded
  <2> QED
    BY <1>0, <1>2, <1>3, <2>1, <2>2, BoundsAssumption DEF DirtyBounded
<1>6. Flushers' /\ StopFlushes'
  BY <1>2, <1>3 DEF Flushers, StopFlushes, Serving
<1> QED
  BY <1>4, <1>5, <1>6

\* The last flush begins, or has nothing to do.
LEMMA StopWrite ==
  ASSUME ReadInv, WriteInv, Stop
  PROVE  WriteInv'
<1> USE DEF WriteInv
<1>0. doing \in [Procs -> Operation] /\ Stopper \in Procs
  BY DEF ReadInv, TypeOK, Procs
<1>1. \A j : Drained(j)' = Drained(j)
  BY StopRead
<1>2. /\ UNCHANGED <<dirty, latest, backend, failures, unremoved>>
      /\ stage = "running" /\ stage' = "stopping"
      /\ doing' = [doing EXCEPT ![Stopper] = IF dirty = {} THEN "idle" ELSE "flush"]
      /\ Idle(Stopper)
  BY DEF Stop, cacheVars, failVars, ReadInv, Staged
<1>3. /\ Flushing(Stopper)' = (dirty # {})
      /\ ~ Flushing(Stopper)
      /\ \A q \in Procs \ {Stopper} : Flushing(q)' = Flushing(q)
  BY <1>0, <1>2 DEF Flushing, Idle
<1>4. NothingForgotten' /\ StopFlushes'
  BY <1>1, <1>2, <1>3 DEF NothingForgotten, StopFlushes, Serving, Sound
<1>5. Flushers' /\ DirtyBounded'
  BY <1>0, <1>2, <1>3 DEF Flushers, DirtyBounded
<1> QED
  BY <1>4, <1>5

\* What a stopped process leaves is stored.
LEMMA StoppedWrite ==
  ASSUME ReadInv, WriteInv, Stopped
  PROVE  WriteInv'
<1> USE DEF WriteInv
<1>1. wire = <<>>
  BY StoppedRead
<1>2. /\ UNCHANGED <<dirty, latest, backend, doing, failures, unremoved>>
      /\ stage = "stopping" /\ stage' = "stopped" /\ Idle(Stopper)
  BY DEF Stopped, cacheVars, procVars, failVars, Procs
<1>3. dirty = {} \/ failures # 0
  BY <1>2 DEF StopFlushes, Flushing, Idle
<1>4. failures # 0 \/ \A k \in Sound : latest[k] = backend[k]
  BY <1>1, <1>2, <1>3, DrainedEmpty DEF NothingForgotten, Serving
<1>5. StopFlushes' /\ NothingForgotten'
  BY <1>2, <1>4 DEF StopFlushes, NothingForgotten, Serving, Sound
<1>6. Flushers' /\ DirtyBounded'
  BY <1>2 DEF Flushers, Flushing, DirtyBounded
<1> QED
  BY <1>5, <1>6

\* A dead process promises nothing, and a new one has nothing dirty.
LEMMA RestartWrite ==
  ASSUME ReadInv, WriteInv, Crash \/ load
  PROVE  WriteInv'
<1>1. IsFiniteSet({}) /\ Cardinality({}) = 0
  BY FS_EmptySet
<1>2. failures \in Nat
  BY DEF ReadInv, TypeOK
<1>3. CASE Crash
  <2>1. /\ stage' = "crashed" /\ dirty' = {} /\ doing' = [p \in Procs |-> "idle"]
        /\ failures' = failures
    BY <1>3 DEF Crash, failVars
  <2> QED
    BY <1>1, <1>2, <2>1, BoundsAssumption
       DEF WriteInv, NothingForgotten, StopFlushes, Serving, Flushers, Flushing, DirtyBounded
<1>4. CASE load
  <2>1. \A j : Drained(j)' = backend[j]
    BY <1>4, loadRead
  <2>2. /\ stage' = "running" /\ dirty' = {} /\ doing' = doing /\ latest' = backend
        /\ failures' = 0
    BY <1>4 DEF load, procVars
  <2> QED
    BY <1>1, <2>1, <2>2, BoundsAssumption
       DEF WriteInv, NothingForgotten, StopFlushes, Serving, Flushers, Flushing, DirtyBounded
<1> QED
  BY <1>3, <1>4

\* The steps both layers share keep what writes promise.
LEMMA CommonWrite ==
  ASSUME SoleSetter, QuietStop, ReadInv, WriteInv, Common
  PROVE  WriteInv'
<1>0. doing \in [Procs -> Operation] /\ Clients \subseteq Procs
  BY DEF ReadInv, TypeOK, Procs
<1>1. ASSUME NEW p \in Clients, NEW k \in Keys, GetMiss(p, k), stage # "stopping"
      PROVE  WriteInv'
  <2>1. \A j : Drained(j)' = Drained(j)
    BY <1>1, GetMissRead
  <2>2. \A q \in Procs : Flushing(q)' = Flushing(q)
    BY <1>0, <1>1 DEF GetMiss, Flushing, Idle
  <2>3. UNCHANGED <<dirty, latest, stage, backend, failures, unremoved>>
    BY <1>1 DEF GetMiss, cacheVars, failVars
  <2> QED
    BY <2>1, <2>2, <2>3, SameWrite
<1>2. ASSUME NEW p \in Procs, GetEnd(p) \/ RemoveEnd(p)
      PROVE  WriteInv'
  <2>1. Ends(p) /\ UNCHANGED <<dirty, failures>> /\ doing[p] \in {"get", "remove"}
    BY <1>2, GetEnds
  <2>2. \A j : Drained(j)' = Drained(j)
    BY <2>1, EndRead
  <2>3. /\ doing' = [doing EXCEPT ![p] = "idle"]
        /\ UNCHANGED <<latest, stage, backend, unremoved>>
    BY <2>1 DEF Ends
  <2>4. \A q \in Procs : Flushing(q)' = Flushing(q)
    BY <1>0, <2>1, <2>3 DEF Flushing
  <2> QED
    BY <2>1, <2>2, <2>3, <2>4, SameWrite
<1>3. ASSUME NEW p \in Procs, Cancel(p)
      PROVE  WriteInv'
  <2>1. /\ \A j : Drained(j)' = Drained(j)
        /\ UNCHANGED <<cache, dirty, backend, stage, latest>> /\ unremoved \subseteq unremoved'
        /\ doing'[p] = "idle" /\ ~Idle(p)
        /\ \A q \in Procs \ {p} : doing'[q] = doing[q]
        /\ failures' = IF Flushing(p) THEN failures + 1 ELSE failures
    BY <1>3, CancelRead
  <2>2. \A q \in Procs : Flushing(q)' <=> Flushing(q) /\ q # p
    BY <2>1 DEF Flushing
  <2>3. Serving
    BY <2>1 DEF ReadInv, Staged
  <2>4. CASE Flushing(p)
    BY <2>1, <2>2, <2>3, <2>4, FailedWrite
  <2>5. CASE ~ Flushing(p)
    <3>1. \A q \in Procs : Flushing(q)' = Flushing(q)
      BY <2>2, <2>5 DEF Flushing
    <3> QED
      BY <2>1, <2>5, <3>1, SameWrite
  <2> QED
    BY <2>4, <2>5
<1>4. CASE Serve \/ Refuse
  <2>1. \A j \in Keys : Drained(j)' = Drained(j)
    BY <1>4, ServeRead
  <2>2. UNCHANGED <<dirty, latest, stage, unremoved>> /\ wire # <<>>
    BY <1>4, ServeFrame
  <2>3. Serving
    BY <2>2 DEF ReadInv, Staged
  <2>4. CASE failures' = failures + 1 /\ \A q \in Procs : Flushing(q)' => Flushing(q)
    BY <2>1, <2>2, <2>3, <2>4, FailedWrite
  <2>5. CASE failures' = failures /\ \A q \in Procs : Flushing(q)' = Flushing(q)
    <3>1. stage # "stopped"
      BY <2>3 DEF Serving
    <3> QED
      BY <2>1, <2>2, <2>5, <3>1, SameWrite
  <2> QED
    BY <1>4, <2>4, <2>5, ServeFlush
<1> QED
  BY <1>1, <1>2, <1>3, <1>4, SetWrite, RemoveWrite, StopWrite, StoppedWrite, RestartWrite DEF Common

(* While nothing is under way, what is not stored is dirty.                *)
LEMMA AtRisk ==
  ASSUME ReadInv, WriteInv
  PROVE  AtRiskBounded
<1> SUFFICES ASSUME Serving, \A p \in Procs : Idle(p), wire = <<>>
             PROVE  Cardinality({k \in Sound : latest[k] # backend[k]}) < FlushThreshold + failures
  BY DEF AtRiskBounded
<1> DEFINE R == {k \in Sound : latest[k] # backend[k]}
<1>1. R \subseteq dirty
  BY DrainedEmpty DEF WriteInv, NothingForgotten
<1>2. IsFiniteSet(dirty) /\ Cardinality(dirty) < FlushThreshold + failures
  BY DEF WriteInv, DirtyBounded, Flushing, Idle
<1> HIDE DEF R
<1>3. IsFiniteSet(R) /\ Cardinality(R) <= Cardinality(dirty)
  BY <1>1, <1>2, FS_Subset
<1>4. Cardinality(R) \in Nat /\ Cardinality(dirty) \in Nat /\ failures \in Nat
  BY <1>2, <1>3, FS_CardinalityType DEF ReadInv, TypeOK
<1>5. Cardinality(R) < FlushThreshold + failures
  BY <1>2, <1>3, <1>4, BoundsAssumption
<1> QED
  BY <1>5 DEF R
-----------------------------------------------------------------------------
\* A process that waits for nothing is not refused anything.
LEMMA ReadyNotDoomed ==
  ASSUME WireInv, NEW p \in Procs, Ready(p)
  PROVE  ~ Doomed(p)
BY NobodyElse DEF WireInv, WireWaits, Doomed, Ready

\* A new request leaves the others as they are.
LEMMA RequestDooms ==
  ASSUME Len(wire) \in Nat, NEW p, NEW op, NEW k, NEW v, Requested(p, op, k, v)
  PROVE  /\ \A q : Doomed(q) => Doomed(q)'
         /\ op = "refused" => Doomed(p)'
<1>1. ASSUME NEW q, NEW i \in 1..Len(wire), wire[i].who = q, wire[i].op = "refused"
      PROVE  Doomed(q)'
  <2>1. i \in 1..Len(wire') /\ wire'[i] = wire[i]
    BY DEF Requested
  <2> QED
    BY <1>1, <2>1 DEF Doomed
<1>2. ASSUME op = "refused"
      PROVE  Doomed(p)'
  <2>1. Len(wire) + 1 \in 1..Len(wire')
    BY DEF Requested
  <2>2. wire'[Len(wire) + 1].who = p /\ wire'[Len(wire) + 1].op = "refused"
    BY <1>2 DEF Requested
  <2> QED
    BY <2>1, <2>2 DEF Doomed
<1> QED
  BY <1>1, <1>2 DEF Doomed

\* A flush whose request will be refused ends when it is.
LEMMA CommonDooms ==
  ASSUME ReadInv, Common, NEW q \in Procs, Doomed(q), Flushing(q)'
  PROVE  Doomed(q)'
<1> USE DEF ReadInv
<1>0. Len(wire) \in Nat /\ wire \in Seq(Requests) /\ Missing \in Maybe /\ Clients \subseteq Procs
  BY WireTypes DEF TypeOK, Maybe, Procs
<1>1. PICK i \in 1..Len(wire) : wire[i].who = q /\ wire[i].op = "refused"
  BY DEF Doomed
<1>2. ASSUME NEW p \in Clients, NEW k \in Keys, GetMiss(p, k) \/ Remove(p, k)
      PROVE  Doomed(q)'
  <2>1. PICK op \in {"get", "remove", "refused"} : request(p, op, k, Missing)
    BY <1>2 DEF GetMiss, Remove, attempt
  <2>2. Requested(p, op, k, Missing)
    BY <1>0, <1>2, <2>1, RequestEffect DEF GetMiss, Remove
  <2> QED
    BY <1>0, <2>2, RequestDooms
<1>3. ASSUME wire' = wire
      PROVE  Doomed(q)'
  BY <1>3 DEF Doomed
<1>4. CASE Serve \/ Refuse
  <2>1. HeadServed
    BY <1>4, ServeEffect
  <2>2. i # 1
    <3>1. CASE Serve
      BY <1>1, <2>1, <3>1 DEF Serve, HeadServed
    <3>2. CASE Refuse
      <4>1. doing' = [r \in Procs |-> IF r = Head(wire).who THEN "idle" ELSE doing[r]]
        BY <3>2 DEF Refuse, interrupted
      <4>2. q # Head(wire).who
        BY <4>1 DEF Flushing
      <4> QED
        BY <1>1, <2>1, <4>2 DEF HeadServed
    <3> QED
      BY <1>4, <3>1, <3>2
  <2>3. i - 1 \in 1..Len(wire') /\ (i - 1) + 1 = i
    BY <1>0, <2>1, <2>2 DEF HeadServed
  <2>4. wire'[i - 1] = wire[i]
    BY <2>1, <2>3 DEF HeadServed
  <2> QED
    BY <1>1, <2>3, <2>4 DEF Doomed
<1>5. ASSUME NEW p \in Procs, Cancel(p)
      PROVE  Doomed(q)'
  <2>1. doing'[p] = "idle"
    BY <1>5, CancelRead
  <2>2. q # p
    BY <2>1 DEF Flushing
  <2>3. /\ Len(wire') = Len(wire) /\ wire'[i].op = wire[i].op
        /\ wire'[i].who = IF wire[i].who = p THEN Nobody ELSE wire[i].who
    BY <1>5, CancelWire
  <2> QED
    BY <1>1, <2>2, <2>3 DEF Doomed
<1>6. CASE Crash
  BY <1>6 DEF Crash, Flushing
<1> QED
  BY <1>2, <1>3, <1>4, <1>5, <1>6 DEF Common, Set, GetEnd, RemoveEnd, Stop, Stopped, load

\* What a request of a flush does, if it is not refused.
Attempted(p, op, k, v) ==
  /\ WireInv' /\ wire' \in Seq(Requests) /\ answer' \in [Procs -> Maybe \union {Waiting}]
  /\ \A q : Doomed(q) => Doomed(q)'
  /\ \/ \A j : Drained(j)' = IF j = k THEN (IF op = "set" THEN v ELSE Missing) ELSE Drained(j)
     \/ Doomed(p)' /\ \A j : Drained(j)' = Drained(j)

\* A flush sets or removes a key in the backend.
LEMMA AttemptEffect ==
  ASSUME TypeOK, WireInv, NEW p \in Procs, Ready(p), Flushing(p),
         NEW op \in {"set", "remove"}, NEW k \in Keys, NEW v \in Maybe, attempt(p, op, k, v),
         UNCHANGED <<backend, doing, key, unremoved>>
  PROVE  Attempted(p, op, k, v)
<1>1. PICK o \in {op, "refused"} : request(p, o, k, v)
  BY DEF attempt
<1>2. Requested(p, o, k, v) /\ Len(wire) \in Nat
  BY <1>1, RequestEffect, WireTypes
<1>3. WireInv'
  <2>1. OthersStay(p) /\ doing'[p] # "idle" /\ doing'[p] \notin {"get", "remove"}
    BY DEF OthersStay, Flushing
  <2> QED
    BY <1>1, <2>1, RequestWire
<1>4. /\ wire' \in Seq(Requests) /\ answer' \in [Procs -> Maybe \union {Waiting}]
      /\ \A j : Drained(j)' = IF j = k /\ o = "set" THEN v
                              ELSE IF j = k /\ o = "remove" THEN Missing ELSE Drained(j)
  BY <1>2 DEF Requested
<1>5. (\A q : Doomed(q) => Doomed(q)') /\ (o = "refused" => Doomed(p)')
  BY <1>2, RequestDooms
<1>6. CASE o = "refused"
  BY <1>3, <1>4, <1>5, <1>6 DEF Attempted
<1>7. CASE o = op
  BY <1>3, <1>4, <1>5, <1>7 DEF Attempted
<1> QED
  BY <1>6, <1>7
-----------------------------------------------------------------------------
(* CacheLayer: what it shares is what this module calls so.                *)
LEMMA ListCommon ==
  ASSUME List!Common
  PROVE  Common
<1>1. \A p \in Clients, k \in Keys : List!GetMiss(p, k) <=> GetMiss(p, k)
  <2> TAKE p \in Clients, k \in Keys
  <2>1. List!attempt(p, "get", k, Missing) <=> attempt(p, "get", k, Missing)
    BY DEF List!attempt, attempt, List!request, request
  <2> QED
    BY <2>1 DEF List!GetMiss, GetMiss, List!Serving, Serving, List!Idle, Idle,
                List!cacheVars, cacheVars, List!failVars, failVars
<1>2. \A p \in Clients, k \in Keys : \A v \in Values : List!Set(p, k, v) <=> Set(p, k, v)
  BY DEF List!Set, Set, List!Cardinality, Cardinality, List!Serving, Serving, List!Idle, Idle,
         List!failVars, failVars
<1>3. \A p \in Clients, k \in Keys : List!Remove(p, k) <=> Remove(p, k)
  BY DEF List!Remove, Remove, List!Serving, Serving, List!Idle, Idle,
         List!request, request
<1>4. \A p \in Procs : (List!GetEnd(p) <=> GetEnd(p)) /\ (List!RemoveEnd(p) <=> RemoveEnd(p))
  BY DEF List!GetEnd, GetEnd, List!RemoveEnd, RemoveEnd, List!Ready, Ready,
         List!cacheVars, cacheVars, List!failVars, failVars
<1>5. \A p : List!interrupted(p) <=> interrupted(p)
  BY DEF List!interrupted, interrupted, List!NothingDone, NothingDone, List!Procs, Procs,
         List!Flushing, Flushing
<1>6. \A p \in Procs : List!Cancel(p) <=> Cancel(p)
  <2> TAKE p \in Procs
  <2>1. List!interrupted(p) <=> interrupted(p)
    BY <1>5
  <2>2. List!Cardinality({i \in DOMAIN wire : wire[i].who = Nobody})
          = Cardinality({i \in DOMAIN wire : wire[i].who = Nobody})
    BY DEF List!Cardinality, Cardinality
  <2>3. (List!Ready(p) <=> Ready(p)) /\ (List!Flushing(p) <=> Flushing(p))
    BY DEF List!Ready, Ready, List!Flushing, Flushing
  <2> QED
    BY <2>1, <2>2, <2>3 DEF List!Cancel, Cancel, List!cacheVars, cacheVars
<1>7. List!Serve <=> Serve
  BY DEF List!Serve, Serve, List!cacheVars, cacheVars, List!procVars, procVars,
         List!failVars, failVars, List!Procs, Procs
<1>8. List!Refuse <=> Refuse
  <2> DEFINE h == Head(wire).who
  <2>1. List!interrupted(h) <=> interrupted(h)
    BY <1>5
  <2> QED
    BY <2>1, Zenon DEF List!Refuse, Refuse, List!cacheVars, cacheVars
<1>9. List!Stop <=> Stop
  BY DEF List!Stop, Stop, List!Idle, Idle, List!cacheVars, cacheVars, List!failVars, failVars
<1>10. List!Stopped <=> Stopped
  BY DEF List!Stopped, Stopped, List!Idle, Idle, List!Procs, Procs,
         List!cacheVars, cacheVars, List!procVars, procVars, List!failVars, failVars
<1>11. List!Crash <=> Crash
  BY DEF List!Crash, Crash, List!Serving, Serving, List!NothingDone,
         NothingDone, List!Procs, Procs, List!failVars, failVars
<1>12. List!load <=> load
  BY DEF List!load, load, List!procVars, procVars
<1>13. List!Procs = Procs
  BY DEF List!Procs, Procs
<1> QED
  BY <1>1, <1>2, <1>3, <1>4, <1>6, <1>7, <1>8, <1>9, <1>10, <1>11, <1>12, <1>13, Zenon
     DEF List!Common, Common

\* What a step of the flush of CacheLayer leaves of a key's value.
KeyFlushed(p, k) ==
  /\ \A q : Doomed(q) => Doomed(q)'
  /\ \/ \A j : Drained(j)' = IF j = k /\ cache[k] # Missing THEN cache[k] ELSE Drained(j)
     \/ Doomed(p)' /\ \A j : Drained(j)' = Drained(j)

(* The flush of CacheLayer writes what the cache holds, and reads stay     *)
(* right, whoever else is flushing.                                        *)
LEMMA FlushKeyRead ==
  ASSUME ReadInv, NEW p \in Procs, NEW k \in Keys, List!FlushKey(p, k)
  PROVE  ReadInv' /\ KeyFlushed(p, k)
<1> USE DEF ReadInv
<1>1. /\ doing[p] = "flush" /\ Ready(p) /\ todo' = [todo EXCEPT ![p] = @ \ {k}]
      /\ UNCHANGED <<cache, dirty, backend, stage, doing, key, batch, latest, failures, unremoved>>
      /\ \/ cache[k] # Missing /\ attempt(p, "set", k, cache[k])
         \/ cache[k] = Missing /\ UNCHANGED <<wire, answer>>
  BY DEF List!FlushKey, List!Ready, Ready, List!attempt, attempt, List!request, request,
         List!cacheVars, List!failVars
<1>2. cache[k] \in Maybe /\ todo' \in [Procs -> SUBSET Keys]
  BY <1>1 DEF TypeOK
<1>3. Staged'
  BY <1>1 DEF Staged, Serving, Idle
<1>4. Serving
  BY <1>1 DEF Staged, Idle
<1>5. CASE cache[k] # Missing /\ attempt(p, "set", k, cache[k])
  <2>1. Attempted(p, "set", k, cache[k])
    BY <1>1, <1>2, <1>5, AttemptEffect DEF Flushing
  <2>2. TypeOK' /\ WireInv'
    BY <1>1, <1>2, <2>1 DEF TypeOK, Attempted
  <2>3. ReadsLatest'
    BY <1>1, <1>5, <2>1 DEF ReadsLatest, Attempted, Serving, Sound
  <2>4. KeyFlushed(p, k)
    BY <1>5, <2>1 DEF Attempted, KeyFlushed
  <2> QED
    BY <1>3, <2>2, <2>3, <2>4
<1>6. CASE cache[k] = Missing /\ UNCHANGED <<wire, answer>>
  <2>1. WireInv' /\ \A j : Drained(j)' = Drained(j)
    <3>1. \A q \in Procs : Moves(q)
      BY <1>1, <1>6 DEF Moves
    <3> QED
      BY <1>1, <1>6, <3>1, SameWire
  <2>2. TypeOK'
    BY <1>1, <1>2, <1>6 DEF TypeOK
  <2>3. ReadsLatest'
    BY <1>1, <2>1 DEF ReadsLatest, Serving, Sound
  <2>4. KeyFlushed(p, k)
    BY <1>6, <2>1 DEF KeyFlushed, Doomed
  <2> QED
    BY <1>3, <2>1, <2>2, <2>3, <2>4
<1> QED
  BY <1>1, <1>5, <1>6

\* The flush of CacheLayer ends with its last request answered.
LEMMA ListFlushEndRead ==
  ASSUME ReadInv, NEW p \in Procs, List!FlushEnd(p)
  PROVE  /\ ReadInv' /\ \A j : Drained(j)' = Drained(j)
         /\ doing[p] = "flush" /\ todo[p] = {} /\ dirty' = {} /\ failures' = 0
         /\ doing' = [doing EXCEPT ![p] = "idle"] /\ Ready(p)
         /\ UNCHANGED <<stage, todo, latest, backend, unremoved, wire>>
<1> USE DEF ReadInv
<1>1. /\ Ready(p) /\ ~ Idle(p) /\ doing' = [doing EXCEPT ![p] = "idle"]
      /\ dirty' = {} /\ failures' = 0
      /\ UNCHANGED <<cache, backend, wire, stage, key, todo, batch, answer, latest, unremoved>>
      /\ doing[p] = "flush" /\ todo[p] = {}
  BY DEF List!FlushEnd, List!Ready, Ready, Idle
<1>2. answer[p] = Missing
  BY <1>1, NoValue
<1>3. Ends(p)
  BY <1>1, <1>2 DEF Ends, TypeOK
<1>4. ReadInv' /\ \A j : Drained(j)' = Drained(j)
  BY <1>3, EndRead
<1> QED
  BY <1>1, <1>4

(* CacheLayer serves the last value set, however many clients set and      *)
(* remove, are cancelled or refused, and whether or not the shutdown waits *)
(* for them.                                                               *)
THEOREM ListReadsLatest == List!Spec => []ReadsLatest
<1>1. List!Init => ReadInv
  BY ReadInit DEF List!Init, Init, List!NothingDone, NothingDone, List!Procs, Procs
<1>2. ReadInv /\ [List!Next]_(List!vars) => ReadInv'
  <2> SUFFICES ASSUME ReadInv, [List!Next]_(List!vars)
               PROVE  ReadInv'
    OBVIOUS
  <2>1. CASE List!Common
    BY <2>1, ListCommon, CommonRead
  <2>2. ASSUME NEW p \in Procs, NEW k \in Keys, List!FlushKey(p, k)
        PROVE  ReadInv'
    BY <2>2, FlushKeyRead
  <2>3. ASSUME NEW p \in Procs, List!FlushEnd(p)
        PROVE  ReadInv'
    BY <2>3, ListFlushEndRead
  <2>4. CASE UNCHANGED List!vars
    <3>1. UNCHANGED vars
      BY <2>4 DEF List!vars, vars, List!procVars, procVars, List!failVars, failVars
    <3> QED
      BY <3>1, StutterRead
  <2>5. List!Procs = Procs
    BY DEF List!Procs, Procs
  <2> QED
    BY <2>1, <2>2, <2>3, <2>4, <2>5 DEF List!Next
<1>3. ReadInv => ReadsLatest
  BY DEF ReadInv
<1> QED
  BY <1>1, <1>2, <1>3, PTL DEF List!Spec

-----------------------------------------------------------------------------
(* With one client that sets, and a shutdown that waits for the clients,   *)
(* no update is overlooked while a flush is under way: the steps both      *)
(* layers have, then those of the flush of CacheLayer.                     *)
LEMMA ListFlushCommon ==
  ASSUME SoleSetter, QuietStop, ListInv, Common
  PROVE  ListFlush'
<1> USE DEF ListInv
<1>0. /\ doing \in [Procs -> Operation] /\ todo \in [Procs -> SUBSET Keys]
      /\ Clients \subseteq Procs /\ Stopper \in Procs /\ latest \in [Keys -> Maybe]
  BY DEF ReadInv, TypeOK, Procs
<1>a. \A q \in Procs : doing'[q] = "flush" /\ Doomed(q) => Doomed(q)'
  BY CommonDooms DEF Flushing
<1>1. ASSUME NEW p \in Clients, NEW k \in Keys, GetMiss(p, k), stage # "stopping"
      PROVE  ListFlush'
  <2>1. \A j : Drained(j)' = Drained(j)
    BY <1>1, GetMissRead
  <2>2. /\ UNCHANGED <<todo, latest, unremoved>>
        /\ \A q \in Procs : doing'[q] = "flush" => doing[q] = "flush"
    BY <1>0, <1>1 DEF GetMiss, failVars
  <2> QED
    BY <1>a, <2>1, <2>2 DEF ListFlush, Sound
<1>2. ASSUME NEW p \in Clients, NEW k \in Keys, Remove(p, k), stage # "stopping"
      PROVE  ListFlush'
  <2>1. RemoveDrains(k)
    BY <1>2, RemoveRead
  <2>2. /\ todo' = todo /\ latest' = [latest EXCEPT ![k] = Missing]
        /\ \A q \in Procs : doing'[q] = "flush" => doing[q] = "flush"
    BY <1>0, <1>2 DEF Remove
  <2> QED
    BY <1>0, <1>a, <2>1, <2>2 DEF ListFlush, RemoveDrains, Sound
<1>3. ASSUME NEW p \in Clients, NEW k \in Keys, NEW v \in Values, Set(p, k, v), stage # "stopping"
      PROVE  ListFlush'
  <2>1. \A j : Drained(j)' = Drained(j)
    BY <1>3, SetRead
  <2>2. \A q \in Procs : ~ Flushing(q)
    BY <1>3, NoFlusher DEF Set
  <2>3. /\ dirty' = dirty \union {k} /\ latest' = [latest EXCEPT ![k] = v] /\ Serving
        /\ unremoved' = unremoved
    BY <1>3 DEF Set, failVars
  <2>4. \A q \in Procs : doing'[q] = "flush" => todo'[q] = dirty'
    <3>1. CASE doing' = [doing EXCEPT ![p] = "flush"] /\ todo' = [todo EXCEPT ![p] = dirty']
      BY <1>0, <2>2, <3>1 DEF Flushing
    <3>2. CASE UNCHANGED <<doing, todo>>
      BY <2>2, <3>2 DEF Flushing
    <3> QED
      BY <1>3, <3>1, <3>2 DEF Set
  <2>5. \A j \in Sound \ dirty' : latest'[j] = Drained(j)
    BY <1>0, <2>3 DEF WriteInv, NothingForgotten, Sound
  <2> QED
    BY <2>1, <2>3, <2>4, <2>5 DEF ListFlush, Sound
<1>4. ASSUME NEW p \in Procs, GetEnd(p) \/ RemoveEnd(p)
      PROVE  ListFlush'
  <2>1. Ends(p)
    BY <1>4, GetEnds
  <2>2. \A j : Drained(j)' = Drained(j)
    BY <2>1, EndRead
  <2>3. \A q \in Procs : doing'[q] = "flush" => doing[q] = "flush"
    BY <1>0, <2>1 DEF Ends
  <2> QED
    BY <1>a, <2>1, <2>2, <2>3 DEF ListFlush, Ends, Sound
<1>5. CASE Serve \/ Refuse
  <2>1. \A j \in Keys : Drained(j)' = Drained(j)
    BY <1>5, ServeRead
  <2>2. /\ UNCHANGED <<latest, unremoved>>
        /\ \A q \in Procs : doing'[q] = "flush" => doing[q] = "flush" /\ todo'[q] = todo[q]
    BY <1>5, ServeFrame
  <2> QED
    BY <1>a, <2>1, <2>2 DEF ListFlush, Sound
<1>6. ASSUME NEW p \in Procs, Cancel(p)
      PROVE  ListFlush'
  <2>1. /\ \A j : Drained(j)' = Drained(j)
        /\ latest' = latest /\ unremoved \subseteq unremoved'
    BY <1>6, CancelRead
  <2>2. \A q \in Procs : doing'[q] = "flush" => doing[q] = "flush" /\ todo'[q] = todo[q]
    BY <1>6, CancelRead
  <2> QED
    BY <1>a, <2>1, <2>2 DEF ListFlush, Sound
<1>7. CASE Stop
  <2>1. \A j : Drained(j)' = Drained(j)
    BY <1>7, StopRead
  <2>2. /\ latest' = latest /\ stage = "running" /\ unremoved' = unremoved
        /\ \A q \in Clients : doing'[q] = "idle"
        /\ todo'[Stopper] = dirty
    BY <1>0, <1>7, ClientsAssumption DEF Stop, Idle, failVars
  <2>3. \A j \in Sound \ dirty : latest[j] = Drained(j)
    BY <2>2 DEF WriteInv, NothingForgotten, Serving
  <2> QED
    BY <2>1, <2>2, <2>3 DEF ListFlush, Procs, Sound
<1>8. CASE Stopped \/ Crash \/ load
  <2>1. \A q \in Procs : doing'[q] = "idle"
    BY <1>8 DEF Stopped, Crash, load, procVars, Idle, ReadInv, Staged, Serving
  <2> QED
    BY <2>1 DEF ListFlush
<1> QED
  BY <1>1, <1>2, <1>3, <1>4, <1>5, <1>6, <1>7, <1>8 DEF Common

\* A key is flushed: other flushes see nothing of it.
LEMMA ListKeyStep ==
  ASSUME ListInv, NEW p \in Procs, NEW k \in Keys, List!FlushKey(p, k)
  PROVE  ListInv'
<1> USE DEF ListInv
<1>0. doing \in [Procs -> Operation] /\ todo \in [Procs -> SUBSET Keys]
  BY DEF ReadInv, TypeOK
<1>1. /\ doing[p] = "flush" /\ Ready(p) /\ todo' = [todo EXCEPT ![p] = @ \ {k}]
      /\ UNCHANGED <<cache, dirty, stage, doing, latest, backend, failures, unremoved>>
  BY DEF List!FlushKey, List!cacheVars, List!failVars, List!Ready, Ready
<1>2. ReadInv' /\ KeyFlushed(p, k)
  BY FlushKeyRead
<1>3. Serving
  BY <1>1 DEF ReadInv, Staged, Idle
<1>4. \A j \in Sound : latest[j] = Drained(j) => latest[j] = Drained(j)'
  BY <1>2, <1>3 DEF KeyFlushed, ReadInv, ReadsLatest
<1>5. Doomed(p)' \/ (k \in Sound => latest[k] = Drained(k)')
  BY <1>2, <1>3 DEF KeyFlushed, ReadInv, ReadsLatest
<1>6. Flushers' /\ DirtyBounded' /\ StopFlushes'
  BY <1>1, <1>3 DEF WriteInv, Flushers, DirtyBounded, StopFlushes, Flushing, Serving
<1>7. NothingForgotten'
  BY <1>1, <1>4 DEF WriteInv, NothingForgotten, Serving, Sound
<1>8. ListFlush'
  <2> SUFFICES ASSUME NEW q \in Procs, doing[q] = "flush", ~ Doomed(q)',
                      NEW j \in Sound, j \notin todo'[q]
               PROVE  latest[j] = Drained(j)'
    BY <1>1 DEF ListFlush, Sound
  <2>1. ~ Doomed(q)
    BY <1>2 DEF KeyFlushed
  <2>2. CASE j \notin todo[q]
    BY <1>4, <2>1, <2>2 DEF ListFlush
  <2>3. CASE j \in todo[q]
    <3>1. q = p /\ j = k
      BY <1>0, <1>1, <2>3
    <3> QED
      BY <1>5, <3>1
  <2> QED
    BY <2>2, <2>3
<1> QED
  BY <1>2, <1>6, <1>7, <1>8 DEF WriteInv

\* Every step of CacheLayer keeps its invariant.
LEMMA ListStep ==
  ASSUME SoleSetter, QuietStop, ListInv, [List!Next]_(List!vars)
  PROVE  ListInv'
<1>0. doing \in [Procs -> Operation] /\ todo \in [Procs -> SUBSET Keys]
  BY DEF ListInv, ReadInv, TypeOK
<1>1. CASE List!Common
  BY <1>1, ListCommon, CommonRead, CommonWrite, ListFlushCommon DEF ListInv
<1>2. ASSUME NEW p \in Procs, List!FlushEnd(p)
      PROVE  ListInv'
  <2>1. /\ ReadInv' /\ \A j : Drained(j)' = Drained(j)
        /\ doing[p] = "flush" /\ todo[p] = {} /\ dirty' = {} /\ failures' = 0
        /\ doing' = [doing EXCEPT ![p] = "idle"] /\ Ready(p)
        /\ UNCHANGED <<stage, todo, latest, backend, unremoved, wire>>
    BY <1>2, ListFlushEndRead DEF ListInv
  <2>2. \A q \in Procs : doing'[q] = doing[q] \/ doing'[q] = "idle"
    BY <1>0, <2>1
  <2>3. ~ Doomed(p) /\ \A q : Doomed(q)' <=> Doomed(q)
    BY <2>1, ReadyNotDoomed DEF ListInv, ReadInv, Doomed
  <2>4. \A k \in Sound : latest[k] = Drained(k)
    BY <2>1, <2>3 DEF ListInv, ListFlush
  <2>5. NothingForgotten' /\ ListFlush'
    BY <2>1, <2>2, <2>3, <2>4 DEF ListInv, ListFlush, NothingForgotten, Sound
  <2>6. IsFiniteSet({}) /\ Cardinality({}) = 0
    BY FS_EmptySet
  <2>7. Serving
    BY <2>1 DEF ListInv, ReadInv, Staged, Idle
  <2>8. Flushers' /\ DirtyBounded' /\ StopFlushes'
    BY <2>1, <2>2, <2>6, <2>7, BoundsAssumption
       DEF ListInv, WriteInv, Flushers, DirtyBounded, StopFlushes, Flushing, Serving
  <2> QED
    BY <2>1, <2>5, <2>8 DEF ListInv, WriteInv
<1>3. CASE UNCHANGED List!vars
  <2>1. UNCHANGED vars
    BY <1>3 DEF List!vars, vars, List!procVars, procVars, List!failVars, failVars
  <2>2. ReadInv' /\ \A j : Drained(j)' = Drained(j)
    BY <2>1, StutterRead DEF ListInv
  <2>3. UNCHANGED <<dirty, backend, wire, stage, doing, todo, latest, failures, unremoved>>
    BY <2>1 DEF vars, cacheVars, procVars, failVars
  <2>4. WriteInv'
    BY <2>2, <2>3, SameWrite DEF ListInv, Flushing
  <2>5. ListFlush'
    BY <2>2, <2>3 DEF ListInv, ListFlush, Doomed, Sound
  <2> QED
    BY <2>2, <2>4, <2>5 DEF ListInv
<1>4. List!Procs = Procs
  BY DEF List!Procs, Procs
<1> QED
  BY <1>1, <1>2, <1>3, <1>4, ListKeyStep DEF List!Next

(* The inductive invariant of CacheLayer with one client that sets.        *)
LEMMA ListInvariant ==
  ASSUME SoleSetter, QuietStop
  PROVE  List!Spec => []ListInv
<1>1. List!Init => ListInv
  <2> SUFFICES ASSUME List!Init
               PROVE  ListInv
    OBVIOUS
  <2>1. Init
    BY DEF List!Init, Init, List!NothingDone, NothingDone, List!Procs, Procs
  <2> QED
    BY <2>1, ReadInit, WriteInit DEF ListInv, ListFlush, Init
<1>2. ListInv /\ [List!Next]_(List!vars) => ListInv'
  BY ListStep
<1> QED
  BY <1>1, <1>2, PTL DEF List!Spec

(* CacheLayer forgets no update of a key no removal of which failed: a     *)
(* value that is neither stored nor on its way is dirty.                   *)
THEOREM ListNothingForgotten ==
  ASSUME SoleSetter, QuietStop
  PROVE  List!Spec => []NothingForgotten
<1>1. ListInv => NothingForgotten
  BY DEF ListInv, WriteInv
<1> QED
  BY <1>1, ListInvariant, PTL

(* A crash of a process with a CacheLayer loses fewer than flush_threshold *)
(* keys while nothing is under way, and one more for each flush in a row   *)
(* that failed or was cancelled.                                           *)
THEOREM ListAtRiskBounded ==
  ASSUME SoleSetter, QuietStop
  PROVE  List!Spec => []AtRiskBounded
<1>1. ListInv => AtRiskBounded
  BY AtRisk DEF ListInv
<1> QED
  BY <1>1, ListInvariant, PTL

(* After the orderly stop of a CacheLayer the backend holds every value,   *)
(* if the last flush did not fail.                                         *)
THEOREM ListStopPersists ==
  ASSUME SoleSetter, QuietStop
  PROVE  List!Spec => []StopPersists
<1>1. ListInv => StopPersists
  BY DEF ListInv, WriteInv, StopFlushes, StopPersists
<1> QED
  BY <1>1, ListInvariant, PTL
-----------------------------------------------------------------------------
(* TableCacheLayer: what it shares is what this module calls so.           *)
LEMMA TableCommon ==
  ASSUME Table!Common
  PROVE  Common
<1>1. \A p \in Clients, k \in Keys : Table!GetMiss(p, k) <=> GetMiss(p, k)
  <2> TAKE p \in Clients, k \in Keys
  <2>1. Table!attempt(p, "get", k, Missing) <=> attempt(p, "get", k, Missing)
    BY DEF Table!attempt, attempt, Table!request, request
  <2> QED
    BY <2>1 DEF Table!GetMiss, GetMiss, Table!Serving, Serving, Table!Idle, Idle,
                Table!cacheVars, cacheVars, Table!failVars, failVars
<1>2. \A p \in Clients, k \in Keys : \A v \in Values : Table!Set(p, k, v) <=> Set(p, k, v)
  BY DEF Table!Set, Set, Table!Cardinality, Cardinality, Table!Serving, Serving, Table!Idle, Idle,
         Table!failVars, failVars
<1>3. \A p \in Clients, k \in Keys : Table!Remove(p, k) <=> Remove(p, k)
  BY DEF Table!Remove, Remove, Table!Serving, Serving, Table!Idle, Idle,
         Table!request, request
<1>4. \A p \in Procs : (Table!GetEnd(p) <=> GetEnd(p)) /\ (Table!RemoveEnd(p) <=> RemoveEnd(p))
  BY DEF Table!GetEnd, GetEnd, Table!RemoveEnd, RemoveEnd, Table!Ready, Ready,
         Table!cacheVars, cacheVars, Table!failVars, failVars
<1>5. \A p : Table!interrupted(p) <=> interrupted(p)
  BY DEF Table!interrupted, interrupted, Table!NothingDone, NothingDone, Table!Procs, Procs,
         Table!Flushing, Flushing
<1>6. \A p \in Procs : Table!Cancel(p) <=> Cancel(p)
  <2> TAKE p \in Procs
  <2>1. Table!interrupted(p) <=> interrupted(p)
    BY <1>5
  <2>2. Table!Cardinality({i \in DOMAIN wire : wire[i].who = Nobody})
          = Cardinality({i \in DOMAIN wire : wire[i].who = Nobody})
    BY DEF Table!Cardinality, Cardinality
  <2>3. (Table!Ready(p) <=> Ready(p)) /\ (Table!Flushing(p) <=> Flushing(p))
    BY DEF Table!Ready, Ready, Table!Flushing, Flushing
  <2> QED
    BY <2>1, <2>2, <2>3 DEF Table!Cancel, Cancel, Table!cacheVars, cacheVars
<1>7. Table!Serve <=> Serve
  BY DEF Table!Serve, Serve, Table!cacheVars, cacheVars, Table!procVars, procVars,
         Table!failVars, failVars, Table!Procs, Procs
<1>8. Table!Refuse <=> Refuse
  <2> DEFINE h == Head(wire).who
  <2>1. Table!interrupted(h) <=> interrupted(h)
    BY <1>5
  <2> QED
    BY <2>1, Zenon DEF Table!Refuse, Refuse, Table!cacheVars, cacheVars
<1>9. Table!Stop <=> Stop
  BY DEF Table!Stop, Stop, Table!Idle, Idle, Table!cacheVars, cacheVars, Table!failVars, failVars
<1>10. Table!Stopped <=> Stopped
  BY DEF Table!Stopped, Stopped, Table!Idle, Idle, Table!Procs, Procs,
         Table!cacheVars, cacheVars, Table!procVars, procVars, Table!failVars, failVars
<1>11. Table!Crash <=> Crash
  BY DEF Table!Crash, Crash, Table!Serving, Serving, Table!NothingDone,
         NothingDone, Table!Procs, Procs, Table!failVars, failVars
<1>12. Table!load <=> load
  BY DEF Table!load, load, Table!procVars, procVars
<1>13. Table!Procs = Procs
  BY DEF Table!Procs, Procs
<1> QED
  BY <1>1, <1>2, <1>3, <1>4, <1>6, <1>7, <1>8, <1>9, <1>10, <1>11, <1>12, <1>13, Zenon
     DEF Table!Common, Common

\* With one client that writes, no two processes flush, and none flushes
\* while the client is doing something else.
LEMMA NoOtherFlusher ==
  ASSUME SoleWriter, QuietStop, TableInv, NEW p \in Procs,
         Flushing(p) \/ (p \in Setters \union Removers /\ Idle(p) /\ stage # "stopping")
  PROVE  \A q \in Procs : Flushing(q) => q = p
<1> SUFFICES ASSUME NEW q \in Procs, Flushing(q)
             PROVE  q = p
  OBVIOUS
<1> USE DEF TableInv, ReadInv, WriteInv
<1>1. q \in Setters \union {Stopper}
  BY DEF Flushers
<1>2. CASE Flushing(p)
  <2>1. p \in Setters \union {Stopper}
    BY <1>2 DEF Flushers
  <2>2. ~ Idle(p) /\ ~ Idle(q)
    BY <1>2 DEF Flushing, Idle
  <2>3. p = Stopper <=> q = Stopper
    BY <1>1, <2>1, <2>2, ClientsAssumption DEF Staged
  <2> QED
    BY <1>1, <2>1, <2>3 DEF SoleWriter
<1>3. CASE p \in Setters \union Removers /\ Idle(p) /\ stage # "stopping"
  <2>1. q # Stopper
    BY <1>3 DEF Staged, Flushing, Idle
  <2> QED
    BY <1>1, <1>3, <2>1 DEF SoleWriter
<1> QED
  BY <1>2, <1>3

\* A process that is interrupted no longer flushes, and those that still do
\* have what they had.
LEMMA FlushesStay ==
  ASSUME TableFlush, Sound' \subseteq Sound, UNCHANGED <<cache, dirty, latest>>,
         \A j \in Keys : Drained(j)' = Drained(j),
         \A q \in Procs :
           Flushing(q)' => /\ UNCHANGED <<doing[q], todo[q], batch[q]>>
                           /\ Doomed(q) => Doomed(q)'
  PROVE  TableFlush'
<1> SUFFICES ASSUME NEW q \in Procs, Flushing(q)'
             PROVE  /\ doing'[q] \in {"flush", "clear"} => todo'[q] \subseteq dirty'
                    /\ doing'[q] = "fill" => Doomed(q)' \/ \A k \in Sound' :
                         IF batch'[q][k] # Missing THEN batch'[q][k] = cache'[k]
                         ELSE latest'[k] = Drained(k)'
  BY DEF TableFlush, Flushing
<1>1. /\ doing'[q] = doing[q] /\ todo'[q] = todo[q] /\ batch'[q] = batch[q]
      /\ Doomed(q) => Doomed(q)'
  OBVIOUS
<1>2. Sound \subseteq Keys
  BY DEF Sound
<1> QED
  BY <1>1, <1>2 DEF TableFlush

\* The steps outside a flush keep what the flush relies on.
LEMMA TableFlushCommon ==
  ASSUME SoleWriter, QuietStop, TableInv, Common
  PROVE  TableFlush'
<1> USE DEF TableInv
<1>0. /\ doing \in [Procs -> Operation] /\ todo \in [Procs -> SUBSET Keys]
      /\ Clients \subseteq Procs /\ Stopper \in Procs /\ latest \in [Keys -> Maybe]
  BY DEF ReadInv, TypeOK, Procs
<1>a. \A q \in Procs : Flushing(q)' /\ Doomed(q) => Doomed(q)'
  BY CommonDooms
<1>1. ASSUME NEW p \in Clients, NEW k \in Keys, GetMiss(p, k), stage # "stopping"
      PROVE  TableFlush'
  <2>1. \A j : Drained(j)' = Drained(j)
    BY <1>1, GetMissRead
  <2>2. /\ UNCHANGED <<todo, latest, batch, cache, dirty, unremoved>>
        /\ \A q \in Procs : Flushing(q)' => doing'[q] = doing[q]
    BY <1>0, <1>1 DEF GetMiss, cacheVars, failVars, Flushing
  <2> QED
    BY <1>a, <2>1, <2>2, FlushesStay DEF Sound
<1>2. ASSUME NEW p \in Clients, NEW k \in Keys, Remove(p, k), stage # "stopping"
      PROVE  TableFlush'
  <2>1. \A q \in Procs : ~ Flushing(q)
    <3>1. p \in Removers /\ Idle(p) /\ ~ Flushing(p)
      BY <1>2 DEF Remove, Idle, Flushing
    <3> QED
      BY <1>0, <1>2, <3>1, NoOtherFlusher
  <2>2. \A q \in Procs : doing'[q] \notin {"flush", "clear", "fill"}
    BY <1>0, <1>2, <2>1 DEF Remove, Flushing
  <2> QED
    BY <2>2 DEF TableFlush
<1>3. ASSUME NEW p \in Clients, NEW k \in Keys, NEW v \in Values, Set(p, k, v), stage # "stopping"
      PROVE  TableFlush'
  <2>1. \A q \in Procs : ~ Flushing(q)
    <3>1. p \in Setters /\ Idle(p) /\ ~ Flushing(p)
      BY <1>3 DEF Set, Idle, Flushing
    <3> QED
      BY <1>0, <1>3, <3>1, NoOtherFlusher
  <2>2. \A q \in Procs : doing'[q] \in {"flush", "clear", "fill"}
                           => doing'[q] = "flush" /\ todo'[q] = dirty'
    <3>1. CASE doing' = [doing EXCEPT ![p] = "flush"] /\ todo' = [todo EXCEPT ![p] = dirty']
      BY <1>0, <2>1, <3>1 DEF Flushing
    <3>2. CASE UNCHANGED <<doing, todo>>
      BY <2>1, <3>2 DEF Flushing
    <3> QED
      BY <1>3, <3>1, <3>2 DEF Set
  <2> QED
    BY <2>2 DEF TableFlush
<1>4. ASSUME NEW p \in Procs, GetEnd(p) \/ RemoveEnd(p)
      PROVE  TableFlush'
  <2>1. Ends(p) /\ dirty' = dirty /\ doing[p] \in {"get", "remove"}
    BY <1>4, GetEnds
  <2>2. \A j : Drained(j)' = Drained(j)
    BY <2>1, EndRead
  <2>3. /\ UNCHANGED <<todo, batch, latest, unremoved>> /\ \A k \in Sound : cache'[k] = cache[k]
        /\ \A q \in Procs : doing'[q] = doing[q] \/ doing'[q] = "idle"
    BY <1>0, <2>1 DEF Ends
  <2> QED
    BY <1>a, <2>1, <2>2, <2>3 DEF TableFlush, Flushing, Sound
<1>5. CASE Serve \/ Refuse
  <2>1. \A j \in Keys : Drained(j)' = Drained(j)
    BY <1>5, ServeRead
  <2>2. /\ UNCHANGED <<cache, dirty, latest, unremoved>>
        /\ \A q \in Procs : Flushing(q)' =>
             doing'[q] = doing[q] /\ todo'[q] = todo[q] /\ batch'[q] = batch[q]
    BY <1>5, ServeFrame DEF Flushing
  <2> QED
    BY <1>a, <2>1, <2>2, FlushesStay DEF Sound
<1>6. ASSUME NEW p \in Procs, Cancel(p)
      PROVE  TableFlush'
  <2>1. /\ \A j : Drained(j)' = Drained(j)
        /\ UNCHANGED <<cache, dirty, latest>> /\ unremoved \subseteq unremoved'
        /\ doing'[p] = "idle"
        /\ \A q \in Procs \ {p} : UNCHANGED <<doing[q], todo[q], batch[q]>>
    BY <1>6, CancelRead
  <2>2. \A q \in Procs : Flushing(q)' => q # p
    BY <2>1 DEF Flushing
  <2> QED
    BY <1>a, <2>1, <2>2, FlushesStay DEF Sound
<1>7. CASE Stop
  <2>1. /\ \A q \in Clients : doing'[q] = "idle"
        /\ todo'[Stopper] = dirty /\ dirty' = dirty
        /\ doing'[Stopper] \in {"idle", "flush"}
    BY <1>0, <1>7, ClientsAssumption DEF Stop, Idle, cacheVars
  <2> QED
    BY <2>1 DEF TableFlush, Procs
<1>8. CASE Stopped \/ Crash \/ load
  <2>1. \A q \in Procs : doing'[q] = "idle"
    BY <1>8 DEF Stopped, Crash, load, procVars, Idle, ReadInv, Staged, Serving
  <2> QED
    BY <2>1 DEF TableFlush
<1> QED
  BY <1>1, <1>2, <1>3, <1>4, <1>5, <1>6, <1>7, <1>8 DEF Common

(* The steps of its flush.                                                 *)
LEMMA FlushBeginStep ==
  ASSUME TableInv, NEW p \in Procs, Table!FlushBegin(p)
  PROVE  TableInv'
<1> USE DEF TableInv
<1>1. /\ doing[p] = "flush" /\ doing' = [doing EXCEPT ![p] = "clear"]
      /\ UNCHANGED <<cache, dirty, backend, wire, stage, key, todo, batch, answer, latest,
                     failures, unremoved>>
  BY DEF Table!FlushBegin, Table!cacheVars, Table!failVars
<1>2. /\ doing \in [Procs -> Operation] /\ doing' \in [Procs -> Operation]
      /\ \A q \in Procs \ {p} : doing'[q] = doing[q]
      /\ doing'[p] = "clear"
  BY <1>1 DEF ReadInv, TypeOK, Operation
<1>3. WireInv' /\ \A j : Drained(j)' = Drained(j)
  <2>1. \A q \in Procs : Moves(q)
    BY <1>1, <1>2 DEF Moves, Flushing
  <2> QED
    BY <1>1, <2>1, SameWire DEF ReadInv
<1>4. TypeOK' /\ Staged'
  BY <1>1, <1>2, ClientsAssumption DEF ReadInv, TypeOK, Staged, Serving, Idle, Procs
<1>5. ReadsLatest'
  BY <1>1, <1>3 DEF ReadInv, ReadsLatest, Serving, Sound
<1>6. WriteInv'
  <2>1. \A q \in Procs : Flushing(q)' = Flushing(q)
    BY <1>1, <1>2 DEF Flushing
  <2> QED
    BY <1>1, <1>3, <2>1, SameWrite
<1>7. TableFlush'
  BY <1>1, <1>2, <1>3 DEF TableFlush, Doomed, Sound
<1> QED
  BY <1>3, <1>4, <1>5, <1>6, <1>7 DEF ReadInv

\* The flush of TableCacheLayer takes the dirty keys.
LEMMA BuildBatchStep ==
  ASSUME TableInv, NEW p \in Procs, Table!BuildBatch(p)
  PROVE  TableInv'
<1> USE DEF TableInv
<1>1. /\ doing[p] = "clear" /\ doing' = [doing EXCEPT ![p] = "fill"] /\ todo[p] = {}
      /\ batch' = [batch EXCEPT ![p] = [k \in Keys |-> IF k \in dirty THEN cache[k] ELSE Missing]]
      /\ UNCHANGED <<cache, dirty, backend, wire, stage, key, todo, answer, latest,
                     failures, unremoved>>
  BY DEF Table!BuildBatch, Table!cacheVars, Table!failVars
<1>2. /\ doing \in [Procs -> Operation] /\ doing' \in [Procs -> Operation]
      /\ \A q \in Procs \ {p} : doing'[q] = doing[q]
      /\ doing'[p] = "fill"
  BY <1>1 DEF ReadInv, TypeOK, Operation
<1>3. WireInv' /\ \A j : Drained(j)' = Drained(j)
  <2>1. \A q \in Procs : Moves(q)
    BY <1>1, <1>2 DEF Moves, Flushing
  <2> QED
    BY <1>1, <2>1, SameWire DEF ReadInv
<1>4. Serving
  BY <1>1 DEF ReadInv, Staged, Idle
<1>5. batch' \in [Procs -> [Keys -> Maybe]] /\ batch \in [Procs -> [Keys -> Maybe]]
  <2>1. [k \in Keys |-> IF k \in dirty THEN cache[k] ELSE Missing] \in [Keys -> Maybe]
    BY DEF ReadInv, TypeOK, Maybe
  <2> QED
    BY <1>1, <2>1 DEF ReadInv, TypeOK
<1>6. TypeOK' /\ Staged'
  BY <1>1, <1>2, <1>5, ClientsAssumption DEF ReadInv, TypeOK, Staged, Serving, Idle, Procs
<1>7. ReadsLatest'
  BY <1>1, <1>3 DEF ReadInv, ReadsLatest, Serving, Sound
<1>8. WriteInv'
  <2>1. \A q \in Procs : Flushing(q)' = Flushing(q)
    BY <1>1, <1>2 DEF Flushing
  <2> QED
    BY <1>1, <1>3, <2>1, SameWrite
<1>9. TableFlush'
  <2>1. ASSUME NEW k \in Sound
        PROVE  IF batch'[p][k] # Missing THEN batch'[p][k] = cache[k] ELSE latest[k] = Drained(k)
    <3>1. k \in Keys /\ batch'[p][k] = IF k \in dirty THEN cache[k] ELSE Missing
      BY <1>1, <1>5 DEF Sound
    <3>2. CASE k \in dirty
      BY <1>4, <3>1, <3>2 DEF ReadInv, ReadsLatest
    <3>3. CASE k \notin dirty
      BY <1>4, <3>1, <3>3 DEF WriteInv, NothingForgotten
    <3> QED
      BY <3>2, <3>3
  <2>2. \A q \in Procs \ {p} : batch'[q] = batch[q]
    BY <1>1, <1>5
  <2>3. ASSUME NEW q \in Procs, doing'[q] \in {"flush", "clear"}
        PROVE  todo'[q] \subseteq dirty'
    BY <1>1, <1>2, <2>3 DEF TableFlush
  <2>4. ASSUME NEW q \in Procs, doing'[q] = "fill", ~ Doomed(q), NEW k \in Sound
        PROVE  IF batch'[q][k] # Missing THEN batch'[q][k] = cache[k] ELSE latest[k] = Drained(k)
    <3>1. CASE q = p
      BY <2>1, <3>1
    <3>2. CASE q # p
      BY <1>2, <2>2, <2>4, <3>2 DEF TableFlush
    <3> QED
      BY <3>1, <3>2
  <2>5. \A q : Doomed(q)' <=> Doomed(q)
    BY <1>1 DEF Doomed
  <2>6. \A k : Drained(k)' = Drained(k)
    BY <1>3
  <2> QED
    BY <1>1, <2>3, <2>4, <2>5, <2>6 DEF TableFlush, Sound
<1> QED
  BY <1>3, <1>6, <1>7, <1>8, <1>9 DEF ReadInv

\* The flush removes a dirty row.
LEMMA remove_batchStep ==
  ASSUME SoleWriter, QuietStop, TableInv, NEW p \in Procs, NEW k \in Keys, Table!remove_batch(p, k)
  PROVE  TableInv'
<1> USE DEF TableInv
<1>1. /\ doing[p] = "clear" /\ Ready(p) /\ k \in todo[p] /\ todo' = [todo EXCEPT ![p] = @ \ {k}]
      /\ attempt(p, "remove", k, Missing)
      /\ UNCHANGED <<cache, dirty, backend, stage, doing, key, batch, latest, failures, unremoved>>
  BY DEF Table!remove_batch, Table!Ready, Ready, Table!attempt, attempt, Table!request, request,
         Table!cacheVars, Table!failVars
<1>2. todo \in [Procs -> SUBSET Keys] /\ todo' \in [Procs -> SUBSET Keys]
      /\ Missing \in Maybe
  BY <1>1 DEF ReadInv, TypeOK, Maybe
<1>3. Attempted(p, "remove", k, Missing)
  BY <1>1, <1>2, AttemptEffect DEF ReadInv, Flushing
<1>4. \A j : j # k => Drained(j)' = Drained(j)
  BY <1>3 DEF Attempted
<1>5. Drained(k)' = Missing \/ Drained(k)' = Drained(k)
  BY <1>3 DEF Attempted
<1>6. WireInv' /\ TypeOK' /\ Staged'
  BY <1>1, <1>2, <1>3 DEF ReadInv, TypeOK, Attempted, Staged, Serving, Idle
<1>7. k \in dirty
  BY <1>1 DEF TableFlush
<1>8. ReadsLatest'
  BY <1>1, <1>4, <1>5 DEF ReadInv, ReadsLatest, Serving, Sound
<1>9. WriteInv'
  <2>1. NothingForgotten'
    BY <1>1, <1>4, <1>7 DEF WriteInv, NothingForgotten, Serving, Sound
  <2>2. Serving
    BY <1>1 DEF ReadInv, Staged, Idle
  <2>3. Flushers' /\ DirtyBounded' /\ StopFlushes'
    BY <1>1, <2>2 DEF WriteInv, Flushers, DirtyBounded, StopFlushes, Flushing, Serving
  <2> QED
    BY <2>1, <2>3 DEF WriteInv
<1>10. TableFlush'
  <2>1. \A q \in Procs : Flushing(q) => q = p
    BY <1>1, NoOtherFlusher DEF Flushing
  <2>2. todo'[p] \subseteq dirty
    BY <1>1, <1>2 DEF TableFlush
  <2> QED
    BY <1>1, <2>1, <2>2 DEF TableFlush, Flushing
<1> QED
  BY <1>6, <1>8, <1>9, <1>10 DEF ReadInv

\* The flush stores a row again.
LEMMA set_batchStep ==
  ASSUME SoleWriter, QuietStop, TableInv, NEW p \in Procs, NEW k \in Keys, Table!set_batch(p, k)
  PROVE  TableInv'
<1> USE DEF TableInv
<1>1. /\ doing[p] = "fill" /\ Ready(p) /\ batch[p][k] # Missing
      /\ batch' = [batch EXCEPT ![p][k] = Missing]
      /\ attempt(p, "set", k, batch[p][k])
      /\ UNCHANGED <<cache, dirty, backend, stage, doing, key, todo, latest, failures, unremoved>>
  BY DEF Table!set_batch, Table!Ready, Ready, Table!attempt, attempt, Table!request, request,
         Table!cacheVars, Table!failVars
<1>2. batch \in [Procs -> [Keys -> Maybe]] /\ Missing \in Maybe /\ batch[p][k] \in Maybe
  BY DEF ReadInv, TypeOK, Maybe
<1>3. Attempted(p, "set", k, batch[p][k])
  BY <1>1, <1>2, AttemptEffect DEF ReadInv, Flushing
<1>4. \A j : j # k => Drained(j)' = Drained(j)
  BY <1>3 DEF Attempted
<1>5. /\ batch' \in [Procs -> [Keys -> Maybe]] /\ batch'[p][k] = Missing
      /\ \A j \in Keys \ {k} : batch'[p][j] = batch[p][j]
  BY <1>1, <1>2
<1>6. WireInv' /\ TypeOK' /\ Staged'
  BY <1>1, <1>3, <1>5 DEF ReadInv, TypeOK, Attempted, Staged, Serving, Idle
<1>7. Serving /\ ~ Doomed(p)
  BY <1>1, ReadyNotDoomed DEF ReadInv, Staged, Idle
<1>8. k \in Sound => batch[p][k] = cache[k] /\ cache[k] = latest[k]
  <2>1. k \in Sound => batch[p][k] = cache[k]
    BY <1>1, <1>7 DEF TableFlush
  <2> QED
    BY <1>1, <1>7, <2>1 DEF ReadInv, ReadsLatest
<1>9. k \in Sound => Drained(k)' = latest[k] \/ (Drained(k)' = Drained(k) /\ Doomed(p)')
  BY <1>3, <1>8 DEF Attempted
<1>10. ReadsLatest'
  BY <1>1, <1>4, <1>8 DEF ReadInv, ReadsLatest, Serving, Sound
<1>11. WriteInv'
  <2>1. NothingForgotten'
    BY <1>1, <1>4, <1>9 DEF WriteInv, NothingForgotten, Serving, Sound
  <2>2. Flushers' /\ DirtyBounded' /\ StopFlushes'
    BY <1>1, <1>7 DEF WriteInv, Flushers, DirtyBounded, StopFlushes, Flushing, Serving
  <2> QED
    BY <2>1, <2>2 DEF WriteInv
<1>12. TableFlush'
  <2>1. \A q \in Procs : Flushing(q) => q = p
    BY <1>1, NoOtherFlusher DEF Flushing
  <2>2. ASSUME ~ Doomed(p)', NEW j \in Sound
        PROVE  IF batch'[p][j] # Missing THEN batch'[p][j] = cache[j] ELSE latest[j] = Drained(j)'
    <3>1. CASE j = k
      BY <1>5, <1>9, <2>2, <3>1 DEF Sound
    <3>2. CASE j # k
      BY <1>1, <1>4, <1>5, <1>7, <2>2, <3>2 DEF TableFlush, Sound
    <3> QED
      BY <3>1, <3>2
  <2> QED
    BY <1>1, <2>1, <2>2 DEF TableFlush, Flushing, Sound
<1> QED
  BY <1>6, <1>10, <1>11, <1>12 DEF ReadInv

\* The flush ends with its batch answered.
LEMMA TableFlushEndStep ==
  ASSUME SoleWriter, QuietStop, TableInv, NEW p \in Procs, Table!FlushEnd(p)
  PROVE  TableInv'
<1> USE DEF TableInv
<1>1. /\ Ready(p) /\ doing[p] = "fill" /\ batch[p] = NothingDone
      /\ doing' = [doing EXCEPT ![p] = "idle"] /\ dirty' = {} /\ failures' = 0
      /\ UNCHANGED <<cache, backend, wire, stage, key, todo, batch, answer, latest, unremoved>>
  BY DEF Table!FlushEnd, Table!Ready, Ready, Table!NothingDone, NothingDone
<1>2. ReadInv' /\ \A j : Drained(j)' = Drained(j)
  <2>1. answer[p] = Missing
    BY <1>1, NoValue DEF ReadInv
  <2>2. Ends(p)
    BY <1>1, <2>1 DEF Ends, Idle, ReadInv, TypeOK
  <2> QED
    BY <2>2, EndRead
<1>3. \A q \in Procs : doing'[q] \notin {"flush", "clear", "fill"}
  <2>1. \A q \in Procs : Flushing(q) => q = p
    BY <1>1, NoOtherFlusher DEF Flushing
  <2> QED
    BY <1>1, <2>1 DEF ReadInv, TypeOK, Flushing
<1>4. TableFlush' /\ Flushers'
  BY <1>3 DEF TableFlush, Flushers, Flushing
<1>5. NothingForgotten'
  <2>1. ~ Doomed(p)
    BY <1>1, ReadyNotDoomed DEF ReadInv
  <2>2. \A k \in Sound : k \in Keys /\ latest[k] = Drained(k)
    BY <1>1, <2>1 DEF TableFlush, NothingDone, Sound
  <2> QED
    BY <1>1, <1>2, <2>2 DEF NothingForgotten, Sound
<1>6. DirtyBounded'
  <2>1. IsFiniteSet({}) /\ Cardinality({}) = 0
    BY FS_EmptySet
  <2> QED
    BY <1>1, <2>1, BoundsAssumption DEF DirtyBounded
<1>7. StopFlushes'
  <2>1. Serving
    BY <1>1 DEF ReadInv, Staged, Idle
  <2> QED
    BY <1>1, <2>1 DEF StopFlushes, Serving
<1> QED
  BY <1>2, <1>4, <1>5, <1>6, <1>7 DEF WriteInv

\* Every step of TableCacheLayer keeps its invariant.
LEMMA TableStep ==
  ASSUME SoleWriter, QuietStop, TableInv, [Table!Next]_(Table!vars)
  PROVE  TableInv'
<1>1. CASE Table!Common
  <2>1. SoleSetter
    BY DEF SoleWriter, SoleSetter
  <2> QED
    BY <1>1, <2>1, TableCommon, CommonRead, CommonWrite, TableFlushCommon DEF TableInv
<1>2. ASSUME NEW p \in Procs, Table!FlushBegin(p) \/ Table!BuildBatch(p) \/ Table!FlushEnd(p)
      PROVE  TableInv'
  BY <1>2, FlushBeginStep, BuildBatchStep, TableFlushEndStep
<1>3. ASSUME NEW p \in Procs, NEW k \in Keys, Table!remove_batch(p, k) \/ Table!set_batch(p, k)
      PROVE  TableInv'
  BY <1>3, remove_batchStep, set_batchStep
<1>4. CASE UNCHANGED Table!vars
  <2>1. UNCHANGED vars
    BY <1>4 DEF Table!vars, vars, Table!procVars, procVars, Table!failVars, failVars
  <2>2. ReadInv' /\ \A j : Drained(j)' = Drained(j)
    BY <2>1, StutterRead DEF TableInv
  <2>3. UNCHANGED <<cache, dirty, backend, wire, stage, doing, todo, batch, latest,
                    failures, unremoved>>
    BY <2>1 DEF vars, cacheVars, procVars, failVars
  <2>4. WriteInv'
    BY <2>2, <2>3, SameWrite DEF TableInv, Flushing
  <2>5. TableFlush'
    BY <2>2, <2>3 DEF TableInv, TableFlush, Doomed, Sound
  <2> QED
    BY <2>2, <2>4, <2>5 DEF TableInv
<1>5. Table!Procs = Procs
  BY DEF Table!Procs, Procs
<1> QED
  BY <1>1, <1>2, <1>3, <1>4, <1>5 DEF Table!Next

(* The inductive invariant of TableCacheLayer with one client that writes. *)
LEMMA TableInvariant ==
  ASSUME SoleWriter, QuietStop
  PROVE  Table!Spec => []TableInv
<1>1. Table!Init => TableInv
  <2> SUFFICES ASSUME Table!Init
               PROVE  TableInv
    OBVIOUS
  <2>1. Init
    BY DEF Table!Init, Init, Table!NothingDone, NothingDone, Table!Procs, Procs
  <2> QED
    BY <2>1, ReadInit, WriteInit DEF TableInv, TableFlush, Init
<1>2. TableInv /\ [Table!Next]_(Table!vars) => TableInv'
  BY TableStep
<1> QED
  BY <1>1, <1>2, PTL DEF Table!Spec

(* TableCacheLayer serves the last value set, although its flush takes the *)
(* rows out of the backend first.                                          *)
THEOREM TableReadsLatest ==
  ASSUME SoleWriter, QuietStop
  PROVE  Table!Spec => []ReadsLatest
<1>1. TableInv => ReadsLatest
  BY DEF TableInv, ReadInv
<1> QED
  BY <1>1, TableInvariant, PTL

(* It forgets no update: a row taken out is dirty until it is back, also   *)
(* when the backend refuses to take it.                                    *)
THEOREM TableNothingForgotten ==
  ASSUME SoleWriter, QuietStop
  PROVE  Table!Spec => []NothingForgotten
<1>1. TableInv => NothingForgotten
  BY DEF TableInv, WriteInv
<1> QED
  BY <1>1, TableInvariant, PTL

(* A crash loses fewer than flush_threshold keys while nothing is under    *)
(* way, and one more for each flush in a row that failed or was cancelled. *)
THEOREM TableAtRiskBounded ==
  ASSUME SoleWriter, QuietStop
  PROVE  Table!Spec => []AtRiskBounded
<1>1. TableInv => AtRiskBounded
  BY AtRisk DEF TableInv
<1> QED
  BY <1>1, TableInvariant, PTL

(* After its orderly stop the backend holds every value, if the last flush *)
(* did not fail.                                                           *)
THEOREM TableStopPersists ==
  ASSUME SoleWriter, QuietStop
  PROVE  Table!Spec => []StopPersists
<1>1. TableInv => StopPersists
  BY DEF TableInv, WriteInv, StopFlushes, StopPersists
<1> QED
  BY <1>1, TableInvariant, PTL
=============================================================================
