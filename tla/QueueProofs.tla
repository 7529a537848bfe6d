---------------------------- MODULE QueueProofs ----------------------------
(***************************************************************************)
(* Proofs about the message queue, for every set of messages, capacity and *)
(* history size.  IInv is inductive: the capacity bound needs the store to *)
(* be finite, and the bound on the tasks needs both halves of              *)
(* OneTaskPerPut together.                                                 *)
(***************************************************************************)
EXTENDS MCQueue, FiniteSetTheorems, SequenceTheorems, TLAPS

IInv ==
  /\ TypeOK
  /\ IsFiniteSet(Stored)
  /\ CapacityRespected
  /\ NoLostWakeup
  /\ OneTaskPerPut

\* A bounded append keeps the type of the history.
LEMMA AppendBoundedType ==
  ASSUME NEW h \in Seq(Messages \X Outcome), NEW e \in Messages \X Outcome
  PROVE  AppendBounded(h, e) \in Seq(Messages \X Outcome)
<1>1. CASE HistorySize = 0
  BY <1>1 DEF AppendBounded
<1>2. CASE HistorySize # 0 /\ Len(h) < HistorySize
  BY <1>2 DEF AppendBounded
<1>3. CASE HistorySize # 0 /\ ~(Len(h) < HistorySize)
  <2>1. Len(h) \in Nat /\ Len(h) # 0
    BY <1>3, HistorySizeAssumption
  <2>2. h # <<>>
    BY <2>1
  <2>3. Tail(h) \in Seq(Messages \X Outcome)
    BY <2>2
  <2> QED
    BY <1>3, <2>3 DEF AppendBounded
<1> QED
  BY <1>1, <1>2, <1>3

(* Putting a message stores it and nothing else. *)
LEMMA PutStored ==
  ASSUME TypeOK, NEW m \in Messages, put(m)
  PROVE  Stored' = Stored \union {m}
BY DEF put, Stored, TypeOK, Status, PENDING, ABSENT

(* The initial state satisfies the inductive invariant. *)
LEMMA InitInv == Init => IInv
<1> SUFFICES ASSUME Init PROVE IInv
  OBVIOUS
<1>1. Stored = {}
  BY DEF Init, Stored
<1>2. TypeOK
  <2>1. history \in Seq(Messages \X Outcome)
    BY DEF Init
  <2>2. puts \in [Messages -> 0..MaxPuts]
    BY MaxPutsAssumption DEF Init
  <2> QED
    BY <2>1, <2>2 DEF Init, TypeOK, Status, ConsumerState, StopState, ABSENT
<1>3. IsFiniteSet(Stored) /\ Cardinality(Stored) = 0
  BY <1>1, FS_EmptySet
<1>4. CapacityRespected
  BY <1>3, MaxSizeAssumption DEF CapacityRespected
<1>5. NoLostWakeup /\ OneTaskPerPut
  BY MaxPutsAssumption DEF Init, NoLostWakeup, OneTaskPerPut, PENDING, IN_FLIGHT, ABSENT
<1> QED
  BY <1>2, <1>3, <1>4, <1>5 DEF IInv
-----------------------------------------------------------------------------
(* Queue.put keeps the invariant: the capacity check counts every entry.   *)
LEMMA PutInv ==
  ASSUME IInv, NEW m \in Messages, Put(m)
  PROVE  IInv'
<1> USE DEF IInv
<1>1. Stored' = Stored \union {m}
  BY PutStored DEF Put
<1>2. TypeOK'
  <2>1. puts' \in [Messages -> 0..MaxPuts]
    BY MaxPutsAssumption DEF Put, TypeOK
  <2>2. status' \in [Messages -> Status]
    BY DEF Put, put, TypeOK, Status
  <2>3. pos' \in [Messages -> Nat] /\ nextPos' \in Nat
    <3>1. CASE m \in Stored
      BY <3>1 DEF Put, put, TypeOK
    <3>2. CASE m \notin Stored
      <4>1. pos' = [pos EXCEPT ![m] = nextPos] /\ nextPos' = nextPos + 1
        BY <3>2 DEF Put, put
      <4> QED
        BY <4>1 DEF TypeOK
    <3> QED
      BY <3>1, <3>2
  <2> QED
    BY <2>1, <2>2, <2>3 DEF Put, put, TypeOK
<1>3. IsFiniteSet(Stored')
  BY <1>1, FS_AddElement
<1>4. CapacityRespected'
  <2>1. Cardinality(Stored) \in Nat /\ Cardinality(Stored) < MaxSize
    BY FS_CardinalityType, MaxSizeAssumption DEF Put, put, IsFull
  <2>2. Cardinality(Stored \union {m}) <= Cardinality(Stored) + 1
    <3>1. Cardinality(Stored \union {m}) =
             IF m \in Stored THEN Cardinality(Stored) ELSE Cardinality(Stored) + 1
      BY FS_AddElement DEF IInv
    <3> QED
      BY <3>1, <2>1
  <2>3. Cardinality(Stored \union {m}) \in Nat
    BY FS_AddElement, FS_CardinalityType
  <2> QED
    BY <1>1, <2>1, <2>2, <2>3, MaxSizeAssumption DEF CapacityRespected
<1>5. NoLostWakeup'
  BY DEF Put, put, NoLostWakeup
<1>6. OneTaskPerPut'
  BY DEF Put, put, OneTaskPerPut, TypeOK, Stored, PENDING, IN_FLIGHT, ABSENT, Status
<1> QED
  BY <1>2, <1>3, <1>4, <1>5, <1>6

(* Queue.take keeps the invariant. *)
LEMMA TakeInv ==
  ASSUME IInv, NEW m \in Messages, Take(m)
  PROVE  IInv'
<1> USE DEF IInv
<1>1. Stored' = Stored
  BY DEF Take, take, IsFirst, Pending, Stored, TypeOK, Status, PENDING, IN_FLIGHT, ABSENT
<1>2. TypeOK'
  BY DEF Take, take, TypeOK, Status, ConsumerState, StopState, IN_FLIGHT
<1>3. IsFiniteSet(Stored') /\ CapacityRespected'
  BY <1>1 DEF CapacityRespected
<1>4. NoLostWakeup'
  BY DEF Take, take, NoLostWakeup, TypeOK, StopState
<1>5. OneTaskPerPut'
  BY DEF Take, take, IsFirst, Pending, OneTaskPerPut, TypeOK, PENDING, IN_FLIGHT, ABSENT
<1> QED
  BY <1>2, <1>3, <1>4, <1>5

(* The steps of the consumer loop that take nothing keep the invariant.    *)
LEMMA LoopInv ==
  ASSUME IInv, Loop
  PROVE  IInv'
<1> USE DEF IInv
<1>1. Stored' = Stored /\ Pending' = Pending
  BY DEF Loop, Stored, Pending, store
<1>2. TypeOK'
  BY DEF Loop, Start, Idle, Wake, store, TypeOK, ConsumerState, StopState
<1>3. IsFiniteSet(Stored') /\ CapacityRespected'
  BY <1>1 DEF CapacityRespected
<1>4. NoLostWakeup'
  BY <1>1 DEF Loop, Start, Idle, Wake, NoLostWakeup, has_pending
<1>5. OneTaskPerPut'
  BY DEF Loop, store, OneTaskPerPut
<1> QED
  BY <1>2, <1>3, <1>4, <1>5

(* Queue.complete keeps the invariant: it can only free places.            *)
LEMMA CompleteInv ==
  ASSUME IInv, NEW m \in Messages, NEW outcome \in Outcome, Complete(m, outcome)
  PROVE  IInv'
<1> USE DEF IInv
<1>1. Stored' = Stored \ {m}
  BY DEF Complete, complete, Stored, TypeOK, Status, ABSENT
<1>2. TypeOK'
  <2>1. history' \in Seq(Messages \X Outcome)
    <3>1. AppendBounded(history, <<m, outcome>>) \in Seq(Messages \X Outcome)
      BY AppendBoundedType DEF TypeOK
    <3> QED
      BY <3>1 DEF Complete, complete, TypeOK
  <2>2. tasks' \in [Messages -> Nat]
    BY DEF Complete, TypeOK
  <2>3. status' \in [Messages -> Status]
    BY DEF Complete, complete, TypeOK, Status
  <2>4. pos' = pos /\ nextPos' = nextPos /\ UNCHANGED <<notify, consumer, stop, puts>>
    BY DEF Complete, complete
  <2> QED
    BY <2>1, <2>2, <2>3, <2>4 DEF TypeOK
<1>3. IsFiniteSet(Stored') /\ Cardinality(Stored') <= Cardinality(Stored)
  BY <1>1, FS_Subset
<1>4. CapacityRespected'
  <2>1. Cardinality(Stored) \in Nat /\ Cardinality(Stored') \in Nat
    BY <1>3, FS_CardinalityType
  <2> QED
    BY <1>3, <2>1, MaxSizeAssumption DEF CapacityRespected
<1>5. NoLostWakeup'
  <2>1. Pending' \subseteq Pending
    BY DEF Complete, complete, Pending, TypeOK, PENDING, ABSENT
  <2> QED
    BY <2>1 DEF Complete, NoLostWakeup, has_pending
<1>6. OneTaskPerPut'
  <2>1. CASE m \in Stored
    BY <2>1 DEF Complete, complete, OneTaskPerPut, TypeOK, Stored, Status,
                PENDING, IN_FLIGHT, ABSENT
  <2>2. CASE m \notin Stored
    BY <2>2 DEF Complete, complete, OneTaskPerPut, TypeOK, Stored, Status,
                PENDING, IN_FLIGHT, ABSENT
  <2> QED
    BY <2>1, <2>2
<1> QED
  BY <1>2, <1>3, <1>4, <1>5, <1>6

(* A task lost to a cancellation, and the two steps of the shutdown.       *)
LEMMA OtherInv ==
  ASSUME IInv, (\E m \in Messages : Lose(m)) \/ StopHub \/ StopQueue
  PROVE  IInv'
<1> USE DEF IInv
<1>1. Stored' = Stored /\ Pending' = Pending
  BY DEF Lose, StopHub, StopQueue, Stored, Pending, store
<1>2. TypeOK'
  <2>1. tasks' \in [Messages -> Nat]
    BY DEF Lose, StopHub, StopQueue, TypeOK
  <2>2. stop' \in StopState /\ notify' \in BOOLEAN
    BY DEF Lose, StopHub, StopQueue, TypeOK, StopState
  <2> QED
    BY <2>1, <2>2 DEF Lose, StopHub, StopQueue, store, TypeOK
<1>3. IsFiniteSet(Stored') /\ CapacityRespected'
  BY <1>1 DEF CapacityRespected
<1>4. NoLostWakeup'
  BY <1>1 DEF Lose, StopHub, StopQueue, NoLostWakeup, has_pending, TypeOK, StopState
<1>5. OneTaskPerPut'
  <2>1. CASE StopHub \/ StopQueue
    BY <2>1 DEF StopHub, StopQueue, store, OneTaskPerPut
  <2>2. CASE \E m \in Messages : Lose(m)
    BY <2>2 DEF Lose, store, OneTaskPerPut, TypeOK, PENDING, IN_FLIGHT
  <2> QED
    BY <2>1, <2>2
<1> QED
  BY <1>2, <1>3, <1>4, <1>5

(* Every step of the specification keeps the inductive invariant.          *)
LEMMA NextInv == IInv /\ [Next]_vars => IInv'
<1> SUFFICES ASSUME IInv, [Next]_vars PROVE IInv'
  OBVIOUS
<1>1. CASE UNCHANGED vars
  BY <1>1 DEF vars, IInv, TypeOK, Stored, Pending, CapacityRespected, NoLostWakeup,
              has_pending, OneTaskPerPut
<1>2. CASE \E m \in Messages : Put(m)
  BY <1>2, PutInv
<1>3. CASE \E m \in Messages : Take(m)
  BY <1>3, TakeInv
<1>4. CASE \E m \in Messages, outcome \in Outcome : Complete(m, outcome)
  BY <1>4, CompleteInv
<1>5. CASE Loop
  BY <1>5, LoopInv
<1>6. CASE (\E m \in Messages : Lose(m)) \/ StopHub \/ StopQueue
  BY <1>6, OtherInv
<1> QED
  BY <1>1, <1>2, <1>3, <1>4, <1>5, <1>6 DEF Next
-----------------------------------------------------------------------------
\* The invariant holds in every state.
LEMMA Invariance == Spec => []IInv
BY InitInv, NextInv, PTL DEF Spec

(* Type correctness of the queue.                                          *)
THEOREM QueueType == Spec => []TypeOK
<1>1. IInv => TypeOK
  BY DEF IInv
<1> QED
  BY Invariance, <1>1, PTL

(* Queue.put's check bounds the store by QUEUE_MAX_SIZE for every number   *)
(* of messages, redispatched ones and lost tasks included.                 *)
THEOREM QueueCapacity == Spec => []CapacityRespected
<1>1. IInv => CapacityRespected
  BY DEF IInv
<1> QED
  BY Invariance, <1>1, PTL

(* The protocol of Queue.put and Queue.take around the event loses no      *)
(* wakeup: the consumer never sleeps on a cleared event over a pending     *)
(* message.                                                                *)
THEOREM QueueNoLostWakeup == Spec => []NoLostWakeup
<1>1. IInv => NoLostWakeup
  BY DEF IInv
<1> QED
  BY Invariance, <1>1, PTL

(* Every execution of a message is paid for by a put of it, and unless a   *)
(* message is put again while in flight it has at most one task.              *)
THEOREM QueueOneTaskPerPut == Spec => []OneTaskPerPut
<1>1. IInv => OneTaskPerPut
  BY DEF IInv
<1> QED
  BY Invariance, <1>1, PTL
-----------------------------------------------------------------------------
\* The refinement of FifoDelivery.  Messages in the store have insertion
\* numbers of their own, below the next one.
PosInv ==
  /\ \A m \in Stored : pos[m] < nextPos
  /\ \A m, n \in Stored : m # n => pos[m] # pos[n]

\* s lists what is pending by insertion number.
IsOrder(s) ==
  /\ s \in [1..Cardinality(Pending) -> Pending]
  /\ \A i, j \in 1..Cardinality(Pending) : i < j => pos[s[i]] < pos[s[j]]

\* No insertion number is lost or given twice.
LEMMA PosNext == IInv /\ PosInv /\ [Next]_vars => PosInv'
<1> SUFFICES ASSUME IInv, PosInv, [Next]_vars PROVE PosInv'
  OBVIOUS
<1> USE DEF IInv, TypeOK
<1>1. ASSUME NEW m \in Messages, Put(m) PROVE PosInv'
  <2>1. Stored' = Stored \union {m}
    BY <1>1, PutStored DEF Put
  <2>2. CASE m \in Stored
    BY <1>1, <2>1, <2>2 DEF Put, put, PosInv
  <2>3. CASE m \notin Stored
    <3>1. /\ nextPos' = nextPos + 1 /\ pos'[m] = nextPos
          /\ \A n \in Stored : pos'[n] = pos[n] /\ pos[n] \in Nat
      BY <1>1, <2>3 DEF Put, put, Stored
    <3>2. \A n \in Stored : n # m
      BY <2>3
    <3>3. nextPos \in Nat
      OBVIOUS
    <3> HIDE DEF IInv, TypeOK
    <3>4. \A n \in Stored' : pos'[n] < nextPos'
      BY <2>1, <3>1, <3>3 DEF PosInv
    <3>5. \A n, k \in Stored' : n # k => pos'[n] # pos'[k]
      BY <2>1, <3>1, <3>2, <3>3 DEF PosInv
    <3> QED
      BY <3>4, <3>5 DEF PosInv
  <2> QED
    BY <2>2, <2>3
<1>2. CASE (\E m \in Messages : Take(m)) \/ (\E m \in Messages, o \in Outcome : Complete(m, o))
  <2>1. UNCHANGED <<pos, nextPos>>
    BY <1>2 DEF Take, take, Complete, complete
  <2>2. Stored' \subseteq Stored
    BY <1>2 DEF Take, take, IsFirst, Pending, Complete, complete, Stored, PENDING, ABSENT
  <2> QED
    BY <2>1, <2>2 DEF PosInv
<1>3. CASE (\E m \in Messages : Lose(m)) \/ Loop \/ StopHub \/ StopQueue \/ UNCHANGED vars
  <2>1. UNCHANGED store
    BY <1>3 DEF Lose, Loop, StopHub, StopQueue, vars, store
  <2> QED
    BY <2>1 DEF store, PosInv, Stored
<1> QED
  BY <1>1, <1>2, <1>3 DEF Next

\* Pending and working messages share the places of the store.
LEMMA PendingWorking ==
  ASSUME IInv
  PROVE  /\ IsFiniteSet(Pending) /\ IsFiniteSet(Working)
         /\ Cardinality(Pending) \in Nat /\ Cardinality(Working) \in Nat
         /\ Stored = Pending \union Working /\ Pending \intersect Working = {}
         /\ Cardinality(Stored) = Cardinality(Pending) + Cardinality(Working)
<1>1. Stored = Pending \union Working /\ Pending \intersect Working = {}
  BY DEF IInv, TypeOK, Status, Stored, Pending, Working, PENDING, IN_FLIGHT, ABSENT
<1>2. IsFiniteSet(Pending) /\ IsFiniteSet(Working)
  BY <1>1, FS_Subset DEF IInv
<1>3. Cardinality(Pending) \in Nat /\ Cardinality(Working) \in Nat
  BY <1>2, FS_CardinalityType
<1>4. Cardinality(Pending \union Working) =
        Cardinality(Pending) + Cardinality(Working) - Cardinality(Pending \intersect Working)
  BY <1>2, FS_Union
<1>5. Cardinality(Pending \intersect Working) = 0
  BY <1>1, FS_EmptySet
<1> QED
  BY <1>1, <1>2, <1>3, <1>4, <1>5

\* A list of what is pending leaves nothing out.
LEMMA OrderComplete ==
  ASSUME IInv, NEW s, IsOrder(s), NEW m \in Pending
  PROVE  \E i \in 1..Cardinality(Pending) : s[i] = m
<1> DEFINE n == Cardinality(Pending)
<1>1. n \in Nat /\ IsFiniteSet(Pending)
  BY PendingWorking
<1>2. \A x \in Pending : pos[x] \in Nat
  BY DEF IInv, TypeOK, Pending
<1>3. s \in Injection(1..n, Pending)
  <2> SUFFICES ASSUME NEW i \in 1..n, NEW j \in 1..n, s[i] = s[j] PROVE i = j
    BY DEF IsOrder, Injection, IsInjective
  <2>1. pos[s[i]] \in Nat /\ pos[s[j]] \in Nat
    BY <1>2 DEF IsOrder
  <2>2. ~(i < j) /\ ~(j < i)
    BY <2>1 DEF IsOrder
  <2> QED
    BY <1>1, <2>2
<1>4. Cardinality(1..n) = n
  BY <1>1, FS_Interval
<1>5. s \in Surjection(1..n, Pending)
  BY <1>1, <1>3, <1>4, FS_Injection
<1> QED
  BY <1>5 DEF Surjection

\* There is only one such list.
LEMMA OrderUnique ==
  ASSUME IInv, NEW s, NEW t, IsOrder(s), IsOrder(t)
  PROVE  s = t
<1> DEFINE n == Cardinality(Pending)
           D == {i \in 1..n : s[i] # t[i]}
<1>1. n \in Nat
  BY PendingWorking
<1>2. \A x \in Pending : pos[x] \in Nat
  BY DEF IInv, TypeOK, Pending
<1>3. SUFFICES ASSUME D # {} PROVE FALSE
  <2>1. s \in [1..n -> Pending] /\ t \in [1..n -> Pending]
    BY DEF IsOrder
  <2>2. D = {} => \A i \in 1..n : s[i] = t[i]
    OBVIOUS
  <2>3. (\A i \in 1..n : s[i] = t[i]) => s = t
    <3> HIDE DEF n
    <3> SUFFICES ASSUME \A i \in 1..n : s[i] = t[i] PROVE s = t
      OBVIOUS
    <3>1. s = [i \in 1..n |-> s[i]] /\ t = [i \in 1..n |-> t[i]]
      BY <2>1
    <3>2. [i \in 1..n |-> s[i]] = [i \in 1..n |-> t[i]]
      OBVIOUS
    <3> QED
      BY <3>1, <3>2, Zenon
  <2> HIDE DEF D
  <2> QED
    BY <2>2, <2>3
<1>4. PICK k \in D : \A i \in D : ~(i < k)
  <2>1. D \subseteq Nat
    BY <1>1
  <2>2. IsWellFoundedOn(OpToRel(<, Nat), Nat)
    BY NatLessThanWellFounded
  <2> HIDE DEF D
  <2>3. PICK k \in D : \A i \in D : ~(<<i, k>> \in OpToRel(<, Nat))
    BY <1>3, <2>1, <2>2, WFMin, Zenon
  <2> QED
    BY <2>1, <2>3 DEF OpToRel
<1>5. k \in 1..n /\ s[k] # t[k] /\ \A i \in 1..n : i < k => s[i] = t[i]
  BY <1>4
<1>6. s[k] \in Pending /\ t[k] \in Pending
  BY <1>5 DEF IsOrder
<1>7. PICK i \in 1..n : s[i] = t[k]
  BY <1>6, OrderComplete
<1>8. PICK j \in 1..n : t[j] = s[k]
  BY <1>6, OrderComplete
<1>9. k < i /\ k < j
  <2>1. i # k /\ j # k
    BY <1>5, <1>7, <1>8
  <2>2. ~(i < k)
    <3> SUFFICES ASSUME i < k PROVE FALSE
      OBVIOUS
    <3>1. t[i] = t[k] /\ pos[t[i]] < pos[t[k]] /\ pos[t[k]] \in Nat
      BY <1>2, <1>5, <1>6, <1>7 DEF IsOrder
    <3> QED
      BY <3>1
  <2>3. ~(j < k)
    <3> SUFFICES ASSUME j < k PROVE FALSE
      OBVIOUS
    <3>1. s[j] = s[k] /\ pos[s[j]] < pos[s[k]] /\ pos[s[k]] \in Nat
      BY <1>2, <1>5, <1>6, <1>8 DEF IsOrder
    <3> QED
      BY <3>1
  <2> QED
    BY <1>1, <2>1, <2>2, <2>3
<1>10. pos[s[k]] < pos[s[i]] /\ pos[t[k]] < pos[t[j]]
  BY <1>5, <1>9 DEF IsOrder
<1> QED
  BY <1>2, <1>6, <1>7, <1>8, <1>10

\* Any list is the buffer.
LEMMA WaitingIs ==
  ASSUME IInv, NEW s, IsOrder(s)
  PROVE  Waiting = s
<1>1. IsOrder(Waiting)
  BY DEF IsOrder, Waiting
<1> QED
  BY <1>1, OrderUnique

\* The next waiting messages, in the order the queue keeps them.
LEMMA WaitingNext == IInv' => (\A s : IsOrder(s) => Waiting = s /\ IsOrder(Waiting))'
<1>1. IInv => \A s : IsOrder(s) => Waiting = s /\ IsOrder(Waiting)
  BY WaitingIs
<1> QED
  BY <1>1, PTL

\* Queue.put of a message that is not stored is Accept.
LEMMA PutAccepts ==
  ASSUME IInv, IInv', PosInv, IsOrder(Waiting), NEW m \in Messages, Put(m), m \notin Stored
  PROVE  Abstract!Accept(m) /\ IsOrder(Waiting)'
<1> DEFINE n == Cardinality(Pending)
           s == Append(Waiting, m)
<1>1. IsOrder(Waiting)
  OBVIOUS
<1>2. Pending' = Pending \union {m} /\ Working' = Working /\ m \notin Pending
  BY DEF IInv, TypeOK, Put, put, Pending, Working, Stored, PENDING, IN_FLIGHT, ABSENT
<1>3. n \in Nat /\ Cardinality(Pending') = n + 1
  BY <1>2, PendingWorking, FS_AddElement
<1>4. Waiting \in [1..n -> Pending] /\ Waiting \in Seq(Pending \union {m}) /\ Len(Waiting) = n
  BY <1>1, <1>3 DEF IsOrder
<1>5. /\ s \in [1..(n + 1) -> Pending \union {m}] /\ s[n + 1] = m
      /\ \A i \in 1..n : s[i] = Waiting[i] /\ s[i] \in Pending
  <2>1. /\ s \in Seq(Pending \union {m}) /\ Len(s) = n + 1 /\ s[n + 1] = m
        /\ \A i \in 1..n : s[i] = Waiting[i]
    BY <1>4, AppendProperties
  <2> HIDE DEF s
  <2> QED
    BY <1>4, <2>1, LenProperties
<1> HIDE DEF s
<1>t. PICK t : t = s
  OBVIOUS
<1>6. /\ pos'[m] = nextPos /\ nextPos \in Nat
      /\ \A k \in Pending : pos'[k] = pos[k] /\ pos[k] \in Nat /\ pos[k] < nextPos
  <2>1. pos' = [pos EXCEPT ![m] = nextPos]
    BY DEF Put, put
  <2>2. Pending \subseteq Stored
    BY PendingWorking
  <2> QED
    BY <1>2, <2>1, <2>2 DEF IInv, TypeOK, PosInv, Pending
<1>7. IsOrder(t)'
  <2>1. \A i, j \in 1..(n + 1) : i < j => pos'[t[i]] < pos'[t[j]]
    <3> SUFFICES ASSUME NEW i \in 1..(n + 1), NEW j \in 1..(n + 1), i < j
                 PROVE  pos'[t[i]] < pos'[t[j]]
      OBVIOUS
    <3>1. i \in 1..n
      BY <1>3
    <3>2. CASE j \in 1..n
      BY <1>1, <1>3, <1>5, <1>t, <1>6, <3>1, <3>2 DEF IsOrder
    <3>3. CASE j = n + 1
      BY <1>5, <1>t, <1>6, <3>1, <3>3
    <3> QED
      BY <1>3, <3>2, <3>3
  <2> QED
    BY <1>2, <1>3, <1>5, <1>t, <2>1 DEF IsOrder
<1>8. Waiting' = t /\ IsOrder(Waiting)'
  BY <1>7, WaitingNext
<1>9. Abstract!Held = Stored
  <2>1. {Waiting[i] : i \in DOMAIN Waiting} = Pending
    BY <1>1, OrderComplete DEF IsOrder
  <2> QED
    BY <2>1, PendingWorking DEF Abstract!Held
<1>10. Len(Waiting) + Cardinality(Working) < MaxSize
  BY <1>3, <1>4, PendingWorking, MaxSizeAssumption DEF Put, put, IsFull
<1>11. Abstract!Cardinality(Working) = Cardinality(Working)
  BY DEF Abstract!Cardinality, Cardinality
<1> QED
  BY <1>2, <1>t, <1>8, <1>9, <1>10, <1>11 DEF Abstract!Accept, s

\* Queue.take is Deliver: the first pending entry heads the buffer.
LEMMA TakeDelivers ==
  ASSUME IInv, IInv', PosInv, IsOrder(Waiting), NEW m \in Messages, Take(m)
  PROVE  Abstract!Deliver /\ IsOrder(Waiting)'
<1> DEFINE n == Cardinality(Pending)
           s == Tail(Waiting)
<1>1. IsOrder(Waiting) /\ m \in Pending
  BY DEF Take, take, IsFirst
<1>2. Pending' = Pending \ {m} /\ Working' = Working \union {m} /\ pos' = pos
  BY DEF IInv, TypeOK, Take, take, IsFirst, Pending, Working, PENDING, IN_FLIGHT
<1>3. n \in Nat /\ n # 0 /\ Cardinality(Pending') = n - 1
  BY <1>1, <1>2, PendingWorking, FS_RemoveElement, FS_EmptySet
<1>4. Waiting \in Seq(Pending) /\ Len(Waiting) = n /\ Waiting # <<>>
  BY <1>1, <1>3 DEF IsOrder
<1>5. \A k \in Pending : pos[k] \in Nat
  BY DEF IInv, TypeOK, Pending
<1>6. Waiting[1] = m
  <2>1. PICK i \in 1..n : Waiting[i] = m
    BY <1>1, OrderComplete
  <2>2. pos[m] <= pos[Waiting[1]] /\ Waiting[1] \in Pending
    BY <1>1, <1>3 DEF Take, take, IsFirst, IsOrder
  <2>3. ~(1 < i)
    <3> SUFFICES ASSUME 1 < i PROVE FALSE
      OBVIOUS
    <3>1. pos[Waiting[1]] < pos[m]
      BY <1>1, <1>3, <2>1 DEF IsOrder
    <3> QED
      BY <1>1, <1>5, <2>2, <3>1
  <2> QED
    BY <2>1, <2>3
<1>7. /\ s \in [1..(n - 1) -> Pending]
      /\ \A i \in 1..(n - 1) : s[i] = Waiting[i + 1]
  <2>1. /\ s \in Seq(Pending) /\ Len(s) = n - 1
        /\ \A i \in 1..(n - 1) : s[i] = Waiting[i + 1]
    BY <1>4, HeadTailProperties
  <2> HIDE DEF s
  <2> QED
    BY <2>1, LenProperties
<1> HIDE DEF s
<1>t. PICK t : t = s
  OBVIOUS
<1>8. \A i, j \in 1..(n - 1) : i < j => pos[s[i]] < pos[s[j]]
  <2> SUFFICES ASSUME NEW i \in 1..(n - 1), NEW j \in 1..(n - 1), i < j
               PROVE  pos[s[i]] < pos[s[j]]
    OBVIOUS
  <2>1. i + 1 \in 1..n /\ j + 1 \in 1..n /\ i + 1 < j + 1
    BY <1>3
  <2> QED
    BY <1>1, <1>7, <2>1 DEF IsOrder
<1>9. \A i \in 1..(n - 1) : s[i] # m
  <2> SUFFICES ASSUME NEW i \in 1..(n - 1) PROVE s[i] # m
    OBVIOUS
  <2>1. 1 \in 1..n /\ i + 1 \in 1..n /\ 1 < i + 1
    BY <1>3
  <2>2. pos[m] < pos[s[i]]
    BY <1>1, <1>6, <1>7, <2>1 DEF IsOrder
  <2> QED
    BY <1>1, <1>5, <2>2
<1>10. IsOrder(t)'
  <2>1. t \in [1..(n - 1) -> Pending \ {m}]
    BY <1>t, <1>7, <1>9
  <2> QED
    BY <1>2, <1>3, <1>t, <1>8, <2>1 DEF IsOrder
<1>11. Waiting' = t /\ IsOrder(Waiting)'
  BY <1>10, WaitingNext
<1> QED
  BY <1>2, <1>4, <1>t, <1>6, <1>11 DEF Abstract!Deliver, s

\* What leaves the store or the entries alone leaves the buffer alone.
LEMMA SameBuffer ==
  ASSUME UNCHANGED <<status, pos>>
  PROVE  UNCHANGED Abstract!vars /\ (IsOrder(Waiting) => IsOrder(Waiting)')
BY DEF Abstract!vars, Waiting, Working, Pending, IsOrder

\* Queue.complete of a stored message is Release.
LEMMA CompleteReleases ==
  ASSUME IInv, ~ReputInFlight, NEW m \in Messages, NEW outcome \in Outcome,
         Complete(m, outcome), m \in Stored
  PROVE  Abstract!Release(m) /\ (IsOrder(Waiting) => IsOrder(Waiting)')
<1>1. status[m] = IN_FLIGHT
  BY DEF IInv, TypeOK, OneTaskPerPut, Complete
<1>2. Pending' = Pending /\ Working' = Working \ {m} /\ m \in Working /\ pos' = pos
  BY <1>1 DEF IInv, TypeOK, Complete, complete, Pending, Working, PENDING, IN_FLIGHT, ABSENT
<1>3. Waiting' = Waiting /\ (IsOrder(Waiting) => IsOrder(Waiting)')
  BY <1>2 DEF Waiting, IsOrder
<1> QED
  BY <1>2, <1>3 DEF Abstract!Release

(* The queue implements the bounded FIFO buffer, for every number of       *)
(* messages, capacity and history size, as long as no message is put again *)
(* while it is in flight.  Such a message would take back its old place in *)
(* the OrderedDict, ahead of messages accepted after it.                   *)
THEOREM QueueImplementsFifo ==
  ASSUME ~ReputInFlight
  PROVE  Spec => ImplementsFifo
<1>1. Init => PosInv
  BY DEF Init, PosInv, Stored
<1>2. Init => Abstract!Init /\ IsOrder(Waiting)
  <2> SUFFICES ASSUME Init PROVE Abstract!Init /\ IsOrder(Waiting)
    OBVIOUS
  <2>1. Pending = {} /\ Working = {}
    BY DEF Init, Pending, Working, ABSENT, PENDING, IN_FLIGHT
  <2>2. IsOrder(<<>>)
    BY <2>1, FS_EmptySet DEF IsOrder
  <2>3. Waiting = <<>>
    BY <2>2, WaitingIs, InitInv
  <2> QED
    BY <2>1, <2>2, <2>3 DEF Abstract!Init
<1> DEFINE Step == Abstract!Next \/ UNCHANGED Abstract!vars
<1>3. IInv /\ IInv' /\ PosInv /\ IsOrder(Waiting) /\ [Next]_vars
        => [Abstract!Next]_(Abstract!vars) /\ IsOrder(Waiting)'
  <2> SUFFICES ASSUME IInv, IInv', PosInv, IsOrder(Waiting), [Next]_vars
               PROVE  Step /\ IsOrder(Waiting)'
    OBVIOUS
  <2>1. ASSUME NEW m \in Messages, Put(m) PROVE Step /\ IsOrder(Waiting)'
    <3>1. CASE m \notin Stored
      BY <2>1, <3>1, PutAccepts DEF Abstract!Next
    <3>2. CASE m \in Stored
      <4>1. status[m] = PENDING
        BY <2>1, <3>2 DEF Put, Stored, IInv, TypeOK, Status
      <4>2. UNCHANGED <<status, pos>>
        BY <2>1, <3>2, <4>1 DEF Put, put, IInv, TypeOK
      <4> QED
        BY <4>2, SameBuffer
    <3> QED
      BY <3>1, <3>2
  <2>2. ASSUME NEW m \in Messages, Take(m) PROVE Step /\ IsOrder(Waiting)'
    BY <2>2, TakeDelivers DEF Abstract!Next
  <2>3. ASSUME NEW m \in Messages, NEW o \in Outcome, Complete(m, o)
        PROVE  Step /\ IsOrder(Waiting)'
    <3>1. CASE m \in Stored
      BY <2>3, <3>1, CompleteReleases DEF Abstract!Next
    <3>2. CASE m \notin Stored
      <4>1. UNCHANGED <<status, pos>>
        BY <2>3, <3>2 DEF Complete, complete
      <4> QED
        BY <4>1, SameBuffer
    <3> QED
      BY <3>1, <3>2
  <2>4. CASE (\E m \in Messages : Lose(m)) \/ Loop \/ StopHub \/ StopQueue \/ UNCHANGED vars
    <3>1. UNCHANGED <<status, pos>>
      BY <2>4 DEF Lose, Loop, StopHub, StopQueue, store, vars
    <3> QED
      BY <3>1, SameBuffer
  <2> QED
    BY <2>1, <2>2, <2>3, <2>4 DEF Next
<1> QED
  BY <1>1, <1>2, <1>3, Invariance, PosNext, PTL DEF Spec, ImplementsFifo, Abstract!Spec
=============================================================================
