--------------------------- MODULE MemoryKVProofs ---------------------------
(***************************************************************************)
(* Proofs about MemoryKV: for any keys, values and ttls, the expiry times  *)
(* belong to stored entries, and the lazily purged store implements the    *)
(* map whose entries vanish on time.                                       *)
(***************************************************************************)
EXTENDS MemoryKV, TLAPS

Maybe == Values \union {Missing}
Time  == Int \union {Forever}

TypeInv ==
  /\ adapter \in [Keys -> Maybe]
  /\ expiry \in [Keys -> Time]
  /\ now \in Int

\* What the steps need: types, and that an expiry time has its entry.
IInv == TypeInv /\ ExpiryOfStored

(* The initial state satisfies the inductive invariant. *)
LEMMA InitInv == Init => IInv
BY DEF Init, IInv, TypeInv, Maybe, Time, ExpiryOfStored

(* Purging keeps the invariant: both dicts lose the same keys. *)
LEMMA PurgeInv ==
  ASSUME IInv, NEW E, purge(E), UNCHANGED now
  PROVE  IInv'
BY DEF IInv, TypeInv, ExpiryOfStored, purge, Maybe, Time

(* Every step keeps the inductive invariant. *)
LEMMA NextInv == IInv /\ [Next]_vars => IInv'
<1> SUFFICES ASSUME IInv, [Next]_vars PROVE IInv'
  OBVIOUS
<1>1. CASE UNCHANGED vars
  BY <1>1 DEF IInv, TypeInv, ExpiryOfStored, vars
<1>2. ASSUME NEW k \in Keys, get(k) PROVE IInv'
  BY <1>2, PurgeInv DEF get, check_expired
<1>3. ASSUME NEW k \in Keys, exists(k) PROVE IInv'
  BY <1>3, PurgeInv DEF exists, check_expired
<1>4. ASSUME NEW k \in Keys, remove(k) PROVE IInv'
  BY <1>4, PurgeInv DEF remove
<1>5. ASSUME NEW k \in Keys, NEW v \in Values, NEW ttl \in TTLs \union {Forever},
             set(k, v, ttl)
      PROVE  IInv'
  <2>1. (IF ttl = Forever THEN Forever ELSE now + ttl) \in Time
    BY TTLAssumption DEF IInv, TypeInv, Time
  <2>2. v # Missing
    BY MissingAssumption
  <2> QED
    BY <1>5, <2>1, <2>2 DEF set, IInv, TypeInv, ExpiryOfStored, Maybe
<1>6. ASSUME NEW P \in SUBSET Keys, keys(P) PROVE IInv'
  BY <1>6, PurgeInv DEF keys
<1>7. CASE Tick
  BY <1>7 DEF Tick, IInv, TypeInv, ExpiryOfStored
<1> QED
  BY <1>1, <1>2, <1>3, <1>4, <1>5, <1>6, <1>7 DEF Next

(* No expiry time outlives its entry, whatever the program does. *)
THEOREM MemoryExpiryOfStored == Spec => []ExpiryOfStored
<1>1. IInv => ExpiryOfStored
  BY DEF IInv
<1> QED
  BY InitInv, NextInv, <1>1, PTL DEF Spec
-----------------------------------------------------------------------------
(* Purging expired keys cannot be seen: the abstract map has forgotten     *)
(* them already.                                                           *)
LEMMA PurgeInvisible ==
  ASSUME IInv, NEW E \in SUBSET {k \in Keys : Expired(k)}, purge(E), UNCHANGED now
  PROVE  Visible' = Visible /\ Deadline' = Deadline
<1>1. ASSUME NEW k \in Keys PROVE Visible'[k] = Visible[k] /\ Deadline'[k] = Deadline[k]
  <2>1. CASE k \in E
    BY <2>1 DEF purge, Visible, Deadline, Expired
  <2>2. CASE k \notin E
    BY <2>2 DEF purge, Visible, Deadline, Expired
  <2> QED
    BY <2>1, <2>2
<1> QED
  BY <1>1 DEF Visible, Deadline

(* The initial store is the empty map. *)
LEMMA InitRefines == Init => Abstract!Init
BY DEF Init, Abstract!Init, Visible, Deadline, Expired

(* Reading and asking, and the purge that comes with it. *)
LEMMA AskRefines ==
  ASSUME IInv,
         \/ \E k \in Keys : get(k) \/ exists(k)
         \/ \E P \in SUBSET Keys : keys(P)
  PROVE  Abstract!Ask
<1>1. ASSUME NEW k \in Keys, get(k) PROVE Abstract!Ask
  <2>1. Visible' = Visible /\ Deadline' = Deadline
    BY <1>1, PurgeInvisible DEF get, check_expired
  <2>2. answer' = <<"get", Visible[k]>>
    BY <1>1 DEF get, Visible
  <2> QED
    BY <1>1, <2>1, <2>2 DEF get, Abstract!Ask
<1>2. ASSUME NEW k \in Keys, exists(k) PROVE Abstract!Ask
  <2>1. Visible' = Visible /\ Deadline' = Deadline
    BY <1>2, PurgeInvisible DEF exists, check_expired
  <2>2. (~Expired(k) /\ adapter[k] # Missing) = (Visible[k] # Missing)
    BY DEF Visible
  <2> QED
    BY <1>2, <2>1, <2>2 DEF exists, Abstract!Ask
<1>3. ASSUME NEW P \in SUBSET Keys, keys(P) PROVE Abstract!Ask
  <2>1. Visible' = Visible /\ Deadline' = Deadline
    BY <1>3, PurgeInvisible DEF keys
  <2>2. \A k \in Keys : adapter'[k] = Visible[k]
    BY <1>3 DEF keys, purge, Visible
  <2>3. {k \in P : adapter'[k] # Missing} = {k \in P : Visible[k] # Missing}
    BY <2>2
  <2> QED
    BY <1>3, <2>1, <2>3 DEF keys, Abstract!Ask
<1> QED
  BY <1>1, <1>2, <1>3

(* set writes: an entry that is dead on arrival is never visible. *)
LEMMA SetRefines ==
  ASSUME IInv, NEW k \in Keys, NEW v \in Values, NEW ttl \in TTLs \union {Forever},
         set(k, v, ttl)
  PROVE  Abstract!Write(k, v, ttl)
<1> DEFINE x == IF ttl = Forever THEN Forever ELSE now + ttl
           over == x # Forever /\ x < now
<1>1. over = Abstract!StillBorn(ttl)
  BY TTLAssumption DEF IInv, TypeInv, Abstract!StillBorn
<1>2. adapter' = [adapter EXCEPT ![k] = v] /\ expiry' = [expiry EXCEPT ![k] = x] /\ now' = now
  BY DEF set
<1>3. Visible' = [Visible EXCEPT ![k] = IF over THEN Missing ELSE v]
  <2>1. ASSUME NEW n \in Keys
        PROVE  Visible'[n] = IF n = k THEN IF over THEN Missing ELSE v ELSE Visible[n]
    BY <1>2 DEF IInv, TypeInv, Visible, Expired
  <2> QED
    BY <2>1 DEF Visible
<1>4. Deadline' = [Deadline EXCEPT ![k] = IF over THEN Forever ELSE x]
  <2>1. ASSUME NEW n \in Keys
        PROVE  Deadline'[n] = IF n = k THEN IF over THEN Forever ELSE x ELSE Deadline[n]
    BY <1>2 DEF IInv, TypeInv, Deadline, Expired
  <2> QED
    BY <2>1 DEF Deadline
<1>5. (IF over THEN Forever ELSE x) = IF ttl = Forever \/ over THEN Forever ELSE now + ttl
  OBVIOUS
<1> QED
  BY <1>1, <1>2, <1>3, <1>4, <1>5 DEF set, Abstract!Write

(* remove deletes. *)
LEMMA RemoveRefines ==
  ASSUME IInv, NEW k \in Keys, remove(k)
  PROVE  Abstract!Delete(k)
<1>1. Visible' = [Visible EXCEPT ![k] = Missing]
  BY DEF remove, purge, IInv, TypeInv, Visible, Expired
<1>2. Deadline' = [Deadline EXCEPT ![k] = Forever]
  BY DEF remove, purge, IInv, TypeInv, Deadline, Expired
<1> QED
  BY <1>1, <1>2 DEF remove, Abstract!Delete

(* The clock moves: what just expired vanishes, in one step. *)
LEMMA TickRefines ==
  ASSUME IInv, Tick
  PROVE  Abstract!Tick
<1>1. now \in Int /\ now' = now + 1 /\ adapter' = adapter /\ expiry' = expiry
  BY DEF Tick, IInv, TypeInv
<1>2. ASSUME NEW k \in Keys
      PROVE  /\ Visible'[k] = IF Abstract!Over(k) THEN Missing ELSE Visible[k]
             /\ Deadline'[k] = IF Abstract!Over(k) THEN Forever ELSE Deadline[k]
  <2>1. expiry[k] = Forever \/ (expiry[k] \in Int /\ expiry[k] # Forever)
    BY TTLAssumption DEF IInv, TypeInv, Time
  <2>2. Deadline[k] = IF expiry[k] # Forever /\ expiry[k] < now THEN Forever ELSE expiry[k]
    BY DEF Deadline, Expired
  <2>3. Visible[k] = IF expiry[k] # Forever /\ expiry[k] < now THEN Missing ELSE adapter[k]
    BY DEF Visible, Expired
  <2>4. Deadline'[k] = IF expiry[k] # Forever /\ expiry[k] < now + 1 THEN Forever ELSE expiry[k]
    BY <1>1 DEF Deadline, Expired
  <2>5. Visible'[k] = IF expiry[k] # Forever /\ expiry[k] < now + 1 THEN Missing ELSE adapter[k]
    BY <1>1 DEF Visible, Expired
  <2> QED
    BY <1>1, <2>1, <2>2, <2>3, <2>4, <2>5 DEF Abstract!Over
<1> QED
  BY <1>1, <1>2 DEF Tick, Abstract!Tick, Visible, Deadline

(* Every step is a step of the abstract map or leaves it alone. *)
LEMMA NextRefines == IInv /\ [Next]_vars => [Abstract!Next]_(Abstract!vars)
<1> SUFFICES ASSUME IInv, [Next]_vars PROVE [Abstract!Next]_(Abstract!vars)
  OBVIOUS
<1>1. CASE UNCHANGED vars
  BY <1>1 DEF vars, Abstract!vars, Visible, Deadline, Expired
<1>2. CASE \/ \E k \in Keys : get(k) \/ exists(k)
           \/ \E P \in SUBSET Keys : keys(P)
  BY <1>2, AskRefines DEF Abstract!Next
<1>3. ASSUME NEW k \in Keys, NEW v \in Values, NEW ttl \in TTLs \union {Forever},
             set(k, v, ttl)
      PROVE  Abstract!Next
  BY <1>3, SetRefines DEF Abstract!Next
<1>4. ASSUME NEW k \in Keys, remove(k) PROVE Abstract!Next
  BY <1>4, RemoveRefines DEF Abstract!Next
<1>5. CASE Tick
  BY <1>5, TickRefines DEF Abstract!Next
<1> QED
  BY <1>1, <1>2, <1>3, <1>4, <1>5 DEF Next

(* Lazy expiry implements the map whose entries vanish on time. *)
THEOREM MemoryImplementsExpiringMap == Spec => ImplementsExpiringMap
BY InitInv, NextInv, InitRefines, NextRefines, PTL
   DEF Spec, ImplementsExpiringMap, Abstract!Spec
=============================================================================
