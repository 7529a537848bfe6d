------------------------------ MODULE MemoryKV ------------------------------
(***************************************************************************)
(* MemoryProtocol (adapters/memory.py): a dict and a dict of expiry times. *)
(* Nothing removes an entry when its time is over; get, exists and keys    *)
(* do when they come across it.  No operation suspends.                    *)
(***************************************************************************)
EXTENDS Integers

CONSTANTS
  Keys, Values,
  Missing,   \* None
  TTLs,      \* ttl arguments; zero and negative ones are legal
  Forever,   \* no expiry
  MaxTime    \* bound of the model: the clock stops there

ASSUME MissingAssumption == Missing \notin Values
ASSUME TTLAssumption == TTLs \subseteq Int /\ Forever \notin Int
ASSUME MaxTimeAssumption == MaxTime \in Nat

VARIABLES
  adapter,  \* [Keys -> value or Missing]
  expiry,   \* _expiry: [Keys -> time or Forever]
  now,      \* time.time()
  answer    \* what the last operation returned

vars == <<adapter, expiry, now, answer>>

Expired(k) == expiry[k] # Forever /\ expiry[k] < now

Init ==
  /\ adapter = [k \in Keys |-> Missing]
  /\ expiry = [k \in Keys |-> Forever]
  /\ now = 0
  /\ answer = <<"none">>

\* adapter.pop and _expiry.pop of the keys in E.
purge(E) ==
  /\ adapter' = [k \in Keys |-> IF k \in E THEN Missing ELSE adapter[k]]
  /\ expiry' = [k \in Keys |-> IF k \in E THEN Forever ELSE expiry[k]]

\* _check_expired(k)
check_expired(k) == purge({k} \intersect {n \in Keys : Expired(n)})

get(k) ==
  /\ check_expired(k)
  /\ answer' = <<"get", IF Expired(k) THEN Missing ELSE adapter[k]>>
  /\ UNCHANGED now

exists(k) ==
  /\ check_expired(k)
  /\ answer' = <<"exists", ~Expired(k) /\ adapter[k] # Missing>>
  /\ UNCHANGED now

\* keys(pattern): purges every expired key; P is what the prefix selects.
keys(P) ==
  /\ purge({k \in Keys : Expired(k)})
  /\ answer' = <<"keys", {k \in P : adapter'[k] # Missing}>>
  /\ UNCHANGED now

\* A plausible bug: without a ttl the old expiry time stays.
setKeepingExpiry(k, v, ttl) ==
  /\ adapter' = [adapter EXCEPT ![k] = v]
  /\ expiry' = IF ttl = Forever THEN expiry ELSE [expiry EXCEPT ![k] = now + ttl]
  /\ answer' = <<"none">>
  /\ UNCHANGED now

set(k, v, ttl) ==
  /\ adapter' = [adapter EXCEPT ![k] = v]
  /\ expiry' = [expiry EXCEPT ![k] = IF ttl = Forever THEN Forever ELSE now + ttl]
  /\ answer' = <<"none">>
  /\ UNCHANGED now

\* A plausible bug: remove forgets the expiry time.
removeKeepingExpiry(k) ==
  /\ adapter' = [adapter EXCEPT ![k] = Missing]
  /\ answer' = <<"none">>
  /\ UNCHANGED <<expiry, now>>

remove(k) ==
  /\ purge({k})
  /\ answer' = <<"none">>
  /\ UNCHANGED now

Tick == now < MaxTime /\ now' = now + 1 /\ UNCHANGED <<adapter, expiry, answer>>

Next ==
  \/ \E k \in Keys : get(k) \/ exists(k) \/ remove(k)
  \/ \E k \in Keys, v \in Values, ttl \in TTLs \union {Forever} : set(k, v, ttl)
  \/ \E P \in SUBSET Keys : keys(P)
  \/ Tick

Spec == Init /\ [][Next]_vars
-----------------------------------------------------------------------------
(* Every expiry time belongs to a stored entry, so that the bookkeeping    *)
(* does not outgrow the store and no later entry inherits an expiry time.  *)
ExpiryOfStored == \A k \in Keys : expiry[k] # Forever => adapter[k] # Missing

Visible  == [k \in Keys |-> IF Expired(k) THEN Missing ELSE adapter[k]]
Deadline == [k \in Keys |-> IF Expired(k) THEN Forever ELSE expiry[k]]

Abstract == INSTANCE ExpiringMap WITH content <- Visible, deadline <- Deadline

(* The lazy expiry is invisible: the store behaves like a map whose        *)
(* entries vanish when their time is over.                                 *)
ImplementsExpiringMap == Abstract!Spec
=============================================================================
