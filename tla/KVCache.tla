------------------------------ MODULE KVCache ------------------------------
(***************************************************************************)
(* What CacheLayer and TableCacheLayer (adapters/composite.py) share: a    *)
(* dict in memory with a set of dirty keys in front of a backend reached   *)
(* by awaits.  Every await on the backend lets other clients run.          *)
(*                                                                         *)
(* The backend is a single connection that serves requests in the order    *)
(* they were made (SQLiteProtocol on aiosqlite): `wire' is its queue.  It  *)
(* may refuse a request, and then the await raises out of the operation.   *)
(* Whether it will is chosen with the request, and seen by nobody before.  *)
(* A client may be cancelled in an await: its request is still served.  (A *)
(* request that raises after it took effect looks the same.)               *)
(* The modules that extend this one add the flush.                         *)
(***************************************************************************)
EXTENDS Integers, Sequences, FiniteSets

CONSTANTS
  Keys, Values,
  Missing,         \* no value (None)
  Waiting,         \* the backend has not answered
  Clients,         \* coroutines that use the cache
  Nobody,          \* no coroutine: a request whose client was cancelled
  Stopper,         \* the coroutine that runs on_stop, no client
  Setters,         \* clients that call set
  Removers,        \* clients that call remove
  FlushThreshold,  \* flush_threshold, not zero
  QuietStop,       \* does the shutdown wait for the clients
  MaxFailures,     \* bound: flushes that fail in a row
  MaxOrphans       \* bound: requests of cancelled clients in the queue

ASSUME ValuesAssumption == Missing \notin Values /\ Waiting \notin Values \union {Missing}
ASSUME ClientsAssumption ==
  /\ Stopper \notin Clients /\ Setters \subseteq Clients /\ Removers \subseteq Clients
  /\ Nobody \notin Clients \union {Stopper}
ASSUME BoundsAssumption ==
  /\ Keys # {} /\ FlushThreshold \in Nat \ {0} /\ QuietStop \in BOOLEAN
  /\ MaxFailures \in Nat /\ MaxOrphans \in Nat

VARIABLES
  cache,    \* _cache: [Keys -> value or Missing]
  dirty,    \* _dirty
  backend,  \* what the inner protocol has stored
  wire,     \* requests the backend has not served
  stage,    \* of the process
  doing,    \* the operation a coroutine is in
  key,      \* and its key, of a get or a removal
  todo,     \* keys its flush has still to handle
  batch,    \* values a batch was built from (TableCacheLayer)
  answer,   \* what its last request returned, or Waiting
  latest,   \* history: the last value set, Missing once removed
  failures, \* history: flushes that raised since one was completed
  unremoved \* history: keys a removal of which raised, since the start

cacheVars == <<cache, dirty>>
procVars  == <<doing, key, todo, batch>>
failVars  == <<failures, unremoved>>
vars == <<cache, dirty, backend, wire, stage, procVars, answer, latest, failVars>>

Procs == Clients \union {Stopper}
Maybe == Values \union {Missing}
Stage == {"running", "stopping", "stopped", "crashed"}
Operation == {"idle", "get", "remove", "flush", "clear", "fill"}

Ready(p) == answer[p] # Waiting
Idle(p)  == doing[p] = "idle"
Serving  == stage \in {"running", "stopping"}
Flushing(p) == doing[p] \in {"flush", "clear", "fill"}

\* A request of p to the backend, and the await on it.
request(p, op, k, v) ==
  /\ wire' = Append(wire, [who |-> p, op |-> op, key |-> k, value |-> v])
  /\ answer' = [answer EXCEPT ![p] = Waiting]

\* The same, which the backend may refuse.
attempt(p, op, k, v) ==
  \/ request(p, op, k, v)
  \/ failures < MaxFailures /\ request(p, "refused", k, v)

NothingDone == [k \in Keys |-> Missing]

\* An exception leaves the operation of p.
interrupted(p) ==
  /\ doing' = [q \in Procs |-> IF q = p THEN "idle" ELSE doing[q]]
  /\ key' = [q \in Procs |-> IF q = p THEN Missing ELSE key[q]]
  /\ todo' = [q \in Procs |-> IF q = p THEN {} ELSE todo[q]]
  /\ batch' = [q \in Procs |-> IF q = p THEN NothingDone ELSE batch[q]]
  /\ answer' = [q \in Procs |-> IF q = p THEN Missing ELSE answer[q]]
  /\ failures' = IF p \in Procs /\ Flushing(p) THEN failures + 1 ELSE failures

Init ==
  /\ cache = NothingDone /\ dirty = {} /\ backend = NothingDone /\ wire = <<>>
  /\ stage = "running"
  /\ doing = [p \in Procs |-> "idle"]
  /\ key = [p \in Procs |-> Missing]
  /\ todo = [p \in Procs |-> {}]
  /\ batch = [p \in Procs |-> NothingDone]
  /\ answer = [p \in Procs |-> Missing]
  /\ latest = NothingDone
  /\ failures = 0 /\ unremoved = {}
-----------------------------------------------------------------------------
\* get on a key the cache does not hold; a hit changes nothing.
GetMiss(p, k) ==
  /\ Serving /\ p \in Clients /\ Idle(p)
  /\ cache[k] = Missing
  /\ doing' = [doing EXCEPT ![p] = "get"]
  /\ key' = [key EXCEPT ![p] = k]
  /\ attempt(p, "get", k, Missing)
  /\ UNCHANGED <<cacheVars, backend, stage, todo, batch, latest, failVars>>

\* The rest of get: a value that was found is cached, over whatever is there.
GetEnd(p) ==
  /\ doing[p] = "get" /\ Ready(p)
  /\ doing' = [doing EXCEPT ![p] = "idle"]
  /\ cache' = IF answer[p] = Missing THEN cache
              ELSE [cache EXCEPT ![key[p]] = answer[p]]
  /\ key' = [key EXCEPT ![p] = Missing]
  /\ answer' = [answer EXCEPT ![p] = Missing]
  /\ UNCHANGED <<dirty, backend, wire, stage, todo, batch, latest, failVars>>

\* A plausible bug: the key is not marked dirty.
SetUnmarked(p, k, v) ==
  /\ Serving /\ p \in Setters /\ Idle(p)
  /\ cache' = [cache EXCEPT ![k] = v]
  /\ latest' = [latest EXCEPT ![k] = v]
  /\ dirty' = dirty
  /\ UNCHANGED <<backend, wire, stage, key, batch, answer, doing, todo, failVars>>

\* A plausible bug: set starts a flush one key too late.
SetLateFlush(p, k, v) ==
  /\ Serving /\ p \in Setters /\ Idle(p)
  /\ cache' = [cache EXCEPT ![k] = v]
  /\ latest' = [latest EXCEPT ![k] = v]
  /\ dirty' = dirty \union {k}
  /\ IF Cardinality(dirty) >= FlushThreshold
     THEN /\ doing' = [doing EXCEPT ![p] = "flush"]
          /\ todo' = [todo EXCEPT ![p] = dirty']
     ELSE UNCHANGED <<doing, todo>>
  /\ UNCHANGED <<backend, wire, stage, key, batch, answer, failVars>>

\* set, up to the first await of the flush it may start.
Set(p, k, v) ==
  /\ Serving /\ p \in Setters /\ Idle(p)
  /\ cache' = [cache EXCEPT ![k] = v]
  /\ latest' = [latest EXCEPT ![k] = v]
  /\ dirty' = dirty \union {k}
  /\ IF Cardinality(dirty') >= FlushThreshold
     THEN /\ doing' = [doing EXCEPT ![p] = "flush"]
          /\ todo' = [todo EXCEPT ![p] = dirty']
     ELSE UNCHANGED <<doing, todo>>
  /\ UNCHANGED <<backend, wire, stage, key, batch, answer, failVars>>

\* A plausible bug: only the backend forgets the key.
RemoveBackendOnly(p, k) ==
  /\ Serving /\ p \in Removers /\ Idle(p)
  /\ latest' = [latest EXCEPT ![k] = Missing]
  /\ doing' = [doing EXCEPT ![p] = "remove"]
  /\ key' = [key EXCEPT ![p] = k]
  /\ request(p, "remove", k, Missing)
  /\ UNCHANGED <<cacheVars, backend, stage, todo, batch, failVars>>

\* remove, up to its await.  When the backend refuses, the cache has
\* forgotten the key already.
Remove(p, k) ==
  /\ Serving /\ p \in Removers /\ Idle(p)
  /\ cache' = [cache EXCEPT ![k] = Missing]
  /\ latest' = [latest EXCEPT ![k] = Missing]
  /\ dirty' = dirty \ {k}
  /\ doing' = [doing EXCEPT ![p] = "remove"]
  /\ key' = [key EXCEPT ![p] = k]
  /\ \/ request(p, "remove", k, Missing) /\ unremoved' = unremoved
     \/ request(p, "refused", k, Missing) /\ unremoved' = unremoved \union {k}
  /\ UNCHANGED <<backend, stage, todo, batch, failures>>

RemoveEnd(p) ==
  /\ doing[p] = "remove" /\ Ready(p)
  /\ doing' = [doing EXCEPT ![p] = "idle"]
  /\ key' = [key EXCEPT ![p] = Missing]
  /\ UNCHANGED <<cacheVars, backend, wire, stage, todo, batch, answer, latest, failVars>>

\* The backend serves its oldest request.
Serve ==
  /\ wire # <<>> /\ Head(wire).op # "refused"
  /\ LET r == Head(wire)
     IN /\ backend' = CASE r.op = "set"    -> [backend EXCEPT ![r.key] = r.value]
                        [] r.op = "remove" -> [backend EXCEPT ![r.key] = Missing]
                        [] r.op = "get"    -> backend
        /\ answer' = [q \in Procs |->
                        IF q # r.who THEN answer[q]
                        ELSE IF r.op = "get" THEN backend[r.key] ELSE Missing]
  /\ wire' = Tail(wire)
  /\ UNCHANGED <<cacheVars, stage, procVars, latest, failVars>>

\* Or it refuses it: the operation ends where it awaits, and a flush before
\* it clears the dirty set.
Refuse ==
  /\ wire # <<>> /\ Head(wire).op = "refused"
  /\ wire' = Tail(wire)
  /\ interrupted(Head(wire).who)
  /\ UNCHANGED <<cacheVars, backend, stage, latest, unremoved>>

\* A client is cancelled in its await.  Of a removal nobody knows then how
\* far it came.
Cancel(p) ==
  /\ p \in Clients /\ ~Ready(p)
  /\ Flushing(p) => failures < MaxFailures
  /\ Cardinality({i \in DOMAIN wire : wire[i].who = Nobody}) < MaxOrphans
  /\ interrupted(p)
  /\ wire' = [i \in DOMAIN wire |->
                [wire[i] EXCEPT !.who = IF wire[i].who = p THEN Nobody ELSE wire[i].who]]
  /\ unremoved' = IF doing[p] = "remove" THEN unremoved \union {key[p]} ELSE unremoved
  /\ UNCHANGED <<cacheVars, backend, stage, latest>>
-----------------------------------------------------------------------------
\* A plausible bug: on_stop does not flush.
StopUnflushed ==
  /\ stage = "running"
  /\ QuietStop => \A p \in Clients : Idle(p)
  /\ stage' = "stopping"
  /\ UNCHANGED <<cacheVars, backend, wire, procVars, answer, latest, failVars>>

\* on_stop: a last flush (which does nothing when nothing is dirty).
Stop ==
  /\ stage = "running"
  /\ QuietStop => \A p \in Clients : Idle(p)
  /\ stage' = "stopping"
  /\ doing' = [doing EXCEPT ![Stopper] = IF dirty = {} THEN "idle" ELSE "flush"]
  /\ todo' = [todo EXCEPT ![Stopper] = dirty]
  /\ UNCHANGED <<cacheVars, backend, wire, key, batch, answer, latest, failVars>>

\* on_stop is over, by an exception too, and the backend is closed behind
\* the requests it still has.
Stopped ==
  /\ stage = "stopping"
  /\ (\A p \in Procs : Idle(p)) /\ wire = <<>>
  /\ stage' = "stopped"
  /\ UNCHANGED <<cacheVars, backend, wire, procVars, answer, latest, failVars>>

\* The process dies: memory and unserved requests are gone.
Crash ==
  /\ Serving
  /\ stage' = "crashed"
  /\ cache' = NothingDone /\ dirty' = {} /\ wire' = <<>>
  /\ doing' = [p \in Procs |-> "idle"]
  /\ key' = [p \in Procs |-> Missing]
  /\ todo' = [p \in Procs |-> {}]
  /\ batch' = [p \in Procs |-> NothingDone]
  /\ answer' = [p \in Procs |-> Missing]
  /\ UNCHANGED <<backend, latest, failVars>>

\* A new process: on_started loads every key before anyone uses the cache,
\* so that its awaits, one for each key, are one step.
\* What the last process did not persist is lost.
load ==
  /\ stage \in {"stopped", "crashed"}
  /\ stage' = "running"
  /\ cache' = backend /\ dirty' = {}
  /\ latest' = backend
  /\ failures' = 0 /\ unremoved' = {}
  /\ UNCHANGED <<backend, wire, procVars, answer>>

\* Everything but the flush.  While the process stops, clients finish what
\* they are in; they start nothing new if the shutdown waited for them.
Common ==
  \/ \E p \in Clients, k \in Keys :
       /\ stage = "stopping" => ~QuietStop
       /\ GetMiss(p, k) \/ Remove(p, k) \/ \E v \in Values : Set(p, k, v)
  \/ \E p \in Procs : GetEnd(p) \/ RemoveEnd(p) \/ Cancel(p)
  \/ Serve \/ Refuse \/ Stop \/ Stopped \/ Crash \/ load
-----------------------------------------------------------------------------
Requests ==
  [who : Procs \union {Nobody}, op : {"get", "set", "remove", "refused"}, key : Keys, value : Maybe]

(* Types of the cache, the backend and the operations in progress.         *)
TypeOK ==
  /\ cache \in [Keys -> Maybe] /\ dirty \subseteq Keys
  /\ backend \in [Keys -> Maybe] /\ wire \in Seq(Requests)
  /\ stage \in Stage
  /\ doing \in [Procs -> Operation] /\ key \in [Procs -> Keys \union {Missing}]
  /\ todo \in [Procs -> SUBSET Keys] /\ batch \in [Procs -> [Keys -> Maybe]]
  /\ answer \in [Procs -> Maybe \union {Waiting}]
  /\ latest \in [Keys -> Maybe]
  /\ failures \in Nat /\ unremoved \subseteq Keys

\* The value of k in the backend once it has answered every request.
Drained(k) ==
  LET W == {i \in DOMAIN wire : wire[i].key = k /\ wire[i].op \in {"set", "remove"}}
  IN IF W = {} THEN backend[k]
     ELSE LET last == CHOOSE i \in W : \A j \in W : j <= i
          IN IF wire[last].op = "set" THEN wire[last].value ELSE Missing

\* The keys a promise can be made for: remove pops its key from the cache
\* and from the dirty set before it asks the backend, so when that raises,
\* an older value may come back.
Sound == Keys \ unremoved

(* Reads are up to date: what the cache holds is the last value set, and a *)
(* key it does not hold reads as removed as soon as the backend gets there.*)
ReadsLatest ==
  Serving =>
    \A k \in Sound : IF cache[k] # Missing THEN cache[k] = latest[k]
                     ELSE latest[k] = Missing /\ Drained(k) = Missing

(* No update is forgotten: a key whose last value is neither stored nor on *)
(* its way to the backend is dirty, so that a flush will write it, also    *)
(* after flushes that failed half way.                                     *)
NothingForgotten ==
  Serving => \A k \in Sound : latest[k] = Drained(k) \/ k \in dirty

(* With nothing under way, a crash loses the updates of fewer than         *)
(* flush_threshold keys, and of one more for each flush that failed since  *)
(* one was completed: the next set starts a flush again.                   *)
AtRiskBounded ==
  (Serving /\ (\A p \in Procs : Idle(p)) /\ wire = <<>>)
    => Cardinality({k \in Sound : latest[k] # backend[k]}) < FlushThreshold + failures

(* After an orderly stop the backend holds the last value of every key,    *)
(* unless the last flush failed.                                           *)
StopPersists ==
  stage = "stopped" /\ failures = 0 => \A k \in Sound : backend[k] = latest[k]
=============================================================================
