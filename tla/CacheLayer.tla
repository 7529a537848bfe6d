---------------------------- MODULE CacheLayer ----------------------------
(***************************************************************************)
(* CacheLayer of adapters/composite.py: the flush writes the dirty keys    *)
(* one by one and then clears the whole dirty set.                         *)
(***************************************************************************)
EXTENDS KVCache

\* The loop of flush up to its next await.  The value is read when the key
\* is reached, and a key that has been removed meanwhile is skipped.
FlushKey(p, k) ==
  /\ doing[p] = "flush" /\ Ready(p) /\ k \in todo[p]
  /\ todo' = [todo EXCEPT ![p] = @ \ {k}]
  /\ IF cache[k] # Missing THEN attempt(p, "set", k, cache[k])
     ELSE UNCHANGED <<wire, answer>>
  /\ UNCHANGED <<cacheVars, backend, stage, doing, key, batch, latest, failVars>>

\* self._dirty.clear(), whatever became dirty during the loop.
FlushEnd(p) ==
  /\ doing[p] = "flush" /\ Ready(p) /\ todo[p] = {}
  /\ dirty' = {} /\ failures' = 0
  /\ doing' = [doing EXCEPT ![p] = "idle"]
  /\ UNCHANGED <<cache, backend, wire, stage, key, todo, batch, answer, latest, unremoved>>

Next == Common \/ \E p \in Procs : FlushEnd(p) \/ \E k \in Keys : FlushKey(p, k)

Spec == Init /\ [][Next]_vars
=============================================================================
