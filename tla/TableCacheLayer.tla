-------------------------- MODULE TableCacheLayer --------------------------
(***************************************************************************)
(* TableCacheLayer of adapters/composite.py: the flush removes every dirty *)
(* key from the backend, then stores a batch of their values, then clears  *)
(* the dirty set.  remove_batch and set_batch are the loops of KVProtocol  *)
(* (adapters/_base.py).                                                    *)
(***************************************************************************)
EXTENDS KVCache

\* flush takes its list of dirty keys; remove_batch(dirty_keys) begins.
FlushBegin(p) ==
  /\ doing[p] = "flush"
  /\ doing' = [doing EXCEPT ![p] = "clear"]
  /\ UNCHANGED <<cacheVars, backend, wire, stage, key, todo, batch, answer, latest, failVars>>

remove_batch(p, k) ==
  /\ doing[p] = "clear" /\ Ready(p) /\ k \in todo[p]
  /\ todo' = [todo EXCEPT ![p] = @ \ {k}]
  /\ attempt(p, "remove", k, Missing)
  /\ UNCHANGED <<cacheVars, backend, stage, doing, key, batch, latest, failVars>>

\* The dict of the values of the dirty keys, built once.  With one writer
\* none became dirty since flush took its list: it runs the flush itself,
\* or has finished before on_stop does.
BuildBatch(p) ==
  /\ doing[p] = "clear" /\ Ready(p) /\ todo[p] = {}
  /\ doing' = [doing EXCEPT ![p] = "fill"]
  /\ batch' = [batch EXCEPT ![p] = [k \in Keys |-> IF k \in dirty THEN cache[k] ELSE Missing]]
  /\ UNCHANGED <<cacheVars, backend, wire, stage, key, todo, answer, latest, failVars>>

set_batch(p, k) ==
  /\ doing[p] = "fill" /\ Ready(p) /\ batch[p][k] # Missing
  /\ batch' = [batch EXCEPT ![p][k] = Missing]
  /\ attempt(p, "set", k, batch[p][k])
  /\ UNCHANGED <<cacheVars, backend, stage, doing, key, todo, latest, failVars>>

FlushEnd(p) ==
  /\ doing[p] = "fill" /\ Ready(p) /\ batch[p] = NothingDone
  /\ dirty' = {} /\ failures' = 0
  /\ doing' = [doing EXCEPT ![p] = "idle"]
  /\ UNCHANGED <<cache, backend, wire, stage, key, todo, batch, answer, latest, unremoved>>

Next ==
  \/ Common
  \/ \E p \in Procs :
       \/ FlushBegin(p) \/ BuildBatch(p) \/ FlushEnd(p)
       \/ \E k \in Keys : remove_batch(p, k) \/ set_batch(p, k)

Spec == Init /\ [][Next]_vars
=============================================================================
