------------------------------- MODULE MCHub -------------------------------
(***************************************************************************)
(* Instances of Hub for TLC.                                               *)
(***************************************************************************)
EXTENDS Hub, TLC

CONSTANTS r, q, s, t, e, h, g

(* Commands: two clients submit r and q; the handler of r may call s, or   *)
(* hand off to s or t; delivery_count of r is 1.                           *)
CommandMessages == {r, q, s, t}
CommandChildren == (r :> {s, t}) @@ (q :> {}) @@ (s :> {}) @@ (t :> {})
CommandRetries  == (r :> 1) @@ (q :> 0) @@ (s :> 0) @@ (t :> 0)
NoTriggers      == [x \in {} |-> x]

(* Events: r emits e; e, which clients also submit, triggers h and, if it  *)
(* is dispatched a second time after a rejection, g.                       *)
EventMessages == {r, e, q, h, g}
EventChildren == (r :> {}) @@ (e :> {}) @@ (q :> {e}) @@ (h :> {}) @@ (g :> {})
EventSource   == (h :> e) @@ (g :> e)
EventTry      == (h :> 1) @@ (g :> 2)
NoRetries     == [m \in EventMessages |-> 0]
=============================================================================
