---------------------------- MODULE FifoDelivery ----------------------------
(***************************************************************************)
(* What the message queue promises to the hub, without the store, the      *)
(* event and the consumer loop: a bounded buffer that hands out messages   *)
(* in the order it accepted them, and in which a message that was handed   *)
(* out keeps its place until its processing is over.                       *)
(***************************************************************************)
EXTENDS Integers, Sequences, FiniteSets

CONSTANTS Messages, Capacity

VARIABLES
  waiting,   \* accepted and not yet handed out, oldest first
  working    \* handed out, still occupying a place

vars == <<waiting, working>>

Held == {waiting[i] : i \in DOMAIN waiting} \union working

Init == waiting = <<>> /\ working = {}

Accept(m) ==
  /\ m \notin Held
  /\ Len(waiting) + Cardinality(working) < Capacity
  /\ waiting' = Append(waiting, m)
  /\ UNCHANGED working

Deliver ==
  /\ waiting # <<>>
  /\ working' = working \union {Head(waiting)}
  /\ waiting' = Tail(waiting)

Release(m) ==
  /\ m \in working
  /\ working' = working \ {m}
  /\ UNCHANGED waiting

Next == Deliver \/ \E m \in Messages : Accept(m) \/ Release(m)

Spec == Init /\ [][Next]_vars
=============================================================================
