------------------------------- MODULE MCQueue -------------------------------
(***************************************************************************)
(* Model checking of Queue, and the refinement of FifoDelivery by it: the  *)
(* pending entries in scan order are the buffer, the entries in flight are *)
(* the messages being worked on.                                           *)
(***************************************************************************)
EXTENDS Queue

Working == {m \in Messages : status[m] = IN_FLIGHT}
Waiting ==
  CHOOSE s \in [1..Cardinality(Pending) -> Pending] :
    \A i, j \in 1..Cardinality(Pending) : i < j => pos[s[i]] < pos[s[j]]

Abstract == INSTANCE FifoDelivery
              WITH Capacity <- MaxSize, waiting <- Waiting, working <- Working

(* The queue implements the bounded FIFO buffer: nothing is handed out     *)
(* twice or out of order, an entry leaves only when it was handed out, and *)
(* the places of pending and in-flight messages are shared.                *)
ImplementsFifo == Abstract!Spec
=============================================================================
