----------------------------- MODULE MCStreams -----------------------------
(***************************************************************************)
(* The queue of the hub (MCQueue) and the streaming commands (RunGen), for *)
(* TLC.  They share nothing, so a behaviour exercises one of them and the  *)
(* state spaces add up.                                                    *)
(***************************************************************************)
EXTENDS MCQueue

CONSTANTS Readers, Awaiters, Callbacks, Kinds, MaxYields, MayFail, MayStop, MayShort

ASSUME KindsAssumption == Kinds \subseteq {"value", "none", "sub", "fan"}

VARIABLES
  results, queue, done, exception, waitingCbs, called, reader, seen, awaiter, got,
  task, yields, answers, feedback, stopped,
  subject  \* the part this behaviour exercises

Stream == INSTANCE RunGen

streamVars == <<results, queue, done, exception, waitingCbs, called, reader, seen,
                awaiter, got, task, yields, answers, feedback, stopped>>

ForQueue  == subject = "Queue"
ForStream == subject = "RunGen"

MCInit ==
  /\ subject \in {"Queue", "RunGen"}
  /\ Init /\ Stream!Init

MCNext ==
  /\ \/ ForQueue /\ Next /\ UNCHANGED streamVars
     \/ ForStream /\ Stream!Next /\ UNCHANGED vars
  /\ UNCHANGED subject

\* Queue!Fairness and RunGen!Fairness, each for its own.
MCFairness ==
  /\ WF_vars(ForQueue /\ \E m \in Messages : Take(m))
  /\ WF_vars(ForQueue /\ Loop)
  /\ WF_streamVars(ForStream /\ Stream!Runner)
  /\ \A x \in Readers : WF_streamVars(ForStream /\ Stream!Reading(x))
  /\ \A x \in Awaiters : WF_streamVars(ForStream /\ Stream!Awaiting(x))

MCSpec == MCInit /\ [][MCNext]_<<vars, streamVars, subject>> /\ MCFairness
-----------------------------------------------------------------------------
(* Every accepted message is eventually taken, unless the service stops.   *)
PendingTaken == ForQueue => EventuallyTaken

(* A lone reader sees the streamed values in order, each once, to the end. *)
ReaderComplete == Stream!ReaderComplete

(* What the generator is resumed with belongs to its last yield.           *)
AnswersMatch == Stream!AnswersMatch

(* What an await returned holds the whole stream.                          *)
AwaitFinal == Stream!AwaitFinal

(* A registered callback is scheduled exactly once, and only when done.    *)
CallbacksOnce == Stream!CallbacksOnce

(* Once the runner or the stream ends, whoever awaits or reads is released.*)
ClientsReleased == ForStream => Stream!ClientsReleased
=============================================================================
