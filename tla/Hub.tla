-------------------------------- MODULE Hub --------------------------------
(***************************************************************************)
(* HubService in service mode: dispatch, the queue's consumer loop, one    *)
(* processing task per message (service/app.py, service/runner.py `_run'), *)
(* the sub-commands, handoffs and events a handler dispatches, and the     *)
(* subscriber callbacks of the Exchange (service/exchange.py).             *)
(*                                                                         *)
(* A message is an object: a retry calls it again, a sub-command is a new  *)
(* object.  `Children' names the objects a handler may create.             *)
(***************************************************************************)
EXTENDS Integers, Sequences, FiniteSets

CONSTANTS
  Messages,     \* every message object
  None,         \* no message
  Roots,        \* messages that clients submit
  Children,     \* [Messages -> SUBSET Messages]: objects its handler creates
  Triggered,    \* commands created for subscribers
  SourceOf,     \* [Triggered -> Messages]: the event that triggers it
  TryOf,        \* [Triggered -> Nat]: the dispatch of it that binds the callback
  Retries,      \* [Messages -> Int]: delivery_count
  MayExpire,    \* messages whose expire_time may elapse
  MayFail,      \* messages whose handler may raise
  MayHandOff,   \* messages whose handler may return a Message
  Cancellable,  \* roots whose awaiting client may be cancelled
  Hooks,        \* what a before/after hook may do, beside returning None
  MayStop,      \* may the service be stopped
  MaxSize,      \* QUEUE_MAX_SIZE
  HistorySize   \* QUEUE_HISTORY_MAX_SIZE

ASSUME NoneAssumption == None \notin Messages
ASSUME KindsAssumption ==
  /\ Roots \subseteq Messages /\ Triggered \subseteq Messages
  /\ MayExpire \subseteq Messages /\ MayFail \subseteq Messages
  /\ MayHandOff \subseteq Messages /\ Cancellable \subseteq Roots
  /\ Children \in [Messages -> SUBSET Messages]
  /\ SourceOf \in [Triggered -> Messages]
  /\ TryOf \in [Triggered -> Nat \ {0}]
  /\ Retries \in [Messages -> Int]
  /\ Hooks \subseteq {"short", "raise"}
  /\ MayStop \in BOOLEAN
\* Only the Exchange creates the commands of subscribers.
ASSUME TriggeredAssumption ==
  Triggered \intersect (Roots \union UNION {Children[m] : m \in Messages}) = {}
ASSUME BoundsAssumption == MaxSize \in Nat /\ HistorySize \in Nat

VARIABLES
  status, pos, nextPos, history, notify, consumer, stop,   \* of the queue
  phase,      \* where the life of the message is
  fut,        \* message.state, a Future
  retries,    \* message.delivery_count
  child,      \* the sub-message the task is suspended on, or handed off to
  tries,      \* dispatches attempted of an event (bind_subscriber_callbacks)
  callbacks,  \* subscriber commands whose done-callback is registered
  crashed     \* Exchange.crash, which takes the hub with it

queueVars == <<status, pos, nextPos, history, notify, consumer, stop>>
vars == <<queueVars, phase, fut, retries, child, tries, callbacks, crashed>>

\* "new": not accepted by the queue; "spawned": hub.dispatch(command) is a
\* future of the Exchange that has not run; "queued": accepted, no task yet;
\* "start": task created; "call": in message(); "await": message() awaits
\* the state of a sub-message; "handoff": _run waits for the returned
\* message; "after": the runner has returned; "complete": about to call
\* queue.complete; "ended"; "lost": the task ended by CancelledError.
Phase == {"new", "spawned", "queued", "start", "call", "await", "handoff",
          "after", "complete", "ended", "lost"}
Live  == {"start", "call", "await", "handoff", "after", "complete"}

Future == {"open", "result", "error", "timeout", "cancelled"}

HasTask(m) == phase[m] \in Live
Accepted(m) == phase[m] \notin {"new", "spawned"}

Q == INSTANCE Queue
       WITH MaxPuts <- 1, ReputInFlight <- FALSE,
            tasks <- [m \in Messages |-> IF HasTask(m) THEN 1 ELSE 0],
            puts  <- [m \in Messages |-> IF Accepted(m) THEN 1 ELSE 0]

\* should_stop of the hub and of the exchange.
HubStopping      == stop # "running" \/ crashed
ExchangeStopping == stop = "all" \/ crashed

\* Future f of m after an attempt to settle it; every caller checks done().
Settled(f, m, r) == [f EXCEPT ![m] = IF @ = "open" THEN r ELSE @]
-----------------------------------------------------------------------------
Init ==
  /\ status   = [m \in Messages |-> "ABSENT"]
  /\ pos      = [m \in Messages |-> 0]
  /\ nextPos  = 1
  /\ history  = <<>>
  /\ notify   = FALSE
  /\ consumer = "boot"
  /\ stop     = "running"
  /\ phase    = [m \in Messages |-> "new"]
  /\ fut      = [m \in Messages |-> "open"]
  /\ retries  = Retries
  /\ child    = [m \in Messages |-> None]
  /\ tries    = [m \in Messages |-> 0]
  /\ callbacks = {}
  /\ crashed  = FALSE
-----------------------------------------------------------------------------
(* Dispatch.  Callbacks are bound before the queue accepts the message, so *)
(* they stay bound when the queue is full and put raises.                  *)

IsEvent(m) == \E h \in Triggered : SourceOf[h] = m

bind_subscriber_callbacks(m) ==
  IF IsEvent(m)
  THEN /\ tries' = [tries EXCEPT ![m] = @ + 1]
       /\ callbacks' = callbacks \union
            {h \in Triggered : SourceOf[h] = m /\ TryOf[h] = tries[m] + 1}
  ELSE UNCHANGED <<tries, callbacks>>

dispatch(m) ==
  /\ bind_subscriber_callbacks(m)
  /\ Q!put(m)
  /\ UNCHANGED <<history, consumer, stop, crashed>>

\* HubService.dispatch when Queue.put raises ServiceMaxSizeOfQueueError.
dispatchRejected(m) ==
  /\ Q!IsFull
  /\ bind_subscriber_callbacks(m)
  /\ UNCHANGED <<queueVars, crashed>>

\* HubService.execute / emit called by an entrypoint.
Submit(m) ==
  /\ m \in Roots /\ phase[m] = "new"
  /\ dispatch(m)
  /\ phase' = [phase EXCEPT ![m] = "queued"]
  /\ UNCHANGED <<fut, retries, child>>

\* The client sees the error and may try again with the same object.  The
\* bound on the attempts is the number of callbacks the model provides.
SubmitRejected(m) ==
  /\ m \in Roots /\ phase[m] = "new"
  /\ \E h \in Triggered : SourceOf[h] = m /\ TryOf[h] > tries[m] + 1
  /\ dispatchRejected(m)
  /\ UNCHANGED <<phase, fut, retries, child>>

\* The task that awaits a root is cancelled (a disconnect, wait_for), and
\* with it the future it awaits.
Cancel(m) ==
  /\ m \in Cancellable /\ Accepted(m) /\ fut[m] = "open"
  /\ fut' = [fut EXCEPT ![m] = "cancelled"]
  /\ UNCHANGED <<queueVars, phase, retries, child, tries, callbacks, crashed>>
-----------------------------------------------------------------------------
(* The consumer, HubService.run.                                           *)

Take(m) ==
  /\ Q!take(m)
  /\ phase' = [phase EXCEPT ![m] = "start"]
  /\ UNCHANGED <<history, stop, fut, retries, child, tries, callbacks, crashed>>

Loop ==
  /\ Q!Start \/ Q!Idle \/ Q!Wake
  /\ UNCHANGED <<status, pos, nextPos, history, stop>>
  /\ UNCHANGED <<phase, fut, retries, child, tries, callbacks, crashed>>
-----------------------------------------------------------------------------
(* The task of a message, _process_and_complete -> _execute -> _run.       *)

\* Steps of a task that touch neither the queue nor the Exchange.
Inner == UNCHANGED <<queueVars, tries, callbacks, crashed>>

\* No before-hook objects: _run makes its first call.
Begin(m) ==
  /\ phase[m] = "start"
  /\ phase' = [phase EXCEPT ![m] = "call"]
  /\ Inner /\ UNCHANGED <<fut, retries, child>>

\* A before-hook returns a value: it becomes the result, and neither the
\* handler nor the after-hooks run.
ShortCircuit(m) ==
  /\ "short" \in Hooks /\ phase[m] = "start"
  /\ fut' = Settled(fut, m, "result")
  /\ phase' = [phase EXCEPT ![m] = "complete"]
  /\ Inner /\ UNCHANGED <<retries, child>>

\* A plausible bug: the error of a hook is only logged.
HookRaisesUnsettled(m) ==
  /\ "raise" \in Hooks /\ phase[m] \in {"start", "after"}
  /\ phase' = [phase EXCEPT ![m] = "complete"]
  /\ Inner /\ UNCHANGED <<fut, retries, child>>

\* A hook raises: caught by _process_and_complete.
HookRaises(m) ==
  /\ "raise" \in Hooks
  /\ phase[m] = "start" \/ (phase[m] = "after" /\ fut[m] # "cancelled")
  /\ fut' = Settled(fut, m, "error")
  /\ phase' = [phase EXCEPT ![m] = "complete"]
  /\ Inner /\ UNCHANGED <<retries, child>>

\* A plausible bug: the entry is completed as soon as there is a result,
\* before the after-hooks.
ReturnCompletes(m) ==
  /\ phase[m] = "call"
  /\ fut' = Settled(fut, m, "result")
  /\ phase' = [phase EXCEPT ![m] = "after"]
  /\ Q!complete(m, Q!DONE)
  /\ UNCHANGED <<notify, consumer, stop, retries, child, tries, callbacks, crashed>>

\* message() returns a plain value.  An event settles its own state first.
Return(m) ==
  /\ phase[m] = "call"
  /\ fut' = Settled(fut, m, "result")
  /\ phase' = [phase EXCEPT ![m] = "after"]
  /\ Inner /\ UNCHANGED <<retries, child>>

\* message() raises.
Raise(m) ==
  /\ m \in MayFail /\ phase[m] = "call"
  /\ fut' = Settled(fut, m, "error")
  /\ phase' = [phase EXCEPT ![m] = "after"]
  /\ Inner /\ UNCHANGED <<retries, child>>

\* The queue is full for a message the handler dispatches or hands off to:
\* the error is not one of those _run retries.
SubRejected(m, c) ==
  /\ phase[m] = "call" /\ phase[c] = "new"
  /\ dispatchRejected(c)
  /\ fut' = Settled(fut, m, "error")
  /\ phase' = [phase EXCEPT ![m] = "after"]
  /\ UNCHANGED <<retries, child>>

\* A plausible bug: the last timeout is not stored in the state.
retryOrAbandon(m, f) ==
  /\ child' = [child EXCEPT ![m] = None]
  /\ fut' = f
  /\ IF retries[m] # 0
     THEN /\ retries' = [retries EXCEPT ![m] = @ - 1]
          /\ phase' = [phase EXCEPT ![m] = "call"]
     ELSE /\ phase' = [phase EXCEPT ![m] = "after"]
          /\ UNCHANGED retries

\* The except branch of _run for timeouts: once more while delivery_count
\* is not zero (a negative one never is).  f is the futures as the
\* interrupted step leaves them.
retryOrFail(m, f) ==
  /\ child' = [child EXCEPT ![m] = None]
  /\ IF retries[m] # 0
     THEN /\ retries' = [retries EXCEPT ![m] = @ - 1]
          /\ phase' = [phase EXCEPT ![m] = "call"]
          /\ fut' = f
     ELSE /\ fut' = Settled(f, m, "timeout")
          /\ phase' = [phase EXCEPT ![m] = "after"]
          /\ UNCHANGED retries

\* expire_time elapses: wait_for cancels message(), and thereby the future
\* of the sub-message it awaits.
Expire(m) ==
  /\ m \in MayExpire
  /\ \/ phase[m] = "call" /\ retryOrFail(m, fut)
     \/ phase[m] = "await" /\ retryOrFail(m, Settled(fut, child[m], "cancelled"))
  /\ Inner

\* A handler dispatches a sub-message and awaits its state (hub.execute).
Call(m, c) ==
  /\ phase[m] = "call" /\ c \in Children[m] /\ phase[c] = "new"
  /\ dispatch(c)
  /\ phase' = [phase EXCEPT ![m] = "await", ![c] = "queued"]
  /\ child' = [child EXCEPT ![m] = c]
  /\ UNCHANGED <<fut, retries>>

\* A handler emits an event and goes on (hub.emit).
Emit(m, e) ==
  /\ phase[m] = "call" /\ e \in Children[m] /\ IsEvent(e) /\ phase[e] = "new"
  /\ dispatch(e)
  /\ phase' = [phase EXCEPT ![e] = "queued"]
  /\ UNCHANGED <<fut, retries, child>>

\* message() returns a Message: self.wait(self._submit(result)).
HandOff(m, c) ==
  /\ m \in MayHandOff
  /\ phase[m] = "call" /\ c \in Children[m] /\ phase[c] = "new"
  /\ dispatch(c)
  /\ phase' = [phase EXCEPT ![m] = "handoff", ![c] = "queued"]
  /\ child' = [child EXCEPT ![m] = c]
  /\ UNCHANGED <<fut, retries>>

\* The awaited sub-message has an outcome.  A handler may catch its error.
\* A TimeoutError of the sub-message is a TimeoutError of message().
Resume(m) ==
  /\ phase[m] = "await"
  /\ \/ /\ fut[child[m]] \in {"result", "error", "timeout"}
        /\ phase' = [phase EXCEPT ![m] = "call"]
        /\ child' = [child EXCEPT ![m] = None]
        /\ UNCHANGED <<fut, retries>>
     \/ /\ fut[child[m]] = "error"
        /\ fut' = Settled(fut, m, "error")
        /\ phase' = [phase EXCEPT ![m] = "after"]
        /\ child' = [child EXCEPT ![m] = None]
        /\ UNCHANGED retries
     \/ fut[child[m]] = "timeout" /\ retryOrFail(m, fut)
  /\ Inner

\* A plausible bug: the returned message is dispatched and not waited for.
HandedOffEager(m) ==
  /\ phase[m] = "handoff"
  /\ fut' = Settled(fut, m, "result")
  /\ phase' = [phase EXCEPT ![m] = "after"]
  /\ Inner /\ UNCHANGED <<retries, child>>

\* The handed-off message has an outcome, which becomes that of m.
HandedOff(m) ==
  /\ phase[m] = "handoff"
  /\ \/ /\ fut[child[m]] \in {"result", "error"}
        /\ fut[child[m]] = "result" => ~HubStopping
        /\ fut' = Settled(fut, m, fut[child[m]])
        /\ phase' = [phase EXCEPT ![m] = "after"]
        /\ UNCHANGED <<retries, child>>
     \/ fut[child[m]] = "timeout" /\ retryOrFail(m, fut)
  /\ Inner

\* The hub stops first: wait cancels _submit, _run breaks and leaves the
\* state of m alone.
HandoffStopped(m) ==
  /\ phase[m] = "handoff" /\ HubStopping
  /\ fut' = Settled(fut, child[m], "cancelled")
  /\ phase' = [phase EXCEPT ![m] = "after"]
  /\ Inner /\ UNCHANGED <<retries, child>>

\* A plausible bug: the entry is archived as done whatever the state says.
OutcomeAlwaysDone(m) == Q!DONE
OutcomeOf(m) == IF fut[m] \in {"error", "timeout"} THEN Q!FAILED ELSE Q!DONE

\* A plausible bug: an early return after a failure forgets queue.complete.
FinishSuccessOnly(m) ==
  /\ phase[m] \in {"after", "complete"}
  /\ IF fut[m] = "result" THEN Q!complete(m, OutcomeOf(m))
     ELSE UNCHANGED <<status, pos, nextPos, history>>
  /\ phase' = [phase EXCEPT ![m] = "ended"]
  /\ UNCHANGED <<notify, consumer, stop, fut, retries, child, tries, callbacks, crashed>>

\* The after-hooks and queue.complete.  On a cancelled state, exception()
\* raises CancelledError, in _execute and again in Queue.complete: the task
\* ends without completing the entry.
Finish(m) ==
  /\ phase[m] \in {"after", "complete"}
  /\ IF fut[m] = "cancelled"
     THEN /\ phase' = [phase EXCEPT ![m] = "lost"]
          /\ UNCHANGED <<status, pos, nextPos, history>>
     ELSE /\ phase' = [phase EXCEPT ![m] = "ended"]
          /\ Q!complete(m, OutcomeOf(m))
  /\ UNCHANGED <<notify, consumer, stop, fut, retries, child, tries, callbacks, crashed>>
-----------------------------------------------------------------------------
(* The Exchange: done-callbacks of events and the dispatches they spawn.   *)

\* A plausible bug: failed and cancelled events trigger their subscribers too.
SubscriberDoneAlways(h) ==
  /\ h \in callbacks /\ fut[SourceOf[h]] # "open"
  /\ callbacks' = callbacks \ {h}
  /\ phase' = [phase EXCEPT ![h] = IF ExchangeStopping THEN @ ELSE "spawned"]
  /\ UNCHANGED <<queueVars, fut, retries, child, tries, crashed>>

\* A plausible bug: the first callback that runs discards the others.
SubscriberDoneFirst(h) ==
  /\ h \in callbacks /\ fut[SourceOf[h]] # "open"
  /\ callbacks' = {c \in callbacks : SourceOf[c] # SourceOf[h]}
  /\ phase' = [phase EXCEPT ![h] =
                 IF ~ExchangeStopping /\ fut[SourceOf[h]] = "result"
                 THEN "spawned" ELSE @]
  /\ UNCHANGED <<queueVars, fut, retries, child, tries, crashed>>

\* _on_subscriber_done: only a result creates the command.
SubscriberDone(h) ==
  /\ h \in callbacks /\ fut[SourceOf[h]] # "open"
  /\ callbacks' = callbacks \ {h}
  /\ phase' = [phase EXCEPT ![h] =
                 IF ~ExchangeStopping /\ fut[SourceOf[h]] = "result"
                 THEN "spawned" ELSE @]
  /\ UNCHANGED <<queueVars, fut, retries, child, tries, crashed>>

\* The future hub.dispatch(command) runs.  A full queue raises in a future
\* of the Exchange, which crashes it and the hub above it.
DispatchTriggered(h) ==
  /\ phase[h] = "spawned"
  /\ \/ /\ dispatch(h)
        /\ phase' = [phase EXCEPT ![h] = "queued"]
     \/ /\ Q!IsFull
        /\ phase' = [phase EXCEPT ![h] = "new"]
        /\ crashed' = TRUE
        /\ stop' = IF stop = "running" THEN "hub" ELSE stop
        /\ UNCHANGED <<status, pos, nextPos, history, notify, consumer, tries, callbacks>>
     \/ /\ stop = "all"
        /\ phase' = [phase EXCEPT ![h] = "new"]
        /\ UNCHANGED <<queueVars, tries, callbacks, crashed>>
  /\ UNCHANGED <<fut, retries, child>>
-----------------------------------------------------------------------------
(* Shutdown: the hub's flag, then its children, then its remaining tasks.  *)

StopHub ==
  /\ MayStop /\ stop = "running"
  /\ stop' = "hub"
  /\ UNCHANGED <<status, pos, nextPos, history, notify, consumer>>
  /\ UNCHANGED <<phase, fut, retries, child, tries, callbacks, crashed>>

StopQueue ==
  /\ stop = "hub"
  /\ stop' = "all"
  /\ notify' = TRUE
  /\ UNCHANGED <<status, pos, nextPos, history, consumer>>
  /\ UNCHANGED <<phase, fut, retries, child, tries, callbacks, crashed>>

\* A plausible bug: only the tasks that are not suspended are cancelled.
CancelTaskRunning(m) ==
  /\ stop = "all" /\ HasTask(m) /\ phase[m] # "await"
  /\ phase' = [phase EXCEPT ![m] = "lost"]
  /\ fut' = IF phase[m] \in {"await", "handoff"}
            THEN Settled(fut, child[m], "cancelled") ELSE fut
  /\ Inner /\ UNCHANGED <<retries, child>>

\* Service.stop cancels the futures that are left; a task cancels what it
\* awaits.
CancelTask(m) ==
  /\ stop = "all" /\ HasTask(m)
  /\ phase' = [phase EXCEPT ![m] = "lost"]
  /\ fut' = IF phase[m] \in {"await", "handoff"}
            THEN Settled(fut, child[m], "cancelled") ELSE fut
  /\ Inner /\ UNCHANGED <<retries, child>>
-----------------------------------------------------------------------------
TaskStep(m) ==
  \/ Begin(m) \/ ShortCircuit(m) \/ HookRaises(m)
  \/ Return(m) \/ Raise(m) \/ Expire(m)
  \/ Resume(m) \/ HandedOff(m) \/ HandoffStopped(m)
  \/ Finish(m)
  \/ \E c \in Children[m] : 
       Call(m, c) \/ Emit(m, c) \/ HandOff(m, c) \/ SubRejected(m, c)

Next ==
  \/ \E m \in Messages : Take(m)
  \/ Loop
  \/ /\ Q!Yielded
     /\ \/ \E m \in Roots : Submit(m) \/ SubmitRejected(m) \/ Cancel(m)
        \/ \E m \in Messages : TaskStep(m) \/ CancelTask(m)
        \/ \E h \in Triggered : SubscriberDone(h) \/ DispatchTriggered(h)
        \/ StopHub \/ StopQueue

(* The event loop runs what is ready.  A handler's call ends: expire_time  *)
(* bounds it.  Clients and the operator who stops the service owe nothing. *)
Fairness ==
  /\ WF_vars(\E m \in Messages : Take(m))
  /\ WF_vars(Loop)
  /\ WF_vars(StopQueue)
  /\ \A m \in Messages : WF_vars(Q!Yielded /\ TaskStep(m))
  /\ \A m \in Messages : WF_vars(Q!Yielded /\ CancelTask(m))
  /\ \A h \in Triggered :
        WF_vars(Q!Yielded /\ (SubscriberDone(h) \/ DispatchTriggered(h)))

Spec == Init /\ [][Next]_vars /\ Fairness
-----------------------------------------------------------------------------
(* Types: phases, outcomes, budgets and the messages waited for.           *)
TypeOK ==
  /\ Q!TypeOK
  /\ phase \in [Messages -> Phase]
  /\ fut \in [Messages -> Future]
  /\ retries \in [Messages -> Int]
  /\ child \in [Messages -> Messages \union {None}]
  /\ tries \in [Messages -> Nat]
  /\ callbacks \subseteq Triggered
  /\ crashed \in BOOLEAN

(* The pipeline uses the queue as the Queue specification demands of its   *)
(* clients: nothing is put twice, only a running task completes, and the   *)
(* consumer keeps draining.                                                *)
ImplementsQueue == Q!Spec

(* A task holds the place of its message from take to complete, and a      *)
(* place is held without a task only when a cancellation ended the task.   *)
SlotAccounted ==
  \A m \in Messages :
    /\ HasTask(m) => status[m] = Q!IN_FLIGHT
    /\ (status[m] = Q!IN_FLIGHT /\ ~HasTask(m))
         => phase[m] = "lost" /\ (fut[m] = "cancelled" \/ stop = "all")

(* The stronger claim, that a place is freed whenever processing is over   *)
(* while the service runs.                                                 *)
SlotFreed ==
  \A m \in Messages :
    (status[m] = Q!IN_FLIGHT /\ stop = "running") => HasTask(m)

(* What the history says of a message agrees with its state: DONE with a   *)
(* result, FAILED with an exception, and nothing unresolved, apart from    *)
(* the handoffs the hub stopped waiting for when it began to stop.         *)
ArchiveTruthful ==
  \A i \in DOMAIN history :
    LET m == history[i][1]
    IN \/ history[i][2] = Q!DONE /\ fut[m] = "result"
       \/ history[i][2] = Q!FAILED /\ fut[m] \in {"error", "timeout"}
       \/ history[i][2] = Q!DONE /\ HubStopping /\ child[m] # None

(* A handoff is transparent: once the delegating message has a result or   *)
(* an error, it is the one of the message it handed off to, unless the hub *)
(* began to stop and left the handoff.                                     *)
HandoffTransparent ==
  \A m \in Messages :
    (/\ child[m] # None /\ phase[m] \in {"after", "complete", "ended"}
     /\ fut[m] \in {"result", "error"} /\ ~HubStopping)
    => fut[child[m]] = fut[m]

(* A suspended handler waits for something that can still answer: its      *)
(* sub-message has an outcome, is queued, or has a task; but for one that  *)
(* stopped to wait for its own handoff when the hub began to stop.         *)
NoOrphanWait ==
  \A m \in Messages :
    (phase[m] \in {"await", "handoff"} /\ stop # "all")
    => LET c == child[m]
       IN \/ fut[c] # "open" \/ status[c] = Q!PENDING \/ HasTask(c)
          \/ HubStopping /\ child[c] # None

(* A subscriber runs only for an event that succeeded.                     *)
SubscriberAfterSuccess ==
  \A h \in Triggered : phase[h] # "new" => fut[SourceOf[h]] = "result"

(* Every accepted message gets an outcome unless the service stops: nested *)
(* commands do not starve each other of the places of a full queue.        *)
EveryAcceptedResolves ==
  \A m \in Messages : Accepted(m) ~> (fut[m] # "open" \/ stop # "running")

(* Every subscriber bound to an event that succeeds is queued, unless the  *)
(* service stops or crashes.                                               *)
SubscribersRun ==
  \A h \in Triggered :
    (h \in callbacks /\ fut[SourceOf[h]] = "result")
      ~> (Accepted(h) \/ stop # "running")

(* A shutdown ends every task and the consumer loop.                       *)
ShutdownEnds ==
  (stop = "all") ~> (consumer = "off" /\ \A m \in Messages : ~HasTask(m))
=============================================================================
