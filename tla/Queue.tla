------------------------------- MODULE Queue -------------------------------
(***************************************************************************)
(* The message store of the hub (service/queue.py) together with the one   *)
(* coroutine that drains it, HubService.run (service/app.py).              *)
(*                                                                         *)
(* The store is an OrderedDict.  A key keeps the place of its first        *)
(* insertion when its value is overwritten, so the store is a status and   *)
(* an insertion number per message; the iteration order of the dict is the *)
(* order of the insertion numbers.                                         *)
(*                                                                         *)
(* asyncio is cooperative: the consumer takes every pending message        *)
(* without suspending, and anything else runs only while it is suspended   *)
(* in Queue.take (`Yielded').                                              *)
(***************************************************************************)
EXTENDS Integers, Sequences, FiniteSets

CONSTANTS
  Messages,      \* message objects, identified by their iid
  MaxSize,       \* QUEUE_MAX_SIZE
  HistorySize,   \* QUEUE_HISTORY_MAX_SIZE
  MaxPuts,       \* bound of the model: times one message object is put
  ReputInFlight  \* may a message be put again while it is in flight

ASSUME MaxSizeAssumption == MaxSize \in Nat
ASSUME HistorySizeAssumption == HistorySize \in Nat
ASSUME MaxPutsAssumption == MaxPuts \in Nat
ASSUME ReputAssumption == ReputInFlight \in BOOLEAN

VARIABLES
  status,     \* [Messages -> status in _store, or ABSENT]
  pos,        \* insertion number of a stored message
  nextPos,    \* the next insertion number
  history,    \* _history, the deque of archived messages
  notify,     \* _notify.is_set()
  consumer,   \* where HubService.run is
  stop,       \* how far the shutdown has come
  tasks,      \* number of _process_and_complete tasks of a message
  puts        \* how often a message was put (bounded by MaxPuts)

store == <<status, pos, nextPos>>
vars  == <<status, pos, nextPos, history, notify, consumer, stop, tasks, puts>>

PENDING   == "PENDING"
IN_FLIGHT == "IN_FLIGHT"
ABSENT    == "ABSENT"
DONE      == "DONE"
FAILED    == "FAILED"

Status  == {ABSENT, PENDING, IN_FLIGHT}
Outcome == {DONE, FAILED}

\* "boot": task not started; "scan": looping over the store; "sleep": in
\* self.wait(_notify.wait()); "off": the loop has ended.
ConsumerState == {"boot", "scan", "sleep", "off"}

\* Hub.stop() sets the hub's own flag first and stops its children (the
\* queue among them) afterwards.
StopState == {"running", "hub", "all"}

Stored     == {m \in Messages : status[m] # ABSENT}
Pending    == {m \in Messages : status[m] = PENDING}
Yielded    == consumer # "scan"
has_pending == Pending # {}

\* A plausible bug: only pending entries count against the capacity.
IsFullPendingOnly == Cardinality(Pending) >= MaxSize
IsFull == Cardinality(Stored) >= MaxSize

\* A plausible bug: a plain set of messages, scanned in no particular order.
IsFirstAny(m) == m \in Pending
\* The pending message the scan of the OrderedDict meets first.
IsFirst(m) == /\ m \in Pending
              /\ \A n \in Pending : pos[m] <= pos[n]

\* deque(maxlen=HistorySize).append(e)
AppendBounded(h, e) ==
  IF HistorySize = 0 THEN <<>>
  ELSE IF Len(h) < HistorySize THEN Append(h, e) ELSE Append(Tail(h), e)
-----------------------------------------------------------------------------
Init ==
  /\ status   = [m \in Messages |-> ABSENT]
  /\ pos      = [m \in Messages |-> 0]
  /\ nextPos  = 1
  /\ history  = <<>>
  /\ notify   = FALSE
  /\ consumer = "boot"
  /\ stop     = "running"
  /\ tasks    = [m \in Messages |-> 0]
  /\ puts     = [m \in Messages |-> 0]

\* A plausible bug: put does not set the event.
putSilently(m) ==
  /\ ~IsFull
  /\ status' = [status EXCEPT ![m] = PENDING]
  /\ pos' = [pos EXCEPT ![m] = nextPos]
  /\ nextPos' = nextPos + 1
  /\ UNCHANGED notify

(* Queue.put past its capacity check: the entry is (over)written, the     *)
(* consumer is notified.                                                  *)
put(m) ==
  /\ ~IsFull
  /\ status' = [status EXCEPT ![m] = PENDING]
  /\ IF m \in Stored THEN UNCHANGED <<pos, nextPos>>
     ELSE /\ pos' = [pos EXCEPT ![m] = nextPos]
          /\ nextPos' = nextPos + 1
  /\ notify' = TRUE

\* A plausible bug: take hands the entry out and leaves it pending.
takeUnmarked(m) ==
  /\ consumer = "scan"
  /\ IsFirst(m)
  /\ consumer' = IF stop = "running" THEN "scan" ELSE "off"
  /\ UNCHANGED <<status, pos, nextPos, notify>>

(* The found branch of Queue.take and the rest of the loop body of        *)
(* HubService.run: the message gets its task, and the loop goes on unless *)
(* the hub is stopping.                                                   *)
take(m) ==
  /\ consumer = "scan"
  /\ IsFirst(m)
  /\ status' = [status EXCEPT ![m] = IN_FLIGHT]
  /\ consumer' = IF stop = "running" THEN "scan" ELSE "off"
  /\ UNCHANGED <<pos, nextPos, notify>>

\* A plausible bug: the event is cleared without another look at the store.
IdleUnchecked ==
  /\ consumer = "scan"
  /\ consumer' = "sleep"
  /\ notify' = FALSE

(* Nothing is pending: leave when the queue has been stopped, else clear  *)
(* the event and wait.                                                    *)
Idle ==
  /\ consumer = "scan"
  /\ ~has_pending
  /\ IF stop = "all" THEN consumer' = "off" /\ UNCHANGED notify
     ELSE consumer' = "sleep" /\ notify' = FALSE

(* self.wait returns because of the event, or because the queue stopped,  *)
(* in which case take returns None whatever is pending.                   *)
Wake ==
  /\ consumer = "sleep"
  /\ notify \/ stop = "all"
  /\ consumer' = IF stop = "all" THEN "off" ELSE "scan"
  /\ UNCHANGED notify

(* HubService.run starts: `while not self.should_stop'. *)
Start ==
  /\ consumer = "boot"
  /\ consumer' = IF stop = "running" THEN "scan" ELSE "off"
  /\ UNCHANGED notify

\* A plausible bug: the outcome is written into the store, which has no such
\* status, and the entry stays.
completeInPlace(m, outcome) ==
  /\ status' = [status EXCEPT ![m] = outcome]
  /\ history' = AppendBounded(history, <<m, outcome>>)
  /\ UNCHANGED <<pos, nextPos>>

(* Queue.complete for an entry that is there: it leaves the store and is  *)
(* appended to the history; without an entry nothing happens.             *)
complete(m, outcome) ==
  IF m \in Stored
  THEN /\ status' = [status EXCEPT ![m] = ABSENT]
       /\ history' = AppendBounded(history, <<m, outcome>>)
       /\ UNCHANGED <<pos, nextPos>>
  ELSE UNCHANGED <<status, pos, nextPos, history>>
-----------------------------------------------------------------------------
(* The clients of the queue when it is checked on its own: dispatchers     *)
(* that put, processing tasks that complete, and the shutdown.             *)
Put(m) ==
  /\ Yielded
  /\ puts[m] < MaxPuts
  /\ ReputInFlight \/ (status[m] # IN_FLIGHT /\ tasks[m] = 0)
  /\ put(m)
  /\ puts' = [puts EXCEPT ![m] = @ + 1]
  /\ UNCHANGED <<history, consumer, stop, tasks>>

Take(m) ==
  /\ take(m)
  /\ tasks' = [tasks EXCEPT ![m] = @ + 1]
  /\ UNCHANGED <<history, stop, puts>>

Loop ==
  /\ Start \/ Idle \/ Wake
  /\ UNCHANGED <<store, history, stop, tasks, puts>>

Complete(m, outcome) ==
  /\ Yielded
  /\ tasks[m] > 0
  /\ tasks' = [tasks EXCEPT ![m] = @ - 1]
  /\ complete(m, outcome)
  /\ UNCHANGED <<notify, consumer, stop, puts>>

(* A task that ends by CancelledError, a BaseException, never gets to      *)
(* queue.complete: `except Exception' in _process_and_complete lets it by. *)
Lose(m) ==
  /\ Yielded
  /\ tasks[m] > 0
  /\ tasks' = [tasks EXCEPT ![m] = @ - 1]
  /\ UNCHANGED <<store, history, notify, consumer, stop, puts>>

StopHub ==
  /\ Yielded
  /\ stop = "running"
  /\ stop' = "hub"
  /\ UNCHANGED <<store, history, notify, consumer, tasks, puts>>

(* The queue is stopped after the hub; its on_stop sets the event. *)
StopQueue ==
  /\ Yielded
  /\ stop = "hub"
  /\ stop' = "all"
  /\ notify' = TRUE
  /\ UNCHANGED <<store, history, consumer, tasks, puts>>

Next ==
  \/ \E m \in Messages : Put(m) \/ Take(m) \/ Lose(m)
  \/ \E m \in Messages, outcome \in Outcome : Complete(m, outcome)
  \/ Loop \/ StopHub \/ StopQueue

(* The event loop runs every ready callback: the consumer, once it can     *)
(* move, moves.  Nothing obliges a handler to finish or a client to put.   *)
Fairness ==
  /\ WF_vars(\E m \in Messages : Take(m))
  /\ WF_vars(Loop)

Spec == Init /\ [][Next]_vars /\ Fairness
-----------------------------------------------------------------------------
(* Types.  Every variable holds a value the code can store in it.          *)
TypeOK ==
  /\ status \in [Messages -> Status]
  /\ pos \in [Messages -> Nat]
  /\ nextPos \in Nat
  /\ history \in Seq(Messages \X Outcome)
  /\ notify \in BOOLEAN
  /\ consumer \in ConsumerState
  /\ stop \in StopState
  /\ tasks \in [Messages -> Nat]
  /\ puts \in [Messages -> 0..MaxPuts]

(* Backpressure: pending and in-flight messages together never exceed      *)
(* QUEUE_MAX_SIZE, however puts, takes and completions interleave.         *)
CapacityRespected == Cardinality(Stored) <= MaxSize

(* No lost wakeup: while the consumer sleeps and the queue is not stopped, *)
(* a pending message implies that the event the consumer waits for is set. *)
NoLostWakeup ==
  (consumer = "sleep" /\ stop # "all" /\ has_pending) => notify

(* One execution per put: a message is never run more often than it was    *)
(* put, and never run by two tasks at once unless it was put again while   *)
(* it was in flight.                                                       *)
OneTaskPerPut ==
  \A m \in Messages :
    /\ tasks[m] + (IF status[m] = PENDING THEN 1 ELSE 0) <= puts[m]
    /\ ~ReputInFlight => tasks[m] <= (IF status[m] = IN_FLIGHT THEN 1 ELSE 0)

(* Every accepted message is eventually taken, unless the service stops.   *)
EventuallyTaken ==
  \A m \in Messages : status[m] = PENDING ~> (status[m] # PENDING \/ stop # "running")
=============================================================================
