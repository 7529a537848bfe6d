---------------------------- MODULE StreamState ----------------------------
(***************************************************************************)
(* models/state.py: the state of a streaming command, an asyncio.Queue     *)
(* that also behaves like a Future.  Readers (`async for') take from the   *)
(* queue, awaiters wait for the done event and read the results, callbacks *)
(* are scheduled when the state becomes done.                              *)
(***************************************************************************)
EXTENDS Integers, Sequences

CONSTANTS
  Readers,     \* tasks that iterate over the state
  Awaiters,    \* tasks that await it
  Callbacks    \* done-callbacks somebody registers

Sentinel == 0      \* None in the queue; streamed values are positive
ShortValue == 1    \* what a before-hook returns

VARIABLES
  results,     \* _results
  queue,       \* the inherited asyncio.Queue
  done,        \* _done_event.is_set()
  exception,   \* has _exception been set
  waitingCbs,  \* _done_callbacks
  called,      \* how often a callback was scheduled
  reader,      \* [Readers -> where the async for is]
  seen,        \* [Readers -> values it got]
  awaiter,     \* [Awaiters -> where the await is]
  got          \* [Awaiters -> results it returned, <<>> before]

stateVars  == <<results, queue, done, exception, waitingCbs, called>>
clientVars == <<reader, seen, awaiter, got>>

ReaderState  == {"off", "reading", "ended"}
AwaiterState == {"off", "waiting", "returned", "raised"}

StateInit ==
  /\ results = <<>> /\ queue = <<>> /\ done = FALSE /\ exception = FALSE
  /\ waitingCbs = {} /\ called = [c \in Callbacks |-> 0]
  /\ reader = [x \in Readers |-> "off"] /\ seen = [x \in Readers |-> <<>>]
  /\ awaiter = [x \in Awaiters |-> "off"] /\ got = [x \in Awaiters |-> <<>>]

StateTypeOK ==
  /\ results \in Seq(Nat \ {Sentinel}) /\ queue \in Seq(Nat)
  /\ done \in BOOLEAN /\ exception \in BOOLEAN
  /\ waitingCbs \subseteq Callbacks /\ called \in [Callbacks -> Nat]
  /\ reader \in [Readers -> ReaderState] /\ seen \in [Readers -> Seq(Nat \ {Sentinel})]
  /\ awaiter \in [Awaiters -> AwaiterState] /\ got \in [Awaiters -> Seq(Nat)]
-----------------------------------------------------------------------------
\* A plausible bug: scheduling does not clear the list.
scheduleKeeping ==
  /\ called' = [c \in Callbacks |-> called[c] + (IF c \in waitingCbs THEN 1 ELSE 0)]
  /\ UNCHANGED waitingCbs

\* _schedule_callbacks: each registered callback is handed to call_soon.
schedule_callbacks ==
  /\ called' = [c \in Callbacks |-> called[c] + (IF c \in waitingCbs THEN 1 ELSE 0)]
  /\ waitingCbs' = {}

\* put(value): a value is recorded and queued.
putValue(v) ==
  /\ results' = Append(results, v)
  /\ queue' = Append(queue, v)
  /\ UNCHANGED <<done, exception, waitingCbs, called>>

\* put(None): the stream is done, and the sentinel ends one reader.
putNone ==
  /\ done' = TRUE
  /\ schedule_callbacks
  /\ queue' = Append(queue, Sentinel)
  /\ UNCHANGED <<results, exception>>

\* set_result: done, with nothing put into the queue.
set_result(v) ==
  /\ results' = IF results = <<>> THEN <<v>> ELSE results
  /\ done' = TRUE
  /\ schedule_callbacks
  /\ UNCHANGED <<queue, exception>>

\* set_exception: done, and the sentinel is queued.
set_exception ==
  /\ exception' = TRUE
  /\ done' = TRUE
  /\ queue' = Append(queue, Sentinel)
  /\ schedule_callbacks
  /\ UNCHANGED results
-----------------------------------------------------------------------------
\* add_done_callback: scheduled at once when the state is already done.
add_done_callback(c) ==
  /\ c \notin waitingCbs /\ called[c] = 0
  /\ IF done THEN called' = [called EXCEPT ![c] = @ + 1] /\ UNCHANGED waitingCbs
     ELSE waitingCbs' = waitingCbs \union {c} /\ UNCHANGED called
  /\ UNCHANGED <<results, queue, done, exception>>
  /\ UNCHANGED clientVars

\* __aiter__: get from the queue until the sentinel.
StartReading(x) ==
  /\ reader[x] = "off"
  /\ reader' = [reader EXCEPT ![x] = "reading"]
  /\ UNCHANGED stateVars /\ UNCHANGED <<seen, awaiter, got>>

\* A plausible bug: a reader leaves the value it returns in the queue.
GetKeeping(x) ==
  /\ reader[x] = "reading" /\ queue # <<>> /\ Len(seen[x]) < 10
  /\ IF Head(queue) = Sentinel
     THEN reader' = [reader EXCEPT ![x] = "ended"] /\ UNCHANGED <<seen, queue>>
     ELSE seen' = [seen EXCEPT ![x] = Append(@, Head(queue))] /\ UNCHANGED <<reader, queue>>
  /\ UNCHANGED <<results, done, exception, waitingCbs, called, awaiter, got>>

Get(x) ==
  /\ reader[x] = "reading" /\ queue # <<>>
  /\ queue' = Tail(queue)
  /\ IF Head(queue) = Sentinel
     THEN reader' = [reader EXCEPT ![x] = "ended"] /\ UNCHANGED seen
     ELSE seen' = [seen EXCEPT ![x] = Append(@, Head(queue))] /\ UNCHANGED reader
  /\ UNCHANGED <<results, done, exception, waitingCbs, called, awaiter, got>>

\* A plausible bug: an await returns as soon as there is something to return.
EndAwaitEager(x) ==
  /\ awaiter[x] = "waiting" /\ (done \/ results # <<>>)
  /\ awaiter' = [awaiter EXCEPT ![x] = IF exception THEN "raised" ELSE "returned"]
  /\ got' = IF exception THEN got ELSE [got EXCEPT ![x] = results]
  /\ UNCHANGED stateVars /\ UNCHANGED <<reader, seen>>

\* __await__: wait for the event, then the exception or the results.
StartAwait(x) ==
  /\ awaiter[x] = "off"
  /\ awaiter' = [awaiter EXCEPT ![x] = "waiting"]
  /\ UNCHANGED stateVars /\ UNCHANGED <<reader, seen, got>>

EndAwait(x) ==
  /\ awaiter[x] = "waiting" /\ done
  /\ awaiter' = [awaiter EXCEPT ![x] = IF exception THEN "raised" ELSE "returned"]
  /\ got' = IF exception THEN got ELSE [got EXCEPT ![x] = results]
  /\ UNCHANGED stateVars /\ UNCHANGED <<reader, seen>>

Client ==
  \/ \E c \in Callbacks : add_done_callback(c)
  \/ \E x \in Readers : StartReading(x) \/ Get(x)
  \/ \E x \in Awaiters : StartAwait(x) \/ EndAwait(x)
=============================================================================
