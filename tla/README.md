# bollydog in TLA+

A verification project for bollydog, an asynchronous Python framework in which
every piece of work is a command object run by a hub. The modules model its
message queue, command pipeline, event routing, streaming commands, stores,
service wiring and entrypoints; TLC checks them on small instances, and TLAPS
checks proofs that the safety properties hold for every instance. Source paths are
relative to `src/bollydog/`.

## 1. The system

Everything runs in one asyncio event loop. A coroutine runs until it awaits
something that is not ready; only there can another one run. The hazards come
from those points: state that is read before an await and used after it,
cancellation that arrives at one, and callbacks that run between two of them.

| component | state | operations | talks to | modelled in |
|---|---|---|---|---|
| Message queue (`service/queue.py`) | `_store` (message, state, status), `_history`, `_notify` | `put`, `take`, `complete`, `on_stop` | called by the hub | `Queue` |
| Hub (`service/app.py`) | its tasks | `dispatch`, `execute`, `emit`, `_submit`, the consumer `run`, `_process_and_complete` (and `gather`, not modelled) | queue, Exchange, handlers | `Hub` |
| Runner (`service/runner.py`) | locals of one run, `message.state`, `delivery_count` | `_execute` with its hooks, `_run` for handlers, `_run_gen` for generators | hub, stream state | `Hub`, `RunGen` |
| Exchange (`service/exchange.py`) | done-callbacks of events | `match`, `bind_subscriber_callbacks`, `_on_subscriber_done` | registry; dispatches to the hub | `Exchange`, `Hub` |
| Registry (`service/registry.py`) | `commands`, `subscribers` | `register`, `subscribe`, `unsubscribe`, `resolve` | Exchange, entrypoints | `Registry`, `Exchange` |
| Stream state (`models/state.py`) | results, queue, done event, exception, callbacks | `put`, `set_result`, `set_exception`, `add_done_callback`, `await`, `async for` | runner and entrypoints | `StreamState` |
| CacheLayer, TableCacheLayer (`adapters/composite.py`) | `_cache`, `_dirty` | `get`, `set`, `remove`, `flush`, `load`, `on_stop`, `keys`, `exists` | an inner key-value protocol | `KVCache`, `CacheLayer`, `TableCacheLayer` |
| MemoryProtocol (`adapters/memory.py`) | a dict and `_expiry` | `get`, `set`, `remove`, `exists`, `keys` | services, Session | `MemoryKV` |
| ExecuteService (`service/executor.py`) | none | `execute`, `_submit` | runner, without queue or Exchange; starts apps on demand | `Services` |
| Session (`service/session.py`) | in its protocol | `get`, `set`, `append`, `delete` | a key-value protocol | `Session` |
| HTTP and SSE (`entrypoint/http/`) | a handler and a task per request | `HttpHandler`, `SseHandler` | registry, hub, stream state | `Http` |
| Websocket (`entrypoint/websocket/`) | `subscribers`, `listening` | the message loop, `subscribe`, `unsubscribe`, `on_stop` | registry, hub, stream state | `Websocket` |
| Unix socket (`entrypoint/uds/`) | the server, its socket file, a connection per command | `on_start`, `_handle`, `on_stop`, and `send` on the other side | registry, hub | `UnixSocket` |
| File protocols (`adapters/file.py`) | nested dicts and their file | `get`, `set`, `delete`, `merge`, `keys`, `write` | services | `TOMLFile` |
| Bootstrap (`bootstrap.py`, `models/service.py`, `models/protocol.py`, `testing.py`) | the services and their dependencies | build, register, start, run one command, stop | all services | `Services`, `Registry` |
| SQLAlchemy protocols (`adapters/sqlalchemy.py`) | a session per task in a context variable | `async with`, `transaction`, statements, upserts | a database | `SqlBlocks` |
| DuckDB, graph and Redis protocols, logging, CLI, configuration | outside the program | - | - | - |

What makes each of them correct, in the order of importance:

- *Queue*: the capacity bound, no lost wakeup, delivery in order and once, and
  that an entry leaves the store exactly when its processing is over.
- *Hub and runner*: every accepted message gets an outcome, the history tells
  the truth about it, a handoff is invisible to the caller, nobody waits for
  something that can no longer answer, a shutdown ends everything.
- *Exchange and registry*: exactly the handlers that match are triggered, only
  by success; what services declare is what can be resolved.
- *Streams*: a reader sees every value once and in order and is released at the
  end; a generator gets the answers that belong to its yields.
- *Entrypoints*: a request ends, whoever closes first; no task, listener or
  socket file is left behind.
- *Stores*: reads are up to date, no update is forgotten, a crash loses a bounded
  amount and an orderly stop nothing; a transaction ends the way its block does.
- *Services*: a service is ready only when what it needs is, a command runs on
  an app that has started, what was started is stopped.

`PROJECT.json` lists the hazards line by line, with the properties that cover
them or the reason why none does.

## 2. Modules and how they correspond to the code

| module | models |
|---|---|
| `Queue` | the store and the consumer loop: `put`, `take`, `Idle`, `Wake`, `complete` are the branches of `Queue.put`, `Queue.take` and `Queue.complete`; `Start`, `take` and `Idle` include what `HubService.run` does around them |
| `FifoDelivery` | abstract: a bounded buffer in which a delivered message keeps its place |
| `MCQueue` | the refinement of `FifoDelivery` by `Queue`, for TLC |
| `Hub` | the life of a message from dispatch to archive: client, consumer, task, sub-commands, handoffs, events, subscribers, shutdown; instantiates `Queue` for the store and implements it |
| `Exchange` | topic patterns and which handlers an event triggers while subscriptions change |
| `Registry` | `register`: the tables filled from what services and their modules declare, service by service, once or twice |
| `StreamState` | the stream state and its clients |
| `RunGen` | `_run_gen` over `StreamState`, with the local variable `feedback` that `asend` passes on, and the cancellation of its task |
| `KVCache` | what the two cache layers share, over a backend reached by awaits, which may refuse a request and whose clients may be cancelled |
| `CacheLayer`, `TableCacheLayer` | their flushes |
| `MemoryKV`, `ExpiringMap` | the in-memory store with lazy expiry, and the map it implements |
| `TOMLFile`, `LeafStore` | nested dicts under dotted keys with their file, and the flat map they implement |
| `Session` | `append`, a read, an await and a write, against `set`, `delete` and other appends |
| `SqlBlocks` | transaction blocks, nested in a task and in several tasks, over the context variable that remembers them |
| `Services` | building, starting and stopping of services and their protocols, the four ways to run, and the on-demand starts of `ExecuteService` |
| `Http` | the two handlers, the task of a stream, the client that goes |
| `Websocket` | the message loop of a socket, who is subscribed and who listens |
| `UnixSocket` | processes on one socket path, connections of one command each |
| `MCHub` | two instances of `Hub`: commands, and events |
| `MCStreams` | `MCQueue` and `RunGen` |
| `Stores` | `TOMLFile`, `Session`, `SqlBlocks` side by side |
| `ServiceParts` | `Registry`, `Exchange`, `Services`, `CacheLayer`, `TableCacheLayer` side by side |
| `Entrypoints` | `Http`, `Websocket`, `UnixSocket` side by side |
| `MCStores`, `MCServices`, `MCEntrypoints` | the instances of these three for TLC; `MCStores` adds `MemoryKV` |
| `QueueProofs`, `HubProofs`, `StreamsProofs`, `MemoryKVProofs` | theorems about the queue, the hub, streams and the in-memory store |
| `StoresProofs`, `CacheProofs`, `ServicesProofs`, `EntrypointsProofs` | theorems about `Stores`, the cache layers, the rest of `ServiceParts`, and `Entrypoints` |

**What composes what.** `Hub` instantiates `Queue` and adds tasks, futures and
callbacks to it. `RunGen` extends `StreamState`; the two cache layers extend
`KVCache`. An entrypoint meets the hub at one point: a command that is accepted
or raises, and then may put values and may end (`HubPuts` and `HubEnds` of the
entrypoint modules). That it ends is not assumed. `EveryAcceptedResolves` of
`Hub` says so of ordinary commands while the hub runs, and `ClientsReleased` of
`RunGen` speaks of generators that have come to their end; a generator may yield
for ever, as `expire_time` bounds one `asend` and not their number
(`runner.py:85`), and a hub that stops leaves commands pending (`app.py:78`) or
cancels their tasks. The liveness properties of the entrypoints are therefore
conditional on the command they speak of.

**Several models in one run.** Models that share no state are put side by side
in a module that leaves their constants open; an MC module gives them values.
The variable `subject` says which of them a behaviour
exercises; the others keep their initial state. The state spaces add up instead
of multiplying, and the properties of each are checked on its own states. The
theorems are about the same module, with the constants open.

**Atomicity.** One action is what the code does between two suspensions. In
`Queue` and `Hub` the consumer takes one message per action and keeps the event
loop while it is in state "scan" (`Yielded` guards every other actor), because
`take` returns without suspending as long as something is pending. `Queue.put`,
`Queue.complete` and `bind_subscriber_callbacks` never suspend. In the cache
layers each request to the backend is an action, its service another one, and
what the coroutine does with the answer a third. SQLite through `aiosqlite` is
one connection with one worker thread, so requests are served in the order they
were made (`wire` in `KVCache`). `TOMLFile` has two actions for a write although
nothing suspends: the process may die between opening the file and filling it.
A frame of the Unix socket and a message of a websocket are read in one step,
well-formed or not.

**Messages are objects.** A handler that calls a sub-command creates an object.
`Children` names the objects a handler may create, each at most once; a retry
calls the same object again and may create the next child. An `OrderedDict`
keeps the place of a key whose value is overwritten, so the store is a status
and an insertion number per message.

**Cancellation.** Awaiting an `asyncio.Future` and being cancelled cancels the
future. `wait_for` on a handler that awaits the state of a sub-command
therefore cancels that state, and so does cancelling the task of a client.
`CancelledError` is a `BaseException`: `except Exception` lets it by. The
action `Finish` of `Hub` follows what that does to `exception()` in
`_execute` and `Queue.complete`. A `StreamState` is not a future; cancelling
whoever awaits it leaves it alone. The task of a generator that is cancelled
passes `except Exception` and the `put(None)` after it (`runner.py:104-107`):
`Cancel` of `RunGen` leaves the stream as it is. In the cache layers
cancellation strikes a client in its await (`Cancel` of `KVCache`); the request
it made is served all the same.

**What is external.**

- `mode.Service`: `wait`, `add_future`, `crash`, `start`, `maybe_start`, `stop`
  are modelled from how this code uses them. `wait` returns when its argument
  does or when the service stops; the exception of a future given to
  `add_future` crashes the service and the services above it; `start` runs
  `on_start`, then starts the children, then `on_started`; `maybe_start` does
  nothing once a start has begun; `stop` sets the service's flag, runs
  `on_stop`, stops the children, and cancels the futures that are left. In
  `RunGen` a failed sub-command is thrown into the generator, as
  `runner.py:95-99` and the framework's own documentation have it
  (`src/README.md:130`), which takes `wait` to return and its result to raise.
- Starlette cancels a streaming response whose client has gone and answers 500
  when a handler raises; a websocket that is closed raises at its next use.
- asyncio as of Python 3.12: `start_unix_server` replaces a socket file in its
  way; `wait_closed` waits for the connections.
- A database commits or rolls back a whole transaction and makes whoever wants
  a row written by an open one wait.

## 3. Runs

| run | instance | what it shows |
|---|---|---|
| `streams` | queue: 3 messages, 2 places, a history of 1, each message put up to 2 times, shutdown at any moment; stream: 3 yields of any kind, a reader, two awaiters, a callback, errors, stop, cancellation, short-circuit | capacity, no lost wakeup, one execution per put, `Queue` implements `FifoDelivery`, accepted messages are taken; a reader's values, the generator's answers, final results, callbacks once, clients are released unless the task is cancelled |
| `hub` | roots r and q, r may call or hand off to s and t, 1 retry, timeouts of r and s, failing s, raising hooks, 2 places, shutdown | the history tells the truth, handoffs are transparent, no orphaned wait, places are accounted for, `Hub` implements `Queue`, every accepted message resolves |
| `hub_events` | r, q and event e that q emits and clients submit, subscribers h and g (g for a second dispatch), a cancelled client, short-circuits, 2 places, shutdown | subscribers run after success and only then, a shutdown ends every task |
| `stores` | memory: 2 keys, 2 values, ttls -1, 0 and 2, 4 ticks; file: 5 nested paths, a value TOML cannot encode, full disks, crashes; sessions: 2, 2 handlers, 3 items, failing appends; SQL: 2 tasks, 3 blocks, one contended row | `MemoryKV` implements `ExpiringMap`, `TOMLFile` implements `LeafStore`, acknowledged writes stay, appends stay but for deletes, sets and overlapping appends, blocks end their own transactions |
| `services` | registry: 3 declarations, registered once and twice; every topic of up to 3 words and every pattern of up to 3 parts; 5 configurations (chain, diamond, cycle, a name nobody defines, parallel commands) in four modes with failing starts; caches: 2 keys, 2 values, threshold 2, 2 clients, a failed flush at a time, any failed removals, a cancelled client, crash, stop, restart | registered as declared, `match_topic` is the meaning of patterns, services are ready after what they need, sub-commands run on started apps; reads are up to date, nothing is forgotten, also by flushes that fail half way, bounded loss, orderly stops persist |
| `entrypoints` | 1 request with up to 2 values; 2 sockets with 2 and 1 requests and 2 trace ids; 2 processes and 2 clients on one path | no task, listener or socket is left behind; requests, closed sockets and sends end if the commands they wait for do, and a stream whose client has gone in any case |
| `hub_leak` | violation | a place is not freed: finding 1 |
| `stream_short` | violation | a reader is not released: finding 2 |
| `cache_lost` | violation | an orderly stop loses an update: finding 3 |
| `execute_unready` | violation | the app of an executed command is not started: finding 4 |
| `services_unstopped` | violation | started services are never stopped: finding 5 |
| `run_hub_registers` | violation | a second `register` raises: finding 6 |

**Bounds.** Two places and three or four messages make the queue full in the
middle of a nested call, with the consumer asleep and awake. Two is the least
number of dirty keys at which a flush can be interrupted between two keys, and
the least number of clients at which one runs during another's await. One retry
is enough for a second call by the same object and for the exhausted case.
Patterns of three parts have a `#` before, between and after other parts;
patterns use one of the two words, the other one is the mismatch. A flush of two
keys can fail before, between and after them. With two keys the bound of
`AtRiskBounded` says nothing in the run while a failed flush is not made up for
(three keys are beyond TLC's reach there); `ListAtRiskBounded` and
`TableAtRiskBounded` prove it for any number of keys and failures. `MaxFailures` bounds the flushes
that fail in a row (the theorems hold for any number), `MaxOrphans` the requests
of cancelled clients that the backend has still to serve. The keys and the
values of the caches are symmetric. HTTP requests share nothing in these
handlers, so there is one. Three blocks
nest a protocol block in another while a second task holds one. The updates of
`stores` hit a table, a scalar, several keys at once, or nothing that is there.
Two sockets can share a trace, and one of them has a request left when the other
closes. Two processes are enough for one that crashed and
one that follows, or for two that overlap. `MaxPuts`, `MaxYields`, `MaxTime`,
`MaxParts`, `MaxSubscribed`, `MaxRequests`, `MaxValues`, `MaxFailures`,
`MaxOrphans`, `Blocks`, `Items`, `Updates` are the bounds that are not in the code.

**Deadlock** is not checked in these runs: a client may stop submitting, a
service may be stopped and a stream may end, so every model has states in which
nothing is left to do. The liveness properties and `NoOrphanWait` say that
nobody is left waiting there.

**Fairness.** The event loop runs every ready callback, so the consumer, each
task, each subscriber callback, each reader and each awaiter is weakly fair, and
so is the handler of each request, socket and connection. A call of a handler
ends: `expire_time` bounds every `message()` and every `asend`. In the
entrypoints nothing is fair about the hub. `ResponsesEnd` and `SendsEnd` say of
each request, connection and process: if the hub settles the command it waits
for (`Settles`), it ends; `ClosedForgotten` says so of a socket whose command
yields or ends whenever its handler waits for it (`Stalled`). The steps that
stop a process are fair once the stop has begun, and a reset connection is read.
Clients, the operator who stops the service, crashes, cancellations, refused
requests, the failure and the stop of a stream are not fair: nobody has to
submit, disconnect, cancel or stop.

**Restrictions of the passing runs**, named as constants of the modules or as
conjuncts of the properties:

- `ReputInFlight = FALSE`: a message is not dispatched again while it is in
  flight. With it, two tasks run one object; `OneTaskPerPut` still bounds them,
  as the theorem says.
- `Retries` is natural in `MCHub`. A negative `delivery_count` is legal, is
  decremented for ever and never resolves (`runner.py:70`).
- `ArchiveTruthful`, `NoOrphanWait` and `HandoffTransparent` except messages
  whose handoff the hub stopped waiting for: they are archived as DONE with a
  state that is never settled (`runner.py:65`).
- `AwaitFinal`, `ReaderComplete`: after `yield None` a stream is over for its
  clients although the generator goes on (`state.py:26`).
- `ClientsReleased` promises nothing once the stopping hub has cancelled the task
  of a generator: `CancelledError` skips the end of the stream
  (`runner.py:104-107`, `app.py:72`), and its readers and awaiters wait for ever
  unless they are cancelled too.
- A command that is never settled, for one of the reasons of section 2, holds up
  whoever awaits it: an HTTP request, even when its client has gone
  (`entrypoint/http/app.py:77`), the connection of the Unix socket and with it
  `wait_closed` of a process that stops (`entrypoint/uds/app.py:72`, `:92`), a
  websocket whose command neither yields nor ends. The three liveness properties
  of the entrypoints name these as their premises. A stream of SSE is given up
  when its client goes, settled or not.
- One reader per stream: several of them share the values and the one sentinel.
- `Setters` is one client, and `Removers` too in `TableCacheLayer`, and
  `QuietStop`: the last flush runs after the clients have finished. Two
  setters lose updates (finding 3); in `TableCacheLayer` a second remover can
  also see its key come back from the batch (`composite.py:141`).
- A crash between `remove_batch` and `set_batch` loses rows that had been
  persisted (`composite.py:140`). `Crash` is an action of both layers; their
  properties speak of what is reachable from memory and backend together.
- The backend may refuse a request, and clients may be cancelled. A flush that
  ends so leaves its keys dirty (`composite.py:71-72`): `AtRiskBounded` adds one
  key to the bound for each flush that failed since one was completed, as the
  next `set` starts another, and `StopPersists` speaks of stops whose last flush
  did not fail. A removal that ends so has popped its key from the cache and the
  dirty set already (`composite.py:48-51`), and an older value may come back from
  the backend: the four properties leave out such keys (`Sound`) until the next
  start. A `get` that fails changes nothing.
- `Missing \notin Values`: nobody stores `None`.
- `AppendsKept` excepts what is lost to an append that read the session before
  the item was stored and wrote afterwards, which protocols that suspend allow
  (`session.py:18`). An item is lost to no append that began after it was
  stored, and to none that failed.
- `FileHoldsAcked` excuses a write that is cut after the file was truncated:
  the old content is gone then, and the new one is not there (`file.py:55`).
- `BlocksSettled` excuses a protocol block that its own task enters again: the
  inner `__aenter__` overwrites the context variable, and the outer transaction
  is never ended (`sqlalchemy.py:66-74`).
- `ResponsesEnd` excuses the stream whose dispatch the hub rejected: the
  exception stays in the task, and its reader waits until the client goes
  (`entrypoint/http/app.py:102-108`). A stream answered by a before-hook is
  finding 2 and no behaviour of the hub in the entrypoint modules.
- `SocketReachable` speaks of processes that ran alone: one that stops unlinks
  whatever is at the path, be it the socket of another one
  (`entrypoint/uds/app.py:96-101`).
- `ReadyAfterNeeds` and `SubcommandAppStarted` except cycles of dependencies and
  commands that start apps in parallel: `maybe_start` does not wait for a start
  that is under way.

## 4. Findings

1. **A cancelled sub-command keeps its place in the queue.** When a handler that
   awaits a sub-command times out (or a client that awaits `execute` is
   cancelled), the state it awaits is cancelled. In the task of that message
   `exception()` raises `CancelledError`, first at `runner.py:41` or
   `queue.py:58` and past `except Exception` at `app.py:72`. `Queue.complete`
   does not archive the entry; it stays IN_FLIGHT and takes one of the
   QUEUE_MAX_SIZE places for the rest of the process. `SlotFreed` fails in run
   `hub_leak`; `SlotAccounted` says that cancellation is the only way to lose a
   place while the service runs.
2. **A short-circuited stream is never over for `async for`.**
   `StreamState.set_result` puts no sentinel (`state.py:33`). `ReadersReleased`
   fails in run `stream_short`; `ClientsReleased` says that awaiters are released,
   and readers whenever the handler itself produced the stream, unless the
   stopping hub has cancelled the task.
3. **CacheLayer forgets an update made during a flush.** `composite.py:72`
   clears the dirty set after a loop of awaits. `StopPersists` fails in run
   `cache_lost`, with two clients that set.
4. **ExecuteService does not start the app of the command it executes.** Only
   sub-commands go through `maybe_start` (`executor.py:25`); `docs/spec.md:105`
   says that the target is started on demand. `CommandAppReady` fails in run
   `execute_unready`; `SubcommandAppStarted` holds.
5. **Service mode does not stop its services.** The worker is given no children
   (`bootstrap.py:55`) and starts the services by hand (`bootstrap.py:107-109`);
   the `on_stop` that the documentation promises is called by nobody.
   `StartedStopped` fails in run `services_unstopped`.
6. **`run_hub` registers twice.** `Bootstrap.__init__` has registered already
   (`bootstrap.py:49`, `testing.py:41`); at the second call the registry finds
   subscriptions in its own table, takes them for its declarations and raises
   `AttributeError`. `RegistersAgain` fails in run `run_hub_registers`.

## 5. What is proved

Every invariant that a passing run checks is a theorem, and so are the
refinements `ImplementsFifo`, `ImplementsExpiringMap` and `ImplementsLeafStore`
and the safety half of `ImplementsQueue`. All hold for every value of the
constants under the `ASSUME`s of the modules, which TLC evaluates in the runs.
Few invariants are inductive as they stand: what follows says what each needs
beside itself. The theorems about the queue, the hub, the in-memory store and the
two cache layers are about their own specifications, the others about those of
the modules that put them side by side.

`QueueProofs` assumes that sizes and bounds are natural numbers:

- `QueueType`, `QueueCapacity`, `QueueNoLostWakeup`, `QueueOneTaskPerPut`. The
  inductive invariant `IInv` adds that the store is finite: `put` compares a
  cardinality, and without finiteness adding an element says nothing about it.
  `OneTaskPerPut` is inductive only as a whole: a pending entry counts as an
  execution that is still to come, and the exclusion of two tasks needs that a
  task's entry is in flight.
- `QueueImplementsFifo`: the queue implements `FifoDelivery`. The mapping sorts
  the waiting messages by the insertion number; `IsOrder` says what a sorted
  sequence of them is, and that there is one and only one is what each step has
  to show (`PosInv`: numbers of stored messages differ and are below the next).
  Hypothesis: `~ReputInFlight`. A message that is put while it is in flight
  keeps its old place in the `OrderedDict` and overtakes others.

`HubProofs`, for every set of messages, every nesting of commands and handoffs,
every retry count (negative ones too), hook, and size of the queue. It assumes
that only the Exchange creates the commands of subscribers
(`TriggeredAssumption`) and that sizes are natural:

- `HubSlotAccounted`, `HubArchiveTruthful`, `HubNoOrphanWait`,
  `HubHandoffTransparent`, `HubSubscriberAfterSuccess`.
- `HubStepsQueue`: every step of the hub is a step of the queue or leaves it
  alone, so that what `QueueProofs` shows of the queue holds of the hub's.
- `Slots` ties phases of messages to entries of the store; `Settling` says in
  which phases a future may be open, settled or cancelled; `Waiting` that
  whoever is suspended waits for a child that was accepted or cancelled;
  `Binding` relates dispatches of an event to its callbacks; `Recorded` the
  history to the futures. `HandoffTransparent` and `SubscriberAfterSuccess` are
  conjuncts. One lemma per action, under it one step per conjunct; `Keeps` and
  `CancelsOthers` say once how a step may change the futures of other messages.

`StreamsProofs`, for any readers, awaiters, callbacks and number of yields,
from the assumption that yields are of the four kinds `_run_gen` distinguishes:

- `StreamCallbacksOnce`: a callback waits or has been called, and none waits
  once the stream is done (`CInv`). `StreamAnswersMatch`: before each `asend`
  the variable `feedback` holds the answer to the last yield, whichever branch of
  the loop has been through, and answers are counted against yields at each place
  of the task (`AInv`).
- `StreamAwaitFinal` and `StreamReaderComplete` rest on `StreamInv`, which
  relates the results and the end of the stream to what the generator yielded. A reader has seen
  something and has the rest in the queue: `ReadInv` is about both together,
  a prefix of the values yielded so far, with the sentinel behind them once the
  stream is over. Hypothesis of `StreamReaderComplete`: one reader
  (`LoneReader`), as several take values from each other.

`MemoryKVProofs`, for every set of keys and values and every integer ttl:
`MemoryExpiryOfStored`, and `MemoryImplementsExpiringMap`, a refinement: reads
that purge are invisible (`PurgeInvisible`), `set` and `remove` are their
abstract counterparts, and the tick of the clock, which touches neither dict in
the code, is where the abstract map drops what is over.

`StoresProofs`:

- `FileHolds` and `LeafStoreImplemented`, for keys of any depth, scalars and
  updates. The invariant is that data and file are trees: what lies above
  something is a dict (`Tree`). A `set`, a `delete` or a `merge` of a tree is a
  tree whose leaves changed as the abstract store says (`FileSetIn`,
  `FileDeleteIn`); while the process is down the abstract store is what the file
  shows. Assumption: keys are nonempty and have their prefixes among them, as
  dotted keys do.
- `TurnsKept`, for any handlers, sessions and items: what a handler between its
  read and its write has read lacks only items that were stored since, which have
  it among their rivals, or that a delete or a set has taken away (`HasRead`).
- `SqlBlocksSettled`, for any tasks, blocks and rows: a block is in one place of
  one task (`Placed`), and what the exit of a protocol block finds in the context
  variable (`Found`) is itself unless it is shadowed, and otherwise one that is
  not outside of it or has ended. So no exit ends a transaction of another block.

`CacheProofs`, for any keys, values, clients and threshold, of either layer:

- `ListReadsLatest`, `TableReadsLatest`. The argument is about `Drained`, what
  the backend will hold of a key when it has served the requests under way.
  Serving never changes it; a get is sent only for a key that will be missing by
  then (`GetsMiss`), so no answer puts an old value into the cache.
- `NothingForgotten`, `AtRiskBounded` and `StopPersists`, each for both layers.
  The dirty set is cleared as a whole at the end of a flush, so that every key
  a flush is done with must have its last value on its way (`ListFlush`,
  `TableFlush`); the bound needs that a flush starts in time (`DirtyBounded`),
  with one dirty key more for every flush that failed. A request the backend is
  going to refuse is `Doomed`: until its flush hears of it, the key is as good as
  unwritten, and stays dirty because that flush will not get to its end.
  Hypotheses: one client sets (`SoleSetter`; in `TableCacheLayer` it also is the
  only one that removes, `SoleWriter`), and the stop waits for the clients
  (`QuietStop`). Without the first they are false: finding 3.

`ServicesProofs`, about `ServiceParts`:

- `MatchTopicMeans`: `match_topic` accepts a topic exactly when it can be cut
  into pieces for the parts of the pattern, for patterns and topics of any words
  and length. The function fills a table, line by line from the last part of the
  pattern; the theorem compares lines with the meaning, and takes the least count
  of lines for which they differ (`WFMin`), which leads to a contradiction. So
  `EventsTrigger`: an event triggers what matched it at its dispatch.
- `TablesRegistered`: while `register` is at a service, the tables hold exactly
  what the services before it declare (`Done`), and after a call what all do.
  Assumption: the registry itself declares nothing.
- `WiredInOrder` and `SubcommandsRunStarted`, for every finite set of services
  and every configuration: protocol chains, shared and cyclic dependencies. Both
  are parts of one invariant. `Turn` says which coroutine may be in a start;
  `Handled` that a start has been through the children before the next one, and
  that what is started is ready, has failed or is in a start; `Nested` that a
  start within a start is one of something the outer service needs, directly or
  not, so that a child found in the middle of its start is on a cycle. Needing
  is said with the least closed set (`Leads`), not with a recursion.
  Assumptions: the hub and the executor are two services, and Bootstrap's
  coroutine runs no sub-command.

`EntrypointsProofs`: `HttpStreamSettled`, by an invariant `Told` that relates,
request by request, where the handler is, the command's state and the task;
`WebsocketListeners`, inductive with the places of the message loops;
`UnixSocketFound`, with `UdsMet`: two processes that run at the same time have
both met another one.

Only model-checked: the liveness properties (fairness and ENABLED are beyond the
prover), with them the fairness of `ImplementsQueue`, and the six properties that
runs of section 3 refute.

## 6. Not modelled

- `HubService.gather`, which only a test of the repository calls
  (`tests/test_hub_advanced.py:100`; the runner gathers by itself, `RunGen`), and
  the context stacks and proxies of handlers (Python context variables), of which
  `SqlBlocks` models the one that carries a session.
- What a module contains: the scan that finds command classes is an input of
  `Registry` (introspection of Python code).
- How a request becomes a command (converters, path and query parameters, the
  parsing of frames): one step that succeeds or raises. Authentication, CORS and
  the rest of the HTTP middleware are configuration of Starlette.
- The cache layers' `keys`, `exists` and `compact`, and reads of the file
  protocols: they change nothing the properties speak of.
- `LocalFileProtocol`: its `write` replaces a file by a text and keeps no state.
- A second `on_start` of one `MemoryProtocol`, which empties the store and keeps
  `_expiry` (`memory.py:15-16`): nothing in the repository starts a protocol twice.
- A generator that catches the `CancelledError` of a stopping hub and goes on.
- The SQL that the protocols emit, DuckDB, Redis and the graph stores: what they
  do is done by a server or a driver.
- Logging, CLI, configuration, test helpers beside `run_hub` and `run_execute`:
  formatting and input/output without state that other parts depend on.

## 7. Plan

Done, in this order: the queue and its abstraction; the hub, Exchange and
streams; the cache layers and the memory store; sessions, files and
transactions; registry and services; the entrypoints; the proofs of section 5.

What would come next:

1. *Proofs*: what a second setter loses in the cache layers, stated as a bound
   that holds; the queue with messages put again in flight against a weaker
   abstraction than `FifoDelivery`.
2. *Pipeline*: `gather`, once the program itself uses it, with several
   children of one task in `Hub`.
3. *Composition*: an entrypoint over `Hub` and `RunGen` themselves, in place of
   `HubPuts` and `HubEnds`, for one request.
