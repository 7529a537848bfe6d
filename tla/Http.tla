-------------------------------- MODULE Http --------------------------------
(***************************************************************************)
(* HttpHandler and SseHandler (entrypoint/http/app.py): a request builds   *)
(* its command, dispatches it and answers with the result; a request for a *)
(* stream answers with the values while a task of its own executes the     *)
(* command.  Starlette is external: it cancels a streaming response whose  *)
(* client has gone, and answers 500 when a handler raises.                 *)
(*                                                                         *)
(* Of the hub it is assumed that it accepts a command or raises, and that  *)
(* an accepted one may put values and may end, well or not (unless a       *)
(* before-hook answers for a stream: run stream_short).  It need not end:  *)
(* a generator may go on for ever, and a hub that stops leaves commands    *)
(* pending or cancels their tasks.                                         *)
(***************************************************************************)
EXTENDS Naturals

CONSTANTS
  Requests,
  MaxValues   \* bound of the model: values of a stream

VARIABLES
  handler,  \* [Requests -> "http" or "sse": the handler of its route]
  streams,  \* [Requests -> whether its command is an async generator]
  at,       \* [Requests -> where its handler is]
  state,    \* [Requests -> state of the command: "none", "open", "ok", "failed"]
  put,      \* [Requests -> values the command has put so far]
  sent,     \* [Requests -> values the response has passed on]
  task,     \* [Requests -> the task of event_stream, or "none"]
  reply,    \* [Requests -> kind of the response, or "none"]
  gone      \* clients that have disconnected

routes  == <<handler, streams>>
command == <<state, put>>
vars == <<routes, at, command, sent, task, reply, gone>>

\* on_start: a route of methods SSE is one for streams only.
Routed(sse, streaming) == IF sse /\ streaming THEN "sse" ELSE "http"

Init ==
  /\ streams \in [Requests -> BOOLEAN]
  /\ \E sse \in [Requests -> BOOLEAN] :
       handler = [r \in Requests |-> Routed(sse[r], streams[r])]
  /\ at = [r \in Requests |-> "build"] /\ state = [r \in Requests |-> "none"]
  /\ put = [r \in Requests |-> 0] /\ sent = [r \in Requests |-> 0]
  /\ task = [r \in Requests |-> "none"] /\ reply = [r \in Requests |-> "none"]
  /\ gone = {}

Respond(r, kind) ==
  at' = [at EXCEPT ![r] = "ended"] /\ reply' = [reply EXCEPT ![r] = kind]

\* The command is built from the parameters and the body.
Build(r) ==
  /\ at[r] = "build"
  /\ at' = [at EXCEPT ![r] = IF handler[r] = "http" THEN "dispatch" ELSE "stream"]
  /\ UNCHANGED <<routes, command, sent, task, reply, gone>>

\* Malformed JSON, arguments that do not fit, or another method.  Only
\* HttpHandler catches it.
BuildRaises(r) ==
  /\ at[r] = "build"
  /\ Respond(r, IF handler[r] = "http" THEN "error" ELSE "500")
  /\ UNCHANGED <<routes, command, sent, task, gone>>

Dispatched(r, accepted) ==
  state' = [state EXCEPT ![r] = IF accepted THEN "open" ELSE @]

\* A plausible bug: HttpHandler dispatches in a task, as SseHandler does.
dispatchInTask(r) ==
  /\ at[r] = "dispatch"
  /\ at' = [at EXCEPT ![r] = "await"]
  /\ \E accepted \in BOOLEAN : Dispatched(r, accepted)
  /\ UNCHANGED <<routes, put, sent, task, reply, gone>>

\* `await hub.dispatch' of HttpHandler.
dispatch(r) ==
  /\ at[r] = "dispatch"
  /\ \/ at' = [at EXCEPT ![r] = "await"] /\ Dispatched(r, TRUE) /\ UNCHANGED reply
     \/ Respond(r, "error") /\ Dispatched(r, FALSE)
  /\ UNCHANGED <<routes, put, sent, task, gone>>

\* `await message.state'.  A result that is no JSON raises past the handler.
Answer(r) ==
  /\ at[r] = "await" /\ state[r] \in {"ok", "failed"}
  /\ \E kind \in IF state[r] = "ok" THEN {"result", "500"} ELSE {"error"} : Respond(r, kind)
  /\ UNCHANGED <<routes, command, sent, task, gone>>
-----------------------------------------------------------------------------
\* event_stream starts: create_task(hub.execute(message)).
event_stream(r) ==
  /\ at[r] = "stream"
  /\ at' = [at EXCEPT ![r] = "values"]
  /\ task' = [task EXCEPT ![r] = "created"]
  /\ UNCHANGED <<routes, command, sent, reply, gone>>

\* The task runs: it dispatches and awaits the state, or it ends because
\* dispatch raised, which nobody looks at.
TaskDispatches(r) ==
  /\ task[r] = "created"
  /\ \E accepted \in BOOLEAN :
       /\ Dispatched(r, accepted)
       /\ task' = [task EXCEPT ![r] = IF accepted THEN "waiting" ELSE "rejected"]
  /\ UNCHANGED <<routes, at, put, sent, reply, gone>>

TaskEnds(r) ==
  /\ task[r] = "waiting" /\ state[r] \in {"ok", "failed"}
  /\ task' = [task EXCEPT ![r] = "done"]
  /\ UNCHANGED <<routes, at, command, sent, reply, gone>>

SendValue(r) ==
  /\ at[r] = "values" /\ sent[r] < put[r]
  /\ sent' = [sent EXCEPT ![r] = @ + 1]
  /\ UNCHANGED <<routes, at, command, task, reply, gone>>

\* A plausible bug: the task is left to itself.
finishNoCancel(r) == UNCHANGED task

\* The finally of event_stream.
finish(r) ==
  task' = [task EXCEPT ![r] = IF @ \in {"created", "waiting"} THEN "cancelled" ELSE @]

\* The sentinel, after the last value; failed or not.
StreamEnds(r) ==
  /\ at[r] = "values" /\ state[r] \in {"ok", "failed"} /\ sent[r] = put[r]
  /\ Respond(r, "values")
  /\ finish(r)
  /\ UNCHANGED <<routes, command, sent, gone>>

\* A value is no JSON, or the client has gone: the response is given up.
StreamBreaks(r) ==
  /\ at[r] \in {"stream", "values"} /\ (r \in gone \/ sent[r] < put[r])
  /\ Respond(r, "broken")
  /\ finish(r)
  /\ UNCHANGED <<routes, command, sent, gone>>
-----------------------------------------------------------------------------
Disconnect(r) ==
  /\ gone' = gone \union {r}
  /\ UNCHANGED <<routes, at, command, sent, task, reply>>

HubPuts(r) ==
  /\ state[r] = "open" /\ streams[r] /\ put[r] < MaxValues
  /\ put' = [put EXCEPT ![r] = @ + 1]
  /\ UNCHANGED <<routes, at, state, sent, task, reply, gone>>

HubEnds(r) ==
  /\ state[r] = "open"
  /\ \E end \in {"ok", "failed"} : state' = [state EXCEPT ![r] = end]
  /\ UNCHANGED <<routes, at, put, sent, task, reply, gone>>

Handler(r) ==
  \/ Build(r) \/ BuildRaises(r) \/ dispatch(r) \/ Answer(r) \/ event_stream(r)
  \/ SendValue(r) \/ StreamEnds(r) \/ StreamBreaks(r)

Next ==
  \E r \in Requests :
    \/ Handler(r) \/ TaskDispatches(r) \/ TaskEnds(r)
    \/ HubPuts(r) \/ HubEnds(r) \/ Disconnect(r)

\* Nothing is fair about the hub.
Fairness == \A r \in Requests : WF_vars(Handler(r)) /\ WF_vars(TaskDispatches(r))

Spec == Init /\ [][Next]_vars /\ Fairness
-----------------------------------------------------------------------------
(* A response that has ended leaves no task behind that still executes or  *)
(* waits, and one that ended by itself has passed on every value.          *)
StreamSettled ==
  \A r \in Requests : at[r] = "ended" =>
    /\ task[r] \notin {"created", "waiting"}
    /\ reply[r] = "values" => task[r] # "rejected" /\ sent[r] = put[r]

\* The hub settles the command of r, if it accepts it.
Settles(r) == state[r] = "open" ~> state[r] # "open"

(* Every request whose command is settled gets its response, but one for a *)
(* stream that the hub rejected: its reader waits for values until the     *)
(* client goes.  When it goes, a stream is given up, whether or not its    *)
(* command ever ends.                                                      *)
RequestsEnd ==
  \A r \in Requests :
    /\ Settles(r) => (at[r] # "ended" ~> at[r] = "ended" \/ (task[r] = "rejected" /\ r \notin gone))
    /\ handler[r] = "sse" /\ r \in gone ~> at[r] = "ended"
=============================================================================
