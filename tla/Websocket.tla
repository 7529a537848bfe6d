----------------------------- MODULE Websocket -----------------------------
(***************************************************************************)
(* SocketService (entrypoint/websocket/app.py): one handler per connected  *)
(* socket reads requests, dispatches their commands and sends the results  *)
(* back, one command at a time; subscribers and listening say which socket *)
(* is there and which traces it has asked for.                             *)
(*                                                                         *)
(* Of the hub it is assumed that it accepts a command or raises, and that  *)
(* an accepted one may put values and may end, well or not (unless a       *)
(* before-hook answers for a stream: run stream_short).  It need not end:  *)
(* a generator may go on for ever, and a hub that stops leaves commands    *)
(* pending or cancels their tasks.                                         *)
(***************************************************************************)
EXTENDS Naturals

CONSTANTS
  Sockets,
  Traces,       \* trace ids; a client may send one of its own
  MaxRequests,  \* bound of the model: [Sockets -> requests on it]
  MaxValues     \* bound of the model: values a stream is ahead of its reader

VARIABLES
  subscribers,  \* sockets
  listening,    \* [trace ids -> sockets that asked for them]
  turn,         \* [Sockets -> where its handler is]
  message,      \* [Sockets -> the command its handler awaits: whether it is
                \* an async generator, its state ("open", "ok", "failed"), and
                \* the values in the state that were not sent]
  requests,     \* [Sockets -> requests left, the bound]
  open,         \* sockets neither side has closed
  closing       \* sockets on_stop has still to close

vars == <<subscribers, listening, turn, message, requests, open, closing>>

NoMessage == [gen |-> FALSE, state |-> "open", queued |-> 0]

\* "connecting", then "receive", "dispatch", "await", "error" in turns: in
\* receive_text, hub.dispatch, the ending, or the except branch; and "left".
Init ==
  /\ subscribers = {} /\ listening = [t \in {} |-> {}]
  /\ turn = [ws \in Sockets |-> "connecting"]
  /\ message = [ws \in Sockets |-> NoMessage]
  /\ requests = MaxRequests
  /\ open = Sockets /\ closing = {}

Goto(ws, place) == turn' = [turn EXCEPT ![ws] = place]

subscribe(ws) ==
  /\ turn[ws] = "connecting" /\ ws \in open
  /\ subscribers' = subscribers \union {ws}
  /\ Goto(ws, "receive")
  /\ UNCHANGED <<listening, message, requests, open, closing>>

\* The client has gone: accept raises, before the try.
AcceptRaises(ws) ==
  /\ turn[ws] = "connecting" /\ ws \notin open
  /\ Goto(ws, "left")
  /\ UNCHANGED <<subscribers, listening, message, requests, open, closing>>

Without(sockets, ws) ==
  LET kept == {t \in DOMAIN sockets : sockets[t] \ {ws} # {}}
  IN [t \in kept |-> sockets[t] \ {ws}]

\* A plausible bug: the lists that become empty stay.
unsubscribeKeepsEmpty(ws) ==
  /\ subscribers' = subscribers \ {ws}
  /\ listening' = [t \in DOMAIN listening |-> listening[t] \ {ws}]

unsubscribe(ws) ==
  /\ subscribers' = subscribers \ {ws}
  /\ listening' = Without(listening, ws)

\* The finally of websocket_endpoint; returning closes the connection.
Leave(ws) ==
  /\ unsubscribe(ws)
  /\ Goto(ws, "left")
  /\ open' = open \ {ws}

\* setdefault(trace_id, set()).add(websocket)
Listen(ws, t) ==
  listening' = [u \in DOMAIN listening \union {t} |->
                  (IF u \in DOMAIN listening THEN listening[u] ELSE {})
                    \union (IF u = t THEN {ws} ELSE {})]

Request(ws) ==
  /\ turn[ws] = "receive" /\ ws \in open /\ requests[ws] > 0
  /\ requests' = [requests EXCEPT ![ws] = @ - 1]

Receive(ws, t, gen) ==
  /\ Request(ws)
  /\ Listen(ws, t)
  /\ Goto(ws, "dispatch")
  /\ message' = [message EXCEPT ![ws] = [NoMessage EXCEPT !.gen = gen]]
  /\ UNCHANGED <<subscribers, open, closing>>

\* No name, or one the registry does not know: an error, and continue.
Unresolved(ws) ==
  /\ Request(ws)
  /\ UNCHANGED <<subscribers, listening, turn, message, open, closing>>

\* The text is no JSON, or the arguments do not fit: the handler is left.
Malformed(ws) ==
  /\ Request(ws)
  /\ Leave(ws)
  /\ UNCHANGED <<message, closing>>

\* receive_text raises.
Disconnected(ws) ==
  /\ turn[ws] = "receive" /\ ws \notin open
  /\ Leave(ws)
  /\ UNCHANGED <<message, requests, closing>>

\* The command is done with: the message is not looked at any more.
Drop(ws) == message' = [message EXCEPT ![ws] = NoMessage]

dispatch(ws) ==
  /\ turn[ws] = "dispatch"
  /\ \/ Goto(ws, "await") /\ UNCHANGED message
     \/ Goto(ws, "error") /\ Drop(ws)
  /\ UNCHANGED <<subscribers, listening, requests, open, closing>>

Awaits(ws, gen) == turn[ws] = "await" /\ message[ws].gen = gen

\* A send raises if the socket is closed.
SendValue(ws) ==
  /\ Awaits(ws, TRUE) /\ message[ws].queued > 0
  /\ \/ ws \in open /\ message' = [message EXCEPT ![ws].queued = @ - 1] /\ UNCHANGED turn
     \/ ws \notin open /\ Goto(ws, "error") /\ Drop(ws)
  /\ UNCHANGED <<subscribers, listening, requests, open, closing>>

\* The stream has ended.  The exception of a failed one is not read.
StreamEnds(ws) ==
  /\ Awaits(ws, TRUE) /\ message[ws].queued = 0 /\ message[ws].state # "open"
  /\ Goto(ws, "receive") /\ Drop(ws)
  /\ UNCHANGED <<subscribers, listening, requests, open, closing>>

SendResult(ws) ==
  /\ Awaits(ws, FALSE) /\ message[ws].state # "open"
  /\ Goto(ws, IF message[ws].state = "ok" /\ ws \in open THEN "receive" ELSE "error")
  /\ Drop(ws)
  /\ UNCHANGED <<subscribers, listening, requests, open, closing>>

\* A plausible bug: an error reply that cannot be sent is only logged.
SendErrorOnce(ws) ==
  /\ turn[ws] = "error"
  /\ ws \in open /\ Goto(ws, "receive") /\ UNCHANGED <<subscribers, listening, open>>
  /\ UNCHANGED <<message, requests, closing>>

\* The except branch sends an error; if that raises, the handler is left.
SendError(ws) ==
  /\ turn[ws] = "error"
  /\ \/ ws \in open /\ Goto(ws, "receive") /\ UNCHANGED <<subscribers, listening, open>>
     \/ ws \notin open /\ Leave(ws)
  /\ UNCHANGED <<message, requests, closing>>
-----------------------------------------------------------------------------
\* The hub, the client, and on_stop, which closes the subscribers of the
\* moment one by one.
HubPuts(ws) ==
  /\ Awaits(ws, TRUE) /\ message[ws].state = "open" /\ message[ws].queued < MaxValues
  /\ message' = [message EXCEPT ![ws].queued = @ + 1]
  /\ UNCHANGED <<subscribers, listening, turn, requests, open, closing>>

HubEnds(ws) ==
  /\ turn[ws] = "await" /\ message[ws].state = "open"
  /\ \E end \in {"ok", "failed"} : message' = [message EXCEPT ![ws].state = end]
  /\ UNCHANGED <<subscribers, listening, turn, requests, open, closing>>

ClientCloses(ws) ==
  /\ open' = open \ {ws}
  /\ UNCHANGED <<subscribers, listening, turn, message, requests, closing>>

on_stop ==
  /\ closing = {} /\ closing' = subscribers
  /\ UNCHANGED <<subscribers, listening, turn, message, requests, open>>

Close(ws) ==
  /\ ws \in closing
  /\ closing' = closing \ {ws} /\ open' = open \ {ws}
  /\ UNCHANGED <<subscribers, listening, turn, message, requests>>

Handler(ws) ==
  \/ subscribe(ws) \/ AcceptRaises(ws) \/ Disconnected(ws) \/ dispatch(ws)
  \/ SendValue(ws) \/ StreamEnds(ws) \/ SendResult(ws) \/ SendError(ws)

Next ==
  \/ \E ws \in Sockets :
       \/ Handler(ws) \/ HubPuts(ws) \/ HubEnds(ws) \/ ClientCloses(ws) \/ Close(ws)
       \/ Unresolved(ws) \/ Malformed(ws)
       \/ \E t \in Traces, gen \in BOOLEAN : Receive(ws, t, gen)
  \/ on_stop

\* Nothing is fair about the hub.
Fairness == \A ws \in Sockets : WF_vars(Handler(ws))

Spec == Init /\ [][Next]_vars /\ Fairness
-----------------------------------------------------------------------------
(* Only sockets whose handler is at work are subscribers and listen to     *)
(* traces, and no trace is kept for nobody: what clients ask for in any    *)
(* order, and share, is gone with them.                                    *)
ListenersPresent ==
  /\ subscribers = {ws \in Sockets : turn[ws] \notin {"connecting", "left"}}
  /\ \A t \in DOMAIN listening : listening[t] # {} /\ listening[t] \subseteq subscribers

\* The handler waits for a command that has nothing for it.
Stalled(ws) == turn[ws] = "await" /\ message[ws].state = "open" /\ message[ws].queued = 0

(* A socket that was closed, by whom and whenever, is not remembered for   *)
(* ever, although its handler learns of it only at its next turn, as long  *)
(* as the command it waits for yields a value or ends at some time.        *)
ClosedForgotten ==
  \A ws \in Sockets :
    (Stalled(ws) ~> ~Stalled(ws)) =>
      (ws \notin open ~>
         ws \notin subscribers /\ \A t \in DOMAIN listening : ws \notin listening[t])
=============================================================================
