---------------------------- MODULE Entrypoints ----------------------------
(***************************************************************************)
(* The entrypoints: HTTP and SSE, websockets, the Unix socket.  They share *)
(* nothing but the hub, so a behaviour exercises one of them and the state *)
(* spaces add up.                                                          *)
(***************************************************************************)
EXTENDS Http

CONSTANTS
  Sockets, Traces, MaxRequests, MaxAhead,  \* of Websocket
  Processes, Clients, Nobody               \* of UnixSocket

VARIABLES
  subscribers, listening, turn, message, requests, open, closing,
  process, path, overlapped, send, server, handle, outcome,
  subject  \* the entrypoint this behaviour exercises

Ws  == INSTANCE Websocket WITH MaxValues <- MaxAhead
Uds == INSTANCE UnixSocket

wsVars  == <<subscribers, listening, turn, message, requests, open, closing>>
udsVars == <<process, path, overlapped, send, server, handle, outcome>>
entryVars == <<vars, wsVars, udsVars, subject>>

ForWeb == subject = "Http"
ForWs  == subject = "Websocket"
ForUds == subject = "UnixSocket"

EntryInit ==
  /\ subject \in {"Http", "Websocket", "UnixSocket"}
  /\ Init /\ Ws!Init /\ Uds!Init

EntryNext ==
  /\ \/ ForWeb /\ Next /\ UNCHANGED <<wsVars, udsVars>>
     \/ ForWs  /\ Ws!Next  /\ UNCHANGED <<vars, udsVars>>
     \/ ForUds /\ Uds!Next /\ UNCHANGED <<vars, wsVars>>
  /\ UNCHANGED subject

\* Http!Fairness, Websocket!Fairness, UnixSocket!Fairness, each for its own.
EntryFairness ==
  /\ \A r \in Requests :
       WF_vars(ForWeb /\ Handler(r)) /\ WF_vars(ForWeb /\ TaskDispatches(r))
  /\ \A ws \in Sockets : WF_wsVars(ForWs /\ Ws!Handler(ws))
  /\ \A p \in Processes : WF_udsVars(ForUds /\ Uds!Process(p))
  /\ \A c \in Clients :
       WF_udsVars(ForUds /\ Uds!Handler(c)) /\ WF_udsVars(ForUds /\ Uds!ReadRaises(c))

EntrySpec == EntryInit /\ [][EntryNext]_entryVars /\ EntryFairness
-----------------------------------------------------------------------------
(* Every request ends whose command does, but for the stream that the hub  *)
(* rejected, and every stream whose client has gone.                       *)
ResponsesEnd == ForWeb => RequestsEnd

(* Subscribers and listeners are the sockets that are there.               *)
ListenersPresent == Ws!ListenersPresent

(* A closed socket is forgotten in the end, unless its command is stuck.   *)
ClosedForgotten == ForWs => Ws!ClosedForgotten

(* A lone process is found at the path, whatever came before it.           *)
SocketReachable == Uds!SocketReachable

(* Every send ends, and every process that stops, if the hub ends the      *)
(* commands they wait for.                                                 *)
SendsEnd == ForUds => Uds!SendsEnd
=============================================================================
