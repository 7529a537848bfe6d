-------------------------- MODULE EntrypointsProofs --------------------------
(***************************************************************************)
(* Proofs about the entrypoints.  Each has an inductive invariant of its   *)
(* own, which the steps of the others leave alone.                         *)
(*                                                                         *)
(* Http: for any number of requests and values, a response that has ended  *)
(* leaves no task behind, and one that ended by itself has passed on every *)
(* value.  Websocket: for any sockets, traces and requests, the            *)
(* subscribers and the listeners are the sockets that are being handled.   *)
(* UnixSocket: for any processes and clients, whoever serves and met no    *)
(* other process is found at the path.                                     *)
(***************************************************************************)
EXTENDS Entrypoints, TLAPS

TypeInv ==
  /\ handler \in [Requests -> {"http", "sse"}]
  /\ at \in [Requests -> {"build", "dispatch", "await", "stream", "values", "ended"}]
  /\ state \in [Requests -> {"none", "open", "ok", "failed"}]
  /\ put \in [Requests -> Nat] /\ sent \in [Requests -> Nat]
  /\ task \in [Requests -> {"none", "created", "waiting", "rejected", "done", "cancelled"}]
  /\ reply \in [Requests -> {"none", "error", "500", "result", "values", "broken"}]

\* The command of a stream exists when its task has dispatched it, and then
\* for good; the task exists while the stream is read.
Told(r) ==
  /\ at[r] \in {"build", "dispatch", "await", "stream"} => task[r] = "none"
  /\ at[r] \in {"build", "dispatch", "stream"} => state[r] = "none"
  /\ at[r] # "ended" => reply[r] = "none"
  /\ task[r] \in {"created", "rejected"} => state[r] = "none"
  /\ at[r] = "ended" => task[r] \notin {"created", "waiting"}
  /\ reply[r] = "values" => state[r] \in {"ok", "failed"} /\ sent[r] = put[r]

HttpInv == TypeInv /\ \A r \in Requests : Told(r)

(* No request has been looked at. *)
LEMMA HttpInitInv == Init => HttpInv
BY DEF Init, Routed, HttpInv, TypeInv, Told

(* A step of one request that keeps its types and what is told of it       *)
(* leaves the other requests alone.                                        *)
LEMMA OneRequest ==
  ASSUME HttpInv, NEW r \in Requests, TypeInv', Told(r)',
         \A q \in Requests \ {r} :
           /\ at'[q] = at[q] /\ state'[q] = state[q] /\ put'[q] = put[q]
           /\ sent'[q] = sent[q] /\ task'[q] = task[q] /\ reply'[q] = reply[q]
  PROVE  HttpInv'
BY DEF HttpInv, Told

(* Every step keeps the inductive invariant. *)
LEMMA HttpNextInv == HttpInv /\ [Next]_vars => HttpInv'
<1> SUFFICES ASSUME HttpInv, [Next]_vars PROVE HttpInv'
  OBVIOUS
<1> USE DEF HttpInv, TypeInv, routes, command
<1>1. ASSUME NEW r \in Requests, Build(r) PROVE HttpInv'
  <2>1. TypeInv'
    BY <1>1 DEF Build
  <2>2. Told(r)'
    BY <1>1 DEF Build, Told
  <2> QED
    BY <1>1, <2>1, <2>2, OneRequest DEF Build
<1>2. ASSUME NEW r \in Requests, BuildRaises(r) PROVE HttpInv'
  <2>1. TypeInv'
    BY <1>2 DEF BuildRaises, Respond
  <2>2. Told(r)'
    BY <1>2 DEF BuildRaises, Respond, Told
  <2> QED
    BY <1>2, <2>1, <2>2, OneRequest DEF BuildRaises, Respond
<1>3. ASSUME NEW r \in Requests, dispatch(r) PROVE HttpInv'
  <2>1. TypeInv'
    BY <1>3 DEF dispatch, Respond, Dispatched
  <2>2. Told(r)'
    BY <1>3 DEF dispatch, Respond, Dispatched, Told
  <2> QED
    BY <1>3, <2>1, <2>2, OneRequest DEF dispatch, Respond, Dispatched
<1>4. ASSUME NEW r \in Requests, Answer(r) PROVE HttpInv'
  <2>1. PICK kind \in {"result", "500", "error"} : Respond(r, kind)
    BY <1>4 DEF Answer
  <2>2. TypeInv'
    BY <1>4, <2>1 DEF Answer, Respond
  <2>3. Told(r)'
    BY <1>4, <2>1 DEF Answer, Respond, Told
  <2> QED
    BY <1>4, <2>1, <2>2, <2>3, OneRequest DEF Answer, Respond
<1>5. ASSUME NEW r \in Requests, event_stream(r) PROVE HttpInv'
  <2>1. TypeInv'
    BY <1>5 DEF event_stream
  <2>2. Told(r)'
    BY <1>5 DEF event_stream, Told
  <2> QED
    BY <1>5, <2>1, <2>2, OneRequest DEF event_stream
<1>6. ASSUME NEW r \in Requests, TaskDispatches(r) PROVE HttpInv'
  <2>1. TypeInv'
    BY <1>6 DEF TaskDispatches, Dispatched
  <2>2. Told(r)'
    BY <1>6 DEF TaskDispatches, Dispatched, Told
  <2> QED
    BY <1>6, <2>1, <2>2, OneRequest DEF TaskDispatches, Dispatched
<1>7. ASSUME NEW r \in Requests, TaskEnds(r) PROVE HttpInv'
  <2>1. TypeInv'
    BY <1>7 DEF TaskEnds
  <2>2. Told(r)'
    BY <1>7 DEF TaskEnds, Told
  <2> QED
    BY <1>7, <2>1, <2>2, OneRequest DEF TaskEnds
<1>8. ASSUME NEW r \in Requests, SendValue(r) PROVE HttpInv'
  <2>1. TypeInv'
    BY <1>8 DEF SendValue
  <2>2. Told(r)'
    BY <1>8 DEF SendValue, Told
  <2> QED
    BY <1>8, <2>1, <2>2, OneRequest DEF SendValue
<1>9. ASSUME NEW r \in Requests, StreamEnds(r) PROVE HttpInv'
  <2>1. TypeInv'
    BY <1>9 DEF StreamEnds, Respond, finish
  <2>2. Told(r)'
    BY <1>9 DEF StreamEnds, Respond, finish, Told
  <2> QED
    BY <1>9, <2>1, <2>2, OneRequest DEF StreamEnds, Respond, finish
<1>10. ASSUME NEW r \in Requests, StreamBreaks(r) PROVE HttpInv'
  <2>1. TypeInv'
    BY <1>10 DEF StreamBreaks, Respond, finish
  <2>2. Told(r)'
    BY <1>10 DEF StreamBreaks, Respond, finish, Told
  <2> QED
    BY <1>10, <2>1, <2>2, OneRequest DEF StreamBreaks, Respond, finish
<1>11. ASSUME NEW r \in Requests, HubPuts(r) PROVE HttpInv'
  <2>1. TypeInv'
    BY <1>11 DEF HubPuts
  <2>2. Told(r)'
    BY <1>11 DEF HubPuts, Told
  <2> QED
    BY <1>11, <2>1, <2>2, OneRequest DEF HubPuts
<1>12. ASSUME NEW r \in Requests, HubEnds(r) PROVE HttpInv'
  <2>1. PICK end \in {"ok", "failed"} : state' = [state EXCEPT ![r] = end]
    BY <1>12 DEF HubEnds
  <2>2. TypeInv'
    BY <1>12, <2>1 DEF HubEnds
  <2>3. Told(r)'
    BY <1>12, <2>1 DEF HubEnds, Told
  <2> QED
    BY <1>12, <2>1, <2>2, <2>3, OneRequest DEF HubEnds
<1>13. ASSUME NEW r \in Requests, Disconnect(r) PROVE HttpInv'
  BY <1>13 DEF Disconnect, Told
<1>14. CASE UNCHANGED vars
  BY <1>14 DEF vars, Told
<1> QED
  BY <1>1, <1>2, <1>3, <1>4, <1>5, <1>6, <1>7, <1>8, <1>9, <1>10, <1>11, <1>12, <1>13, <1>14
     DEF Next, Handler
-----------------------------------------------------------------------------
WsPlace == {"connecting", "receive", "dispatch", "await", "error", "left"}

\* A handler's place is the one thing that the listeners depend on.
WsInv == turn \in [Sockets -> WsPlace] /\ Ws!ListenersPresent

(* Nothing is connected at first, and nobody listens. *)
LEMMA WsInitInv == Ws!Init => WsInv
BY DEF Ws!Init, WsInv, WsPlace, Ws!ListenersPresent

(* Sockets that stay in the loop, or out of it, change no listener. *)
LEMMA WsMoveInv ==
  ASSUME WsInv, NEW ws \in Sockets, NEW place \in {"receive", "dispatch", "await", "error"},
         turn[ws] \notin {"connecting", "left"},
         Ws!Goto(ws, place), UNCHANGED <<subscribers, listening>>
  PROVE  WsInv'
BY DEF WsInv, WsPlace, Ws!ListenersPresent, Ws!Goto

(* A socket that leaves takes its entries with it, and the empty sets. *)
LEMMA WsLeaveInv ==
  ASSUME WsInv, NEW ws \in Sockets, Ws!Leave(ws)
  PROVE  WsInv'
<1>1. turn' = [turn EXCEPT ![ws] = "left"] /\ subscribers' = subscribers \ {ws}
      /\ listening' = Ws!Without(listening, ws)
  BY DEF Ws!Leave, Ws!unsubscribe, Ws!Goto
<1>2. turn' \in [Sockets -> WsPlace]
  BY <1>1 DEF WsInv, WsPlace
<1>3. subscribers' = {w \in Sockets : turn'[w] \notin {"connecting", "left"}}
  BY <1>1 DEF WsInv, Ws!ListenersPresent
<1>4. \A t \in DOMAIN listening' : listening'[t] # {} /\ listening'[t] \subseteq subscribers'
  BY <1>1 DEF Ws!Without, WsInv, Ws!ListenersPresent
<1> QED
  BY <1>2, <1>3, <1>4 DEF WsInv, Ws!ListenersPresent

(* Whoever asks for a trace is a subscriber. *)
LEMMA WsListenInv ==
  ASSUME WsInv, NEW ws \in Sockets, NEW t \in Traces, NEW gen \in BOOLEAN, Ws!Receive(ws, t, gen)
  PROVE  WsInv'
<1>1. turn[ws] = "receive" /\ turn' = [turn EXCEPT ![ws] = "dispatch"]
      /\ subscribers' = subscribers /\ Ws!Listen(ws, t)
  BY DEF Ws!Receive, Ws!Request, Ws!Goto
<1>2. turn' \in [Sockets -> WsPlace]
  BY <1>1 DEF WsInv, WsPlace
<1>3. subscribers' = {w \in Sockets : turn'[w] \notin {"connecting", "left"}}
  BY <1>1 DEF WsInv, Ws!ListenersPresent
<1>4. ws \in subscribers
  BY <1>1 DEF WsInv, Ws!ListenersPresent
<1>5. \A u \in DOMAIN listening' : listening'[u] # {} /\ listening'[u] \subseteq subscribers'
  BY <1>1, <1>4 DEF Ws!Listen, WsInv, Ws!ListenersPresent
<1> QED
  BY <1>2, <1>3, <1>5 DEF WsInv, Ws!ListenersPresent

(* Every step keeps the inductive invariant. *)
LEMMA WsNextInv == WsInv /\ [Ws!Next]_(Ws!vars) => WsInv'
<1> SUFFICES ASSUME WsInv, [Ws!Next]_(Ws!vars) PROVE WsInv'
  OBVIOUS
<1>1. CASE UNCHANGED <<subscribers, listening, turn>>
  BY <1>1 DEF WsInv, Ws!ListenersPresent
<1>2. ASSUME NEW ws \in Sockets, Ws!subscribe(ws) PROVE WsInv'
  BY <1>2 DEF Ws!subscribe, Ws!Goto, WsInv, WsPlace, Ws!ListenersPresent
<1>3. ASSUME NEW ws \in Sockets, Ws!AcceptRaises(ws) PROVE WsInv'
  BY <1>3 DEF Ws!AcceptRaises, Ws!Goto, WsInv, WsPlace, Ws!ListenersPresent
<1>4. ASSUME NEW ws \in Sockets, Ws!Disconnected(ws) \/ Ws!Malformed(ws) PROVE WsInv'
  BY <1>4, WsLeaveInv DEF Ws!Disconnected, Ws!Malformed
<1>5. ASSUME NEW ws \in Sockets, Ws!dispatch(ws) PROVE WsInv'
  <2>1. PICK place \in {"await", "error"} : Ws!Goto(ws, place)
    BY <1>5 DEF Ws!dispatch
  <2> QED
    BY <1>5, <2>1, WsMoveInv DEF Ws!dispatch
<1>6. ASSUME NEW ws \in Sockets, Ws!SendValue(ws) PROVE WsInv'
  <2>1. CASE UNCHANGED turn
    BY <1>1, <1>6, <2>1 DEF Ws!SendValue
  <2>2. CASE Ws!Goto(ws, "error")
    BY <1>6, <2>2, WsMoveInv DEF Ws!SendValue, Ws!Awaits
  <2> QED
    BY <1>6, <2>1, <2>2 DEF Ws!SendValue
<1>7. ASSUME NEW ws \in Sockets, Ws!StreamEnds(ws) PROVE WsInv'
  BY <1>7, WsMoveInv DEF Ws!StreamEnds, Ws!Awaits
<1>8. ASSUME NEW ws \in Sockets, Ws!SendResult(ws) PROVE WsInv'
  <2>1. PICK place \in {"receive", "error"} : Ws!Goto(ws, place)
    BY <1>8 DEF Ws!SendResult
  <2> QED
    BY <1>8, <2>1, WsMoveInv DEF Ws!SendResult, Ws!Awaits
<1>9. ASSUME NEW ws \in Sockets, Ws!SendError(ws) PROVE WsInv'
  <2>1. CASE ws \in open
    BY <1>9, <2>1, WsMoveInv DEF Ws!SendError
  <2>2. CASE ws \notin open
    BY <1>9, <2>2, WsLeaveInv DEF Ws!SendError
  <2> QED
    BY <2>1, <2>2
<1>10. ASSUME NEW ws \in Sockets, NEW t \in Traces, NEW gen \in BOOLEAN, Ws!Receive(ws, t, gen)
       PROVE  WsInv'
  BY <1>10, WsListenInv
<1>11. ASSUME NEW ws \in Sockets,
              Ws!HubPuts(ws) \/ Ws!HubEnds(ws) \/ Ws!ClientCloses(ws) \/ Ws!Close(ws) \/ Ws!Unresolved(ws)
       PROVE  WsInv'
  BY <1>1, <1>11 DEF Ws!HubPuts, Ws!HubEnds, Ws!ClientCloses, Ws!Close, Ws!Unresolved
<1>12. CASE Ws!on_stop
  BY <1>1, <1>12 DEF Ws!on_stop
<1>13. CASE UNCHANGED Ws!vars
  BY <1>1, <1>13 DEF Ws!vars
<1> QED
  BY <1>2, <1>3, <1>4, <1>5, <1>6, <1>7, <1>8, <1>9, <1>10, <1>11, <1>12, <1>13
     DEF Ws!Next, Ws!Handler
-----------------------------------------------------------------------------
UdsProcessState == {"down", "binding", "up", "closing", "unlinking"}

\* Two processes that run at the same time have met.  Without this nothing
\* says that the unlink of the one does not hit the socket of the other.
UdsMet == \A p, q \in Uds!Running : p # q => p \in overlapped

UdsInv == process \in [Processes -> UdsProcessState] /\ UdsMet /\ Uds!SocketReachable

(* No process runs at first. *)
LEMMA UdsInitInv == Uds!Init => UdsInv
BY DEF Uds!Init, UdsInv, UdsProcessState, UdsMet, Uds!Running, Uds!SocketReachable

(* A process that starts meets every process that runs. *)
LEMMA UdsUnlinkInv ==
  ASSUME UdsInv, NEW p \in Processes, Uds!Unlink(p)
  PROVE  UdsInv'
<1>1. process' = [process EXCEPT ![p] = "binding"] /\ process[p] = "down"
  BY DEF Uds!Unlink
<1>2. process' \in [Processes -> UdsProcessState] /\ Uds!Running' = Uds!Running \union {p}
        /\ p \notin Uds!Running
  BY <1>1 DEF UdsInv, UdsProcessState, Uds!Running
<1>3. CASE Uds!Running = {}
  BY <1>1, <1>2, <1>3 DEF Uds!Unlink, UdsInv, UdsMet, Uds!SocketReachable, Uds!Running
<1>4. CASE Uds!Running # {}
  <2>1. overlapped' = overlapped \union Uds!Running \union {p}
    BY <1>4 DEF Uds!Unlink
  <2>2. UdsMet'
    BY <1>2, <2>1 DEF UdsMet
  <2>3. Uds!SocketReachable'
    BY <1>1, <2>1 DEF Uds!SocketReachable, Uds!Running, UdsInv
  <2> QED
    BY <1>2, <2>2, <2>3 DEF UdsInv
<1> QED
  BY <1>3, <1>4

(* A process that goes on, or goes down, leaves the others alone. *)
LEMMA UdsStageInv ==
  ASSUME UdsInv, NEW p \in Processes, NEW next \in {"down", "closing", "unlinking"},
         process' = [process EXCEPT ![p] = next], process[p] # "down",
         overlapped' = overlapped,
         path' = path \/ (path' = Nobody /\ p \in Uds!Running)
  PROVE  UdsInv'
<1>1. process' \in [Processes -> UdsProcessState] /\ Uds!Running' \subseteq Uds!Running
  BY DEF UdsInv, UdsProcessState, Uds!Running
<1>2. UdsMet'
  BY <1>1 DEF UdsInv, UdsMet
<1>3. ASSUME NEW q \in Processes, process'[q] = "up", q \notin overlapped
      PROVE  path' = q
  <2>1. q # p /\ process[q] = "up" /\ q \in Uds!Running /\ p \in Uds!Running
    BY <1>3 DEF UdsInv, Uds!Running
  <2> QED
    BY <1>3, <2>1 DEF UdsInv, UdsMet, Uds!SocketReachable
<1> QED
  BY <1>1, <1>2, <1>3 DEF UdsInv, Uds!SocketReachable

(* A process that binds owns the path; the others that run have met it. *)
LEMMA UdsBindInv ==
  ASSUME UdsInv, NEW p \in Processes, Uds!Bind(p)
  PROVE  UdsInv'
<1>1. process' \in [Processes -> UdsProcessState] /\ Uds!Running' = Uds!Running /\ p \in Uds!Running
  BY DEF Uds!Bind, UdsInv, UdsProcessState, Uds!Running
<1>2. UdsMet'
  BY <1>1 DEF Uds!Bind, UdsInv, UdsMet
<1>3. ASSUME NEW q \in Processes, process'[q] = "up", q \notin overlapped
      PROVE  path' = q
  BY <1>1, <1>3 DEF Uds!Bind, UdsInv, UdsMet, Uds!Running
<1> QED
  BY <1>1, <1>2, <1>3 DEF Uds!Bind, UdsInv, Uds!SocketReachable

(* Every step keeps the inductive invariant. *)
LEMMA UdsNextInv == UdsInv /\ [Uds!Next]_(Uds!vars) => UdsInv'
<1> SUFFICES ASSUME UdsInv, [Uds!Next]_(Uds!vars) PROVE UdsInv'
  OBVIOUS
<1>1. CASE UNCHANGED <<process, path, overlapped>>
  BY <1>1 DEF UdsInv, UdsMet, Uds!Running, Uds!SocketReachable
<1>2. ASSUME NEW p \in Processes, Uds!Unlink(p) PROVE UdsInv'
  BY <1>2, UdsUnlinkInv
<1>3. ASSUME NEW p \in Processes, Uds!Bind(p) PROVE UdsInv'
  BY <1>3, UdsBindInv
<1>4. ASSUME NEW p \in Processes, Uds!Close(p) \/ Uds!WaitClosed(p) \/ Uds!Crash(p) PROVE UdsInv'
  <2>1. process[p] # "down" /\ overlapped' = overlapped /\ path' = path
    BY <1>4 DEF Uds!Close, Uds!WaitClosed, Uds!Crash
  <2>2. PICK next \in {"down", "closing", "unlinking"} : process' = [process EXCEPT ![p] = next]
    BY <1>4 DEF Uds!Close, Uds!WaitClosed, Uds!Crash
  <2> QED
    BY <2>1, <2>2, UdsStageInv
<1>5. ASSUME NEW p \in Processes, Uds!on_stop(p) PROVE UdsInv'
  BY <1>5, UdsStageInv DEF Uds!on_stop, Uds!Running
<1>6. ASSUME NEW c \in Clients, Uds!Connect(c) \/ Uds!Read(c) \/ Uds!dispatch(c) \/ Uds!Answer(c) PROVE UdsInv'
  BY <1>1, <1>6 DEF Uds!Connect, Uds!Read, Uds!dispatch, Uds!Answer
<1>7. ASSUME NEW c \in Clients, Uds!HubEnds(c) \/ Uds!ReadRaises(c) \/ Uds!Leave(c) PROVE UdsInv'
  BY <1>1, <1>7 DEF Uds!HubEnds, Uds!ReadRaises, Uds!Leave
<1>8. CASE UNCHANGED Uds!vars
  BY <1>1, <1>8 DEF Uds!vars
<1> QED
  BY <1>2, <1>3, <1>4, <1>5, <1>6, <1>7, <1>8 DEF Uds!Next, Uds!Process, Uds!Handler
-----------------------------------------------------------------------------
(* A response that has ended leaves no task behind, and one that ended by  *)
(* itself has passed on every value, whatever else the process serves.     *)
THEOREM HttpStreamSettled == EntrySpec => []StreamSettled
<1>1. EntryInit => HttpInv
  BY HttpInitInv DEF EntryInit
<1>2. HttpInv /\ [EntryNext]_entryVars => HttpInv'
  BY HttpNextInv DEF EntryNext, entryVars
<1>3. HttpInv => StreamSettled
  BY DEF HttpInv, TypeInv, Told, StreamSettled
<1> QED
  BY <1>1, <1>2, <1>3, PTL DEF EntrySpec

(* Only sockets whose handler is at work are subscribers and listen to     *)
(* traces, for every number of sockets, traces and requests.               *)
THEOREM WebsocketListeners == EntrySpec => []ListenersPresent
<1>1. EntryInit => WsInv
  BY WsInitInv DEF EntryInit
<1>2. WsInv /\ [EntryNext]_entryVars => WsInv'
  <2>1. [EntryNext]_entryVars => [Ws!Next]_(Ws!vars)
    BY DEF EntryNext, entryVars, wsVars, Ws!vars
  <2> QED
    BY <2>1, WsNextInv
<1>3. WsInv => ListenersPresent
  BY DEF WsInv, ListenersPresent
<1> QED
  BY <1>1, <1>2, <1>3, PTL DEF EntrySpec

(* A process that serves and met no other is found at the path, whatever   *)
(* crashed before it, for any number of processes and clients.             *)
THEOREM UnixSocketFound == EntrySpec => []SocketReachable
<1>1. EntryInit => UdsInv
  BY UdsInitInv DEF EntryInit
<1>2. UdsInv /\ [EntryNext]_entryVars => UdsInv'
  <2>1. [EntryNext]_entryVars => [Uds!Next]_(Uds!vars)
    BY DEF EntryNext, entryVars, udsVars, Uds!vars, Uds!clientVars
  <2> QED
    BY <2>1, UdsNextInv
<1>3. UdsInv => SocketReachable
  BY DEF UdsInv, SocketReachable
<1> QED
  BY <1>1, <1>2, <1>3, PTL DEF EntrySpec
=============================================================================
