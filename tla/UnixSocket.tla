----------------------------- MODULE UnixSocket -----------------------------
(***************************************************************************)
(* UdsService (entrypoint/uds/app.py): processes that serve commands on    *)
(* one socket path, one after the other or at the same time, and clients   *)
(* whose send opens a connection for a single command.                     *)
(*                                                                         *)
(* asyncio (Python 3.12) is external: start_unix_server removes a socket   *)
(* that is in its way and binds a new one; Server.wait_closed waits until  *)
(* the connections are closed; a process that dies resets its connections. *)
(***************************************************************************)
EXTENDS Naturals

CONSTANTS
  Processes,
  Clients,
  Nobody      \* no process

VARIABLES
  process,     \* [Processes -> "down", "binding", "up", "closing", "unlinking"]
  path,        \* the process whose socket the path names, or Nobody: no file
  overlapped,  \* history: processes that met another one while they ran
  send,        \* [Clients -> where the client is in send]
  server,      \* [Clients -> the process it is connected to]
  handle,      \* [Clients -> where _handle of its connection is]
  outcome      \* [Clients -> "none", or what the hub made of the command]

clientVars == <<send, server, handle, outcome>>
vars == <<process, path, overlapped, clientVars>>

Init ==
  /\ process = [p \in Processes |-> "down"] /\ path = Nobody /\ overlapped = {}
  /\ send = [c \in Clients |-> "new"] /\ server = [c \in Clients |-> Nobody]
  /\ handle = [c \in Clients |-> "none"] /\ outcome = [c \in Clients |-> "none"]

Running == {p \in Processes : process[p] # "down"}

\* on_start, up to start_unix_server: a socket at the path is unlinked.
Unlink(p) ==
  /\ process[p] = "down"
  /\ path' = Nobody
  /\ process' = [process EXCEPT ![p] = "binding"]
  /\ overlapped' = IF Running = {} THEN overlapped \ {p} ELSE overlapped \union Running \union {p}
  /\ UNCHANGED clientVars

\* A plausible bug: a socket that is there is taken for a running server.
BindFresh(p) ==
  /\ process[p] = "binding"
  /\ path' = path
  /\ process' = [process EXCEPT ![p] = "up"]
  /\ UNCHANGED <<overlapped, clientVars>>

Bind(p) ==
  /\ process[p] = "binding"
  /\ path' = p
  /\ process' = [process EXCEPT ![p] = "up"]
  /\ UNCHANGED <<overlapped, clientVars>>

Connections(p) == {c \in Clients : server[c] = p /\ handle[c] # "none"}

\* on_stop: close, wait_closed, and an unlink of whatever is at the path.
Close(p) ==
  /\ process[p] = "up"
  /\ process' = [process EXCEPT ![p] = "closing"]
  /\ UNCHANGED <<path, overlapped, clientVars>>

WaitClosed(p) ==
  /\ process[p] = "closing" /\ Connections(p) = {}
  /\ process' = [process EXCEPT ![p] = "unlinking"]
  /\ UNCHANGED <<path, overlapped, clientVars>>

on_stop(p) ==
  /\ process[p] = "unlinking"
  /\ path' = Nobody
  /\ process' = [process EXCEPT ![p] = "down"]
  /\ UNCHANGED <<overlapped, clientVars>>

\* The process dies; its socket stays at the path.
Crash(p) ==
  /\ process[p] # "down"
  /\ process' = [process EXCEPT ![p] = "down"]
  /\ handle' = [c \in Clients |-> IF server[c] = p THEN "none" ELSE handle[c]]
  /\ UNCHANGED <<path, overlapped, send, server, outcome>>
-----------------------------------------------------------------------------
\* send: open_unix_connection, which raises if nobody listens.
Connect(c) ==
  /\ send[c] = "new"
  /\ IF path # Nobody /\ process[path] = "up"
     THEN /\ send' = [send EXCEPT ![c] = "sent"] /\ server' = [server EXCEPT ![c] = path]
          /\ handle' = [handle EXCEPT ![c] = "read"]
     ELSE send' = [send EXCEPT ![c] = "ended"] /\ UNCHANGED <<server, handle>>
  /\ UNCHANGED <<process, path, overlapped, outcome>>

\* The result or the error is written, and the connection closed.
Reply(c) ==
  /\ handle' = [handle EXCEPT ![c] = "none"]
  /\ send' = [send EXCEPT ![c] = IF @ = "sent" THEN "ended" ELSE @]

\* _handle reads the request.  A frame that is cut, no JSON, an unknown
\* command or arguments that do not fit are answered with an error.
Read(c) ==
  /\ handle[c] = "read"
  /\ \/ handle' = [handle EXCEPT ![c] = "dispatch"] /\ UNCHANGED send
     \/ Reply(c)
  /\ UNCHANGED <<process, path, overlapped, server, outcome>>

dispatch(c) ==
  /\ handle[c] = "dispatch"
  /\ \/ handle' = [handle EXCEPT ![c] = "await"] /\ UNCHANGED send
     \/ Reply(c)
  /\ UNCHANGED <<process, path, overlapped, server, outcome>>

\* The hub ends the command, whether its client is still there or not.  It
\* need not: a generator may go on for ever, and a hub that stops leaves
\* commands pending or cancels their tasks.
HubEnds(c) ==
  /\ handle[c] = "await" /\ outcome[c] = "none"
  /\ \E end \in {"done", "failed"} : outcome' = [outcome EXCEPT ![c] = end]
  /\ UNCHANGED <<process, path, overlapped, send, server, handle>>

\* A plausible bug: a failed command leaves the connection open.
AnswerDone(c) ==
  /\ handle[c] = "await" /\ outcome[c] = "done"
  /\ Reply(c)
  /\ UNCHANGED <<process, path, overlapped, server, outcome>>

Answer(c) ==
  /\ handle[c] = "await" /\ outcome[c] # "none"
  /\ Reply(c)
  /\ UNCHANGED <<process, path, overlapped, server, outcome>>

\* The connection is reset: _read_frame of the client raises.
ReadRaises(c) ==
  /\ send[c] = "sent" /\ handle[c] = "none"
  /\ send' = [send EXCEPT ![c] = "ended"]
  /\ UNCHANGED <<process, path, overlapped, server, handle, outcome>>

\* A client that is killed while it waits.
Leave(c) ==
  /\ send[c] = "sent"
  /\ send' = [send EXCEPT ![c] = "left"]
  /\ UNCHANGED <<process, path, overlapped, server, handle, outcome>>

Handler(c) == Read(c) \/ dispatch(c) \/ Answer(c)
Process(p) == Bind(p) \/ WaitClosed(p) \/ on_stop(p)

Next ==
  \/ \E p \in Processes : Unlink(p) \/ Close(p) \/ Crash(p) \/ Process(p)
  \/ \E c \in Clients : Connect(c) \/ Handler(c) \/ HubEnds(c) \/ ReadRaises(c) \/ Leave(c)

\* Nothing is fair about the hub.
Fairness ==
  /\ \A p \in Processes : WF_vars(Process(p))
  /\ \A c \in Clients : WF_vars(Handler(c)) /\ WF_vars(ReadRaises(c))

Spec == Init /\ [][Next]_vars /\ Fairness
-----------------------------------------------------------------------------
(* A process that serves, and met no other, is found at the path, whatever *)
(* socket a crashed one has left there.  (Not so when processes overlap:   *)
(* the one that stops unlinks the socket of the one that goes on.)         *)
SocketReachable == \A p \in Processes : process[p] = "up" /\ p \notin overlapped => path = p

\* The connection of c waits for the hub.
Unsettled(c) == handle[c] = "await" /\ outcome[c] = "none"

\* It waits for the hub at most until the hub settles it, or its process dies.
Settles(c) == Unsettled(c) ~> ~Unsettled(c)

(* A client that has connected gets an answer or an error if its command   *)
(* is settled, and a process that is told to stop comes to its end if the  *)
(* commands of its connections are: they wait for the hub alone, a command *)
(* the hub never settles being the one thing that holds up both.           *)
SendsEnd ==
  /\ \A c \in Clients : Settles(c) => (send[c] = "sent" ~> send[c] # "sent")
  /\ \A p \in Processes :
       (\A c \in Clients : (server[c] = p /\ Unsettled(c)) ~> ~(server[c] = p /\ Unsettled(c)))
         => (process[p] = "closing" ~> process[p] = "down")
=============================================================================
