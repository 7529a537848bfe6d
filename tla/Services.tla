------------------------------ MODULE Services ------------------------------
(***************************************************************************)
(* How services and protocols are wired, started and stopped: Bootstrap    *)
(* (bootstrap.py), AppService and Protocol (models/), the on-demand starts *)
(* of ExecuteService (service/executor.py) and the contexts of testing.py. *)
(*                                                                         *)
(* Every node, service or protocol, is a mode.Service.  mode is external:  *)
(*   start: sets _started, runs on_start, starts the children in the order *)
(*     they were added with maybe_start, then runs on_started;             *)
(*   maybe_start: returns at once if _started is set, and does not wait;   *)
(*   stop: if not stopped yet, runs on_stop, then stops the children in    *)
(*     the opposite order, whether they ever started or not.               *)
(***************************************************************************)
EXTENDS Naturals, Sequences, SequencesExt, FiniteSetsExt

CONSTANTS
  Nodes,      \* services and protocols
  Unknown,    \* a dependency no section of the configuration names
  Configs,    \* configurations: services, the sections; protocol, what each
              \* node holds (none or one); depends, what it declares;
              \* parallel, may the executed command yield lists of commands
  Hub,        \* the service that run_hub starts
  Executor,   \* the service that runs commands without the hub
  Boot,       \* the coroutine of Bootstrap.on_started, or of the `async with'
  Subs        \* sub-commands of the executed command

VARIABLES
  config,     \* the configuration, fixed
  run,        \* "service", "execute", "run_hub" or "run_execute"
  phase,      \* "new", "starting", "running", "stopping", "stopped", "failed"
  children,   \* [Nodes -> its _children, in the order they were added]
  started,    \* nodes whose _started is set
  ready,      \* nodes whose on_started has run
  broken,     \* history: nodes whose start ended with an exception
  stopped,    \* nodes whose on_stop has run
  starting,   \* [coroutines -> nodes whose start it is in, innermost last]
  next,       \* [Nodes -> number of the child its start handles next]
  stopping,   \* nodes whose stop is under way, innermost last
  rest,       \* [Nodes -> children its stop has still to handle]
  visited,    \* services Bootstrap.on_started has passed to maybe_start
  app,        \* [commands -> the app it runs on]
  command     \* [commands -> "new", "starting", "handling", "done"]

wiring == <<config, run, children>>
startVars == <<started, ready, broken, starting, next, visited>>
stopVars == <<stopped, stopping, rest>>
commandVars == <<app, command>>
vars == <<wiring, phase, startVars, stopVars, commandVars>>

\* What configurations are: a node holds protocols, and depends on nodes or
\* on names that no section defines.
Wired ==
  /\ Hub \in Nodes /\ Executor \in Nodes /\ Hub # Executor /\ Boot \notin Subs
  /\ \A c \in Configs :
       /\ c.protocol \in [Nodes -> Seq(Nodes)]
       /\ c.depends \in [Nodes -> SUBSET (Nodes \union {Unknown})]

Root     == Boot                  \* the executed command runs in Bootstrap's coroutine
Commands == Subs \union {Root}
Bottom(stack) == stack = <<>>
Entry    == IF run = "run_hub" THEN Hub ELSE Executor
Needs(n) == ToSet(config.protocol[n]) \union config.depends[n]

Init ==
  /\ config \in Configs /\ run \in {"service", "execute", "run_hub", "run_execute"}
  /\ phase = "new"
  /\ children = [n \in Nodes |-> <<>>]
  /\ started = {} /\ ready = {} /\ broken = {} /\ stopped = {}
  /\ starting = [c \in Commands |-> <<>>] /\ next = [n \in Nodes |-> 1]
  /\ stopping = <<>> /\ rest = [n \in Nodes |-> 0]
  /\ visited = {}
  /\ app = [c \in Commands |-> Hub] /\ command = [c \in Commands |-> "new"]

\* A plausible bug: the declared dependencies are resolved and not added.
buildServicesProtocols ==
  /\ phase = "new"
  /\ IF \E n \in Nodes : Unknown \in config.depends[n]
     THEN phase' = "failed" /\ UNCHANGED <<children, rest>>
     ELSE /\ phase' = "starting"
          /\ children' = config.protocol
          /\ rest' = [n \in Nodes |-> Len(children'[n])]
  /\ UNCHANGED <<config, run, startVars, stopped, stopping, commandVars>>

\* create_from adds the protocol chain of a node first.  _build_services
\* then adds the declared dependencies: create_from merged them as a set, so
\* that their order is any.  One that no section defines is a ValueError.
build_services ==
  /\ phase = "new"
  /\ IF \E n \in Nodes : Unknown \in config.depends[n]
     THEN phase' = "failed" /\ UNCHANGED <<children, rest>>
     ELSE /\ phase' = "starting"
          /\ \E order \in [Nodes -> UNION {SetToSeqs(config.depends[n]) : n \in Nodes}] :
               /\ \A n \in Nodes : order[n] \in SetToSeqs(config.depends[n])
               /\ children' = [n \in Nodes |-> config.protocol[n] \o order[n]]
          /\ rest' = [n \in Nodes |-> Len(children'[n])]
  /\ UNCHANGED <<config, run, startVars, stopped, stopping, commandVars>>

maybe_start(c, n) ==
  IF n \in started THEN UNCHANGED <<started, starting>>
  ELSE /\ started' = started \union {n}
       /\ starting' = [starting EXCEPT ![c] = Append(@, n)]

\* start of the innermost node goes on with its next child.
StartChild(c) ==
  /\ ~Bottom(starting[c])
  /\ LET n == Last(starting[c])
     IN /\ next[n] <= Len(children[n])
        /\ next' = [next EXCEPT ![n] = @ + 1]
        /\ maybe_start(c, children[n][next[n]])
  /\ UNCHANGED <<wiring, phase, ready, broken, visited, stopVars, commandVars>>

\* on_started of the innermost node, after its last child.
Started(c) ==
  /\ ~Bottom(starting[c])
  /\ LET n == Last(starting[c])
     IN next[n] > Len(children[n]) /\ ready' = ready \union {n}
  /\ starting' = [starting EXCEPT ![c] = Front(@)]
  /\ UNCHANGED <<wiring, phase, started, broken, next, visited, stopVars, commandVars>>

\* on_start or on_started raises: so does every start around it.  _started
\* stays set.  A sub-command fails; Bootstrap stops.
StartFails(c) ==
  /\ ~Bottom(starting[c])
  /\ broken' = broken \union ToSet(starting[c])
  /\ starting' = [starting EXCEPT ![c] = <<>>]
  /\ IF c = Boot THEN phase' = "stopping" /\ UNCHANGED command
     ELSE command' = [command EXCEPT ![c] = "done"] /\ UNCHANGED phase
  /\ UNCHANGED <<wiring, started, ready, next, visited, stopVars, app>>
-----------------------------------------------------------------------------
\* bollydog service: on_started starts the services of the configuration.
VisitService(n) ==
  /\ run = "service" /\ phase = "starting" /\ Bottom(starting[Boot])
  /\ n \in config.services \ visited
  /\ visited' = visited \union {n}
  /\ maybe_start(Boot, n)
  /\ UNCHANGED <<wiring, phase, ready, broken, next, stopVars, commandVars>>

AllVisited ==
  /\ run = "service" /\ phase = "starting" /\ Bottom(starting[Boot])
  /\ visited = config.services
  /\ phase' = "running"
  /\ UNCHANGED <<wiring, startVars, stopVars, commandVars>>

\* The other modes start one service and what it holds and depends on:
\* `async with' of run_hub and run_execute, or execute mode.
Enter ==
  /\ run # "service" /\ phase = "starting" /\ visited = {}
  /\ visited' = {Entry}
  /\ maybe_start(Boot, Entry)
  /\ UNCHANGED <<wiring, phase, ready, broken, next, stopVars, commandVars>>

Entered ==
  /\ run = "run_hub" /\ phase = "starting" /\ visited = {Hub} /\ Bottom(starting[Boot])
  /\ phase' = "running"
  /\ UNCHANGED <<wiring, startVars, stopVars, commandVars>>

\* ExecuteService.execute runs the handler of a command of n as it is.
execute(n) ==
  /\ Entry = Executor /\ run # "service" /\ n \in config.services
  /\ phase = "starting" /\ visited = {Executor} /\ Bottom(starting[Boot])
  /\ phase' = "running"
  /\ app' = [app EXCEPT ![Root] = n]
  /\ command' = [command EXCEPT ![Root] = "handling"]
  /\ UNCHANGED <<wiring, startVars, stopVars>>

Busy(c) == command[c] \in {"starting", "handling"}

\* A plausible bug: _submit does not start the app.
submitUnstarted(c, n) ==
  /\ phase = "running" /\ command[Root] = "handling"
  /\ command[c] = "new" /\ n \in config.services
  /\ config.parallel \/ \A d \in Subs : ~Busy(d)
  /\ app' = [app EXCEPT ![c] = n]
  /\ UNCHANGED <<started, starting>>
  /\ command' = [command EXCEPT ![c] = "handling"]
  /\ UNCHANGED <<wiring, phase, ready, broken, next, visited, stopVars>>

\* _submit of a sub-command: its app is started if _started is not set.
submit(c, n) ==
  /\ phase = "running" /\ command[Root] = "handling"
  /\ command[c] = "new" /\ n \in config.services
  /\ config.parallel \/ \A d \in Subs : ~Busy(d)
  /\ app' = [app EXCEPT ![c] = n]
  /\ maybe_start(c, n)
  /\ command' = [command EXCEPT ![c] = IF n \in started THEN "handling" ELSE "starting"]
  /\ UNCHANGED <<wiring, phase, ready, broken, next, visited, stopVars>>

Submitted(c) ==
  /\ command[c] = "starting" /\ Bottom(starting[c])
  /\ command' = [command EXCEPT ![c] = "handling"]
  /\ UNCHANGED <<wiring, phase, startVars, stopVars, app>>

SubDone(c) ==
  /\ c \in Subs /\ command[c] = "handling"
  /\ command' = [command EXCEPT ![c] = "done"]
  /\ UNCHANGED <<wiring, phase, startVars, stopVars, app>>

Executed ==
  /\ command[Root] = "handling" /\ \A d \in Subs : ~Busy(d)
  /\ command' = [command EXCEPT ![Root] = "done"]
  /\ phase' = "stopping"
  /\ UNCHANGED <<wiring, startVars, stopVars, app>>
-----------------------------------------------------------------------------
\* A signal in service mode, or the end of the block of run_hub.
Signal ==
  /\ run \in {"service", "run_hub"} /\ phase = "running"
  /\ phase' = "stopping"
  /\ UNCHANGED <<wiring, startVars, stopVars, commandVars>>

\* stop of n: on_stop runs, unless it has before.
stop(n) ==
  IF n \in stopped THEN UNCHANGED <<stopped, stopping>>
  ELSE stopped' = stopped \union {n} /\ stopping' = Append(stopping, n)

\* The end of an `async with' block.  One that failed to start its service
\* raises without stopping it.
Leave ==
  /\ run \in {"run_hub", "run_execute"} /\ phase = "stopping"
  /\ Entry \notin broken \union stopped
  /\ stop(Entry)
  /\ UNCHANGED <<wiring, phase, startVars, rest, commandVars>>

StopChild ==
  /\ ~Bottom(stopping)
  /\ LET n == Last(stopping)
     IN /\ rest[n] > 0
        /\ rest' = [rest EXCEPT ![n] = @ - 1]
        /\ stop(children[n][rest[n]])
  /\ UNCHANGED <<wiring, phase, startVars, commandVars>>

ChildrenStopped ==
  /\ ~Bottom(stopping) /\ rest[Last(stopping)] = 0
  /\ stopping' = Front(stopping)
  /\ UNCHANGED <<wiring, phase, startVars, stopped, rest, commandVars>>

\* Bootstrap.stop: on_init_dependencies gives it no children, so that no
\* service is stopped; on_shutdown clears the services.
Shutdown ==
  /\ phase = "stopping" /\ Bottom(stopping)
  /\ run \in {"run_hub", "run_execute"} => Entry \in broken \union stopped
  /\ phase' = "stopped"
  /\ UNCHANGED <<wiring, startVars, stopVars, commandVars>>

Next ==
  \/ build_services \/ AllVisited \/ Enter \/ Entered \/ Executed
  \/ Signal \/ Leave \/ StopChild \/ ChildrenStopped \/ Shutdown
  \/ \E n \in Nodes : VisitService(n) \/ execute(n) \/ \E c \in Subs : submit(c, n)
  \/ \E c \in Commands :
       StartChild(c) \/ Started(c) \/ StartFails(c) \/ Submitted(c) \/ SubDone(c)

Spec == Init /\ [][Next]_vars
-----------------------------------------------------------------------------
\* n is on a cycle of dependencies: it is in every set that holds what n
\* needs, and what the members of the set need.
Closed(S) == \A n \in S : Needs(n) \subseteq S
SelfNeeding(n) == \A S \in SUBSET Nodes : Needs(n) \subseteq S /\ Closed(S) => n \in S
InStart == UNION {ToSet(starting[c]) : c \in Commands}

(* on_started means "all dependencies started" (docs/sop.md:205): what a   *)
(* ready node needs is ready too, unless its start failed earlier, or is   *)
(* still under way, in another coroutine or around this one (a cycle).     *)
ReadyAfterNeeds ==
  \A n \in ready : \A d \in Needs(n) :
    \/ d \in ready \union broken
    \/ d \in InStart /\ (config.parallel \/ SelfNeeding(d))

(* A sub-command runs on an app whose start has ended, even if the command *)
(* that started it has been submitted by another one; commands yielded as  *)
(* a list may also find the app in the middle of its start.                *)
SubcommandAppStarted ==
  \A c \in Subs : command[c] = "handling" =>
    app[c] \in ready \union broken \union (IF config.parallel THEN InStart ELSE {})

(* docs/spec.md:105: "Target AppService + Protocol are started on demand": *)
(* every command runs on an app that is ready, or could not be started.    *)
CommandAppReady ==
  \A c \in Commands : command[c] = "handling" => app[c] \in ready \union broken

(* docs/spec.md:303: the "lifecycle managed by mode.Service" ends with     *)
(* on_stop (docs/sop.md:206): what a service run started has been stopped. *)
StartedStopped == run = "service" /\ phase = "stopped" => ready \subseteq stopped
=============================================================================
