------------------------------ MODULE Registry ------------------------------
(***************************************************************************)
(* RegistryService.register (service/registry.py): the tables of commands  *)
(* and subscriptions, filled from what the services declare.  Bootstrap    *)
(* calls it once; run_hub and run_execute (testing.py) call it again.      *)
(*                                                                         *)
(* A destination `domain.alias.name' is a pair of service and name.        *)
(* The registry is a service too, and its tables are its own `commands'    *)
(* and `subscribers': register meets them on its way.                      *)
(***************************************************************************)
EXTENDS Naturals, Sequences, SequencesExt

CONSTANTS
  Registry,  \* the registry among the services
  None,      \* no destination
  Configs    \* configurations: order, the services as they are configured;
             \* classes, what the modules a service lists contain, those
             \* that cannot be imported apart; handlers, pairs of topic and
             \* method it subscribes; methods, the ones it really has

VARIABLES
  config,       \* the configuration, fixed
  entry,        \* "bootstrap", or "testing": run_hub or run_execute
  commands,     \* [destinations -> class]
  subscribers,  \* pairs of topic and destination
  visit,        \* the service that register is at
  calls,        \* calls of register that have returned
  raised        \* has register raised

vars == <<config, entry, commands, subscribers, visit, calls, raised>>

\* What configurations are: the order is a sequence, classes may have a
\* destination, and the registry itself declares nothing.
Declaring ==
  \A c \in Configs :
    /\ c.order \in Seq(ToSet(c.order))
    /\ c.classes[Registry] = {} /\ c.handlers[Registry] = {}
    /\ \A key \in ToSet(c.order) : \A k \in c.classes[key] : "destination" \in DOMAIN k

Services == ToSet(config.order)
Calls    == IF entry = "testing" THEN 2 ELSE 1

Init ==
  /\ config \in Configs /\ entry \in {"bootstrap", "testing"}
  /\ commands = [d \in {} |-> None] /\ subscribers = {}
  /\ visit = 1 /\ calls = 0 /\ raised = FALSE

\* A plausible bug: commands must have a __call__ of their own, and so must
\* events, which inherit theirs.
RegistrableWithCall(c) == c.call /\ ~(c.event /\ c.own)

\* Events that name a destination in their body belong to another service;
\* commands without a __call__ of their own are abstract.
Registrable(c) == IF c.event THEN ~c.own ELSE c.call

\* A class that has a destination, perhaps by inheritance, keeps it.
Bind(key, c) ==
  IF c.destination # None THEN c ELSE [c EXCEPT !.destination = <<key, c.alias>>]

Handler(d) ==
  [alias |-> d[2], event |-> FALSE, call |-> TRUE, own |-> TRUE, destination |-> d]

Declared(key, name) == {c \in config.classes[key] : Registrable(c) /\ c.alias = name}
Names(key) == {c.alias : c \in {c \in config.classes[key] : Registrable(c)}}
Topics(key) == {<<h[1], <<key, h[2]>>>> : h \in config.handlers[key]}
Methods(key) == {h[2] : h \in config.handlers[key]}

\* _register_commands, then _register_subscribers of one service.  Modules
\* are a set by then (create_from): of two classes of one name either wins.
\* A handler of that name replaces them.
RegisterService(key) ==
  /\ Methods(key) \subseteq config.methods[key]
  /\ subscribers' = subscribers \union Topics(key)
  /\ \E winner \in [Names(key) -> config.classes[key]] :
       /\ \A n \in Names(key) : winner[n] \in Declared(key, n)
       /\ commands' =
            [d \in DOMAIN commands \union {<<key, n>> : n \in Names(key) \union Methods(key)} |->
               IF d[1] # key THEN commands[d]
               ELSE IF d[2] \in Methods(key) THEN Handler(d)
               ELSE Bind(key, winner[d[2]])]
  /\ UNCHANGED raised

\* getattr finds no method of the name a service declares.  The exception
\* ends Bootstrap.__init__, and nobody sees what was registered so far.
NoSuchMethod(key) ==
  /\ ~ Methods(key) \subseteq config.methods[key]
  /\ raised' = TRUE
  /\ UNCHANGED <<commands, subscribers>>

\* The registry meets its own tables.  No destination is a module that can
\* be imported, and none is a method of the registry.
RegisterItself ==
  /\ raised' = (subscribers # {})
  /\ UNCHANGED <<commands, subscribers>>

Visit ==
  /\ ~raised /\ visit <= Len(config.order)
  /\ IF config.order[visit] = Registry THEN RegisterItself
     ELSE RegisterService(config.order[visit]) \/ NoSuchMethod(config.order[visit])
  /\ visit' = visit + 1
  /\ UNCHANGED <<config, entry, calls>>

Return ==
  /\ ~raised /\ visit > Len(config.order) /\ calls < Calls
  /\ calls' = calls + 1
  /\ visit' = IF calls' < Calls THEN 1 ELSE visit
  /\ UNCHANGED <<config, entry, commands, subscribers, raised>>

Next == Visit \/ Return

Spec == Init /\ [][Next]_vars
-----------------------------------------------------------------------------
\* resolve_app of a message made of the class registered as d.
AppOf(d) == commands[d].destination[1]

(* After register every declared command and handler can be resolved, and  *)
(* nothing else: topics lead to the handlers that were declared for them,  *)
(* even if a command has the same name, and messages run on the app that   *)
(* registered them, unless their class came with a destination of its own. *)
Registered ==
  calls > 0 /\ ~raised /\ (calls = Calls \/ visit = 1) =>
    /\ subscribers = UNION {Topics(key) : key \in Services}
    /\ \A s \in subscribers : commands[s[2]] = Handler(s[2])
    /\ DOMAIN commands =
         UNION {{key} \X (Methods(key) \union
                          {c.alias : c \in {c \in config.classes[key] :
                                              (c.call /\ ~c.event) \/ (c.event /\ ~c.own)}})
               : key \in Services}
    /\ \A d \in DOMAIN commands :
         AppOf(d) = d[1] \/ \E c \in config.classes[d[1]] : commands[d] = c

(* docs/spec.md:581, docs/sop.md:416: `async with run_hub(...)' works with *)
(* any configuration that service mode works with.                         *)
RegistersAgain ==
  raised => \E key \in Services : ~ Methods(key) \subseteq config.methods[key]
=============================================================================
