---------------------------- MODULE ServiceParts ----------------------------
(***************************************************************************)
(* What services do beside the hub: what they register (Registry), the     *)
(* routing of events (Exchange), the wiring, start and stop of services    *)
(* (Services), and the cache layers they keep their data in (KVCache, with *)
(* the flush of CacheLayer or of TableCacheLayer).  They share nothing, so *)
(* a behaviour exercises one of them and the state spaces add up.          *)
(***************************************************************************)
EXTENDS KVCache

CONSTANTS
  Words, PatternWords, MaxParts, Destinations, commands, MaxSubscribed,  \* of Exchange
  Nodes, Configs, Hub, Executor, Unknown, Boot, Subs,                    \* of Services
  Declarations                                                           \* of Registry

VARIABLES
  subscribers, topic, callbacks, created, expected,
  config, run, phase, children, started, ready, broken, stopped,
  starting, next, stopping, rest, visited, app, command,
  declared, entry, table, topics, visit, calls, raised,
  subject  \* the part this behaviour exercises

Events == INSTANCE Exchange

ASSUME EventsAssumption == Events!ExchangeAssumption

Wiring == INSTANCE Services

ASSUME NodesAssumption == IsFiniteSet(Nodes)
ASSUME WiringAssumption == Wiring!Wired

\* The hub stands for the registry here: the first of the services.
Tables == INSTANCE Registry
  WITH Registry <- Hub, None <- Unknown, Configs <- Declarations,
       config <- declared, commands <- table, subscribers <- topics

ASSUME DeclarationsAssumption == Tables!Declaring

\* With TableCacheLayer the client that sets is also the only one that
\* removes: its flush may store a key again that another one removes.
List  == INSTANCE CacheLayer
Table == INSTANCE TableCacheLayer WITH Removers <- Setters

eventVars  == <<subscribers, topic, callbacks, created, expected>>
wiringVars == <<config, run, phase, children, started, ready, broken, stopped,
                starting, next, stopping, rest, visited, app, command>>
tableVars  == <<declared, entry, table, topics, visit, calls, raised>>

PartsInit ==
  /\ subject \in {"Registry", "Exchange", "Services", "CacheLayer", "TableCacheLayer"}
  /\ Events!Init /\ Wiring!Init /\ Tables!Init /\ List!Init

PartsNext ==
  /\ \/ subject = "Registry" /\ Tables!Next /\ UNCHANGED <<eventVars, wiringVars, vars>>
     \/ subject = "Exchange" /\ Events!Next /\ UNCHANGED <<tableVars, wiringVars, vars>>
     \/ subject = "Services" /\ Wiring!Next /\ UNCHANGED <<eventVars, tableVars, vars>>
     \/ subject = "CacheLayer" /\ List!Next /\ UNCHANGED <<eventVars, tableVars, wiringVars>>
     \/ subject = "TableCacheLayer" /\ Table!Next /\ UNCHANGED <<eventVars, tableVars, wiringVars>>
  /\ UNCHANGED subject

partsVars == <<eventVars, tableVars, wiringVars, vars, subject>>

PartsSpec == PartsInit /\ [][PartsNext]_partsVars
-----------------------------------------------------------------------------
(* Every declared command and handler is registered, and nothing else.     *)
Registered == Tables!Registered

(* docs/spec.md:581: run_hub works with any configuration.                 *)
RegistersAgain == Tables!RegistersAgain

(* An event triggers what matched it when it was dispatched.               *)
TriggersMatching == Events!TriggersMatching

(* What a ready service needs is ready, has failed, or is under way.       *)
ReadyAfterNeeds == Wiring!ReadyAfterNeeds

(* A sub-command runs on an app whose start has ended.                     *)
SubcommandAppStarted == Wiring!SubcommandAppStarted

(* docs/spec.md:105: the app of a command is started on demand.            *)
CommandAppReady == Wiring!CommandAppReady

(* docs/spec.md:303, docs/sop.md:206: what was started has been stopped.   *)
StartedStopped == Wiring!StartedStopped
=============================================================================
