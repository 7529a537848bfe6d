------------------------------ MODULE Exchange ------------------------------
(***************************************************************************)
(* The subscription index (service/registry.py) and the routing of events  *)
(* (service/exchange.py): which handlers an event triggers while handlers  *)
(* subscribe and unsubscribe.                                              *)
(*                                                                         *)
(* A topic is a sequence of words, the parts of the dotted name; a pattern *)
(* may also contain "*" (one part) and "#" (any number of parts).          *)
(***************************************************************************)
EXTENDS Integers, Sequences, FiniteSets

CONSTANTS
  Words,         \* the parts of topics
  PatternWords,  \* the words that patterns contain
  MaxParts,      \* bound of the model: parts of a topic or pattern
  Destinations,  \* handlers that may be subscribed
  commands,      \* destinations the registry can resolve
  MaxSubscribed  \* bound of the model: subscriptions at a time

\* What is assumed of them, where the module is used.
ExchangeAssumption ==
  /\ (Words \union PatternWords) \intersect {"*", "#"} = {}
  /\ MaxParts \in Nat \ {0} /\ MaxSubscribed \in Nat
  /\ commands \subseteq Destinations

DottedNames(parts) == UNION {[1..n -> parts] : n \in 1..MaxParts}
Topics   == DottedNames(Words)
Patterns == DottedNames(PatternWords \union {"*", "#"})
NoTopic  == <<>>

VARIABLES
  subscribers,  \* pairs <<pattern, destination>>
  topic,        \* of the event that is being processed, or NoTopic
  callbacks,    \* destinations whose callback its state holds
  created,      \* destinations whose command was created for it
  expected      \* history: the handlers the subscriptions meant at dispatch

vars == <<subscribers, topic, callbacks, created, expected>>

\* What a pattern means: the topic can be cut into consecutive pieces, one
\* per part, of any length for "#" and of one part otherwise.
Meaning(p, t) ==
  \E cut \in [0..Len(p) -> 0..Len(t)] :
    /\ cut[0] = 0 /\ cut[Len(p)] = Len(t)
    /\ \A i \in 1..Len(p) :
         IF p[i] = "#" THEN cut[i - 1] <= cut[i]
         ELSE cut[i] = cut[i - 1] + 1 /\ p[i] \in {"*", t[cut[i]]}

Init ==
  /\ subscribers = {} /\ topic = NoTopic
  /\ callbacks = {} /\ created = {} /\ expected = {}
-----------------------------------------------------------------------------
\* A plausible bug: a "#" in the middle takes at least one part.
matchGreedy(pp, tp) ==
  LET m[pi \in 1..(Len(pp) + 1)] ==
        [ti \in 1..(Len(tp) + 1) |->
           IF pi > Len(pp) THEN ti > Len(tp)
           ELSE IF pp[pi] = "#"
                THEN pi = Len(pp) \/ \E skip \in (ti + 1)..(Len(tp) + 1) : m[pi + 1][skip]
                ELSE ti <= Len(tp) /\ pp[pi] \in {"*", tp[ti]} /\ m[pi + 1][ti + 1]]
  IN m[1][1]

\* match_topic: the pointers pi and ti of _match move through pattern and
\* topic; at a "#" that is not the last part every rest is tried.
match_topic(pp, tp) ==
  LET m[pi \in 1..(Len(pp) + 1)] ==
        [ti \in 1..(Len(tp) + 1) |->
           IF pi > Len(pp) THEN ti > Len(tp)
           ELSE IF pp[pi] = "#"
                THEN pi = Len(pp) \/ \E skip \in ti..(Len(tp) + 1) : m[pi + 1][skip]
                ELSE ti <= Len(tp) /\ pp[pi] \in {"*", tp[ti]} /\ m[pi + 1][ti + 1]]
  IN m[1][1]

\* Exchange.match: a set, so that a destination counts once.
match(t) == {s[2] : s \in {s \in subscribers : s[1] = t \/ match_topic(s[1], t)}}

subscribe(p, d) ==
  /\ Cardinality(subscribers \union {<<p, d>>}) <= MaxSubscribed
  /\ subscribers' = subscribers \union {<<p, d>>}
  /\ UNCHANGED <<topic, callbacks, created, expected>>

unsubscribe(p, d) ==
  /\ <<p, d>> \in subscribers
  /\ subscribers' = subscribers \ {<<p, d>>}
  /\ UNCHANGED <<topic, callbacks, created, expected>>

\* An event is dispatched: bind_subscriber_callbacks resolves the topic.
bind_subscriber_callbacks(t) ==
  /\ topic = NoTopic
  /\ topic' = t
  /\ callbacks' = match(t)
  /\ expected' = {s[2] : s \in {s \in subscribers : s[2] \in commands /\ Meaning(s[1], t)}}
  /\ UNCHANGED <<subscribers, created>>

\* _on_subscriber_done after a success.  A destination the registry does
\* not know raises KeyError, which is logged.
on_subscriber_done(d) ==
  /\ d \in callbacks
  /\ callbacks' = callbacks \ {d}
  /\ created' = IF d \in commands THEN created \union {d} ELSE created
  /\ UNCHANGED <<subscribers, topic, expected>>

\* The next event.
NextEvent ==
  /\ topic # NoTopic /\ callbacks = {}
  /\ topic' = NoTopic /\ created' = {} /\ expected' = {}
  /\ UNCHANGED <<subscribers, callbacks>>

Next ==
  \/ \E p \in Patterns, d \in Destinations : subscribe(p, d) \/ unsubscribe(p, d)
  \/ \E t \in Topics : bind_subscriber_callbacks(t)
  \/ \E d \in Destinations : on_subscriber_done(d)
  \/ NextEvent

Spec == Init /\ [][Next]_vars
-----------------------------------------------------------------------------
(* An event triggers the resolvable handlers that some matching pattern    *)
(* named when it was dispatched: all of them, no other, whatever was       *)
(* subscribed or unsubscribed while it was processed.                      *)
TriggersMatching == (topic # NoTopic /\ callbacks = {}) => created = expected
=============================================================================
