----------------------------- MODULE ExpiringMap -----------------------------
(***************************************************************************)
(* What a KVProtocol with a ttl promises: a map whose entries vanish by    *)
(* themselves.  An entry written at time n to live for t is there up to    *)
(* and at n + t, and nobody sees it afterwards; with a negative t nobody   *)
(* sees it at all.                                                         *)
(***************************************************************************)
EXTENDS Integers

CONSTANTS Keys, Values, Missing, TTLs, Forever

VARIABLES
  content,   \* [Keys -> value or Missing]
  deadline,  \* [Keys -> last moment of the entry or Forever]
  now,
  answer     \* what the last operation returned

vars == <<content, deadline, now, answer>>

Init ==
  /\ content = [k \in Keys |-> Missing]
  /\ deadline = [k \in Keys |-> Forever]
  /\ now = 0
  /\ answer = <<"none">>

StillBorn(ttl) == ttl # Forever /\ ttl < 0

Write(k, v, ttl) ==
  /\ content' = [content EXCEPT ![k] = IF StillBorn(ttl) THEN Missing ELSE v]
  /\ deadline' = [deadline EXCEPT ![k] =
        IF ttl = Forever \/ StillBorn(ttl) THEN Forever ELSE now + ttl]
  /\ answer' = <<"none">>
  /\ UNCHANGED now

Delete(k) ==
  /\ content' = [content EXCEPT ![k] = Missing]
  /\ deadline' = [deadline EXCEPT ![k] = Forever]
  /\ answer' = <<"none">>
  /\ UNCHANGED now

Ask ==
  /\ \/ \E k \in Keys : answer' = <<"get", content[k]>>
     \/ \E k \in Keys : answer' = <<"exists", content[k] # Missing>>
     \/ \E P \in SUBSET Keys : answer' = <<"keys", {k \in P : content[k] # Missing}>>
  /\ UNCHANGED <<content, deadline, now>>

Over(k) == deadline[k] # Forever /\ deadline[k] < now + 1

Tick ==
  /\ now' = now + 1
  /\ content' = [k \in Keys |-> IF Over(k) THEN Missing ELSE content[k]]
  /\ deadline' = [k \in Keys |-> IF Over(k) THEN Forever ELSE deadline[k]]
  /\ UNCHANGED answer

Next ==
  \/ \E k \in Keys, v \in Values, ttl \in TTLs \union {Forever} : Write(k, v, ttl)
  \/ \E k \in Keys : Delete(k)
  \/ Ask \/ Tick

Spec == Init /\ [][Next]_vars
=============================================================================
