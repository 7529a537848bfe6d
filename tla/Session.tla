------------------------------- MODULE Session -------------------------------
(***************************************************************************)
(* Session (service/session.py): the turns of a conversation kept as one   *)
(* value of a key-value protocol.  append reads the value, extends it and  *)
(* writes it back.  MemoryProtocol never suspends, so that append is one   *)
(* step; SQLiteProtocol and RedisProtocol do, and other handlers run       *)
(* between the read and the write, or the append is cancelled there.  Each *)
(* item is stored at most once.                                            *)
(***************************************************************************)
EXTENDS Sequences, SequencesExt

CONSTANTS Sessions, Handlers, Items,
          Free   \* a handler that is in no append

VARIABLES
  suspends,    \* does the protocol suspend its callers
  turns,       \* the list stored for a session; a missing one reads as empty
  append,      \* [Handlers -> the append it is in: key, item, what it read]
  kept,        \* history: items stored by an append or a set, by session
  rivals,      \* history: [Items -> appends in flight since before it was stored]
  removed,     \* history: items a delete or a set took away
  overwritten  \* history: items some rival has written after

vars == <<suspends, turns, append, kept, rivals, removed, overwritten>>

Init ==
  /\ suspends \in BOOLEAN
  /\ turns = [s \in Sessions |-> <<>>]
  /\ append = [h \in Handlers |-> Free]
  /\ kept = [s \in Sessions |-> {}]
  /\ rivals = [i \in Items |-> {}]
  /\ removed = {} /\ overwritten = {}

New(i) ==
  /\ \A s \in Sessions : i \notin kept[s]
  /\ \A h \in Handlers : append[h] # Free => append[h].item # i

\* Item i is stored in s, and the appends in W are over.
noted(s, i, W) ==
  /\ kept' = [kept EXCEPT ![s] = @ \union {i}]
  /\ rivals' = [j \in Items |->
       (IF j = i THEN {h \in Handlers : append[h] # Free /\ append[h].key = s}
        ELSE rivals[j]) \ W]

\* A plausible bug: the field starts from an empty list each time.
storeFresh(s, seen, i) == turns' = [turns EXCEPT ![s] = <<i>>]

\* The write of append: seen is what its read found.
store(s, seen, i) == turns' = [turns EXCEPT ![s] = Append(seen, i)]

AppendAtOnce(s, i) ==
  /\ ~suspends /\ New(i)
  /\ store(s, turns[s], i) /\ noted(s, i, {})
  /\ UNCHANGED <<suspends, append, removed, overwritten>>

AppendRead(h, s, i) ==
  /\ suspends /\ append[h] = Free /\ New(i)
  /\ append' = [append EXCEPT ![h] = [key |-> s, item |-> i, seen |-> turns[s]]]
  /\ UNCHANGED <<suspends, turns, kept, rivals, removed, overwritten>>

AppendWrite(h) ==
  /\ append[h] # Free
  /\ store(append[h].key, append[h].seen, append[h].item)
  /\ noted(append[h].key, append[h].item, {h})
  /\ overwritten' = overwritten \union {i \in Items : h \in rivals[i]}
  /\ append' = [append EXCEPT ![h] = Free]
  /\ UNCHANGED <<suspends, removed>>

\* The handler is cancelled, or the protocol raises, before the write.
AppendFails(h) ==
  /\ append[h] # Free
  /\ append' = [append EXCEPT ![h] = Free]
  /\ rivals' = [i \in Items |-> rivals[i] \ {h}]
  /\ UNCHANGED <<suspends, turns, kept, removed, overwritten>>

\* set replaces the whole history, here by one new item.
set(s, i) ==
  /\ New(i)
  /\ turns' = [turns EXCEPT ![s] = <<i>>]
  /\ removed' = removed \union ToSet(turns[s])
  /\ noted(s, i, {})
  /\ UNCHANGED <<suspends, append, overwritten>>

delete(s) ==
  /\ turns' = [turns EXCEPT ![s] = <<>>]
  /\ removed' = removed \union ToSet(turns[s])
  /\ UNCHANGED <<suspends, append, kept, rivals, overwritten>>

Next ==
  \/ \E s \in Sessions, i \in Items :
       AppendAtOnce(s, i) \/ set(s, i) \/ \E h \in Handlers : AppendRead(h, s, i)
  \/ \E h \in Handlers : AppendWrite(h) \/ AppendFails(h)
  \/ \E s \in Sessions : delete(s)

Spec == Init /\ [][Next]_vars
-----------------------------------------------------------------------------
(* An item stays in its session's history, once and in no other, until a   *)
(* delete or a set of the session takes it away, or the write of an append *)
(* that was already in flight when the item was stored: an append that     *)
(* began later never loses it, and one that fails costs nothing.  With a   *)
(* protocol that does not suspend only a delete or a set takes it away,    *)
(* and nothing brings it back.                                             *)
AppendsKept ==
  \A s \in Sessions :
    /\ \A i \in kept[s] : i \in ToSet(turns[s]) \union removed \union overwritten
    /\ ToSet(turns[s]) \subseteq kept[s] /\ IsInjective(turns[s])
    /\ ~suspends => ToSet(turns[s]) = kept[s] \ removed
=============================================================================
