------------------------------ MODULE SqlBlocks ------------------------------
(***************************************************************************)
(* Transactions of SqlAlchemyProtocol (adapters/sqlalchemy.py).  A task    *)
(* opens one with `async with protocol', whose session is remembered in a  *)
(* context variable of the task, or with `async with transaction()', whose *)
(* session belongs to the block.  The operations of the protocol itself    *)
(* (add, get, update, delete, upsert, ...) use neither: each runs one      *)
(* statement in a transaction of its own.                                  *)
(*                                                                         *)
(* Blocks nest in one task when ExecuteService runs a sub-command inline;  *)
(* the hub gives every command a task, and a context, of its own.          *)
(***************************************************************************)
EXTENDS Sequences, SequencesExt

CONSTANTS
  Tasks,
  Blocks,    \* bound: the blocks a behaviour opens
  Keys, Values,
  NoRow,     \* a row that does not exist
  Unset      \* the context variable has no value

VARIABLES
  rows,      \* what is committed: [Keys -> value or NoRow]
  inside,    \* [Tasks -> blocks it is in, innermost last]
  current,   \* _session_ctx of each task
  kind,      \* [Blocks -> "unused", "protocol" or "transaction"]
  ended,     \* [Blocks -> its transaction: "open", "committed", "rolled back"]
  writes,    \* [Blocks -> uncommitted rows by key]
  left,      \* history: how the block was left: "inside", "ok" or "raised"
  shadowed   \* history: blocks in which the task entered the protocol again

blockVars == <<kind, ended, writes, left, shadowed>>
vars == <<rows, inside, current, blockVars>>

Init ==
  /\ rows = [k \in Keys |-> NoRow]
  /\ inside = [t \in Tasks |-> <<>>]
  /\ current = [t \in Tasks |-> Unset]
  /\ kind = [b \in Blocks |-> "unused"]
  /\ ended = [b \in Blocks |-> "open"]
  /\ writes = [b \in Blocks |-> <<>>]
  /\ left = [b \in Blocks |-> "inside"]
  /\ shadowed = {}

enter(t, b, how) ==
  /\ kind[b] = "unused"
  /\ kind' = [kind EXCEPT ![b] = how]
  /\ inside' = [inside EXCEPT ![t] = Append(@, b)]
  /\ UNCHANGED <<rows, ended, writes, left>>

\* async with protocol: __aenter__ overwrites the context variable.
aenter(t, b) ==
  /\ enter(t, b, "protocol")
  /\ current' = [current EXCEPT ![t] = b]
  /\ shadowed' = shadowed \union {c \in ToSet(inside[t]) : kind[c] = "protocol"}

transaction(t, b) == enter(t, b, "transaction") /\ UNCHANGED <<current, shadowed>>

\* A row written by an open transaction is locked: whoever wants it waits.
Locked(k, b) == \E c \in Blocks \ {b} : ended[c] = "open" /\ k \in DOMAIN writes[c]

\* A statement on the session of a block the task is in.
Statement(t, b, k, v) ==
  /\ b \in ToSet(inside[t]) /\ ended[b] = "open" /\ ~Locked(k, b)
  /\ writes' = [writes EXCEPT ![b] =
       [n \in DOMAIN @ \union {k} |-> IF n = k THEN v ELSE writes[b][n]]]
  /\ UNCHANGED <<rows, inside, current, kind, ended, left, shadowed>>

\* An operation of the protocol: its own transaction, whatever blocks the
\* caller is in.  A block of the caller may hold the lock: it then waits.
Operation(k, v) ==
  /\ \A b \in Blocks : ~(ended[b] = "open" /\ k \in DOMAIN writes[b])
  /\ rows' = [rows EXCEPT ![k] = v]
  /\ UNCHANGED <<inside, current, blockVars>>

\* upsert, insert_ignore: one statement that decides whether the row is there.
Upsert(k, v, conflict) ==
  /\ \A b \in Blocks : ~(ended[b] = "open" /\ k \in DOMAIN writes[b])
  /\ rows' = [rows EXCEPT ![k] = IF @ = NoRow \/ conflict = "update" THEN v ELSE @]
  /\ UNCHANGED <<inside, current, blockVars>>

\* The end of the transaction of block b; nothing if it has ended before.
end(b, how) ==
  IF ended[b] # "open" THEN UNCHANGED <<rows, ended>>
  ELSE /\ ended' = [ended EXCEPT ![b] = IF how = "ok" THEN "committed" ELSE "rolled back"]
       /\ rows' = IF how = "ok" /\ writes[b] # <<>>
                  THEN [k \in Keys |-> IF k \in DOMAIN writes[b] THEN writes[b][k]
                                       ELSE rows[k]]
                  ELSE rows

leave(t, b, how) ==
  /\ inside[t] # <<>> /\ Last(inside[t]) = b
  /\ inside' = [inside EXCEPT ![t] = Front(@)]
  /\ left' = [left EXCEPT ![b] = how]
  /\ UNCHANGED <<current, kind, writes, shadowed>>

\* A plausible bug: the protocol remembers the session, not the task.
aexitAny(t, b, how) ==
  /\ kind[b] = "protocol" /\ leave(t, b, how)
  /\ \E u \in Tasks : current[u] # Unset /\ end(current[u], how)

\* __aexit__ ends the session the context variable holds.
aexit(t, b, how) ==
  /\ kind[b] = "protocol" /\ leave(t, b, how)
  /\ end(current[t], how)

endTransaction(t, b, how) ==
  /\ kind[b] = "transaction" /\ leave(t, b, how)
  /\ end(b, how)

Next ==
  \/ \E k \in Keys, v \in Values \union {NoRow} : Operation(k, v)
  \/ \E k \in Keys, v \in Values, conflict \in {"update", "nothing"} : Upsert(k, v, conflict)
  \/ \E t \in Tasks, b \in Blocks :
       \/ aenter(t, b) \/ transaction(t, b)
       \/ \E k \in Keys, v \in Values : Statement(t, b, k, v)
       \/ \E how \in {"ok", "raised"} : aexit(t, b, how) \/ endTransaction(t, b, how)

Spec == Init /\ [][Next]_vars
-----------------------------------------------------------------------------
(* A block ends its own transaction, the way it was left, and nobody       *)
(* else's: committed if the block came to its end and rolled back if it    *)
(* raised, whatever other tasks and other blocks do.  The exception is a   *)
(* block in which the same task entered the protocol again: its exit finds *)
(* the inner session, and its own is never committed.                      *)
BlocksSettled ==
  \A b \in Blocks :
    /\ left[b] = "inside" => ended[b] = "open"
    /\ left[b] = "ok" /\ b \notin shadowed => ended[b] = "committed"
    /\ left[b] = "raised" /\ b \notin shadowed => ended[b] = "rolled back"
=============================================================================
