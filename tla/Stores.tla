------------------------------- MODULE Stores -------------------------------
(***************************************************************************)
(* The stores under adapters/ and the session over them.  They share       *)
(* nothing, so a behaviour exercises one of them and the state spaces add  *)
(* up: MemoryProtocol, TOMLFileProtocol, Session, or the transactions of   *)
(* SqlAlchemyProtocol.                                                     *)
(***************************************************************************)
EXTENDS MemoryKV

CONSTANTS
  FileValues, Paths, Unencodable, Dict, Absent, Updates,  \* of TOMLFile
  Sessions, Handlers, Items, Free,                        \* of Session
  Tasks, Blocks, RowKeys, RowValues, NoRow, Unset         \* of SqlBlocks

VARIABLES
  data, file, stage, acked, torn,
  suspends, turns, append, kept, rivals, removed, overwritten,
  rows, inside, current, kind, ended, writes, left, shadowed,
  subject  \* the store this behaviour exercises

File  == INSTANCE TOMLFile WITH Values <- FileValues
Turns == INSTANCE Session
Sql   == INSTANCE SqlBlocks WITH Keys <- RowKeys, Values <- RowValues

ASSUME FileAssumption == File!DottedKeys

fileVars  == <<data, file, stage, acked, torn>>
turnsVars == <<suspends, turns, append, kept, rivals, removed, overwritten>>
sqlVars   == <<rows, inside, current, kind, ended, writes, left, shadowed>>
storesVars == <<vars, fileVars, turnsVars, sqlVars, subject>>

StoresInit ==
  /\ subject \in {"MemoryProtocol", "TOMLFileProtocol", "Session", "SqlAlchemyProtocol"}
  /\ Init /\ File!Init /\ Turns!Init /\ Sql!Init

StoresNext ==
  /\ \/ /\ subject = "MemoryProtocol" /\ Next
        /\ UNCHANGED <<fileVars, turnsVars, sqlVars>>
     \/ /\ subject = "TOMLFileProtocol" /\ File!Next
        /\ UNCHANGED <<vars, turnsVars, sqlVars>>
     \/ /\ subject = "Session" /\ Turns!Next
        /\ UNCHANGED <<vars, fileVars, sqlVars>>
     \/ /\ subject = "SqlAlchemyProtocol" /\ Sql!Next
        /\ UNCHANGED <<vars, fileVars, turnsVars>>
  /\ UNCHANGED subject

StoresSpec == StoresInit /\ [][StoresNext]_storesVars
-----------------------------------------------------------------------------
(* A write of TOMLFileProtocol that returned True survives crashes and     *)
(* later failures, unless a write is cut after it has truncated the file.  *)
FileHoldsAcked == File!FileHoldsAcked

(* The nested dicts of TOMLFileProtocol behave like a flat map of keys.    *)
ImplementsLeafStore == File!ImplementsLeafStore

(* The turns of a Session stay, unless a delete, a set, or an append that  *)
(* was in flight already takes them away.                                  *)
AppendsKept == Turns!AppendsKept

(* A transaction block of SqlAlchemyProtocol ends its own transaction, the *)
(* way it was left.                                                        *)
BlocksSettled == Sql!BlocksSettled
=============================================================================
