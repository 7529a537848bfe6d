--------------------------- MODULE MCEntrypoints ---------------------------
(***************************************************************************)
(* Entrypoints for TLC: two sockets, one with two requests.                *)
(***************************************************************************)
EXTENDS Entrypoints, TLC

CONSTANTS s1, s2

SomeRequests == s1 :> 2 @@ s2 :> 1

\* What kind the commands are matters to the HTTP handlers only.
MCInit == EntryInit /\ (ForWeb \/ \A r \in Requests : ~streams[r])

MCSpec == MCInit /\ [][EntryNext]_entryVars /\ EntryFairness
=============================================================================
