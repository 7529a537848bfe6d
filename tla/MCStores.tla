------------------------------ MODULE MCStores ------------------------------
(***************************************************************************)
(* Stores for TLC: some ttls, some dotted keys, some updates.              *)
(***************************************************************************)
EXTENDS Stores

CONSTANT v  \* the scalar of the updates

\* Entries dead on arrival, gone when the clock moves, and living a while.
SomeTTLs == {-1, 0, 2}

SomePaths == {<<"a">>, <<"a", "b">>, <<"a", "b", "c">>, <<"a", "d">>, <<"e">>}

\* Updates that hit a table, a scalar, both, or nothing that is there.
OneLeaf(S) == [p \in SomePaths |-> IF p \in S THEN v ELSE Absent]
SomeUpdates == {OneLeaf({<<"a">>}), OneLeaf({<<"a", "d">>}), OneLeaf({<<"a", "b">>}),
                OneLeaf({<<"a", "b", "c">>, <<"a", "d">>, <<"e">>})}

\* Whether the protocol suspends its callers matters to the session only.
MCInit == StoresInit /\ (subject # "Session" => ~suspends)

MCSpec == MCInit /\ [][StoresNext]_storesVars
=============================================================================
