--------------------------- MODULE MCReplayStore ---------------------------
(***************************************************************************)
(* Two processes on one database file next to a handle on ":memory:",      *)
(* which loses its database with its connection and may be used again.     *)
(***************************************************************************)
EXTENDS ReplayStore, TLC

CONSTANTS h1, h2, m, file, memory, n1, n2, e1, e2

MCStoreOf == [h \in {h1, h2, m} |-> IF h = m THEN memory ELSE file]

\* The two processes, the nonces and the entries are alike.
Symmetry == Permutations({h1, h2}) \cup Permutations({n1, n2}) \cup Permutations({e1, e2})
=============================================================================
