--------------------------- MODULE MCServerLocks ---------------------------
(* Instances of ServerLocks for TLC. *)
EXTENDS ServerLocks, TLC

Interchangeable == Permutations(Clients)
=============================================================================
