------------------------------ MODULE MCServer ------------------------------
(* Instances of Server for TLC. *)
EXTENDS ServerInv, TLC

Interchangeable == Permutations(Clients)
=============================================================================
