---------------------------- MODULE MCEntityStore ----------------------------
(* An instance of EntityStore for TLC. *)
EXTENDS EntityStore, TLC

Symmetric == Permutations(Clients)
===============================================================================
