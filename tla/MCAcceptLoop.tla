---------------------------- MODULE MCAcceptLoop ----------------------------
(* Small instances of the accept loop for TLC. *)
EXTENDS AcceptLoop, TLC

Symmetry == Permutations(Workers) \cup Permutations(Sockets)

AllConfigs == [mutex : BOOLEAN, multi : BOOLEAN]
OneConfig  == {[mutex |-> TRUE, multi |-> FALSE]}
=============================================================================
