------------------------------- MODULE MCRbTree -------------------------------
(* A small instance of the red-black tree for TLC. *)
EXTENDS RbTree

Symmetry == Permutations(Nodes)
===============================================================================
