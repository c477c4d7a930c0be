------------------------------ MODULE MCMaster ------------------------------
(* Small instances of the master process for TLC. *)
EXTENDS Master

FewPids  == 1..6
=============================================================================
