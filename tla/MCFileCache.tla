----------------------------- MODULE MCFileCache -----------------------------
(* A small instance of the file cache for TLC. *)
EXTENDS FileCache

(* Not all at once: deletions with room for two nodes; the cache lock with a   *)
(* worker that dies, and with requests that bypass the cache; a cold cache     *)
(* with min_uses and its loader; cached errors.                                *)
SomeConfigs ==
  {[min |-> 1, lock |-> FALSE, bypass |-> FALSE, stale |-> TRUE, errors |-> FALSE,
    cold |-> FALSE, slots |-> 2, crashes |-> 0],
   [min |-> 1, lock |-> TRUE, bypass |-> FALSE, stale |-> FALSE, errors |-> FALSE,
    cold |-> FALSE, slots |-> 1, crashes |-> 1],
   [min |-> 1, lock |-> TRUE, bypass |-> TRUE, stale |-> TRUE, errors |-> FALSE,
    cold |-> FALSE, slots |-> 1, crashes |-> 0],
   [min |-> 2, lock |-> TRUE, bypass |-> FALSE, stale |-> FALSE, errors |-> FALSE,
    cold |-> TRUE, slots |-> 1, crashes |-> 0],
   [min |-> 1, lock |-> FALSE, bypass |-> FALSE, stale |-> FALSE, errors |-> TRUE,
    cold |-> FALSE, slots |-> 1, crashes |-> 0]}
==============================================================================
