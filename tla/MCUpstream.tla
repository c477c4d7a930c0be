----------------------------- MODULE MCUpstream -----------------------------
(* The upstream blocks that TLC tries. *)
EXTENDS Upstream

TwoServers ==
  [primary |-> 2, backup |-> 0, keepalive |-> 0,
   weight |-> <<2, 1>>, maxFails |-> <<1, 0>>, down |-> {}]
WithBackup ==
  [primary |-> 1, backup |-> 1, keepalive |-> 1,
   weight |-> <<1, 1>>, maxFails |-> <<1, 0>>, down |-> {}]
OneServer ==
  [primary |-> 1, backup |-> 0, keepalive |-> 1,
   weight |-> <<1>>, maxFails |-> <<1>>, down |-> {}]
OneDown ==
  [primary |-> 2, backup |-> 1, keepalive |-> 0,
   weight |-> <<1, 3, 1>>, maxFails |-> <<1, 2, 0>>, down |-> {1}]

Blocks == {TwoServers, WithBackup, OneServer, OneDown}
=============================================================================
