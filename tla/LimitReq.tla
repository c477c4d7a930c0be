------------------------------ MODULE LimitReq ------------------------------
(***************************************************************************)
(* The limit of the request rate (src/http/modules/ngx_http_limit_req_module.c). *)
(* A location has a list of limits, each in a shared zone of its own.  For the *)
(* value of its variable a zone keeps a node with a leaky bucket, excess, and    *)
(* when that was computed, last.  The handler of a request looks the nodes up    *)
(* zone by zone; only the last zone is accounted at once, the nodes of the others *)
(* are held by count until the whole list has let the request pass, and then     *)
(* accounted backwards.  Each zone has a mutex, so one zone is one step, and the  *)
(* other workers run in between.                                           *)
(*                                                                         *)
(* Times are ages, counted back from now.  A worker uses a clock that may lag     *)
(* behind.  A pass of a request that was limited before (limit_req_set) does     *)
(* nothing; the delay, which touches no zone, is left out.                    *)
(*                                                                         *)
(* A node keeps the length of its value in eight bits, (u_char) len, and the     *)
(* look-up compares it with the whole length: a value of more than 255 bytes,   *)
(* although one of up to 65535 is taken, never finds its node again and gets     *)
(* another one.  A short value that equals such a node, cut and with the same     *)
(* CRC32, is left out.                                                      *)
(***************************************************************************)
EXTENDS Integers, FiniteSets, Sequences, SequencesExt

CONSTANTS
  Workers,
  None,       \* a node pointer that is NULL
  Setups,     \* what is configured and bounded, a record of
              \*   zones : zone -> [keys : values of its variable, of up to 255 bytes,
              \*                    long : nodes of one longer value, more than fit, or {},
              \*                    room : nodes that fit, rate : what is drained in a tick],
              \*   locations : their lists of limits, [zone, burst],
              \*   lag : how far the clock of a worker may be behind,
              \*   age : older than this is not told apart,
              \*   crashes : workers that die
  Unit,       \* what a request adds to the excess (1000)
  Idle        \* age from which a node may expire (60000 ms)

(* What is assumed of the constants; the modules of the instances state it.  The directive
   limit_req refuses the same zone twice. *)
LimitReqAssumption ==
  /\ IsFiniteSet(Workers)
  /\ Unit \in Nat \ {0} /\ Idle \in Nat
  /\ \A u \in Setups :
       /\ u.lag \in Nat /\ u.age \in Nat
       /\ Idle + u.lag <= u.age
       /\ \A z \in DOMAIN u.zones :
            LET c == u.zones[z]
            IN  /\ c.rate \in Nat /\ None \notin c.keys \cup c.long /\ c.keys \cap c.long = {}
                /\ c.long = {} \/ (IsFiniteSet(c.long) /\ Cardinality(c.long) > c.room)
       /\ u.locations \subseteq Seq([zone : DOMAIN u.zones, burst : Nat])
       /\ \A l \in u.locations : \A i, j \in DOMAIN l : l[i].zone = l[j].zone => i = j
       /\ \A l \in u.locations : \A i \in DOMAIN l :
            u.zones[l[i].zone].rate * (u.age - u.lag)
              >= l[i].burst + Unit * Cardinality(Workers)

VARIABLES
  setup,   \* the one of the setups that is in use
  zone,    \* zone -> [queue : names of nodes, the latest one first, node : name -> node]
  node,    \* ctx->node of every worker and zone
  run,     \* the handler that a worker runs
  leaked   \* references of workers that died, not in the code

vars == <<setup, zone, node, run, leaked>>

Zones     == setup.zones
Locations == setup.locations
MaxLag    == setup.lag
MaxAge    == setup.age

(* The names of nodes: a value finds its node again, if it is not too long. *)
Names(z) == Zones[z].keys \cup Zones[z].long

IdleRun == [pc |-> "idle", limits |-> <<>>, n |-> 0, lag |-> 0]

(* ngx_http_limit_req_init_zone() *)
Init ==
  /\ setup \in Setups
  /\ zone = [z \in DOMAIN Zones |-> [queue |-> <<>>, node |-> [k \in {} |-> None]]]
  /\ node = [w \in Workers |-> [z \in DOMAIN Zones |-> None]]
  /\ run = [w \in Workers |-> IdleRun]
  /\ leaked = [z \in DOMAIN Zones |-> [k \in Names(z) |-> 0]]

-----------------------------------------------------------------------------
Abs(n) == IF n < 0 THEN -n ELSE n

(* What is left of the excess of a node, on the clock of a worker; it may be negative. *)
Left(z, nd, lag) == nd.excess - Zones[z].rate * Abs(nd.age - lag)

(* The excess with one more request. *)
Excess(z, nd, lag) ==
  LET e == Left(z, nd, lag) + Unit IN IF e < 0 THEN 0 ELSE e

Unlinked(q, k) == RemoveAt(q, CHOOSE i \in DOMAIN q : q[i] = k)

ToHead(s, k) == [s EXCEPT !.queue = <<k>> \o Unlinked(@, k)]

Put(s, k, nd) ==
  [s EXCEPT !.node = [x \in DOMAIN s.node \cup {k} |-> IF x = k THEN nd ELSE s.node[x]]]

Added(s, k, nd) == [Put(s, k, nd) EXCEPT !.queue = <<k>> \o @]

\* Bug: the node may be in use by a request between its zones.
Expirable_Held(z, s, lag, forced) ==
  /\ s.queue # <<>>
  /\ LET nd == s.node[Last(s.queue)]
     IN  forced \/ (Abs(nd.age - lag) >= Idle /\ Left(z, nd, lag) <= 0)

(* Whether the oldest node may go; a node that is held stops the search. *)
Expirable(z, s, lag, forced) ==
  /\ s.queue # <<>>
  /\ LET nd == s.node[Last(s.queue)]
     IN  /\ nd.count = 0
         /\ forced \/ (Abs(nd.age - lag) >= Idle /\ Left(z, nd, lag) <= 0)

Delete(s) ==
  [queue |-> Front(s.queue),
   node |-> [k \in DOMAIN s.node \ {Last(s.queue)} |-> s.node[k]]]

(* ngx_http_limit_req_expire(): up to two nodes that are idle; with force, the oldest
   one before them. *)
ExpireIdle(z, s, lag) ==
  LET one(t) == IF Expirable(z, t, lag, FALSE) THEN Delete(t) ELSE t IN one(one(s))

ExpireForced(z, s, lag) ==
  IF Expirable(z, s, lag, TRUE) THEN ExpireIdle(z, Delete(s), lag) ELSE s

Full(z, s) == Len(s.queue) = Zones[z].room

(* The zone after the two attempts to make room for a node. *)
MakeRoom(z, lag) ==
  LET s == ExpireIdle(z, zone[z], lag)
  IN  IF Full(z, s) THEN ExpireForced(z, s, lag) ELSE s

-----------------------------------------------------------------------------
(* ngx_http_limit_req_handler() for a new request. *)
Start(w) ==
  /\ run[w].pc = "idle"
  /\ \E limits \in Locations, lag \in 0..MaxLag :
       run' = [run EXCEPT ![w] = [pc |-> "lookup", limits |-> limits, n |-> 1, lag |-> lag]]
  /\ UNCHANGED <<zone, node, leaked>>

Goto(w, pc, n) ==
  run' = [run EXCEPT ![w] = IF n = 0 THEN IdleRun ELSE [@ EXCEPT !.pc = pc, !.n = n]]

(* The limit that the handler is at, and its zone. *)
Limit(w) == run[w].limits[run[w].n]
Zone(w)  == Limit(w).zone
IsLast(w) == run[w].n = Len(run[w].limits)

(* The end of the list, or a variable without a value. *)
Skip(w) ==
  /\ run[w].pc = "lookup"
  /\ \/ /\ run[w].n > Len(run[w].limits)
        /\ Goto(w, "account", Len(run[w].limits))
     \/ /\ run[w].n <= Len(run[w].limits)
        /\ Goto(w, "lookup", run[w].n + 1)
  /\ UNCHANGED <<zone, node, leaked>>

\* Bug: the request itself is not counted.
TooMany_Off(w, nd) == Left(Zone(w), nd, run[w].lag) > Limit(w).burst

TooMany(w, nd) == Excess(Zone(w), nd, run[w].lag) > Limit(w).burst

At(w) ==
  /\ run[w].pc = "lookup"
  /\ run[w].n <= Len(run[w].limits)

(* ngx_http_limit_req_lookup() for a value k: there is a node and its length is that of the value; it
   is accounted if the zone is the last one, else held. *)
Found(w, k) ==
  /\ k \in DOMAIN zone[Zone(w)].node \cap Zones[Zone(w)].keys
  /\ LET z  == Zone(w)
         s  == ToHead(zone[z], k)
         nd == s.node[k]
     IN  \/ /\ TooMany(w, nd)
            /\ zone' = [zone EXCEPT ![z] = s]
            /\ Goto(w, "drop", run[w].n - 1)
            /\ UNCHANGED node
         \/ /\ ~TooMany(w, nd)
            /\ IsLast(w)
            /\ zone' = [zone EXCEPT ![z] =
                          Put(s, k, [nd EXCEPT !.excess = Excess(z, nd, run[w].lag),
                                               !.age = run[w].lag])]
            /\ Goto(w, "account", run[w].n - 1)
            /\ UNCHANGED node
         \/ /\ ~TooMany(w, nd)
            /\ ~IsLast(w)
            /\ zone' = [zone EXCEPT ![z] = Put(s, k, [nd EXCEPT !.count = @ + 1])]
            /\ node' = [node EXCEPT ![w][z] = k]
            /\ Goto(w, "lookup", run[w].n + 1)
  /\ UNCHANGED leaked

(* There is none, or the value is too long to find it: a new one, that was never used (last = 0) if it
   is not accounted yet. *)
New(w, k) ==
  /\ k \in Names(Zone(w)) \ DOMAIN zone[Zone(w)].node
  /\ LET z == Zone(w)
     IN  \E s \in {MakeRoom(z, run[w].lag)} :
         \/ /\ Full(z, s)
            /\ zone' = [zone EXCEPT ![z] = s]
            /\ Goto(w, "drop", run[w].n - 1)
            /\ UNCHANGED node
         \/ /\ ~Full(z, s)
            /\ IsLast(w)
            /\ zone' = [zone EXCEPT ![z] =
                          Added(s, k, [age |-> run[w].lag, excess |-> 0, count |-> 0])]
            /\ Goto(w, "account", run[w].n - 1)
            /\ UNCHANGED node
         \/ /\ ~Full(z, s)
            /\ ~IsLast(w)
            /\ zone' = [zone EXCEPT ![z] =
                          Added(s, k, [age |-> MaxAge, excess |-> 0, count |-> 1])]
            /\ node' = [node EXCEPT ![w][z] = k]
            /\ Goto(w, "lookup", run[w].n + 1)
  /\ UNCHANGED leaked

(* ngx_http_limit_req_account(), and the loop of the handler that gives the nodes back
   when the request is refused: one zone, from the last one to the first. *)
Back(w) ==
  /\ run[w].pc \in {"account", "drop"}
  /\ LET z  == Zone(w)
         k  == node[w][z]
         nd == zone[z].node[k]
     IN  \/ k = None /\ UNCHANGED <<zone, node>>
         \/ /\ k # None
            /\ zone' = [zone EXCEPT ![z].node[k] =
                          IF run[w].pc = "drop" THEN [nd EXCEPT !.count = @ - 1]
                          ELSE [excess |-> Excess(z, nd, run[w].lag), age |-> run[w].lag,
                                count |-> nd.count - 1]]
            /\ node' = [node EXCEPT ![w][z] = None]
  /\ Goto(w, run[w].pc, run[w].n - 1)
  /\ UNCHANGED leaked

(* A worker dies between two zones; its references stay.  A new one takes its place. *)
Crash(w) ==
  /\ \E z \in DOMAIN Zones : node[w][z] # None
  /\ \A z \in DOMAIN Zones : \A k \in Names(z) : leaked[z][k] < setup.crashes
  /\ leaked' = [z \in DOMAIN Zones |-> [k \in Names(z) |->
                  leaked[z][k] + IF node[w][z] = k THEN 1 ELSE 0]]
  /\ node' = [node EXCEPT ![w] = [z \in DOMAIN Zones |-> None]]
  /\ run' = [run EXCEPT ![w] = IdleRun]
  /\ UNCHANGED zone

Older(nd) == [nd EXCEPT !.age = IF @ < MaxAge THEN @ + 1 ELSE @]

(* Time passes; the clock of a worker stands still while it runs a handler. *)
Tick ==
  /\ \A w \in Workers : run[w].pc # "idle" => run[w].lag < MaxLag
  /\ zone' = [z \in DOMAIN Zones |->
                [zone[z] EXCEPT !.node = [k \in DOMAIN @ |-> Older(@[k])]]]
  /\ run' = [w \in Workers |-> IF run[w].pc = "idle" THEN run[w]
                               ELSE [run[w] EXCEPT !.lag = @ + 1]]
  /\ UNCHANGED <<node, leaked>>

Step(w) ==
  \/ Start(w) \/ Skip(w) \/ Back(w) \/ Crash(w)
  \/ At(w) /\ \E k \in Names(Zone(w)) : Found(w, k) \/ New(w, k)

Next == (Tick \/ \E w \in Workers : Step(w)) /\ UNCHANGED setup

Spec == Init /\ [][Next]_vars

-----------------------------------------------------------------------------
Holders(z, k) == {w \in Workers : node[w][z] = k}

(* A node is not freed under a request that still has to account it, nor kept beyond:
   its count is that of the workers between their look-up and their accounting, and of
   those that died there; the queue has every node once. *)
Held ==
  \A z \in DOMAIN Zones :
    /\ IsInjective(zone[z].queue) /\ ToSet(zone[z].queue) = DOMAIN zone[z].node
    /\ \A k \in Names(z) :
         /\ Holders(z, k) # {} => k \in DOMAIN zone[z].node
         /\ k \in DOMAIN zone[z].node =>
              zone[z].node[k].count = Cardinality(Holders(z, k)) + leaked[z][k]

(* The look-up of a zone that is not the last one promises nothing: each of the other
   workers may pass on the same excess before it is accounted.  That is all: the burst
   is exceeded by at most one request for each of them, and where a zone is always
   accounted at once, not at all.  This is so for values of up to 255 bytes; a longer
   one is never limited, since each of its requests has a bucket of its own. *)
Burst ==
  \A z \in DOMAIN Zones :
    LET uses  == {u \in UNION {{l} \X DOMAIN l : l \in Locations} : u[1][u[2]].zone = z}
        loose == \E u \in uses : u[2] < Len(u[1])
        over  == IF loose THEN Unit * (Cardinality(Workers) - 1) ELSE 0
    IN  \A k \in Zones[z].keys \cap DOMAIN zone[z].node :
          \E u \in uses : zone[z].node[k].excess <= u[1][u[2]].burst + over

(* A value has one node, and so one bucket: what ngx_http_limit_req_lookup() is for, for every value
   that the handler takes, of up to 65535 bytes. *)
OneNode == \A z \in DOMAIN Zones : Cardinality(DOMAIN zone[z].node \cap Zones[z].long) <= 1
=============================================================================
