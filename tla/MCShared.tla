------------------------------ MODULE MCShared ------------------------------
(* Small instances for TLC of what the processes share: the mutex of a zone, the
   allocator that works under it, the zones of the two modules that limit requests and
   connections, and what a reload hands on from one cycle to the next, zones and sockets.
   A behaviour is one of these five; the variables of the others have no value.  The run checks liveness of the mutex, so the processes, though
   interchangeable, are not declared symmetric. *)
EXTENDS Shmtx, Sequences, TLC

CONSTANTS
  Pools, PageShift, MinShift, Byte, Word, Sizes,
  Workers, None, ReqSetups, Unit, Idle,
  Requests, ConnZones, ConnLocations,
  Configs, Unix, Inherits, Nothing, MaxReloads, MaxFds, MaxShm

VARIABLES part, pool, mem, live, setup, zone, node, run, req_leaked,
          conn, req, busy, conn_leaked, cycle, next, os, st

S == INSTANCE Slab
Q == INSTANCE LimitReq WITH Setups <- ReqSetups, leaked <- req_leaked
C == INSTANCE LimitConn WITH Zones <- ConnZones, Locations <- ConnLocations,
                             leaked <- conn_leaked
R == INSTANCE Cycle

svars == <<pool, mem, live>>
qvars == <<setup, zone, node, run, req_leaked>>
cvars == <<conn, req, busy, conn_leaked>>
rvars == <<cycle, next, os, st>>

ASSUME SlabAssumption == S!SlabAssumption
ASSUME LimitReqAssumption == Q!LimitReqAssumption
ASSUME LimitConnAssumption == C!LimitConnAssumption
ASSUME CycleAssumption == R!CycleAssumption

-----------------------------------------------------------------------------
(* Two pages and as many allocations as fit, and four pages with fewer. *)
AllPools == {[pages |-> 2, most |-> 9], [pages |-> 4, most |-> 3]}

(* Clocks that differ, a zone with room for a single node, and a second location with
   this zone only; and more nodes, with one clock and a value of more than 255 bytes. *)
ReqZone(keys, long, room, rate) ==
  [keys |-> keys, long |-> long, room |-> room, rate |-> rate]
ReqLimit(z, burst) == [zone |-> z, burst |-> burst]

AllReqSetups ==
  {[zones |-> "a" :> ReqZone({"k1", "k2"}, {}, 1, 1) @@ "b" :> ReqZone({"k1"}, {}, 1, 1),
    locations |-> {<<ReqLimit("a", 1), ReqLimit("b", 0)>>, <<ReqLimit("a", 1)>>},
    lag |-> 1, age |-> 4, crashes |-> 0],
   [zones |-> "a" :> ReqZone({"k1", "k2"}, {"n1", "n2", "n3"}, 2, 3)
                @@ "b" :> ReqZone({"k1"}, {}, 1, 2),
    locations |-> {<<ReqLimit("a", 1), ReqLimit("b", 0)>>},
    lag |-> 0, age |-> 1, crashes |-> 1]}

(* Workers with two requests and with one; a location with both zones and one with the second. *)
AllRequests == "w1" :> {"r1", "r2"} @@ "w2" :> {"r3"}

AllConnZones ==
  "a" :> [keys |-> {"k1", "k2"}, room |-> 1] @@ "b" :> [keys |-> {"k1"}, room |-> 1]

AllConnLocations ==
  {<<[zone |-> "a", conn |-> 2], [zone |-> "b", conn |-> 1]>>,
   <<[zone |-> "b", conn |-> 2]>>}

Zone(name, tag, size) == [name |-> name, tag |-> tag, size |-> size]

(* Addresses, files and zones that come, go and come back in another order, a zone that
   changes its size and one that changes its use, another pid file, no zones. *)
AllConfigs ==
  {[zones |-> <<Zone("a", 1, 1)>>,
    listen |-> <<"x", "u">>, files |-> <<"f">>, pid |-> "p"],
   [zones |-> <<Zone("b", 1, 1), Zone("a", 1, 1)>>,
    listen |-> <<"y", "x">>, files |-> <<"f", "g">>, pid |-> "p"],
   [zones |-> <<Zone("a", 1, 2), Zone("b", 2, 1)>>,
    listen |-> <<"u", "y">>, files |-> <<"g">>, pid |-> "q"],
   [zones |-> <<>>,
    listen |-> <<"x">>, files |-> <<"f">>, pid |-> "p"]}

AllInherits == {<<>>, <<"u", "y">>}

-----------------------------------------------------------------------------
NoSlab == pool = <<>> /\ mem = <<>> /\ live = <<>>
NoReq  == setup = <<>> /\ zone = <<>> /\ node = <<>> /\ run = <<>> /\ req_leaked = <<>>
NoConn == conn = <<>> /\ req = <<>> /\ busy = <<>> /\ conn_leaked = <<>>
NoCycle == cycle = <<>> /\ next = <<>> /\ os = <<>> /\ st = <<>>

MCInit ==
  /\ Init
  /\ \/ part = "mutex" /\ NoSlab /\ NoReq /\ NoConn /\ NoCycle
     \/ part = "slab" /\ S!Init /\ NoReq /\ NoConn /\ NoCycle
     \/ part = "limit_req" /\ NoSlab /\ Q!Init /\ NoConn /\ NoCycle
     \/ part = "limit_conn" /\ NoSlab /\ NoReq /\ C!Init /\ NoCycle
     \/ part = "cycle" /\ NoSlab /\ NoReq /\ NoConn /\ R!Init

MCNext ==
  \/ part = "mutex" /\ Next /\ UNCHANGED <<part, svars, qvars, cvars, rvars>>
  \/ part = "slab" /\ S!Next /\ UNCHANGED <<part, vars, qvars, cvars, rvars>>
  \/ part = "limit_req" /\ Q!Next /\ UNCHANGED <<part, vars, svars, cvars, rvars>>
  \/ part = "limit_conn" /\ C!Next /\ UNCHANGED <<part, vars, svars, qvars, rvars>>
  \/ part = "cycle" /\ R!Next /\ UNCHANGED <<part, vars, svars, qvars, cvars>>
  \/ part = "cycle" /\ UNCHANGED <<part, vars, svars, qvars, cvars, rvars>>

(* Shmtx!Fairness, where there is the mutex. *)
MCFairness ==
  /\ \A p \in Procs : /\ WF_vars(part = "mutex" /\ Step(p))
                      /\ WF_vars(part = "mutex" /\ ForceUnlock(p))
  /\ \A p \in All : WF_vars(part = "mutex" /\ WakeStep(p))

MCSpec == MCInit /\ [][MCNext]_<<part, vars, svars, qvars, cvars, rvars>> /\ MCFairness

(* No two allocations overlap, and nothing is lost: Slab!Accounted. *)
Accounted == part = "slab" => S!Accounted

(* The nodes of a request rate limit are held as they should: LimitReq!Held. *)
Held == part = "limit_req" => Q!Held

(* How far a burst is exceeded: LimitReq!Burst. *)
Burst == part = "limit_req" => Q!Burst

(* A value has one bucket: LimitReq!OneNode. *)
OneNode == part = "limit_req" => Q!OneNode

(* Connections are counted: LimitConn!Counted. *)
Counted == part = "limit_conn" => C!Counted

(* A reload takes over what it should and is rolled back: Cycle!Continuous. *)
Continuous == part = "cycle" => R!Continuous
=============================================================================
