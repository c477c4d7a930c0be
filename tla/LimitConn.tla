------------------------------ MODULE LimitConn ------------------------------
(***************************************************************************)
(* The limit of connections (src/http/modules/ngx_http_limit_conn_module.c).  A *)
(* zone keeps, for every value of its variable that is in use, a node with a    *)
(* counter; the handler of a request takes one reference in every zone of its   *)
(* location, and the cleanup of its pool gives them back.  Each zone has a mutex, *)
(* so one zone is one step; the handlers of one worker do not overlap, those of   *)
(* different workers do.                                                   *)
(***************************************************************************)
EXTENDS Naturals, FiniteSets, Sequences, SequencesExt

CONSTANTS
  Workers,
  Requests,   \* worker -> the requests that it can have at a time
  Zones,      \* zone -> [keys : values of its variable, room : nodes that fit]
  Locations,  \* lists of limits, [zone, conn]
  MaxCrashes

VARIABLES
  conn,    \* zone -> value -> lc->conn; a value without a node is not in the domain
  req,     \* the requests
  busy,    \* the request whose handler a worker runs, if any
  leaked   \* references of workers that died, not in the code

vars == <<conn, req, busy, leaked>>

Of(w) == Requests[w]
All   == UNION {Of(w) : w \in Workers}
Owner(r) == CHOOSE w \in Workers : r \in Of(w)

(* What is assumed of the constants; the modules of the instances state it.  The directive
   limit_conn refuses a limit of 0, and the same zone twice. *)
LimitConnAssumption ==
  /\ IsFiniteSet(All)
  /\ Locations \subseteq Seq([zone : DOMAIN Zones, conn : Nat \ {0}])
  /\ \A l \in Locations : \A i, j \in DOMAIN l : l[i].zone = l[j].zone => i = j

(* set: limit_conn_set; refused: the handler has returned limit_conn_status; held: the
   cleanup handlers in the pool, the latest one first. *)
NoRequest == [pc |-> "none", limits |-> <<>>, n |-> 0, set |-> FALSE, refused |-> FALSE,
              held |-> <<>>]

(* ngx_http_limit_conn_init_zone() *)
Init ==
  /\ conn = [z \in DOMAIN Zones |-> [k \in {} |-> 0]]
  /\ req = [r \in All |-> NoRequest]
  /\ busy = [w \in Workers |-> {}]
  /\ leaked = [z \in DOMAIN Zones |-> [k \in Zones[z].keys |-> 0]]

-----------------------------------------------------------------------------
Running(r) == busy[Owner(r)] = {r}

(* The handler returns, and the worker can run another one. *)
Return(r, pc) ==
  /\ req' = [req EXCEPT ![r].pc = pc, ![r].limits = <<>>, ![r].n = 0]
  /\ busy' = [busy EXCEPT ![Owner(r)] = {}]

(* ngx_http_limit_conn_handler() of a new request, or of one that was redirected; the
   latter is not counted again. *)
Enter(r) ==
  /\ busy[Owner(r)] = {}
  /\ req[r].pc \in {"none", "active"}
  /\ \/ /\ ~req[r].set
        /\ \E limits \in Locations :
             req' = [req EXCEPT ![r].pc = "handler", ![r].limits = limits, ![r].n = 1]
        /\ busy' = [busy EXCEPT ![Owner(r)] = {r}]
     \/ req[r].set /\ UNCHANGED <<req, busy>>
  /\ UNCHANGED <<conn, leaked>>

Limit(r) == req[r].limits[req[r].n]
Zone(r)  == Limit(r).zone
InHandler(r) ==
  /\ Running(r)
  /\ req[r].pc = "handler"
  /\ req[r].n <= Len(req[r].limits)

(* A variable without a value. *)
Skip(r) ==
  /\ InHandler(r)
  /\ req' = [req EXCEPT ![r].n = @ + 1]
  /\ UNCHANGED <<conn, busy, leaked>>

(* The end of the list. *)
Passed(r) ==
  /\ Running(r)
  /\ req[r].pc = "handler"
  /\ req[r].n > Len(req[r].limits)
  /\ Return(r, "active")
  /\ UNCHANGED <<conn, leaked>>

(* No more for this value, or no memory for a node. *)
Reached(z, k, limit) ==
  \/ k \in DOMAIN conn[z] /\ conn[z][k] >= limit.conn
  \/ k \notin DOMAIN conn[z] /\ Cardinality(DOMAIN conn[z]) = Zones[z].room

(* One more of the value k. *)
Take(r, k) ==
  /\ ~Reached(Zone(r), k, Limit(r))
  /\ conn' = [conn EXCEPT ![Zone(r)] =
                [x \in DOMAIN @ \cup {k} |->
                   IF x # k THEN @[x] ELSE IF k \in DOMAIN @ THEN @[k] + 1 ELSE 1]]
  /\ req' = [req EXCEPT ![r].set = TRUE, ![r].n = @ + 1,
                        ![r].held = <<<<Zone(r), k>>>> \o @]
  /\ UNCHANGED <<busy, leaked>>

\* Bug: the references that the request has in other zones are kept.
Refuse_Keeps(r, k) ==
  /\ Reached(Zone(r), k, Limit(r))
  /\ req' = [req EXCEPT ![r].set = TRUE, ![r].refused = TRUE, ![r].pc = "active",
                        ![r].limits = <<>>, ![r].n = 0]
  /\ busy' = [busy EXCEPT ![Owner(r)] = {}]
  /\ UNCHANGED <<conn, leaked>>

(* ngx_http_limit_conn_cleanup_all() follows. *)
Refuse(r, k) ==
  /\ Reached(Zone(r), k, Limit(r))
  /\ req' = [req EXCEPT ![r].set = TRUE, ![r].refused = TRUE, ![r].pc = "refused"]
  /\ UNCHANGED <<conn, busy, leaked>>

(* ngx_http_free_request() destroys the pool. *)
End(r) ==
  /\ busy[Owner(r)] = {}
  /\ req[r].pc = "active"
  /\ req' = [req EXCEPT ![r].pc = "ending"]
  /\ busy' = [busy EXCEPT ![Owner(r)] = {r}]
  /\ UNCHANGED <<conn, leaked>>

\* Bug: the last reference does not free the node.
Cleanup_Keeps(r) ==
  /\ Running(r)
  /\ req[r].pc \in {"refused", "ending"}
  /\ req[r].held # <<>>
  /\ LET z == Head(req[r].held)[1]
         k == Head(req[r].held)[2]
     IN  conn' = [conn EXCEPT ![z] = [x \in DOMAIN @ |-> IF x = k THEN @[x] - 1 ELSE @[x]]]
  /\ req' = [req EXCEPT ![r].held = Tail(@)]
  /\ UNCHANGED <<busy, leaked>>

(* ngx_http_limit_conn_cleanup(): the last one frees the node. *)
Cleanup(r) ==
  /\ Running(r)
  /\ req[r].pc \in {"refused", "ending"}
  /\ req[r].held # <<>>
  /\ LET z == Head(req[r].held)[1]
         k == Head(req[r].held)[2]
     IN  conn' = [conn EXCEPT ![z] =
                    [x \in {y \in DOMAIN @ : y = k => @[y] > 1} |->
                       IF x = k THEN @[x] - 1 ELSE @[x]]]
  /\ req' = [req EXCEPT ![r].held = Tail(@)]
  /\ UNCHANGED <<busy, leaked>>

(* A refused request goes on, with its error page; the other one is gone. *)
CleanedUp(r) ==
  /\ Running(r)
  /\ req[r].pc \in {"refused", "ending"}
  /\ req[r].held = <<>>
  /\ \/ req[r].pc = "refused" /\ Return(r, "active")
     \/ /\ req[r].pc = "ending"
        /\ req' = [req EXCEPT ![r] = NoRequest]
        /\ busy' = [busy EXCEPT ![Owner(r)] = {}]
  /\ UNCHANGED <<conn, leaked>>

References(rs, z, k) ==
  Cardinality({r \in rs : <<z, k>> \in ToSet(req[r].held)})

(* A worker dies, outside of the mutexes; nobody gives its references back. *)
Crash(w) ==
  /\ \E r \in Of(w) : req[r].held # <<>>
  /\ \A z \in DOMAIN Zones : \A k \in Zones[z].keys : leaked[z][k] < MaxCrashes
  /\ leaked' = [z \in DOMAIN Zones |-> [k \in Zones[z].keys |->
                  leaked[z][k] + References(Of(w), z, k)]]
  /\ req' = [r \in All |-> IF r \in Of(w) THEN NoRequest ELSE req[r]]
  /\ busy' = [busy EXCEPT ![w] = {}]
  /\ UNCHANGED conn

Next ==
  \/ \E r \in All :
       \/ Enter(r) \/ Skip(r) \/ Passed(r) \/ End(r) \/ Cleanup(r) \/ CleanedUp(r)
       \/ InHandler(r) /\ \E k \in Zones[Zone(r)].keys : Take(r, k) \/ Refuse(r, k)
  \/ \E w \in Workers : Crash(w)

Spec == Init /\ [][Next]_vars

-----------------------------------------------------------------------------
(* The counters are those of the requests there are, over all workers: each reference
   is taken once and given back once, by whichever way a request ends, and a node is
   there exactly as long as it is referred to.  What a worker that died had is never
   given back.  A request that was refused, in whichever zone, holds nothing once its
   handler has returned, and no value has more than the limit of some location. *)
Counted ==
  /\ \A r \in All :
       /\ IsInjective(req[r].held)
       /\ req[r].held # <<>> => req[r].set
       /\ req[r].refused /\ req[r].pc # "refused" => req[r].held = <<>>
  /\ \A z \in DOMAIN Zones : \A k \in Zones[z].keys :
       LET n == References(All, z, k) + leaked[z][k]
       IN  /\ k \in DOMAIN conn[z] <=> n > 0
           /\ n > 0 => conn[z][k] = n
           /\ n > 0 => \E l \in Locations : \E i \in DOMAIN l : l[i].zone = z /\ n <= l[i].conn
=============================================================================
