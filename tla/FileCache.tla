------------------------------ MODULE FileCache ------------------------------
(***************************************************************************)
(* The file cache (src/http/ngx_http_file_cache.c) and its use by a proxied *)
(* request (ngx_http_upstream_cache() and the places of ngx_http_upstream.c *)
(* that give the entry back).                                               *)
(*                                                                         *)
(* Workers, the cache manager and the cache loader share a tree and a queue *)
(* of nodes in a zone of bounded size; the files are outside of the zone.   *)
(* Every section under shpool->mutex is one step.  What happens between two *)
(* sections - open(), rename(), unlink(), the request to the server - is a  *)
(* step of its own, and a worker may die before any of them.  The workers   *)
(* are represented by one request each.                                     *)
(*                                                                         *)
(* Time is abstracted: whether a response is still valid (valid_sec), and   *)
(* whether an entry was inactive for too long (expire), is a choice made    *)
(* where the code compares with the clock.  Only the deadline of the cache  *)
(* lock is counted, in the 500 ms of its timer.                             *)
(***************************************************************************)
EXTENDS Naturals, Sequences, SequencesExt, FiniteSets

CONSTANTS
  Requests,     \* requests, each in a worker of its own
  Keys,         \* cache keys
  NSlots,       \* places for nodes in the largest zone
  Manager,      \* the cache manager process
  None,         \* NULL
  Configs,      \* configurations: the directives cache_min_uses, cache_lock,
                \* cache_bypass, "cache_use_stale updating" and cache_valid for
                \* errors, the nodes for which the zone has memory, whether the
                \* cache is still to be loaded, and as a bound how many workers die:
                \* [min : Nat \ {0}, lock, bypass, stale, errors, cold : BOOLEAN,
                \*  slots : 1..NSlots, crashes : Nat]
  Tries,        \* busy nodes looked at by a forced expiry (20)
  LockTimeout   \* cache_lock_timeout, in runs of its timer

\* ngx_http_file_cache_node_t, as far as it is modelled
Nodes ==
  [key : Keys, count : Nat, uses : Nat \ {0}, exists : BOOLEAN, updating : BOOLEAN,
   deleting : BOOLEAN, error : BOOLEAN]

ASSUME FileCacheAssumption ==
  /\ IsFiniteSet(Requests) /\ Manager \notin Requests
  /\ NSlots \in Nat /\ Tries \in Nat /\ LockTimeout \in Nat \ {0}
  /\ None \notin Keys \cup 1..NSlots \cup Nodes
  /\ Configs \subseteq [min : Nat \ {0}, lock : BOOLEAN, bypass : BOOLEAN, stale : BOOLEAN,
                       errors : BOOLEAN, cold : BOOLEAN, slots : 1..NSlots, crashes : Nat]

VARIABLES
  conf,    \* the configuration
  node,    \* [Slots -> a node or None]: what is in the tree
  queue,   \* sh->queue, the least recently used last
  file,    \* [Keys -> BOOLEAN]: the file of the key is on the disk
  req,     \* [Requests -> the request with its ngx_http_cache_t]
  del,     \* [Actors -> the node in ngx_http_file_cache_delete() outside of the
           \* mutex, and whether its file is removed]
  loader,  \* the cache loader: sh->cold, sh->loading and the file it visits
  ghost,   \* what dead workers and requests without the lock left of a node
  crashes

vars == <<conf, node, queue, file, req, del, loader, ghost, crashes>>

Actors == Requests \cup {Manager}
Slots  == 1..NSlots

Idle  == [pc |-> "idle", key |-> None, node |-> None, bypass |-> FALSE,
          lock |-> FALSE, left |-> 0, updating |-> FALSE,
          error |-> FALSE, cacheable |-> FALSE,
          scarce |-> FALSE, renamed |-> FALSE]
NoDel == [node |-> None, gone |-> FALSE]
Clean == [leaked |-> 0, orphan |-> FALSE, breach |-> FALSE]

NewNode(k, exists, count) ==
  [key |-> k, count |-> count, uses |-> 1, exists |-> exists,
   updating |-> FALSE, deleting |-> FALSE, error |-> FALSE]

Init ==
  /\ conf \in Configs
  /\ node = [s \in Slots |-> None]
  /\ queue = <<>>
  /\ file \in [Keys -> IF conf.cold THEN BOOLEAN ELSE {FALSE}]
  /\ req = [r \in Requests |-> Idle]
  /\ del = [a \in Actors |-> NoDel]
  /\ loader = [cold |-> conf.cold, loading |-> FALSE, key |-> None]
  /\ ghost = [s \in Slots |-> Clean]
  /\ crashes = 0

-----------------------------------------------------------------------------
(* Tree and queue *)

Room == 1..conf.slots
Used == {s \in Slots : node[s] # None}

\* What ngx_http_file_cache_lookup() may return: with two nodes of one key it
\* is one of them.
Found(k) == {s \in Used : node[s].key = k}

FreeSlots == {s \in Room \ Used : \A t \in Room \ Used : s <= t}

\* ngx_queue_remove(): s is in the queue at most once
Unlinked(q, s) ==
  IF \E i \in 1..Len(q) : q[i] = s THEN RemoveAt(q, CHOOSE i \in 1..Len(q) : q[i] = s) ELSE q

Touched(s) == <<s>> \o Unlinked(queue, s)

\* The node leaves queue and tree and its memory is given back.
Freed(s) ==
  /\ node' = [node EXCEPT ![s] = None]
  /\ queue' = Unlinked(queue, s)
  /\ ghost' = [ghost EXCEPT ![s] = Clean]

Users(s)    == {r \in Requests : req[r].node = s}
Deleters(s) == {a \in Actors : del[a].node = s}
Updaters(s) == {r \in Users(s) : req[r].updating}

Goto(r, pc) == req' = [req EXCEPT ![r].pc = pc]

-----------------------------------------------------------------------------
(* The request goes to the server; u->cacheable says whether the response may  *)
(* be stored.                                                                *)
Fetching(c, cacheable) ==
  [c EXCEPT !.pc = "fetch", !.cacheable = cacheable, !.lock = FALSE, !.left = 0,
            !.scarce = FALSE]

(* A request begins: ngx_http_upstream_cache() with r->cache == NULL.  With  *)
(* cache_bypass the entry is not looked up before the response is there.     *)

Begin(r) ==
  /\ req[r].pc = "idle"
  /\ \E k \in Keys, b \in {FALSE, conf.bypass} :
       LET c == [Idle EXCEPT !.pc = "exists", !.key = k, !.bypass = b,
                             !.lock = conf.lock, !.left = LockTimeout]
       IN req' = [req EXCEPT ![r] = IF b THEN Fetching(c, TRUE) ELSE c]
  /\ UNCHANGED <<conf, node, queue, file, del, loader, ghost, crashes>>

(* What ngx_http_file_cache_open() does with NGX_DECLINED from               *)
(* ngx_http_file_cache_exists(), and with all that it returns.  For a bypass   *)
(* it is ngx_http_file_cache_create().                                       *)
Missed(c) ==
  IF loader.cold THEN [c EXCEPT !.pc = "test", !.scarce = conf.min > 1]
  ELSE IF conf.min > 1 THEN Fetching(c, FALSE)
  ELSE [c EXCEPT !.pc = "lock"]

Opened(c, rc) ==
  IF c.bypass THEN [c EXCEPT !.pc = IF rc = "error" THEN "finish" ELSE "respond"]
  ELSE IF rc = "declined" THEN Missed(c)
  ELSE IF rc = "again" THEN Fetching(c, FALSE)
  ELSE [c EXCEPT !.pc = IF rc = "error" \/ c.error THEN "finish"
                        ELSE IF rc = "exists" THEN "test" ELSE "lock"]

(* ngx_http_file_cache_exists(): the node is found, or kept from before the   *)
(* wait for the cache lock.                                                  *)
Looked(c, s) ==
  IF c.node # None THEN node[s]
  ELSE [node[s] EXCEPT !.uses = IF @ < conf.min THEN @ + 1 ELSE @, !.count = @ + 1]

Answer(n, expired) ==
  IF n.error THEN IF expired THEN "declined" ELSE "ok"
  ELSE IF n.exists THEN "exists"
  ELSE IF n.uses >= conf.min THEN "ok" ELSE "again"

Declined(n) == [n EXCEPT !.error = FALSE, !.exists = FALSE]

ExistsNode(r) ==
  /\ req[r].pc = "exists"
  /\ \E s \in (IF req[r].node # None THEN {req[r].node} ELSE Found(req[r].key)) :
     \E expired \in BOOLEAN :
       LET n  == Looked(req[r], s)
           rc == Answer(n, expired)
       IN /\ expired => n.error
          /\ node' = [node EXCEPT ![s] = IF rc = "declined" THEN Declined(n) ELSE n]
          /\ queue' = Touched(s)
          /\ req' = [req EXCEPT ![r] =
                       Opened([@ EXCEPT !.node = s, !.error = n.error /\ ~expired], rc)]
  /\ UNCHANGED <<conf, file, del, loader, ghost, crashes>>

(* A new node: inserted without looking the key up again, also when the       *)
(* mutex was released for a forced expiry since the look-up.                 *)
NodeAdded(r, s) ==
  /\ node' = [node EXCEPT ![s] = NewNode(req[r].key, FALSE, 1)]
  /\ queue' = Touched(s)
  /\ req' = [req EXCEPT ![r] = Opened([@ EXCEPT !.node = s], "declined")]
  /\ UNCHANGED <<conf, file, del, loader, ghost, crashes>>

ExistsNew(r) ==
  /\ req[r].pc = "exists" /\ req[r].node = None /\ Found(req[r].key) = {}
  /\ \/ \E s \in FreeSlots : NodeAdded(r, s)
     \/ /\ Used = Room
        /\ Goto(r, "forced")
        /\ UNCHANGED <<conf, node, queue, file, del, loader, ghost, crashes>>

AllocAgain(r) ==
  /\ req[r].pc = "alloc"
  /\ \/ \E s \in FreeSlots : NodeAdded(r, s)
     \/ /\ Used = Room
        /\ req' = [req EXCEPT ![r] = Opened(@, "error")]
        /\ UNCHANGED <<conf, node, queue, file, del, loader, ghost, crashes>>

-----------------------------------------------------------------------------
(* ngx_http_file_cache_delete(): a node whose file exists is kept by a count   *)
(* while the file is removed outside of the mutex.                           *)

\* Bug: the node is not kept while the mutex is released.
DeleteBegin_NoCount(a, s) ==
  IF node[s].exists
  THEN /\ node' = [node EXCEPT ![s].deleting = TRUE]
       /\ del' = [del EXCEPT ![a] = [node |-> s, gone |-> FALSE]]
       /\ UNCHANGED <<queue, ghost>>
  ELSE Freed(s) /\ UNCHANGED del

DeleteBegin(a, s) ==
  IF node[s].exists
  THEN /\ node' = [node EXCEPT ![s].count = @ + 1, ![s].deleting = TRUE]
       /\ del' = [del EXCEPT ![a] = [node |-> s, gone |-> FALSE]]
       /\ UNCHANGED <<queue, ghost>>
  ELSE Freed(s) /\ UNCHANGED del

(* The window without the mutex: unlink(). *)
Unlink(a) ==
  /\ del[a].node # None /\ ~del[a].gone
  /\ file' = [file EXCEPT ![node[del[a].node].key] = FALSE]
  /\ del' = [del EXCEPT ![a].gone = TRUE]
  /\ UNCHANGED <<conf, node, queue, req, loader, ghost, crashes>>

DeleteEnd(a) ==
  /\ del[a].node # None /\ del[a].gone
  /\ LET s == del[a].node IN
     IF node[s].count = 1
     THEN Freed(s)
     ELSE /\ node' = [node EXCEPT ![s].count = @ - 1, ![s].deleting = FALSE]
          /\ UNCHANGED <<queue, ghost>>
  /\ del' = [del EXCEPT ![a] = NoDel]
  /\ req' = IF a = Manager THEN req ELSE [req EXCEPT ![a].pc = "alloc"]
  /\ UNCHANGED <<conf, file, loader, crashes>>

(* ngx_http_file_cache_forced_expire(): the first node without users among    *)
(* the last ones of the queue.                                              *)
Victims ==
  {i \in 1..Len(queue) : /\ Len(queue) - i < Tries
                         /\ node[queue[i]].count = 0
                         /\ \A j \in i + 1..Len(queue) : node[queue[j]].count > 0}

ForcedExpireWorker(r) ==
  /\ req[r].pc = "forced" /\ del[r].node = None
  /\ \/ \E i \in Victims :
          /\ DeleteBegin(r, queue[i])
          /\ IF node[queue[i]].exists THEN UNCHANGED req ELSE Goto(r, "alloc")
     \/ Victims = {} /\ Goto(r, "alloc") /\ UNCHANGED <<node, queue, del, ghost>>
  /\ UNCHANGED <<conf, file, loader, crashes>>

ForcedExpireManager ==
  /\ del[Manager].node = None
  /\ \E i \in Victims : DeleteBegin(Manager, queue[i])
  /\ UNCHANGED <<conf, file, req, loader, crashes>>

(* One round of the loop of ngx_http_file_cache_expire(), for the last node,  *)
(* found to be inactive: deleted, or moved to the head if it is in use.      *)
Expire ==
  /\ del[Manager].node = None
  /\ queue # <<>>
  /\ LET s == Last(queue) IN
       \/ node[s].count = 0 /\ DeleteBegin(Manager, s)
       \/ /\ node[s].count > 0 /\ ~node[s].deleting
          /\ queue' = Touched(s)
          /\ UNCHANGED <<node, del, ghost>>
  /\ UNCHANGED <<conf, file, req, loader, crashes>>

-----------------------------------------------------------------------------
(* The file is opened and its header read.  Without a file the request takes  *)
(* the cache lock or, below min_uses, goes to the server and is not cached.  *)
(* While the cache is cold the reader adds the file to the node.             *)

Test(r) ==
  /\ req[r].pc = "test"
  /\ \/ /\ ~file[req[r].key]
        /\ req' = [req EXCEPT ![r] =
                     IF @.scarce THEN Fetching(@, FALSE)
                     ELSE [@ EXCEPT !.pc = "lock"]]
        /\ UNCHANGED node
     \/ /\ file[req[r].key]
        /\ Goto(r, "valid")
        /\ node' = IF loader.cold
                   THEN [node EXCEPT ![req[r].node].exists = TRUE,
                                     ![req[r].node].uses = IF node[req[r].node].exists THEN @ ELSE 1]
                   ELSE node
     \/ /\ file[req[r].key]      \* too small, a collision, or another key
        /\ req' = [req EXCEPT ![r] = Fetching(@, TRUE)]
        /\ UNCHANGED node
     \/ Goto(r, "finish") /\ UNCHANGED node
  /\ UNCHANGED <<conf, queue, file, del, loader, ghost, crashes>>

(* The end of ngx_http_file_cache_read(), and ngx_http_upstream_cache_send()  *)
(* for what is valid or may be sent stale.                                   *)
Valid(r) ==
  /\ req[r].pc = "valid"
  /\ LET s == req[r].node IN
       \/ Goto(r, "finish") /\ UNCHANGED node
       \/ req' = [req EXCEPT ![r] = Fetching(@, TRUE)] /\ UNCHANGED node
       \/ /\ node[s].updating
          /\ IF conf.stale THEN Goto(r, "finish")
             ELSE req' = [req EXCEPT ![r] = Fetching(@, TRUE)]
          /\ UNCHANGED node
       \/ /\ ~node[s].updating
          /\ node' = [node EXCEPT ![s].updating = TRUE]
          /\ req' = [req EXCEPT ![r] = [Fetching(@, TRUE) EXCEPT !.updating = TRUE]]
  /\ UNCHANGED <<conf, queue, file, del, loader, ghost, crashes>>

(* ngx_http_file_cache_lock() *)
Lock(r) ==
  /\ req[r].pc = "lock"
  /\ LET s == req[r].node IN
       \/ ~req[r].lock /\ req' = [req EXCEPT ![r] = Fetching(@, TRUE)] /\ UNCHANGED node
       \/ /\ req[r].lock /\ ~node[s].updating
          /\ node' = [node EXCEPT ![s].updating = TRUE]
          /\ req' = [req EXCEPT ![r] = [Fetching(@, TRUE) EXCEPT !.updating = TRUE]]
       \/ req[r].lock /\ node[s].updating /\ Goto(r, "waiting") /\ UNCHANGED node
  /\ UNCHANGED <<conf, queue, file, del, loader, ghost, crashes>>

(* ngx_http_file_cache_lock_wait_handler(): the deadline is that of the first  *)
(* wait; woken, the request opens the cache again.                           *)
\* Bug: the handler does not look at the deadline.
LockWaitHandler_NoDeadline(r) ==
  /\ req[r].pc = "waiting"
  /\ ~node[req[r].node].updating
  /\ Goto(r, "exists")
  /\ UNCHANGED <<conf, node, queue, file, del, loader, ghost, crashes>>

LockWaitHandler(r) ==
  /\ req[r].pc = "waiting"
  /\ LET left == req[r].left - 1 IN
       \/ left = 0 /\ req' = [req EXCEPT ![r].pc = "exists", ![r].lock = FALSE, ![r].left = 0]
       \/ /\ left > 0 /\ node[req[r].node].updating
          /\ req' = [req EXCEPT ![r].left = left]
       \/ /\ left > 0 /\ ~node[req[r].node].updating
          /\ req' = [req EXCEPT ![r].pc = "exists", ![r].left = left]
  /\ UNCHANGED <<conf, node, queue, file, del, loader, ghost, crashes>>

-----------------------------------------------------------------------------
(* ngx_http_file_cache_free(), from ngx_http_upstream_finalize_request() and   *)
(* the others, or at last from the cleanup of the pool.                      *)

GivenBack(r, error, n) ==
  LET s == req[r].node IN
  IF ~error /\ ~n.exists /\ n.count = 0 /\ conf.min = 1
  THEN Freed(s)
  ELSE /\ node' = [node EXCEPT ![s] = n]
       /\ ghost' = IF req[r].updating
                   THEN [ghost EXCEPT ![s].orphan = FALSE,
                                      ![s].breach = Updaters(s) # {r}]
                   ELSE ghost
       /\ UNCHANGED queue

\* Bug: the flag is not cleared.
FreeCache_KeepsFlag(r, error) ==
  IF req[r].node = None
  THEN UNCHANGED <<node, queue, ghost>>
  ELSE GivenBack(r, error, [node[req[r].node] EXCEPT !.count = @ - 1,
                                                     !.error = @ \/ error])

FreeCache(r, error) ==
  IF req[r].node = None
  THEN UNCHANGED <<node, queue, ghost>>
  ELSE GivenBack(r, error, [node[req[r].node] EXCEPT !.count = @ - 1,
                                                     !.updating = @ /\ ~req[r].updating,
                                                     !.error = @ \/ error])

(* What was sent from the cache, or ended with an error, gives the entry back.  *)
Finish(r) ==
  /\ req[r].pc = "finish"
  /\ FreeCache(r, req[r].error)
  /\ req' = [req EXCEPT ![r] = Idle]
  /\ UNCHANGED <<conf, file, del, loader, crashes>>

(* The server answers, or fails: the response is not to be stored (also when   *)
(* the stale one is sent instead, or was revalidated); the failure is cached *)
(* as an error; or the response is to be stored, for a bypass only now with  *)
(* an entry.                                                                 *)
Fetch(r) ==
  /\ req[r].pc = "fetch"
  /\ \/ /\ \E error \in {FALSE, conf.errors} : FreeCache(r, error \/ req[r].error)
        /\ req' = [req EXCEPT ![r] = Idle]
     \/ /\ req[r].cacheable
        /\ Goto(r, IF req[r].bypass /\ req[r].node = None THEN "exists" ELSE "respond")
        /\ UNCHANGED <<node, queue, ghost>>
  /\ UNCHANGED <<conf, file, del, loader, crashes>>

(* The end of the response: complete, it is renamed to the file of the key     *)
(* (which may fail); incomplete, the entry is given back.                    *)
Rename(r) ==
  /\ req[r].pc = "respond"
  /\ \/ /\ file' = [file EXCEPT ![req[r].key] = TRUE]
        /\ req' = [req EXCEPT ![r].pc = "update", ![r].renamed = TRUE]
        /\ UNCHANGED <<node, queue, ghost>>
     \/ Goto(r, "update") /\ UNCHANGED <<node, queue, file, ghost>>
     \/ /\ FreeCache(r, req[r].error)
        /\ req' = [req EXCEPT ![r] = Idle]
        /\ UNCHANGED file
  /\ UNCHANGED <<conf, del, loader, crashes>>

(* The section of ngx_http_file_cache_update(): the flag of the node is       *)
(* cleared, whoever has set it.                                              *)
Update(r) ==
  /\ req[r].pc = "update"
  /\ LET s == req[r].node IN
       /\ node' = [node EXCEPT ![s].count = @ - 1,
                               ![s].exists = @ \/ req[r].renamed,
                               ![s].updating = FALSE]
       /\ ghost' = [ghost EXCEPT ![s].orphan = FALSE,
                                 ![s].breach = Updaters(s) \ {r} # {}]
  /\ req' = [req EXCEPT ![r] = Idle]
  /\ UNCHANGED <<conf, queue, file, del, loader, crashes>>

(* A worker dies: what it has of the zone stays as it is. *)
Crash(r) ==
  /\ crashes < conf.crashes
  /\ req[r].pc # "idle"
  /\ crashes' = crashes + 1
  /\ ghost' = [s \in Slots |->
                 [ghost[s] EXCEPT
                    !.leaked = @ + Cardinality({x \in {"req", "del"} :
                        s = IF x = "req" THEN req[r].node ELSE del[r].node}),
                    !.orphan = @ \/ (node[s] # None /\ node[s].updating /\ Updaters(s) = {r}),
                    !.breach = @ /\ Updaters(s) # {r}]]
  /\ req' = [req EXCEPT ![r] = Idle]
  /\ del' = [del EXCEPT ![r] = NoDel]
  /\ UNCHANGED <<conf, node, queue, file, loader>>

-----------------------------------------------------------------------------
(* The cache loader adds the files it finds to the tree, or removes those for  *)
(* which there is no memory.                                                 *)

LoaderStart ==
  /\ loader.cold /\ ~loader.loading
  /\ loader' = [loader EXCEPT !.loading = TRUE]
  /\ UNCHANGED <<conf, node, queue, file, req, del, ghost, crashes>>

LoaderVisit ==
  /\ loader.loading /\ loader.key = None
  /\ \E k \in {x \in Keys : file[x]} : loader' = [loader EXCEPT !.key = k]
  /\ UNCHANGED <<conf, node, queue, file, req, del, ghost, crashes>>

(* ngx_http_file_cache_add(); without memory the file is deleted. *)
LoaderAdd ==
  /\ loader.key # None
  /\ loader' = [loader EXCEPT !.key = None]
  /\ \/ \E s \in Found(loader.key) :
          queue' = Touched(s) /\ UNCHANGED <<node, file>>
     \/ /\ Found(loader.key) = {}
        /\ \E s \in FreeSlots :
             /\ node' = [node EXCEPT ![s] = NewNode(loader.key, TRUE, 0)]
             /\ queue' = Touched(s)
        /\ UNCHANGED file
     \/ /\ Found(loader.key) = {} /\ Used = Room
        /\ file' = [file EXCEPT ![loader.key] = FALSE]
        /\ UNCHANGED <<node, queue>>
  /\ UNCHANGED <<conf, req, del, ghost, crashes>>

(* The end of the walk over the directories, whose order and extent are left   *)
(* open; given up for a quit, the cache stays cold.                          *)
LoaderEnd ==
  /\ loader.loading /\ loader.key = None
  /\ \E quit \in BOOLEAN :
       loader' = [loader EXCEPT !.loading = FALSE, !.cold = quit]
  /\ UNCHANGED <<conf, node, queue, file, req, del, ghost, crashes>>

-----------------------------------------------------------------------------
Step(r) ==
  \/ ExistsNode(r) \/ ExistsNew(r) \/ AllocAgain(r) \/ ForcedExpireWorker(r)
  \/ Unlink(r) \/ DeleteEnd(r)
  \/ Test(r) \/ Valid(r) \/ Lock(r) \/ LockWaitHandler(r)
  \/ Fetch(r) \/ Rename(r) \/ Update(r) \/ Finish(r)

Next ==
  \/ \E r \in Requests : Begin(r) \/ Step(r) \/ Crash(r)
  \/ Unlink(Manager) \/ DeleteEnd(Manager) \/ ForcedExpireManager \/ Expire
  \/ LoaderStart \/ LoaderVisit \/ LoaderAdd \/ LoaderEnd

SafetySpec == Init /\ [][Next]_vars

(* The timers of a worker and of its connections bring every request forward. *)
Spec == SafetySpec /\ \A r \in Requests : WF_vars(Step(r))

-----------------------------------------------------------------------------
TypeOK ==
  /\ conf \in Configs
  /\ \A s \in Used :
       /\ node[s].key \in Keys
       /\ node[s].count \in 0..Cardinality(Actors) + 2 * crashes
       /\ node[s].uses \in 1..conf.min
  /\ ToSet(queue) = Used /\ Len(queue) = Cardinality(Used)
  /\ \A r \in Requests : req[r].left \in 0..LockTimeout

(* A node lives as long as somebody uses it, and no longer than that without  *)
(* a dead worker: the count is exactly the requests and the deletions that   *)
(* have the node, and what dead workers left.  In particular no process ever *)
(* has a node that was freed, or that was reused for another key.            *)
CountExact ==
  /\ TypeOK
  /\ \A s \in Used :
       node[s].count = Cardinality(Users(s)) + Cardinality(Deleters(s)) + ghost[s].leaked
  /\ \A r \in Requests : req[r].node # None =>
       req[r].node \in Used /\ node[req[r].node].key = req[r].key
  /\ \A a \in Actors : del[a].node # None => del[a].node \in Used

(* The flag "updating" of a node is set exactly while one request brings it up *)
(* to date: never left behind by a request that ended ("stalled cache        *)
(* updating"), never two at once - but for a worker that died, and for a      *)
(* response that another request stored without the lock.                    *)
OneUpdater ==
  \A s \in Used :
    \/ ghost[s].breach
    \/ node[s].updating /\ ghost[s].orphan /\ Updaters(s) = {}
    \/ node[s].updating /\ ~ghost[s].orphan /\ Cardinality(Updaters(s)) = 1
    \/ ~node[s].updating /\ Updaters(s) = {}

(* Nobody waits for the cache lock for ever, even if its holder died or a new  *)
(* holder takes it each time: from a first wait every request comes to its   *)
(* answer, from the cache or from the server.                                *)
Unblocked ==
  \A r \in Requests :
    req[r].pc = "waiting" ~> req[r].pc \in {"fetch", "finish", "idle"}

==============================================================================
