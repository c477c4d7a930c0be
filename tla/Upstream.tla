------------------------------ MODULE Upstream ------------------------------
(***************************************************************************)
(* Proxied requests and the servers they go to, in one worker: the choice  *)
(* of a server (src/http/ngx_http_upstream_round_robin.c), the cache of     *)
(* idle connections (modules/ngx_http_upstream_keepalive_module.c), and the *)
(* life of a request from ngx_http_upstream_init_request() over retries to  *)
(* ngx_http_upstream_finalize_request() (src/http/ngx_http_upstream.c).     *)
(*                                                                         *)
(* Servers are numbered, the primary ones first.  The weights and the       *)
(* failure counts of the servers are shared by all requests of the worker.  *)
(* A handler runs to its end before another event is looked at: running     *)
(* names the request whose handler has not returned.                        *)
(*                                                                         *)
(* Times are counted in seconds back from now.  Neither peer->checked nor   *)
(* peer->accessed is ever looked at while peer->fails is zero, so the model *)
(* forgets them then.  Not modelled: caching of responses, SSL, resolving   *)
(* of server names, and the transfer of the body.                           *)
(***************************************************************************)
EXTENDS Integers, Sequences, FiniteSets, SequencesExt, FiniteSetsExt

CONSTANTS
  Requests,      \* slots for requests that are proxied at the same time
  Configs,       \* the upstream blocks that are tried
  FailTimeout,   \* fail_timeout of the servers
  NextUpstream   \* the failures that proxy_next_upstream names

Failures == {"error", "timeout", "invalid_header", "http_5xx", "http_404"}

ASSUME UpstreamAssumption ==
  /\ 0 \notin Requests     \* None, below
  /\ FailTimeout \in Nat
  /\ NextUpstream \subseteq Failures
  /\ \A cf \in Configs :
       /\ cf.primary \in Nat \ {0} /\ cf.backup \in Nat /\ cf.keepalive \in Nat
       /\ cf.weight \in [1..cf.primary + cf.backup -> Nat \ {0}]
       /\ cf.maxFails \in [1..cf.primary + cf.backup -> Nat]
       /\ cf.down \subseteq 1..cf.primary + cf.backup

VARIABLES
  conf,     \* the upstream block
  current,  \* peer->current_weight
  effective,\* peer->effective_weight
  fails,    \* peer->fails, up to max_fails
  checked,  \* now - peer->checked, up to FailTimeout + 1
  probed,   \* peer->accessed < peer->checked
  idle,     \* the queue kcf->cache: the servers of the idle connections
  running,  \* the request whose handler is running, if any
  pc,       \* what the handler does, or what the request waits for
  backup,   \* rrp->peers are the backup servers
  tried,    \* rrp->tried
  peer,     \* rrp->current
  tries,    \* u->peer.tries
  cached,   \* u->peer.cached
  gone,     \* r->connection->error: the client has closed its connection
  attempts, \* servers chosen for the request so far, not in the code; the only server
            \* counts unless there is an idle connection to it
  error,    \* the last request of the slot ended with an error page (502 or 504)
  asked     \* seconds since a request was sent to a failed server; not in the code

balance == <<current, effective, checked, probed, asked>>
request == <<backup, tried, peer, tries, cached, gone, attempts>>
vars == <<conf, balance, fails, idle, running, pc, request, error>>

Peers == 1..conf.primary + conf.backup
None == 0
LongAgo == FailTimeout + 1

(* peers->single: the server is not subject to failure accounting *)
Single == conf.primary = 1 /\ conf.backup = 0

(* The servers of the list that a request is using. *)
List(isBackup) == IF isBackup THEN Peers \ 1..conf.primary ELSE 1..conf.primary

(* "send": connecting or sending the request; "header", "body": reading *)
Waiting == {"send", "header", "body"}

TypeOK ==
  /\ conf \in Configs
  /\ current \in [Peers -> Int]
  /\ \A p \in Peers : effective[p] \in 0..conf.weight[p]
  /\ \A p \in Peers : fails[p] \in 0..conf.maxFails[p]
  /\ checked \in [Peers -> 0..LongAgo]
  /\ probed \in [Peers -> BOOLEAN]
  /\ idle \in Seq(Peers) /\ Len(idle) <= conf.keepalive
  /\ running \in Requests \cup {None}
  /\ pc \in [Requests -> {"idle", "get", "open"} \cup Waiting]
  /\ backup \in [Requests -> BOOLEAN]
  /\ tried \in [Requests -> SUBSET Peers]
  /\ peer \in [Requests -> Peers \cup {None}]
  /\ tries \in [Requests -> 0..Cardinality(Peers)]
  /\ cached \in [Requests -> BOOLEAN]
  /\ gone \in [Requests -> BOOLEAN]
  /\ attempts \in [Requests -> Nat]
  /\ error \in [Requests -> BOOLEAN]
  /\ asked \in [Peers -> 0..LongAgo]

(* ngx_http_upstream_init_round_robin(), ngx_http_upstream_init_keepalive() *)
Init ==
  /\ conf \in Configs
  /\ current = [p \in Peers |-> 0]
  /\ effective = [p \in Peers |-> conf.weight[p]]
  /\ fails = [p \in Peers |-> 0]
  /\ checked = [p \in Peers |-> LongAgo]
  /\ probed = [p \in Peers |-> FALSE]
  /\ idle = <<>>
  /\ running = None
  /\ pc = [r \in Requests |-> "idle"]
  /\ backup = [r \in Requests |-> FALSE]
  /\ tried = [r \in Requests |-> {}]
  /\ peer = [r \in Requests |-> None]
  /\ tries = [r \in Requests |-> 0]
  /\ cached = [r \in Requests |-> FALSE]
  /\ gone = [r \in Requests |-> FALSE]
  /\ attempts = [r \in Requests |-> 0]
  /\ error = [r \in Requests |-> FALSE]
  /\ asked = [p \in Peers |-> LongAgo]

(* A second passes. *)
Later(age) == [p \in Peers |-> IF age[p] < LongAgo THEN age[p] + 1 ELSE LongAgo]

Tick ==
  /\ running = None
  /\ checked' = Later(checked)
  /\ asked' = Later(asked)
  /\ UNCHANGED <<conf, current, effective, probed, fails, idle, running, pc,
                 request, error>>

Runs(r, place) == running' = r /\ pc' = [pc EXCEPT ![r] = place]
Waits(r, place) == running' = None /\ pc' = [pc EXCEPT ![r] = place]

(* ngx_http_upstream_init_request(): the number of primary servers is the number
   of tries. *)
Start(r) ==
  /\ running = None /\ pc[r] = "idle"
  /\ Runs(r, "get")
  /\ tries' = [tries EXCEPT ![r] = conf.primary]
  /\ error' = [error EXCEPT ![r] = FALSE]
  /\ UNCHANGED <<conf, balance, fails, idle, backup, tried, peer, cached, gone,
                 attempts>>

-----------------------------------------------------------------------------
(* ngx_event_connect_peer(): pc->get() and connect().                      *)

Failed(p) == conf.maxFails[p] > 0 /\ fails[p] >= conf.maxFails[p]

Unavailable(p) == p \in conf.down \/ (Failed(p) /\ checked[p] <= FailTimeout)

Candidates(r, isBackup) ==
  {p \in List(isBackup) \ (IF isBackup = backup[r] THEN tried[r] ELSE {}) :
     ~ Unavailable(p)}

(* The first of the servers with the largest weight. *)
Best(C) ==
  CHOOSE p \in C : \A q \in C :
    LET w(x) == current[x] + effective[x]
    IN  w(p) > w(q) \/ (w(p) = w(q) /\ p <= q)

\* Bug: the weights recover before they are added up
TotalRecovered(C) ==
  MapThenSumSet(LAMBDA p : IF effective[p] < conf.weight[p] THEN effective[p] + 1
                           ELSE effective[p], C)

Total(C) == MapThenSumSet(LAMBDA p : effective[p], C)

\* Bug: a server that has failed never gets its weight back
NotRecovered(C) == effective

(* effective_weight grows back, one at a time, while the server is a candidate. *)
Recovered(C) ==
  [p \in Peers |-> IF p \in C /\ effective[p] < conf.weight[p] THEN effective[p] + 1
                   ELSE effective[p]]

\* Bug: the time of the check is not taken
CheckForgets(p) ==
  /\ asked' = [asked EXCEPT ![p] = IF Failed(p) THEN 0 ELSE @]
  /\ UNCHANGED <<checked, probed>>

(* The one request that may try a failed server after fail_timeout keeps the
   others away from it for as long again. *)
Check(p) ==
  LET due == fails[p] > 0 /\ checked[p] > FailTimeout
  IN  /\ checked' = [checked EXCEPT ![p] = IF due THEN 0 ELSE @]
      /\ probed' = [probed EXCEPT ![p] = due \/ @]
      /\ asked' = [asked EXCEPT ![p] = IF Failed(p) THEN 0 ELSE @]

Marked(r, isBackup, p) ==
  (IF isBackup = backup[r] THEN tried[r] ELSE {}) \cup {p}

\* Bug: the backup servers are not counted
TriesPrimary(left, isBackup) == left

(* With the last of the primary servers, the backup servers are counted too. *)
Tries(left, isBackup) ==
  IF left = 1 /\ ~ isBackup THEN 1 + conf.backup ELSE left

(* ngx_http_upstream_get_peer(): among the candidates, which are not empty. *)
GetPeer(r, isBackup, left) ==
  LET C == Candidates(r, isBackup)
      best == Best(C)
  IN  /\ current' = [p \in Peers |->
                       IF p \notin C THEN current[p]
                       ELSE current[p] + effective[p]
                            - (IF p = best THEN Total(C) ELSE 0)]
      /\ effective' = Recovered(C)
      /\ Check(best)
      /\ peer' = [peer EXCEPT ![r] = best]
      /\ tried' = [tried EXCEPT ![r] = Marked(r, isBackup, best)]
      /\ backup' = [backup EXCEPT ![r] = isBackup]
      /\ tries' = [tries EXCEPT ![r] = Tries(left, isBackup)]
      /\ attempts' = [attempts EXCEPT ![r] = @ + 1]

(* ngx_http_upstream_get_round_robin_peer(): the only server is always taken. *)
GetSingle(r) ==
  /\ pc[r] = "get" /\ Single /\ 1 \notin conf.down
  /\ peer' = [peer EXCEPT ![r] = 1]
  /\ attempts' = [attempts EXCEPT ![r] = IF idle = <<>> THEN @ + 1 ELSE @]
  /\ Runs(r, "open")
  /\ UNCHANGED <<conf, balance, fails, idle, backup, tried, tries, cached, gone,
                 error>>

GetRoundRobin(r) ==
  /\ pc[r] = "get" /\ ~ Single
  /\ \/ /\ Candidates(r, backup[r]) # {}
        /\ GetPeer(r, backup[r], tries[r])
     \/ /\ Candidates(r, backup[r]) = {}
        /\ ~ backup[r] /\ Candidates(r, TRUE) # {}
        /\ GetPeer(r, TRUE, conf.backup)
  /\ Runs(r, "open")
  /\ UNCHANGED <<conf, fails, idle, cached, gone, error>>

-----------------------------------------------------------------------------
(* The end of a request: ngx_http_upstream_finalize_request().             *)

Finalize(r, isError) ==
  /\ Waits(r, "idle")
  /\ error' = [error EXCEPT ![r] = isError]
  /\ backup' = [backup EXCEPT ![r] = FALSE]
  /\ tried' = [tried EXCEPT ![r] = {}]
  /\ peer' = [peer EXCEPT ![r] = None]
  /\ tries' = [tries EXCEPT ![r] = 0]
  /\ cached' = [cached EXCEPT ![r] = FALSE]
  /\ gone' = [gone EXCEPT ![r] = FALSE]
  /\ attempts' = [attempts EXCEPT ![r] = 0]

(* A server that is not failed any more: its times do not matter. *)
Forget(ps) ==
  /\ fails' = [p \in Peers |-> IF p \in ps THEN 0 ELSE fails[p]]
  /\ checked' = [p \in Peers |-> IF p \in ps THEN LongAgo ELSE checked[p]]
  /\ probed' = [p \in Peers |-> p \notin ps /\ probed[p]]
  /\ asked' = [p \in Peers |-> IF p \in ps THEN LongAgo ELSE asked[p]]
  /\ UNCHANGED <<current, effective>>

\* Bug: the lack of a server is a failure like others, retried if tries are left
NoLiveRetried(r) ==
  /\ pc[r] = "get"
  /\ IF Single THEN 1 \in conf.down
     ELSE Candidates(r, backup[r]) = {} /\ Candidates(r, TRUE) = {}
  /\ Forget(List(backup[r]) \cup List(TRUE))
  /\ \/ tries[r] = 0 /\ Finalize(r, ~ gone[r])
     \/ tries[r] > 0 /\ Runs(r, "get") /\ UNCHANGED <<request, error>>
  /\ UNCHANGED <<conf, idle>>

(* NGX_BUSY: no server is left, they are marked as live, and
   ngx_http_upstream_next() has nothing to try. *)
NoLive(r) ==
  /\ pc[r] = "get"
  /\ IF Single THEN 1 \in conf.down
     ELSE Candidates(r, backup[r]) = {} /\ Candidates(r, TRUE) = {}
  /\ Forget(List(backup[r]) \cup List(TRUE))
  /\ Finalize(r, ~ gone[r])
  /\ UNCHANGED <<conf, idle>>

(* free() with state 0: the server is live if this was a check. *)
FreeLive(r) ==
  Forget(IF ~ Single /\ probed[peer[r]] THEN {peer[r]} ELSE {})

(* free() with NGX_PEER_FAILED *)
FreeFailed(r) ==
  LET p == peer[r]
      loss == conf.weight[p] \div conf.maxFails[p]
      counts == ~ Single /\ conf.maxFails[p] > 0
  IN  /\ fails' = [fails EXCEPT ![p] =
                     IF counts /\ @ < conf.maxFails[p] THEN @ + 1 ELSE @]
      /\ checked' = [checked EXCEPT ![p] = IF counts THEN 0 ELSE @]
      /\ probed' = [probed EXCEPT ![p] = ~ counts /\ @]
      /\ effective' = [effective EXCEPT ![p] =
                         IF ~ counts THEN @ ELSE IF @ > loss THEN @ - loss ELSE 0]
      /\ UNCHANGED <<current, asked>>

(* ngx_http_upstream_free_keepalive_peer(): a connection that can be used again
   replaces the one that was idle longest, if the cache is full; when there is
   something to read from it, it is closed at once. *)
Keep(p) ==
  LET room == IF Len(idle) < conf.keepalive THEN idle ELSE Front(idle)
  IN  conf.keepalive > 0 /\ (idle' = <<p>> \o room \/ idle' = room)

(* The server or the cache cannot use the connection again. *)
Close == UNCHANGED idle

-----------------------------------------------------------------------------
(* pc->tries after free() *)
TriesLeft(r) == IF Single \/ tries[r] = 0 THEN 0 ELSE tries[r] - 1

(* An idle connection that turns out to be closed costs no try. *)
CostsNothing(r, failure) == cached[r] /\ failure = "error"

Retries(r, failure, left) ==
  /\ ~ gone[r]
  /\ CostsNothing(r, failure) \/ (left > 0 /\ failure \in NextUpstream)

\* Bug: the server of an idle connection that was closed may be tried again
NextUnmarks(r, failure) ==
  LET left == TriesLeft(r) + (IF CostsNothing(r, failure) THEN 1 ELSE 0)
  IN  /\ \/ failure = "http_404" /\ FreeLive(r) /\ (Keep(peer[r]) \/ Close)
         \/ failure # "http_404" /\ FreeFailed(r) /\ Close
      /\ \/ ~ Retries(r, failure, left) /\ Finalize(r, ~ gone[r])
         \/ /\ Retries(r, failure, left)
            /\ Runs(r, "get")
            /\ peer' = [peer EXCEPT ![r] = None]
            /\ cached' = [cached EXCEPT ![r] = FALSE]
            /\ tries' = [tries EXCEPT ![r] = left]
            /\ tried' = [tried EXCEPT ![r] = IF CostsNothing(r, failure) THEN @ \ {peer[r]} ELSE @]
            /\ UNCHANGED <<backup, gone, attempts, error>>
      /\ UNCHANGED conf

(* ngx_http_upstream_next(): on to the next server, or an error for the client *)
NextPeer(r, failure) ==
  LET left == TriesLeft(r) + (IF CostsNothing(r, failure) THEN 1 ELSE 0)
  IN  /\ \/ failure = "http_404" /\ FreeLive(r) /\ (Keep(peer[r]) \/ Close)
         \/ failure # "http_404" /\ FreeFailed(r) /\ Close
      /\ \/ ~ Retries(r, failure, left) /\ Finalize(r, ~ gone[r])
         \/ /\ Retries(r, failure, left)
            /\ Runs(r, "get")
            /\ peer' = [peer EXCEPT ![r] = None]
            /\ cached' = [cached EXCEPT ![r] = FALSE]
            /\ tries' = [tries EXCEPT ![r] = left]
            /\ UNCHANGED <<backup, tried, gone, attempts, error>>
      /\ UNCHANGED conf

(* ngx_event_connect_peer() returns NGX_DONE: there is an idle connection. *)
OpenCached(r) ==
  /\ pc[r] = "open" /\ Contains(idle, peer[r])
  /\ idle' = RemoveFirst(idle, peer[r])
  /\ cached' = [cached EXCEPT ![r] = TRUE]
  /\ Runs(r, "send")
  /\ UNCHANGED <<conf, balance, fails, backup, tried, peer, tries, gone, attempts, error>>

OpenNew(r) == pc[r] = "open" /\ ~ Contains(idle, peer[r])

(* connect(): at once, or in progress *)
Open(r) ==
  /\ OpenNew(r)
  /\ Runs(r, "send") \/ Waits(r, "send")
  /\ UNCHANGED <<conf, balance, fails, idle, request, error>>

(* connect() fails: NGX_DECLINED *)
Refused(r) == OpenNew(r) /\ NextPeer(r, "error")

(* No socket or no connection structure: NGX_ERROR, the server is not to blame. *)
OpenFails(r) ==
  /\ OpenNew(r)
  /\ FreeLive(r) /\ Close /\ Finalize(r, FALSE)
  /\ UNCHANGED conf

-----------------------------------------------------------------------------
Event(r) == running = None /\ pc[r] \in Waiting

(* ngx_http_upstream_send_request(), called by connect or by a write event *)
Send(r) ==
  /\ running \in {r, None} /\ pc[r] = "send"
  /\ \/ /\ \E place \in {"send", "header"} : Waits(r, place)
        /\ UNCHANGED <<conf, balance, fails, idle, request, error>>
     \/ NextPeer(r, "error")

(* The timer of the write event or of the read event *)
Timeout(r) ==
  Event(r) /\ pc[r] # "body" /\ NextPeer(r, "timeout")

(* ngx_http_upstream_process_header(): nothing useful was read *)
ReadFails(r) ==
  /\ Event(r) /\ pc[r] # "body"
  /\ \E failure \in {"error", "invalid_header"} : NextPeer(r, failure)

(* ngx_http_upstream_test_next(): a status that is not passed on to the client *)
TestNext(r) ==
  /\ Event(r) /\ pc[r] # "body"
  /\ tries[r] > 1
  /\ \E failure \in {"http_5xx", "http_404"} \cap NextUpstream : NextPeer(r, failure)

(* A header for the client: the response follows, or it ends here. *)
Header(r) ==
  /\ Event(r) /\ pc[r] # "body"
  /\ \/ /\ Waits(r, "body")
        /\ UNCHANGED <<conf, balance, fails, idle, request, error>>
     \/ /\ FreeLive(r) /\ (Keep(peer[r]) \/ Close) /\ Finalize(r, FALSE)
        /\ UNCHANGED conf

(* ngx_http_upstream_process_request(): the response is complete or broken. *)
Body(r) ==
  /\ Event(r) /\ pc[r] = "body"
  /\ FreeLive(r) /\ (Keep(peer[r]) \/ Close) /\ Finalize(r, FALSE)
  /\ UNCHANGED conf

(* ngx_http_upstream_check_broken_connection(), ngx_http_upstream_cleanup() and
   a downstream error: the request is given up, unless the response is cached. *)
ClientGone(r) ==
  /\ Event(r) /\ ~ gone[r]
  /\ \/ /\ FreeLive(r) /\ Close /\ Finalize(r, FALSE)
        /\ UNCHANGED conf
     \/ /\ gone' = [gone EXCEPT ![r] = TRUE]
        /\ UNCHANGED <<conf, balance, fails, idle, running, pc, backup, tried,
                       peer, tries, cached, attempts, error>>

(* ngx_http_upstream_keepalive_close_handler(): a server closes an idle
   connection. *)
IdleClosed ==
  /\ running = None
  /\ \E i \in DOMAIN idle : idle' = RemoveAt(idle, i)
  /\ UNCHANGED <<conf, balance, fails, running, pc, request, error>>

-----------------------------------------------------------------------------
Handler(r) == GetSingle(r) \/ GetRoundRobin(r) \/ NoLive(r) \/ OpenCached(r)
              \/ Open(r) \/ Refused(r) \/ OpenFails(r)

Answer(r) == Send(r) \/ Timeout(r) \/ ReadFails(r) \/ TestNext(r) \/ Header(r)
             \/ Body(r)

Next ==
  \/ Tick \/ IdleClosed
  \/ \E r \in Requests : Start(r) \/ Handler(r) \/ Answer(r) \/ ClientGone(r)

(* Handlers run, servers answer or time out, and new requests come. *)
Fairness ==
  \A r \in Requests : WF_vars(Start(r)) /\ WF_vars(Handler(r)) /\ SF_vars(Answer(r))

SafetySpec == Init /\ [][Next]_vars

Spec == SafetySpec /\ Fairness

-----------------------------------------------------------------------------
(* Smooth balancing: what the chosen server pays is what the candidates got, so
   the weights of each list always add up to zero, whatever fails.  And the state
   is well typed: no effective weight goes below zero. *)
Balanced ==
  TypeOK /\ \A isBackup \in BOOLEAN :
    MapThenSumSet(LAMBDA p : current[p], List(isBackup)) = 0

(* A failed server is tried by one request in fail_timeout at most: whoever asks
   it keeps all others away. *)
OneProbe ==
  [][\A r \in Requests :
       pc[r] = "get" /\ pc'[r] = "open" /\ ~ Single /\ Failed(peer'[r])
         => asked[peer'[r]] > FailTimeout]_vars

(* The client gets an error in spite of proxy_next_upstream only when no server is
   left, among the backup servers too: each has been tried for this request or is
   unavailable. *)
Exhaustive ==
  [][\A r \in Requests :
       ~ error[r] /\ error'[r] /\ NextUpstream = Failures
       /\ ~ Single
         => /\ backup[r] \/ \A p \in List(TRUE) : Unavailable(p)
            /\ \A p \in List(backup[r]) : p \in tried[r] \/ Unavailable(p)]_vars

(* Failures of idle connections are not counted as tries, and the backup servers are added
   to them on the way; still no request is sent to more servers, one after the other, than
   there are.  The only server is not marked as tried: beyond its idle connections, whose
   failures are forgiven, it is asked once. *)
TriesBounded == \A r \in Requests : attempts[r] <= Cardinality(Peers)

(* Every request ends, after no more tries than TriesBounded allows.  The one exception is
   that of a single server, where nothing but the number of idle connections bounds the
   retries: a request may go on failing with them as long as other requests put connections
   back in the cache. *)
Ends ==
  /\ []TriesBounded
  /\ \A r \in Requests :
       \/ pc[r] = "get" ~> pc[r] = "idle"
       \/ Single /\ []<><<Len(idle') > Len(idle)>>_vars

(* A primary server that stays available is chosen again and again. *)
NoStarvation ==
  \A p \in 1..2 :
    (<>[](p \in List(FALSE) /\ ~ Unavailable(p))) =>
      []<>(\E r \in Requests : pc[r] = "open" /\ peer[r] = p)
=============================================================================
