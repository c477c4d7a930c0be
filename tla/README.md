# A TLA+ model of nginx 1.6.2

This directory specifies the core of nginx 1.6.2 (the annotated tree under
`src/nginx-1.6.2/`): the processes and how they are controlled, what they share, the
event loop of a worker with its connections and timers, and the way of a request from
its first byte to the last byte of its response. Every module is translated from the C
source; `PROJECT.json` names, for every definition, the lines it stands for.

The build that is modelled is the one of the repository's `objs/`: Linux with epoll,
GCC atomic operations, POSIX semaphores, no threads, no file AIO, no SSL. File names
below are relative to `src/nginx-1.6.2/src/`.

Contents

1. The system: inventory of components
2. Modules, and how they correspond to the code
3. Runs: what is checked, bounds, fairness
4. What the checks found
5. Proofs
6. What is not modelled
7. Plan

## 1. The system

nginx is a **master** process that forks **workers** (and a cache manager and a cache
loader), and watches over them. The master acts on signals only; it tells its
children what to do over **channels** (socket pairs), with signals as a fallback. A
reload makes a new **cycle**, which takes over listening sockets and shared zones from
the running one.
Each worker is a single thread that runs an **event loop**: find the next timer, wait
in epoll, run the handlers of the events, expire timers, run posted events. Workers
share the listening sockets and compete for them with the **accept mutex**, which
lives in shared memory like the locks of all shared **zones**. Within a worker, handlers
run to completion, so concurrency there is between events, not between threads: what
a handler saw may be gone when the next one runs.
A **request** is read from its connection, goes through the **phases**, may have
**subrequests**, and is answered from files, from the **cache**, or from a server
through the **event pipe**; the **output chain** brings the response to the client.

| component | state | operations | what is hard |
|---|---|---|---|
| Shared-memory mutex (`core/ngx_shmtx.c`) | lock word (pid), count of sleepers, semaphore | trylock, lock, unlock, wake-up, forced unlock | several processes between any two atomic instructions; lost wake-ups; a holder that dies |
| Slab allocator (`core/ngx_slab.c`) | pages, slots, bit maps, links with types in their low bits | allocate, free | three layouts of a page, bit maps inside of the page they describe |
| Limits (`http/modules/ngx_http_limit_req_module.c`, `..._limit_conn_module.c`) | nodes with buckets and counters in several zones | look up, account, expire, clean up | a request is accounted in several zones with a mutex each; clocks of the workers differ; workers die |
| File cache (`http/ngx_http_file_cache.c`) | shared tree of entries with counts and `updating` | open, lock, update, free, expire, load | several workers, the manager and the loader; files outside of the mutex; crashes with references held |
| Master (`os/unix/ngx_process_cycle.c`, `ngx_process.c`) | process table, signal flags, `ngx_new_binary`, termination delay, `live` | spawn, reap, respawn, reload, reopen, upgrade, shut down | signals in any order and at any point, children dying at any time, failing `fork()`, long legal sequences of signals |
| Cycle (`core/ngx_cycle.c`) | sockets, zones, files, pid file of the running cycle and of its successor | open, take over, give up, roll back | failure at any step of a reload |
| Accepting (`event/ngx_event_accept.c`, `ngx_event.c`) | `ngx_accept_mutex_held`, `ngx_accept_disabled`, registration of the listening sockets, queue of accept events | take and leave the mutex, accept, refuse, retry after EMFILE | flag, lock word and registration are three pieces of state that must agree; descriptors run out |
| Connections and dispatch (`core/ngx_connection.c`, `event/modules/ngx_epoll_module.c`) | free list, queue of reusable connections, `instance` bits, interest lists, posted queue | get, close, drain, add and delete events, process a batch | a structure is freed and used again while events for it are in the batch |
| Timers (`event/ngx_event_timer.*`, `core/ngx_rbtree.*`) | a red-black tree with wrapping keys | add (lazily), delete, find, expire | the overflow of the clock, handlers that change the tree while it is being expired |
| Client connections (`http/ngx_http_request.c`, `ngx_http_request_body.c`) | header buffers, pipelined data, keepalive | read header and body, discard, keep alive, linger | requests share buffers; with edge-triggered events what is overlooked never comes again |
| Parsers (`http/ngx_http_parse.c`) | state between two pieces of input | request line, headers, chunks, URI | pieces of any size; a URI is decoded where it is read |
| Phases (`http/ngx_http_core_module.c`) | phase, location, counts of redirects | checkers, internal redirects, named locations, error pages, post_action | a request goes around again and again, and access must be checked each time |
| Subrequests (`http/ngx_http_request.c`, `ngx_http_postpone_filter_module.c`) | the tree of requests, postponed output, posted requests, reference count | create, output, finalize, terminate, write | output arrives in any order and must leave in document order; one count for many handlers |
| Upstream (`http/ngx_http_upstream.c`, round robin, keepalive) | weights and failures of the servers, tried servers and tries of a request, idle connections | choose, connect, send, read, next, finalize | failures at every step, stale idle connections, requests that probe a failed server at the same time, clients that leave |
| Event pipe (`event/ngx_event_pipe.c`) | raw, input, output, busy buffers, temporary file | read upstream, write downstream | both sides blocked; buffers that share memory |
| Output chain (`core/ngx_output_chain.c`, copy and write filters) | chains in, out, free, busy; what is held back | copy, send, update | all buffers held back as too small to send |
| Unbuffered and upgraded (`http/ngx_http_upstream.c`) | one buffer for each direction, `u->length` | read, filter, send, copy both ways | an end seen while data is still in a buffer |
| Open file cache (`core/ngx_open_file_cache.c`) | open descriptors with counts | open, expire, clean up | files that are replaced while they are open |
| Channels (`os/unix/ngx_channel.c`) | descriptors of all other processes in every worker | open, close, quit, terminate, reopen | messages that cross a respawn |
| Resolver (`core/ngx_resolver.c`) | names, waiting requests, queries | resolve, resend, expire, answer | late and duplicate answers |

The remaining parts (filters, content modules, protocols of the servers, mail, SPDY,
SSL, other event methods, containers, system wrappers) are listed in `PROJECT.json` with
the reason why they are left out.

How the parts interact: the master starts workers, and when a worker dies it unlocks
the accept mutex and the zones that the worker held (`ngx_unlock_mutexes()`, action
`ForceUnlock` of Shmtx); a worker in the accept phase uses the mutex, takes connection
structures and registers them with epoll; handlers set timers, whose tree bounds the
next wait; a connection hands its requests one by one to the phases, and the end of a
request gives the connection the next one; a request waits for its client through timers
and posted requests; a proxied request uses connection structures for its servers and
hands the connection over to the event pipe when the header of the response has been
read; the nodes of the file cache and of the limits are allocated from slabs, under the
mutex of their zone. The properties that make each part correct are the ones its runs
check (section 3); the list of hazards in `PROJECT.json` says for each of them at
which line it could go wrong.

## 2. Modules

`MC*` modules give TLC the instances. Where several modules are checked in one run, the
MC module is their sum: a variable `part` says which of them a behaviour is about. They
share nothing there, so this only saves runs. `*Proofs` modules contain theorems.

### Processes and shared memory

**Shmtx** One lock of shared memory. An action is one atomic instruction or one call of
the semaphore, so that all interleavings of several processes are covered: `Trylock`,
`Lock`, `Try` and `Spin` (the back-off loop), `Announce`, `Retry`, `Sleep` (before
`sem_wait()`), `Unlock`, `Wake`, `WakeCas`, `Post` (the loop of `ngx_shmtx_wakeup()`),
`Crash` and the master's `ForceUnlock`. `pc`, `spin` and `seen` are local variables
of a call. A worker may die at any of these points. Two ghosts record what it takes with it
when it is not the holder, for which the forced unlock does nothing: `astray`, a wake-up
that was on its way, until the next unlock; `lost`, the `sem_post()` for an announcement that
it has already taken off the counter.

**Slab** The pages of a pool with the links and types as they are in memory. A call is a
step, since the mutex is held throughout. `live` is what was handed out and is not in the
code.

**LimitReq**, **LimitConn** The handlers of the two modules, one step for each zone, that
is for each section under a mutex; the handlers of different workers interleave between
zones. A time is an age, counted back from now up to `MaxAge`, and a worker's clock may
lag. `leaked` is what workers that died never gave back. In LimitReq `keys` are values that
the look-up finds again; a value of more than 255 bytes, whose length does not fit into the
node, gets another node each time, named by the members of `long`.

**FileCache** The sections under the mutex of the zone are steps; what happens outside of
it (`open()`, `rename()`, `unlink()`, the request to the server) are steps of their own,
and a worker may die before any of them.

**Master** The loop of `ngx_master_process_cycle()`, one action for each branch in the
order of the code, with `ngx_reap_children()` going through the table slot by slot
and processes being spawned one by one. Signals arrive in `pending` and are delivered
in `sigsuspend()` only, as the mask of the loop has it. The children are modelled as
far as the master sees them: they read commands, exit, crash, and a worker that quits
takes as long as it likes.

**Cycle** `ngx_init_cycle()` step by step: zones, files, listening sockets, the pid file;
each system call may fail, and then the new cycle is rolled back. `os` is what the
kernel keeps: descriptors, mappings, addresses. Two ghosts, `spoilt` and `stale`, mark what
the code itself does not restore (section 4).

### Events

**AcceptLoop** The event loop of every worker restricted to new connections.
`Start`/`StandBack`/`Locked`/`NotLocked` are the beginning of a round, `EpollWait` the
events, `Accept*`, `Refuse` one call of the accept handler each, `Unlock`, `Close`,
`Retry` and `EndRound` the rest. The mutex is atomic here: that is what Shmtx shows.

**Connections** The connection structures of one worker: `Wait` returns a batch of events,
`DispatchRead`/`DispatchWrite` test each for staleness and call the handler or post
the event, `ProcessPosted` runs posted ones. `Open` drains the oldest reusable connections
when the free list is empty (`Drained`), and closing one unlinks its posted events and its
place in the queue of reusable connections (`Unposted`, `Without`). What a handler does is left open: any
sequence of at most `MaxOps` operations out of `Open`, `Close`, `AddEvent`, `DelEvent`,
`SetReusable` and `PostEvent`, on any connections. `serial` counts the uses of a
structure; it is not in the code and says which connection an event was meant for.

**RbTree** The red-black tree with its pointers, colours and sentinel; one action for an
insertion or a deletion and one for each round of the rebalancing loops. The mirrored
halves of the loops are one definition with a side as parameter. `order` is the
sorted sequence that the tree stands for.

**Timers** The timers of the event loop over that abstraction: the tree is the sequence
that RbTree maintains in order. Keys are taken modulo the range of `ngx_msec_t`;
`due` and `wish` are the times that the keys are meant to express.

### Requests

**HttpConnection** A connection from `ngx_http_init_connection()` to its end. What the
client sends is a sequence of units (pieces of lines, line breaks, pieces of a body); a
buffer holds the numbers of units, so that a buffer which is reused too early, or a body
that is taken for a request, shows. Every `recv()` and every parsed unit is a step.

**ComplexUri** `ngx_http_parse_complex_uri()`, one step for a character. `Normalized`
compares the result with a definition by segments.

**Phases** The array of handlers as `ngx_http_init_phase_handlers()` builds it and the
checkers that walk through it. What a script computes and which location a URI has are
choices.

**Subrequests** A main request and its subrequests over one client connection: creation,
the postpone filter, posted requests, the writer, the reference count, and every way
for a request to end. Content handlers are open: they emit, create subrequests, finish
or wait as they like.

**OpenFileCache** The descriptors that a worker keeps open. A call is a step, as in the
code; the files change between calls, and between `stat()` and `open()`.

**Upstream** Requests that are proxied by one worker to a group of servers. `pc` of a
request says what its handler does or waits for; `running` is the request whose
handler has not yet returned. Times are counted backwards from now. Three facts keep
the state small and are exact: `fails` above `max_fails` is never told apart from
`max_fails`; `checked` and `accessed` are never looked at while `fails` is zero, and
are both overwritten by the first failure; of the two only their order and the age of
`checked` are used.

### Responses

**ByteStream** What a response is to its client, in three actions: units are produced,
received in order, and the response ends, as complete only if nothing is missing; and it
does end. Nothing is missing means that all was received that is ever sent, or exactly what
was announced. This is the abstract specification that the following modules implement; the
refinement mappings are at their ends.

**EventPipe** The rounds of `ngx_event_pipe()` and the handlers that drive it. A raw buffer
holds numbers of units and a shadow is a range of it; what the client gets is what
memory or file holds when the unit is sent.

**OutputChain** The loop of `ngx_output_chain()`, the postpone and the write filter and
`ngx_http_writer()`. A buffer holds a range of units; the chains are sequences of
buffers.

**Unbuffered** A response with `proxy_buffering off`: one buffer that is filled, sent and
filled again, with the two input filters (by length and chunked) and the handlers of both
sides. A server may send less than its Content-Length, or more, which the code does not
check.

**Upgraded** A connection after "101 Switching Protocols": three buffers (what came with
the header, from the server, from the client) and one procedure that copies in either
direction until one side blocks.

Abstractions shared by all modules: memory allocation does not fail (in shared zones it
does), logging is left out, and a payload is either absent or an opaque value.

## 3. Runs

A run takes up to three minutes with two workers of TLC. Deadlock is checked except where
the system really stops: the master exits (`master_stop`, `master_orphans`), a
response has been delivered (`event_pipe`), and in `accept_stall` every worker may sleep for
ever. The parts of `shared`, `http` and `processes` either go round for ever or say by a
stuttering step when they have finished.

| run | instance | properties |
|---|---|---|
| `shared` | the mutex: 3 workers and the master, 4 calls of lock, 1 retry of the back-off loop, 1 death at any point; the slab allocator: pools of 2 and 4 pages of 16 bytes; limit_req: 2 workers, 2 zones, clocks that lag, a zone with room for one node, a value too long to be found again; limit_conn: 2 workers, 3 requests, 2 zones; cycles: 4 calls of `ngx_init_cycle()` with 4 configurations, any step of which may fail | `MutualExclusion`, `NoLostWakeup`, `Progress`; `Accounted`; `Held`, `Burst`; `Counted`; `Continuous` |
| `long_values` | the instance of `shared` | `OneNode` is violated, see section 4 |
| `processes` | the master: 1 worker, 4 signals out of HUP, USR2, WINCH, 1 death of a child, 1 failed fork; connections: 2 structures, each used up to 3 times, 2 operations for each handler; timers: 3 of them, a clock modulo 12, timeouts 1 and 4, lazy delay 2, wake-ups 1 too late | `FullStrength` (with `Tracked` and `Retired`); `ListsExact`, `StaleDetected`; `OnTime` |
| `master_stop` | 1 worker and a cache manager, 2 signals out of TERM, QUIT, HUP, USR1, USR2, 1 death | `Tracked`, `Retired`, `NoOrphans`, `StopCompletes` |
| `master_orphans` | 1 worker, 4 signals out of HUP, USR2, WINCH, QUIT | `NoOrphans` is violated, see section 4 |
| `accept` | 2 workers, 1 socket, all settings of accept_mutex and multi_accept, 1 EMFILE, 1 failure of epoll_ctl(), 1 worker that quits, 16 connections of which 14 are in use | `MutexReleased`, `NoHerd`, `NeverDeaf`, `Served` |
| `accept_stall` | 2 idle workers, EMFILE twice | `Served` is violated, see section 4 |
| `rbtree` | 6 nodes, keys modulo 6 | `SearchTree` |
| `http` | a URI of up to 8 characters; a connection with 7 streams of requests; a request through the phases with 3 locations, a named one, 10 changes and a counter of 4 bits; a main request with 3 subrequests; 2 users of 2 files through an open file cache for one entry | `Normalized`; `Framing`, `Attended`; `Guarded`, `Bounded`; `DocumentOrder`, `CountExact`, `AllEnd`; `Descriptors` |
| `upstream` | 2 requests at a time, any number in a row; blocks with two servers, with a backup server and a cache of idle connections, with a single server, with a server that is down | `Balanced`, `OneProbe`, `Exhaustive`, `Ends` (of which `TriesBounded` is a part), `NoStarvation` |
| `file_cache` | 2 workers, 2 keys, a zone for one or two nodes, the manager, the loader, 1 worker that dies | `CountExact`, `OneUpdater`, `Unblocked` |
| `event_pipe` | six configurations of the event pipe, four of the output chain, six responses without buffering (one longer than announced), three upgraded connections | `PipeSafe`, `EveryResponse` |

Where a module's `TypeOK` is not a property of its own it is a conjunct of the first invariant
of its run.

### Why the bounds are enough

- **shared** Three processes allow a holder, a process that has announced itself and one
  that wakes or steals in between; the fourth call lets one of them come back, and one
  retry gives rounds of the back-off loop before and between sleeps. One death is enough for
  each of its kinds: of the holder, of a process that wakes, of one that was woken. Pages of 16 bytes have
  chunks of all three types (small with the map inside, exact, big), and two pages are
  enough for lists with a neighbour, four for runs of pages that are split. Two zones with
  a mutex each are where handlers interleave; a zone with one node makes every allocation
  an expiry. Three names for the long value are one more than its zone has room for, so that
  a new node is always to be had. The ages 4 and 1 at which the model stops counting satisfy
  `LimitReqAssumption`: with the rates of the setups a node of that age has leaked away on
  every clock. Four calls of `ngx_init_cycle()` are a start, a reload, one that fails and the
  one after it.
- **processes**, **master_stop** The defects of interest need sequences of signals (USR2,
  WINCH, HUP, and then QUIT in `master_orphans`), hence four. SIGQUIT and SIGTERM, after which
  no workers are owed, and SIGUSR1 are in `master_stop`, where two signals are enough to
  stop the master in the middle of something else. Several workers add nothing to a table that is
  walked slot by slot except size, and reloads and respawns put several
  generations of workers into it anyway. The cache manager is in `master_stop`; the cache
  loader, which the code treats like it but does not respawn, is in no instance.
  Staleness of an event needs one structure that is closed and used again, and another
  one whose handler does it; three uses are what the one-bit instance number cannot tell
  from one. The clock of the timers wraps within the depth of the search; as time passes
  between two settings, the timeouts give differences below, at and above the lazy delay.
- **accept** 16 connections are the smallest number for which the threshold `N/8`
  is not trivial; 14 in use puts each worker within reach of both sides of
  it and of "worker_connections are not enough".
- **rbtree** Six nodes reach every case of both rebalancing loops, on both sides; a modulus
  of 6 lets every set of comparable keys wrap.
- **http** Eight characters hold two segments with dots and a quote between them. The
  streams are chosen for where the parts of requests meet the ends of the buffers: pieces
  that fill one exactly, that are too long by one, pipelined requests that begin in a large
  buffer. The counter of URI changes has its real limit and width, because what matters is
  that it wraps. Three subrequests allow nesting, siblings, and a parent that goes on
  writing between them, and reach the limit on simultaneous subrequests. Two files and a
  cache for one entry make the users compete for it.
- **upstream** Two concurrent requests are what a race for the probe of a failed server
  needs; the blocks cover weights that are not multiples of each other, `max_fails` of
  0, 1 and 2, the step from primary to backup servers, and an idle connection that
  another request has put there. Requests start again and again, so the weights run
  through all their cycles: the state space is finite because the weights are.
- **file_cache** Two workers and the manager are the most that can meet at one node: one
  updates it, one waits for it, one deletes it. A zone with fewer places than keys brings
  forced expiry, one with as many keeps nodes long enough to be reused.
- **event_pipe** Responses longer than all buffers together, with a socket that takes less
  than a buffer, so that both sides block in turn; a temporary file that is full, empty or
  forbidden.

### Fairness, and why the code justifies it

- **Shmtx** weak fairness for each process inside a call (the kernel schedules it), and for
  the master's reaction to a death. Nobody is obliged to call lock. `Progress` leaves out what
  the ghosts name: while a wake-up is astray nothing is promised, and of the processes that
  wait, as many may be overlooked for ever as died just before `sem_post()`.
- **Master** weak fairness of the loop and of the interval timer; strong fairness of
  SIGKILL. Nothing is assumed of a worker, except that in `StopCompletes` the graceful
  stop has the assumption in front: workers read their channels and finish some day.
- **AcceptLoop** weak fairness of each worker's round; a wait that has no timeout and no
  event is not fair. Strong fairness of the retry timer.
- **Subrequests** weak fairness of the event loop, which includes the write timer of the
  client; strong fairness of the content handlers: each ends some day. Without that
  nothing could be promised.
- **Upstream** handlers run to their end; every wait is bounded by a timer
  (`proxy_connect_timeout`, `proxy_send_timeout`, `proxy_read_timeout`), hence strong
  fairness of what ends a wait; and new requests come, which `NoStarvation` needs.
- **FileCache** weak fairness of every request: its timers and those of its connections
  bring it forward. Nothing is assumed of the manager and the loader.
- **EventPipe**, **OutputChain**, **Unbuffered**, **Upgraded** weak fairness of the worker
  and of its timers, of a client that reads, and of a server that closes some day. Where
  these do not come, timers end the request, which is in the model too.

The other modules (Slab, LimitReq, LimitConn, Cycle, Connections, Timers, RbTree,
HttpConnection, Phases, ComplexUri, OpenFileCache) are checked for safety only.

Each property is accompanied by a mutant: an operator (marked "Bug" in its module) that
changes one mapped definition the way a plausible bug would, and that makes TLC
report the property. None is used by a specification.

## 4. What the checks found

Three runs are expected to fail; the counterexamples are behaviours of the code.

- **`master_orphans`** (`os/unix/ngx_process_cycle.c:233`). After USR2 and WINCH the workers
  have gone and `live` is 0. HUP then restarts workers, because a new binary runs,
  and this branch does not set `live`. A QUIT that is delivered before the next
  SIGCHLD makes the master exit at line 186 and leave the workers. The manual
  says that SIGQUIT shuts nginx down gracefully.
- **`accept_stall`** (`event/ngx_event_accept.c:126`). After EMFILE a worker with the accept
  mutex removes its listening sockets and sets `ngx_accept_disabled` to 1. In the next
  round it only counts this down and does not ask for the bounded wait of
  `accept_mutex_delay`; an idle worker then waits without a timeout and without
  listening sockets. When all workers do so nobody accepts, until an unrelated event
  wakes one of them. `Served` in the run `accept` shows that workers with connections,
  and so with timers, do recover.
- **`long_values`** (`http/modules/ngx_http_limit_req_module.c:464`). The length of a value is
  stored as `(u_char) len`, though the field is a `u_short` (`:16`) and the handler takes
  values of up to 65535 bytes (`:204`, "is more than 65535 bytes"). The look-up compares a
  value with what the node has as its length (`:403`), so that a value of more than 255 bytes
  never finds its node: every request gets a new bucket and is never limited, and the zone
  fills up with nodes of one value. limit_conn, with the same cast, refuses such values.

Observations that no document contradicts, so that no run states them:

*Processes.*
- A failed upgrade leaves `NGX_INVALID_PID` in `ngx_new_binary`
  (`ngx_process_cycle.c:283`); from then on every HUP is taken for one during an upgrade
  and starts workers with the old configuration instead of reloading.
- A HUP with a configuration that is rejected ends the pass (`:246`); a USR1 that came
  with it waits for the next signal.
- If no process could be forked at start-up there is never a SIGCHLD, `live` keeps its
  initial value (`:146`) and SIGTERM does not end the master.
- After a respawn `ch.command` is still `NGX_CMD_OPEN_CHANNEL` (`:642`).
- `ngx_init_cycle()` frees an old zone whose size or tag has changed (`core/ngx_cycle.c:457`)
  before the new cycle is certain; it does not free the memory of new zones when it fails;
  the pid file may be exchanged before a step that fails; and the file of a UNIX socket
  that was bound anew stays behind, so that the next attempt meets EADDRINUSE.
  `ngx_reopen_files()` closes the descriptor after a failed `stat()`, `chown()` or `chmod()`
  without `continue`, which is harmless.

*Shared memory.*
- A worker that dies outside of its critical section, but inside a call of the mutex, is not the
  one the lock word names, so that `ngx_shmtx_force_unlock()` (`core/ngx_shmtx.c:154`) wakes
  nobody. If it died between the compare-and-set of its unlock (`:142`) and `sem_post()`
  (`:189`), or after `sem_wait()` had returned (`:110`) and before it took the mutex, others may
  sleep on a free mutex until somebody else locks and unlocks it. If it had already taken an
  announcement off `mtx->wait` (`:181`), the counter is one short from then on and one process
  may sleep for ever.
- A worker that dies between look-up and accounting leaks the count of its limit_req node; a node
  that is held at the tail of the queue stops all expiry. The counts of limit_conn
  that a dead worker had are never given back.
- Freed runs of pages are not merged with their neighbours in the slab allocator.
- `ngx_http_file_cache_exists()` inserts a node after a forced expiry without looking the key
  up again, so that there may be two nodes of one key; `CountExact` and `OneUpdater`
  hold nevertheless. `ngx_http_file_cache_update()` clears `updating` whoever has set it: this
  is the `breach` of `OneUpdater`.

*Events.*
- When the retry after EMFILE fails in `epoll_ctl()` (`ngx_event_accept.c:36`), without the
  mutex the remaining listening sockets are never added again.
- The instance number is one bit (`ngx_epoll_module.c:633`): an event is not recognised
  as stale when the structure was used twice within a batch.
  `StaleDetected` says exactly that.

*Requests.*
- The write timer that `ngx_http_writer()` sets while it waits for a subrequest
  (`ngx_http_request.c:2627`) can end the response although the client is not slow.
- `ngx_http_set_write_handler()` (`:2603`) closes the request when epoll fails and returns
  an error, upon which its callers terminate the same request.
- A client that closes while its body is discarded leaves a keepalive connection to its
  timer; the branch of `ngx_http_set_keepalive()` for a body that is being discarded
  is not reachable.
- `post_action` does not test `uri_changes` on its first call, so that the field of four bits
  may wrap; the number of hops is bounded nevertheless, as `Bounded` says. `access_code` is
  not reset by an internal redirect, which with `satisfy any` can only deny too much.
- In `ngx_http_parse_complex_uri()` a last segment `.` or `..` stays as it is; without
  `merge_slashes` the segment `..` removes an empty segment together with the one before;
  an incomplete quote at the end is dropped.
- In the open file cache a descriptor leaks when a file goes away, comes back and is opened
  again within one look-up (`core/ngx_open_file_cache.c:309`, `:399`); the constant
  `BackAgain` lets that happen and is FALSE in the run.

*Upstream and responses.*
- A server under probe is marked live when the request ends without a failure, also when
  its client went away before the server answered
  (`ngx_http_upstream_round_robin.c:591`).
- A stale idle connection gives its try back but leaves the server marked as tried and
  failed (`ngx_http_upstream.c:3315`, "TODO: inform balancer instead"): when the idle
  connections of all servers are stale, the request fails with "no live upstreams"
  although all servers are well. `Exhaustive` counts such a server as tried.
- For a group with one server, retries after stale idle connections are bounded
  by nothing but the supply of idle connections: the exception that `Ends` names.
- In this tree `ngx_http_upstream_test_connect()` (`ngx_http_upstream.c:1953`) always
  returns `NGX_OK`; a refused connection shows up at the first write or read.
- `ngx_event_pipe_write_to_downstream()` does not send what is busy when nothing is new and
  the busy size is not reached; a cacheable, empty response whose client has failed never gets
  the header of its file written.
- The output chain would stall if a buffer that is not the last of the request were held back
  below `postpone_output` with a single output buffer; no caller does that.
- Without buffering, the surplus of a response that is longer than its Content-Length is passed on
  if it was read before all of the announced part was sent; one byte too much makes `u->length`
  -1, which means "until the end" (`modules/ngx_http_proxy_module.c:1836`,
  `ngx_http_upstream.c:2998`), and such a response is complete when the server closes, while
  two bytes too much make it "prematurely closed". The event pipe, which ends a response that is
  longer than announced (`modules/ngx_http_proxy_module.c:1655`), is modelled for servers that
  keep their length. With a small `sendfile_max_chunk` the
  timer of one millisecond is taken for a client that timed out.
- For an upgraded connection the test for the end (`ngx_http_upstream.c:2725`) looks at
  `from_client` but not at what is left in `header_in`: data that the client has sent
  ahead is lost when it closes its side.

## 5. Proofs

TLAPS checks the theorems below for every value of the constants that satisfies the named
assumption of each module, which TLC evaluates in the runs. Every proof has the same shape:
an inductive invariant, one lemma per action (or per kind of action), and a last step that
combines them. All inductive invariants were checked with TLC on the instances first.

**SharedProofs** The three modules of the run `shared` that are proved; the theorems about
the limits are about `MCSpec`, the sum that the run checks.

*The mutex* (`ShmtxAssumption`: the processes are a finite set).
`TypeCorrect` and `MutualExclusionHolds` rest on `IInv == TypeOK /\ Owner /\ SeenPositive`.
Mutual exclusion alone is not inductive: one needs `Owner`, that whoever is in the critical
section, or died there, is the one the lock word names; then a process that finds the word
free and sets it cannot meet another owner, and an unlock by compare-and-set touches nobody
else's ownership. `SeenPositive` is needed for the type of `wait`: the wake-up decrements
the counter from a value that was tested to be positive. `NoLostWakeupHolds` needs
in addition `SemaphoreUsed` and `PaidFor`: the processes between their announcement and the end
of their sleep are at most the counter plus the posts of the semaphore plus those that are
going to post plus those that died just before that (`lost`). Then somebody who sleeps on a
free mutex beyond that number is still counted in `mtx->wait`, and the last unlock, or
whoever was woken since, is on its way or died there (`astray`). This is an argument about
cardinalities, hence the finite set.

*limit_conn* (`LimitConnAssumption`: finitely many workers and requests; no location
names a zone twice). `CountedHolds`, with
`ConnInv == ConnTypeOK /\ Walked /\ Exact /\ Limited`, and that a request which was
refused holds nothing once its handler has returned. `Walked` says that a request in the
middle of its limits has accounted exactly the zones before the one it is at; without it the
clean-up could give back what was never taken.

*limit_req* (`LimitReqAssumption`: finitely many workers; no location names a zone twice; a
node that is as old as the model can tell, `MaxAge`, has leaked away for every worker,
however far its clock lags). `RateInvariant`, `HeldHolds` and `BurstHolds`, for any number of
workers, zones, values and limits, and workers that die. `BurstHolds` is about values of up
to 255 bytes, the ones that the look-up finds again; the long ones are in the model, and the
zone is shared with them, but the code does not limit them (`OneNode`, section 4).
`ReqInv == ReqTypeOK /\ Walks /\ Counts` gives `Held`: a worker holds nodes only of zones it
has passed, and a count is that of the holders and of what dead workers left.
`Burst` is much harder, since every look-up that is not the last one sees the bucket without the
requests that other workers have looked up but not accounted, and since each of
them accounts with its own clock. What is inductive is a statement about sets of holders
(`Ahead`): for every nonempty set T of workers that hold the node there is one of them, w,
and a burst b of the zone with *what is left of the bucket on w's clock* + |T| requests
<= b + one request for each other worker. A worker that joins the holders has just tested
the bucket on its own clock (`FitsJoin`). A worker v that accounts leaves them and sets
the node to its clock; what another one sees afterwards differs by what leaks between the two
clocks, and the triangle inequality brings it back to what v or the other one saw
before (`FitsAccount`). A look-up in the last zone tests and accounts at once
(`FitsSettled`). When time passes all ages and lags grow together, except that of a
node at `MaxAge`, of which the assumption says that nothing is left (`FitsOld`).

**AcceptProofs** (`AcceptAssumption`).
`AcceptTypeCorrect`, `MutexReleasedHolds`, `PostedUnderMutexHolds`,
`NoHerdHolds`, `NeverDeafHolds`, for any number of workers, sockets, connections and
failures, with
`IInv == TypeOK /\ MutexReleased /\ Kept /\ Exclusive /\ Registered /\ NeverDeaf`.
`MutexReleased` says where the lock word may name a worker; its converse `Kept` says
that a worker with queued handlers and its flag set still has the mutex. The flag
stays set after the unlock, so neither follows from the flag alone: `post` is what tells
the round with the mutex from the next one. `Registered` extends `NoHerd` from
the moment of waiting to every step; `Exclusive` separates the two modes, since retry
timers exist only without the mutex and queued handlers only with it.

**ConnectionsProofs** (`ConnectionsAssumption`: finitely many structures).
`ConnectionsInvariant`, `ListsExactHolds` and `StaleDetectedHolds`, for any number of
structures, of operations of a handler, of uses, and of connections that
`ngx_drain_connections()` closes, with
`IInv == Sound(World) /\ LoopType /\ BatchSound /\ InHand`. `Sound` is a predicate on the
record of the lists, so that there is one lemma for each operation (`ClosedSound`,
`DrainedSound`, `TakenSound`, `RegisteredSound`...) and they compose as the operations do.
`ListsExact` alone is not inductive: that closing a connection leaves none of its posted
events behind, though the code unlinks one event of each kind, needs that an
event is never posted twice; that the free list is exact after a connection was taken
needs that its head is nowhere else in it. `StaleDetected` rests on `Parity` (the bit is the
parity of the number of uses) and `BatchSound` (an event of the batch has the bit of the
use it was reported for, and no structure goes back to an earlier use).

**FileCacheProofs** (`FileCacheAssumption`: finitely many requests, `NULL` is nothing else,
configurations with the types of the directives).
`FileCacheInvariant`, `CountExactHolds`, `OneUpdaterHolds`, for any number of workers, keys,
nodes and workers that die, with
`IInv == Typed /\ Queued /\ Held /\ Deleted /\ Counted /\ Ghosts /\ Updated` for each node.
`CountExact` is not inductive: that a look-up which finds no node may add one, or that a
request at "respond" may rename a file, depends on which places of the code have a node at
all (`RequestOK`), that a worker deletes only while it has no node of its own (`Deleted`;
this also bounds the count by the number of processes), and that a node outside of the tree
has left nothing behind (`Ghosts`). The heart are three lemmas about any step: `KeptStep`,
one node changes and stays; `FreedStep`, a node without users leaves the tree; `QuietStep`, no
node changes. Each action is then one of the three, and a worker that dies is proved by
itself. Lemmas of the queue (`UnlinkedRemoves`, `TouchedAdds`) say that removing and
inserting at the head keep every node in it once.

**MasterProofs** (`MasterAssumption`; the set of process ids may be infinite).
`MasterInvariant`, `TrackedHolds` and `RetiredHolds`, for any number of workers, slots, signals,
crashes and failures of `fork()`. `Tracked` is nearly inductive: the argument is that
only a slot that is free or that of a collected process is written, and that the pid of a new
process is in no slot. `Retired` is not: between the new configuration and the moment
the old processes are told, it is false, and what makes it true again is `SlotOK`, that a
slot which is not `exiting` has a process of the present configuration, or is one that
the reload in progress will tell, because it is not marked `JUST_SPAWN`; and that the
marks are all gone outside of that window. `Course` says where in the loop the master may be
while it shuts down: it never starts a process after it closed the listening sockets.
Where a first free slot or a lowest pid is chosen the proof uses that the naturals are
well-founded.

**PhasesProofs** (`PhasesAssumption`: handlers per phase are natural numbers, with at least one
for the content; the limit of URI changes fits into the field; named locations are apart).
`PhasesInvariant`, `GuardedHolds` and `BoundedHolds`, of `MCSpec`, the sum that the run `http`
checks. The first half of the invariant, `EngineOK`, is about the
array that `ngx_http_init_phase_handlers()` builds: which checker stands where, and that every
`next` leads past the phase it skips (lemma `InitPhaseHandlersOK`). The second, `RequestOK`,
says what is already certain at every place of the array: which look-up is
pending, what the access phase has decided, whether `try_files` has passed. `Limited`
counts hops against changes. `GuardedHolds` is about every configuration with any number of
handlers in each phase, which no instance of TLC could cover.

**HttpConnectionProofs** (`HttpConnectionAssumption`: no size is zero, since with
`client_body_buffer_size 0` the code would ask `recv()` for nothing; every client has at
least one unit to send, the one that deferred accept waits for).
`HttpConnectionInvariant` and `AttendedHolds`, of the same `MCSpec`, for every stream of requests, every client and
every size of the buffers, with `IInv == stream \in Streams /\ Kept(Now)`.
`Attended` speaks of the moments when the process is elsewhere; while a handler runs, what
carries over is `Sighted`: as long as something has arrived that was not read, `c->read`
is ready or an event is on its way, and the end of the client is seen only after
everything has been read. `Handled` says which request each handler meets, `Answers`
what is certain after the header. It is where the argument is subtle: a connection
that waits for a response with `ngx_http_block_reading()` may leave an event unnoticed only
because the end of the response looks at it again; a request whose body is discarded
has `r->count` two, and both ways to leave it (the body ends first, the response ends
first) give a state in which the other one still ends it; and a client that closed in
the middle of a body leaves nothing in the buffer, so that the request does not
continue with keepalive on a connection whose end nobody would notice. `Reading`
(there is a place to read into, and less is unfiltered than the filter waits for) makes
every `recv()` of a body ask for something, without which an end could not be told from a
full buffer. Every function from state to state has a lemma on what it returns (`RecvKeeps`,
`FinalizedLast`, `DiscardedKept`), every action one that combines them.

**UpstreamProofs** *The choice of servers* (`UpstreamAssumption`: at least one primary server, a
weight of at least 1 for each; any limits of failures, any servers down).
`UpstreamInvariant`, `BalancedHolds`, `OneProbeHolds`, `ExhaustiveHolds` and
`TriesBoundedHolds`, for any number of requests and servers, with
`AInv == IInv /\ AttemptsOK`, `IInv == ServersOK /\ RequestsOK /\ IdleOK`. `Balanced` is a
statement about sums over sets of any size, and `MapThenSumSet` is a fold over a function that is
defined by recursion on subsets. The module proves what it needs of it by hand:
`SubsetInduction` is induction on finite sets for a *set* of subsets, from the well-foundedness of
the naturals; with it the recursive function exists (`SumsExist`), any element may be taken out
first (`SumLess`), and what the best candidate pays is what the candidates got (`SumPaid`).
That there is a best candidate at all (`BestIn`) is the same induction. `OneProbe` needs that a
server was checked no earlier than it was asked, so that a check that is long enough ago
means a request that is long enough ago. `Exhaustive` needs `RequestOK`: a request that
looks for a server has at least as many tries as there are servers of its list it has not
tried, and one that has a server has one more, and two if it is the last of the
primary servers and there are backup servers. A failure of an idle connection gives
its try back, which only adds to that. So it is not the tries that bound a request but the
servers it has marked: `AttemptsOK` says that the servers it was sent to and those it has not
marked are together no more than there are, and that an only server, which is never marked,
is asked over a new connection once.

*The response without buffering* (`UnbufferedAssumption`: the types of the constants; a server
may send any number of units, whatever it announced). `UnbufferedImplementsStream`: such a response implements the safety part of
**ByteStream**, with `ResponseOK == ResponseTypes /\ InOrder /\ LengthExact /\ EndSeen`.
`InOrder` describes where every unit is between server and client: got, in the socket, busy,
in the buffer, not yet read. `LengthExact` relates `u->length` to what is left, below zero too: either it is what was
announced less what was read, or it has stopped at -1, which takes more than was announced;
then only the end of the server's stream makes the response complete. It is
what makes "complete" true.

What stays with TLC. Liveness and what rests on fairness or on ENABLED: `Progress`,
`StopCompletes`, `Served`, `AllEnd`, `Ends`, `NoStarvation`, `Unblocked`, and the liveness
part of `EveryResponse`. Properties that rest on induction over data: `SearchTree` (paths of
a tree), `DocumentOrder` (the document of a tree of requests), `Normalized` (segments of a
URI), and `Accounted` (runs of pages). Properties whose definitions use other folds or
`SelectSeq`, about which the provers know nothing; what was done for sums over sets would have to
be done for each. `NoOrphans`, which the code breaks in general
(section 4), and `FullStrength`, which needs a process table that never fills up. And the
safety properties `Continuous` (Cycle), `OnTime` (Timers), `CountExact` of Subrequests,
`Descriptors` (OpenFileCache) and `PipeSafe` (EventPipe), which have no proof (section 7), and `Framing` of HttpConnection, which says
what the bytes in the buffers are and is defined with `SelectSeq`.

## 6. What is not modelled

`PROJECT.json` lists every component with its status and the reason. Left out for good:
filters that convert data, modules whose handlers run to completion
without state of their own, containers, thin wrappers of system calls, code
that is not in the build (SSL, SPDY, mail, threads, AIO, other event methods). The
channels between processes appear in Master as sets of pending commands; the tables of
descriptors that each worker keeps are not modelled, since nobody but the master writes to
one. The resolver is not modelled.

Within the modelled components: failures of memory allocation outside of shared zones;
`timer_resolution`; deferred accept and rtsig; SSL and name resolution in
`ngx_http_upstream.c`; the size `sh->size` of the cache; in HttpConnection
`client_max_body_size` for chunked bodies, errors of `recv()` other than the end, the PROXY
protocol and HTTP/0.9; in Phases `limit_except`, the blocks of `if`, the URIs themselves and
`filter_finalize_request`; in LimitReq the delay; in OpenFileCache events of files
(kqueue) and the cleanup at the end of a process; in Cycle the test of a configuration,
operation as a single process, and the options of sockets.

## 7. Plan

Done: all modules of section 2; the proofs of section 5. What remains, most important
first:

1. **EventPipe**: `PipeSafe`. Where every unit is (raw, input, output, busy buffers, file) has to
   be stated for whole lists of buffers that share memory through their shadows.
2. **Subrequests**: `CountExact`, that the reference count of the main request is the number
   of those who will finalize it; the clauses are sums over the tree of requests.
3. **Timers**: `OnTime` from the order of the tree and the bound of the lazy delay. Modular
   arithmetic with a modulus that is a parameter is the hard part.
4. **Upgraded**: the refinement of ByteStream in both directions, on the lines of
   the second part of UpstreamProofs.
5. Shmtx shown to implement an abstract mutex, used by AcceptLoop; RbTree shown to
   implement the sequence that Timers uses.
