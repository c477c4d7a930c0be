----------------------------- MODULE AcceptLoop -----------------------------
(***************************************************************************)
(* The event loop of the workers as far as new connections are concerned:  *)
(* ngx_process_events_and_timers() (src/event/ngx_event.c) with             *)
(* ngx_trylock_accept_mutex() and ngx_event_accept()                        *)
(* (src/event/ngx_event_accept.c), for epoll.                               *)
(*                                                                         *)
(* Between two workers only the accept mutex and the backlogs of the shared *)
(* listening sockets are shared; everything else is private to a worker, so *)
(* each system call on a listening socket and each operation on the mutex   *)
(* is one step.                                                             *)
(***************************************************************************)
EXTENDS Integers, Sequences, FiniteSets, SequencesExt

CONSTANTS
  Workers,      \* the worker processes
  Sockets,      \* the listening sockets, shared by all workers
  NoWorker,     \* the lock word 0 of the accept mutex
  Configs,      \* the settings of accept_mutex and multi_accept that are tried
  N,            \* worker_connections
  Busy,         \* connections that each worker has from the start
  Backlog,      \* bound on the connections waiting on a listening socket
  MaxFails,     \* bound on the failures of accept() with EMFILE or ENFILE
  MaxEpollFails,\* bound on the failures of epoll_ctl()
  MaxQuits      \* bound on the workers that are told to quit

ASSUME AcceptAssumption ==
  /\ NoWorker \notin Workers
  /\ IsFiniteSet(Sockets)
  /\ Configs \subseteq [mutex : BOOLEAN, multi : BOOLEAN]
  /\ N \in Nat \ {0} /\ Busy \in 0..N
  /\ Backlog \in Nat /\ MaxFails \in Nat /\ MaxEpollFails \in Nat
  /\ MaxQuits \in Nat

VARIABLES
  mutex,     \* the lock word of ngx_accept_mutex
  backlog,   \* connections waiting on each listening socket
  pc,        \* where a worker is in its loop
  held,      \* ngx_accept_mutex_held
  disabled,  \* ngx_accept_disabled
  active,    \* listening sockets whose read event is in the epoll set
  post,      \* NGX_POST_EVENTS: accept handlers run after epoll_wait(), queued
  bounded,   \* epoll_wait() has the timeout accept_mutex_delay
  queue,     \* listening sockets that are ready, in the order of their handlers
  used,      \* connections in use
  retry,     \* listening sockets with a timer after EMFILE (no mutex)
  fails,     \* failures of accept() so far
  epollFails,\* failures of epoll_ctl() so far
  quitting,  \* workers that have closed their listening sockets
  conf       \* the configuration, which the workers only read

vars == <<mutex, backlog, pc, held, disabled, active, post, bounded, queue, used,
          retry, fails, epollFails, quitting, conf>>

UseMutex == conf.mutex     \* ngx_use_accept_mutex, at the start
MultiAccept == conf.multi  \* the directive multi_accept

Places == {"loop", "wait", "accept", "unlock", "events"}

TypeOK ==
  /\ mutex \in Workers \cup {NoWorker}
  /\ backlog \in [Sockets -> 0..Backlog]
  /\ pc \in [Workers -> Places]
  /\ held \in [Workers -> BOOLEAN]
  /\ disabled \in [Workers -> -N..N]
  /\ active \in [Workers -> SUBSET Sockets]
  /\ post \in [Workers -> BOOLEAN]
  /\ bounded \in [Workers -> BOOLEAN]
  /\ queue \in [Workers -> Seq(Sockets)]
  /\ used \in [Workers -> Busy..N]
  /\ retry \in [Workers -> SUBSET Sockets]
  /\ fails \in 0..MaxFails
  /\ epollFails \in 0..MaxEpollFails
  /\ quitting \subseteq Workers
  /\ conf \in Configs

(* ngx_event_process_init(): without the mutex the listening sockets are in the
   epoll set from the start. *)
Init ==
  /\ conf \in Configs
  /\ mutex = NoWorker
  /\ backlog = [l \in Sockets |-> 0]
  /\ pc = [w \in Workers |-> "loop"]
  /\ held = [w \in Workers |-> FALSE]
  /\ disabled = [w \in Workers |-> 0]
  /\ active = [w \in Workers |-> IF UseMutex THEN {} ELSE Sockets]
  /\ post = [w \in Workers |-> FALSE]
  /\ bounded = [w \in Workers |-> FALSE]
  /\ queue = [w \in Workers |-> <<>>]
  /\ used = [w \in Workers |-> Busy]
  /\ retry = [w \in Workers |-> {}]
  /\ fails = 0 /\ epollFails = 0 /\ quitting = {}

Goto(w, place) == pc' = [pc EXCEPT ![w] = place]
EpollFailure == epollFails < MaxEpollFails /\ epollFails' = epollFails + 1

(* A client connects: the kernel queues the connection. *)
Connect(l) ==
  /\ backlog[l] < Backlog
  /\ backlog' = [backlog EXCEPT ![l] = @ + 1]
  /\ UNCHANGED <<mutex, pc, held, disabled, active, post, bounded, queue, used,
                 retry, fails, epollFails, quitting, conf>>

-----------------------------------------------------------------------------
(* The head of the loop, up to epoll_wait().                               *)

EnterWait(w, isPost, isBounded) ==
  /\ Goto(w, "wait")
  /\ post' = [post EXCEPT ![w] = isPost]
  /\ bounded' = [bounded EXCEPT ![w] = isBounded]

(* ngx_use_accept_mutex, which ngx_close_listening_sockets() clears *)
UsesMutex(w) == UseMutex /\ w \notin quitting

(* The worker is told to quit: ngx_close_listening_sockets(), between two rounds. *)
Quit(w) ==
  /\ pc[w] = "loop" /\ w \notin quitting /\ Cardinality(quitting) < MaxQuits
  /\ quitting' = quitting \cup {w}
  /\ held' = [held EXCEPT ![w] = FALSE]
  /\ active' = [active EXCEPT ![w] = {}]
  /\ UNCHANGED <<mutex, backlog, pc, disabled, post, bounded, queue, used,
                 retry, fails, epollFails, conf>>

(* No mutex: straight to epoll_wait(). *)
Start(w) ==
  /\ pc[w] = "loop" /\ ~ UsesMutex(w)
  /\ EnterWait(w, FALSE, FALSE)
  /\ UNCHANGED <<mutex, backlog, held, disabled, active, queue, used, retry,
                 fails, epollFails, quitting, conf>>

\* Bug: a worker that stands back does not count its rounds
StandBackForGood(w) ==
  /\ pc[w] = "loop" /\ UsesMutex(w)
  /\ disabled[w] > 0
  /\ EnterWait(w, FALSE, FALSE)
  /\ UNCHANGED <<mutex, backlog, held, disabled, active, queue, used, retry, fails,
                 epollFails, quitting, conf>>

(* ngx_accept_disabled > 0: do not compete for the mutex in this round. *)
StandBack(w) ==
  /\ pc[w] = "loop" /\ UsesMutex(w)
  /\ disabled[w] > 0
  /\ disabled' = [disabled EXCEPT ![w] = @ - 1]
  /\ EnterWait(w, FALSE, FALSE)
  /\ UNCHANGED <<mutex, backlog, held, active, queue, used, retry, fails,
                 epollFails, quitting, conf>>

(* ngx_trylock_accept_mutex() gets the mutex.  ngx_enable_accept_events() runs
   unless the worker had the mutex in its last round; when it fails, some sockets
   may have been added, the mutex is given back and the round ends. *)
Locked(w) ==
  /\ pc[w] = "loop" /\ UsesMutex(w)
  /\ disabled[w] <= 0
  /\ mutex = NoWorker
  /\ \/ /\ mutex' = w
        /\ held' = [held EXCEPT ![w] = TRUE]
        /\ active' = [active EXCEPT ![w] = IF held[w] THEN @ ELSE Sockets]
        /\ EnterWait(w, TRUE, FALSE)
        /\ UNCHANGED epollFails
     \/ /\ ~ held[w]
        /\ EpollFailure
        /\ \E added \in SUBSET (Sockets \ active[w]) :
             /\ active[w] \cup added # Sockets
             /\ active' = [active EXCEPT ![w] = @ \cup added]
        /\ UNCHANGED <<mutex, held, pc, post, bounded>>
  /\ UNCHANGED <<backlog, disabled, queue, used, retry, fails, quitting, conf>>

\* Bug: a worker that lost the mutex keeps its listening sockets in epoll
NotLockedKeeps(w) ==
  /\ pc[w] = "loop" /\ UsesMutex(w)
  /\ disabled[w] <= 0
  /\ mutex # NoWorker
  /\ held' = [held EXCEPT ![w] = FALSE]
  /\ EnterWait(w, FALSE, TRUE)
  /\ UNCHANGED <<mutex, backlog, disabled, active, queue, used, retry, fails,
                 epollFails, quitting, conf>>

(* Another worker has it: ngx_disable_accept_events() if this worker had it
   before, and a bounded wait. *)
NotLocked(w) ==
  /\ pc[w] = "loop" /\ UsesMutex(w)
  /\ disabled[w] <= 0
  /\ mutex # NoWorker
  /\ \/ /\ held' = [held EXCEPT ![w] = FALSE]
        /\ active' = [active EXCEPT ![w] = IF held[w] THEN {} ELSE @]
        /\ EnterWait(w, FALSE, TRUE)
        /\ UNCHANGED epollFails
     \/ /\ held[w]
        /\ EpollFailure
        /\ \E left \in SUBSET active[w] :
             left # {} /\ active' = [active EXCEPT ![w] = left]
        /\ UNCHANGED <<held, pc, post, bounded>>
  /\ UNCHANGED <<mutex, backlog, disabled, queue, used, retry, fails, quitting,
                 conf>>

-----------------------------------------------------------------------------
(* Each connection in use has a timer, so epoll_wait() ends some time. *)
HasTimer(w) == used[w] > 0 \/ retry[w] # {}

Ready(w) == {l \in active[w] : backlog[l] > 0}

(* epoll_wait() returns, with all the listening sockets that are ready. *)
EpollWait(w) ==
  /\ pc[w] = "wait"
  /\ Ready(w) # {} \/ bounded[w] \/ HasTimer(w)
  /\ \E order \in SetToSeqs(Ready(w)) : queue' = [queue EXCEPT ![w] = order]
  /\ Goto(w, "accept")
  /\ UNCHANGED <<mutex, backlog, held, disabled, active, post, bounded, used,
                 retry, fails, epollFails, quitting, conf>>

(* The handler leaves its loop, and the next one is due. *)
Return(w) == queue' = [queue EXCEPT ![w] = Tail(@)]

Handling(w) == pc[w] = "accept" /\ queue[w] # <<>>

(* accept() finds nothing: another worker was faster, or all are taken. *)
AcceptNotReady(w) ==
  /\ Handling(w) /\ backlog[Head(queue[w])] = 0
  /\ Return(w)
  /\ UNCHANGED <<mutex, backlog, pc, held, disabled, active, post, bounded,
                 used, retry, fails, epollFails, quitting, conf>>

(* The value that accept() leaves in ngx_accept_disabled. *)
Disabled(w) == N \div 8 - (N - used[w])

(* accept() gives a connection; with multi_accept the handler goes on. *)
Accept(w) ==
  /\ Handling(w) /\ backlog[Head(queue[w])] > 0
  /\ used[w] < N
  /\ backlog' = [backlog EXCEPT ![Head(queue[w])] = @ - 1]
  /\ disabled' = [disabled EXCEPT ![w] = Disabled(w)]
  /\ used' = [used EXCEPT ![w] = @ + 1]
  /\ IF MultiAccept THEN UNCHANGED queue ELSE Return(w)
  /\ UNCHANGED <<mutex, pc, held, active, post, bounded, retry, fails,
                 epollFails, quitting, conf>>

(* The client is turned away: no connection structure is free, or (counted as
   a failure) there is no memory for its pool. *)
Refuse(w) ==
  /\ Handling(w) /\ backlog[Head(queue[w])] > 0
  /\ \/ used[w] = N /\ UNCHANGED fails
     \/ used[w] < N /\ fails < MaxFails /\ fails' = fails + 1
  /\ backlog' = [backlog EXCEPT ![Head(queue[w])] = @ - 1]
  /\ disabled' = [disabled EXCEPT ![w] = Disabled(w)]
  /\ Return(w)
  /\ UNCHANGED <<mutex, pc, held, active, post, bounded, used, retry,
                 epollFails, quitting, conf>>

(* ECONNABORTED: the client is gone; with multi_accept the handler goes on. *)
AcceptAborted(w) ==
  /\ Handling(w) /\ backlog[Head(queue[w])] > 0
  /\ backlog' = [backlog EXCEPT ![Head(queue[w])] = @ - 1]
  /\ IF MultiAccept THEN UNCHANGED queue ELSE Return(w)
  /\ UNCHANGED <<mutex, pc, held, disabled, active, post, bounded, used, retry,
                 fails, epollFails, quitting, conf>>

\* Bug: the flag is cleared and the mutex is forgotten
GiveUpForgets(w) ==
  \/ /\ UseMutex
     /\ held' = [held EXCEPT ![w] = FALSE]
     /\ disabled' = [disabled EXCEPT ![w] = 1]
     /\ UNCHANGED <<mutex, retry>>
  \/ /\ ~ UseMutex
     /\ retry' = [retry EXCEPT ![w] = @ \cup {Head(queue[w])}]
     /\ UNCHANGED <<mutex, held, disabled>>

(* After EMFILE: give up the mutex and stand back for a round, or, without a
   mutex, come back after accept_mutex_delay. *)
GiveUp(w) ==
  \/ /\ UseMutex
     /\ mutex' = IF held[w] /\ mutex = w THEN NoWorker ELSE mutex
     /\ held' = [held EXCEPT ![w] = FALSE]
     /\ disabled' = [disabled EXCEPT ![w] = 1]
     /\ UNCHANGED retry
  \/ /\ ~ UseMutex
     /\ retry' = [retry EXCEPT ![w] = @ \cup {Head(queue[w])}]
     /\ UNCHANGED <<mutex, held, disabled>>

(* accept() fails for want of descriptors: no more accept events.  When
   ngx_disable_accept_events() fails too, the handler just returns. *)
AcceptFails(w) ==
  /\ Handling(w) /\ backlog[Head(queue[w])] > 0
  /\ fails < MaxFails
  /\ fails' = fails + 1
  /\ \/ /\ active' = [active EXCEPT ![w] = {}]
        /\ GiveUp(w)
        /\ UNCHANGED epollFails
     \/ /\ EpollFailure
        /\ \E left \in SUBSET active[w] :
             left # {} /\ active' = [active EXCEPT ![w] = left]
        /\ UNCHANGED <<mutex, held, disabled, retry>>
  /\ Return(w)
  /\ UNCHANGED <<backlog, pc, post, bounded, used, quitting, conf>>

-----------------------------------------------------------------------------
AcceptDone(w) ==
  /\ pc[w] = "accept" /\ queue[w] = <<>>
  /\ Goto(w, "unlock")
  /\ UNCHANGED <<mutex, backlog, held, disabled, active, post, bounded, queue,
                 used, retry, fails, epollFails, quitting, conf>>

(* ngx_shmtx_unlock() for every worker with ngx_accept_mutex_held, which stays
   set; only the owner's compare-and-set succeeds. *)
Unlock(w) ==
  /\ pc[w] = "unlock"
  /\ mutex' = IF held[w] /\ mutex = w THEN NoWorker ELSE mutex
  /\ Goto(w, "events")
  /\ UNCHANGED <<backlog, held, disabled, active, post, bounded, queue, used,
                 retry, fails, epollFails, quitting, conf>>

(* Timers and posted events: they may close a connection. *)
Close(w) ==
  /\ pc[w] = "events" /\ used[w] > Busy
  /\ used' = [used EXCEPT ![w] = @ - 1]
  /\ UNCHANGED <<mutex, backlog, pc, held, disabled, active, post, bounded,
                 queue, retry, fails, epollFails, quitting, conf>>

\* Bug: the listening sockets are not put back into the epoll set
RetryOnce(w) ==
  /\ pc[w] = "events"
  /\ \E l \in retry[w] :
       /\ retry' = [retry EXCEPT ![w] = @ \ {l}]
       /\ queue' = [queue EXCEPT ![w] = <<l>>]
  /\ Goto(w, "accept")
  /\ UNCHANGED <<mutex, backlog, held, disabled, active, post, bounded, used,
                 fails, epollFails, quitting, conf>>

(* The timer set after EMFILE: ngx_event_accept() puts all listening sockets
   back and accepts from this one, or returns when that fails.  The timer of a
   socket that was closed in between finds nothing to do. *)
Retry(w) ==
  /\ pc[w] = "events"
  /\ \E l \in retry[w] :
       /\ retry' = [retry EXCEPT ![w] = @ \ {l}]
       /\ \/ /\ w \in quitting
             /\ UNCHANGED <<active, queue, pc, epollFails>>
          \/ /\ w \notin quitting
             /\ active' = [active EXCEPT ![w] = Sockets]
             /\ queue' = [queue EXCEPT ![w] = <<l>>]
             /\ Goto(w, "accept")
             /\ UNCHANGED epollFails
          \/ /\ w \notin quitting /\ EpollFailure
             /\ \E added \in SUBSET (Sockets \ active[w]) :
                  /\ active[w] \cup added # Sockets
                  /\ active' = [active EXCEPT ![w] = @ \cup added]
             /\ UNCHANGED <<queue, pc>>
  /\ UNCHANGED <<mutex, backlog, held, disabled, post, bounded, used, fails,
                 quitting, conf>>

(* The end of the round; expired timers have been handled. *)
EndRound(w) ==
  /\ pc[w] = "events"
  /\ Goto(w, "loop")
  /\ UNCHANGED <<mutex, backlog, held, disabled, active, post, bounded, queue,
                 used, retry, fails, epollFails, quitting, conf>>

Handler(w) == AcceptNotReady(w) \/ Accept(w) \/ AcceptAborted(w)
              \/ Refuse(w) \/ AcceptFails(w)

Round(w) ==
  \/ Start(w) \/ StandBack(w) \/ Locked(w) \/ NotLocked(w) \/ EpollWait(w)
  \/ Handler(w) \/ AcceptDone(w) \/ Unlock(w) \/ Retry(w) \/ EndRound(w)

Next ==
  \/ \E l \in Sockets : Connect(l)
  \/ \E w \in Workers : Round(w) \/ Close(w) \/ Quit(w)

(* Every worker runs, its timers expire, and a retry is not put off for ever. *)
Fairness == \A w \in Workers : WF_vars(Round(w)) /\ SF_vars(Retry(w))

SafetySpec == Init /\ [][Next]_vars

Spec == SafetySpec /\ Fairness

-----------------------------------------------------------------------------
(* The mutex is never held while timers and posted events run, nor from one
   round to the next: ngx_accept_mutex_held, which decides about the unlock,
   never loses track of the lock word. *)
MutexReleased ==
  \A w \in Workers : mutex = w => held[w] /\ pc[w] \in {"wait", "accept", "unlock"}

(* No thundering herd: while a worker waits in epoll_wait(), its listening
   sockets are in the epoll set only if it had the mutex last, and then all. *)
NoHerd ==
  UseMutex /\ epollFails = 0 =>
    \A w \in Workers : pc[w] = "wait" =>
      active[w] = (IF held[w] THEN Sockets ELSE {})

(* A queued accept handler runs under the mutex, unless an EMFILE in the same
   batch gave it up. *)
PostedUnderMutex ==
  \A w \in Workers : Handling(w) /\ post[w] /\ held[w] => mutex = w

(* Without the mutex a worker that has run out of descriptors is never deaf: its
   listening sockets are in the epoll set or the timer that puts them back runs. *)
NeverDeaf ==
  ~ UseMutex /\ epollFails = 0 =>
    \A w \in Workers \ quitting : active[w] = Sockets \/ retry[w] # {}

(* A waiting connection is accepted or refused, by some worker, unless epoll_ctl()
   has failed. *)
Served ==
  \A l \in Sockets : backlog[l] > 0 ~> (backlog[l] < Backlog \/ epollFails > 0)
=============================================================================
