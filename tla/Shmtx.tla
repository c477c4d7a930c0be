-------------------------------- MODULE Shmtx --------------------------------
(***************************************************************************)
(* The shared-memory mutex of nginx (src/core/ngx_shmtx.c, the build with  *)
(* atomic operations and POSIX semaphores), as the worker processes use it *)
(* and as the master repairs it when a worker dies.                        *)
(*                                                                         *)
(* Every atomic instruction, semaphore call and unprotected read of shared *)
(* memory is a step of its own, so TLC interleaves processes exactly where *)
(* the hardware may.  A process that dies keeps the lock word; the master  *)
(* collects it with waitpid() and calls ngx_shmtx_force_unlock().          *)
(***************************************************************************)
EXTENDS Naturals, FiniteSets

CONSTANTS
  Procs,      \* the worker processes; a process stands for its pid
  Master,     \* the master process, which never locks but repairs locks
  Free,       \* the lock word 0
  Semaphore,  \* mtx->semaphore: sem_init() succeeded
  Spins,      \* retries of the back-off loop (11 for spin = 2048, 0 on 1 CPU)
  MaxLocks,   \* bound on the number of calls of ngx_shmtx_lock()
  MaxCrashes  \* bound on the number of workers that die

ASSUME ShmtxAssumption ==
  /\ IsFiniteSet(Procs)
  /\ Master \notin Procs
  /\ Free \notin Procs \cup {Master}
  /\ Semaphore \in BOOLEAN
  /\ Spins \in Nat
  /\ MaxLocks \in Nat
  /\ MaxCrashes \in Nat

VARIABLES
  lock,     \* *mtx->lock: the pid of the holder, or Free
  wait,     \* *mtx->wait: processes that announced that they will sleep
  sem,      \* the value of the kernel semaphore mtx->sem
  pc,       \* where each process is in its call
  spin,     \* back-off retries left in the present round of ngx_shmtx_lock()
  seen,     \* the local variable wait of ngx_shmtx_wakeup()
  locks,    \* calls of ngx_shmtx_lock() so far
  crashes,  \* workers that died so far
  astray,   \* since the last unlock a worker died in a call, awake; not in the code
  lost      \* workers that died just before sem_post(); not in the code

ghosts == <<astray, lost>>
vars == <<lock, wait, sem, pc, spin, seen, locks, crashes, ghosts>>

All == Procs \cup {Master}

Locking  == {"try", "spin", "announce", "retry", "sleep"}
Waking   == {"wake", "cas", "post"}
OnTheWay == Waking \cup (Locking \ {"sleep"})

(* "dead": died as the holder, "gone": died elsewhere; the master has yet to notice. *)
Places   == {"idle", "held", "dead", "gone"} \cup Locking \cup Waking

TypeOK ==
  /\ lock \in Procs \cup {Free}
  /\ wait \in Nat
  /\ sem \in Nat
  /\ pc \in [All -> Places]
  /\ spin \in [Procs -> 0..Spins]
  /\ seen \in [All -> Nat]
  /\ locks \in 0..MaxLocks
  /\ crashes \in 0..MaxCrashes
  /\ astray \in BOOLEAN
  /\ lost \in Nat

(* ngx_shmtx_create(): the lock word and the counters start at zero. *)
Init ==
  /\ lock = Free
  /\ wait = 0
  /\ sem = 0
  /\ pc = [p \in All |-> "idle"]
  /\ spin = [p \in Procs |-> 0]
  /\ seen = [p \in All |-> 0]
  /\ locks = 0
  /\ crashes = 0
  /\ astray = FALSE
  /\ lost = 0

Goto(p, place) == pc' = [pc EXCEPT ![p] = place]

\* Bug: the lock word is written without the compare-and-set
AcquireBlind(p) == lock' = p /\ Goto(p, "held")

(* ngx_atomic_cmp_set(mtx->lock, 0, ngx_pid), guarded by a read of the lock. *)
Acquire(p) ==
  /\ lock = Free
  /\ lock' = p
  /\ Goto(p, "held")

-----------------------------------------------------------------------------
(* ngx_shmtx_trylock(): one attempt, no waiting. *)
Trylock(p) ==
  /\ pc[p] = "idle"
  /\ \/ Acquire(p)
     \/ lock # Free /\ UNCHANGED <<lock, pc>>
  /\ UNCHANGED <<wait, sem, spin, seen, locks, crashes, ghosts>>

(* A process calls ngx_shmtx_lock(). *)
Lock(p) ==
  /\ pc[p] = "idle"
  /\ locks < MaxLocks
  /\ locks' = locks + 1
  /\ Goto(p, "try")
  /\ UNCHANGED <<lock, wait, sem, spin, seen, crashes, ghosts>>

(* The first attempt of each round of the loop. *)
Try(p) ==
  /\ pc[p] = "try"
  /\ \/ Acquire(p) /\ UNCHANGED spin
     \/ /\ lock # Free
        /\ spin' = [spin EXCEPT ![p] = Spins]
        /\ Goto(p, "spin")
        /\ UNCHANGED lock
  /\ UNCHANGED <<wait, sem, seen, locks, crashes, ghosts>>

(* The back-off loop: try again until its retries are used up, then announce
   the sleep, or give up the CPU and start again when there is no semaphore. *)
Spin(p) ==
  /\ pc[p] = "spin"
  /\ \/ /\ spin[p] > 0
        /\ Acquire(p)
        /\ spin' = [spin EXCEPT ![p] = 0]
     \/ /\ spin[p] > 0
        /\ lock # Free
        /\ spin' = [spin EXCEPT ![p] = @ - 1]
        /\ UNCHANGED <<lock, pc>>
     \/ /\ spin[p] = 0
        /\ Goto(p, IF Semaphore THEN "announce" ELSE "try")
        /\ UNCHANGED <<lock, spin>>
  /\ UNCHANGED <<wait, sem, seen, locks, crashes, ghosts>>

(* ngx_atomic_fetch_add(mtx->wait, 1) *)
Announce(p) ==
  /\ pc[p] = "announce"
  /\ wait' = wait + 1
  /\ Goto(p, "retry")
  /\ UNCHANGED <<lock, sem, spin, seen, locks, crashes, ghosts>>

\* Bug: no second look at the lock word after the announcement
RetrySkipped(p) ==
  /\ pc[p] = "retry"
  /\ Goto(p, "sleep")
  /\ UNCHANGED <<lock, wait, sem, spin, seen, locks, crashes, ghosts>>

(* The last attempt before sleeping; when it succeeds the announcement stays
   in mtx->wait, and some later unlock posts the semaphore for nobody. *)
Retry(p) ==
  /\ pc[p] = "retry"
  /\ \/ Acquire(p)
     \/ lock # Free /\ Goto(p, "sleep") /\ UNCHANGED lock
  /\ UNCHANGED <<wait, sem, spin, seen, locks, crashes, ghosts>>

(* sem_wait() returns and the loop starts again; EINTR only repeats the call. *)
Sleep(p) ==
  /\ pc[p] = "sleep"
  /\ sem > 0
  /\ sem' = sem - 1
  /\ Goto(p, "try")
  /\ UNCHANGED <<lock, wait, spin, seen, locks, crashes, ghosts>>

-----------------------------------------------------------------------------
(* ngx_shmtx_unlock(): the compare-and-set by the holder; ngx_shmtx_wakeup()
   returns at once when there is no semaphore. *)
Unlock(p) ==
  /\ pc[p] = "held"
  /\ lock = p
  /\ lock' = Free
  /\ Goto(p, IF Semaphore THEN "wake" ELSE "idle")
  /\ astray' = FALSE
  /\ UNCHANGED <<wait, sem, spin, seen, locks, crashes, lost>>

(* ngx_shmtx_wakeup(): read mtx->wait; nobody announced a sleep: return. *)
Wake(p) ==
  /\ pc[p] = "wake"
  /\ seen' = [seen EXCEPT ![p] = wait]
  /\ Goto(p, IF wait = 0 THEN "idle" ELSE "cas")
  /\ UNCHANGED <<lock, wait, sem, spin, locks, crashes, ghosts>>

(* ngx_atomic_cmp_set(mtx->wait, wait, wait - 1): read again when it fails. *)
WakeCas(p) ==
  /\ pc[p] = "cas"
  /\ \/ /\ wait = seen[p]
        /\ wait' = wait - 1
        /\ Goto(p, "post")
     \/ /\ wait # seen[p]
        /\ Goto(p, "wake")
        /\ UNCHANGED wait
  /\ seen' = [seen EXCEPT ![p] = 0]
  /\ UNCHANGED <<lock, sem, spin, locks, crashes, ghosts>>

(* sem_post() *)
Post(p) ==
  /\ pc[p] = "post"
  /\ sem' = sem + 1
  /\ Goto(p, "idle")
  /\ UNCHANGED <<lock, wait, spin, seen, locks, crashes, ghosts>>

-----------------------------------------------------------------------------
(* A worker dies at any point.  What it was about to do for the others is not done by
   anybody, unless it was the holder: with a wake-up on its way, or with the post for
   an announcement that it has taken off mtx->wait. *)
Crash(p) ==
  /\ pc[p] \notin {"dead", "gone"}
  /\ crashes < MaxCrashes
  /\ crashes' = crashes + 1
  /\ Goto(p, IF pc[p] = "held" THEN "dead" ELSE "gone")
  /\ spin' = [spin EXCEPT ![p] = 0]
  /\ seen' = [seen EXCEPT ![p] = 0]
  /\ astray' = (astray \/ pc[p] \in OnTheWay)
  /\ lost' = IF pc[p] = "post" THEN lost + 1 ELSE lost
  /\ UNCHANGED <<lock, wait, sem, locks>>

\* Bug: the forced unlock wakes nobody
ForceUnlockSilent(p) ==
  /\ pc[Master] = "idle"
  /\ pc[p] \in {"dead", "gone"}
  /\ lock' = IF lock = p THEN Free ELSE lock
  /\ astray' = (astray /\ lock # p)
  /\ pc' = [pc EXCEPT ![p] = "idle"]
  /\ UNCHANGED <<wait, sem, spin, seen, locks, crashes, lost>>

(* ngx_process_get_status() -> ngx_unlock_mutexes() -> ngx_shmtx_force_unlock():
   the master collects the dead worker, clears the lock word if it names that
   pid, and then wakes a sleeper.  A new worker takes the place of the dead one. *)
ForceUnlock(p) ==
  /\ pc[Master] = "idle"
  /\ pc[p] \in {"dead", "gone"}
  /\ lock' = IF lock = p THEN Free ELSE lock
  /\ astray' = (astray /\ lock # p)
  /\ pc' = [pc EXCEPT ![p] = "idle",
                      ![Master] = IF lock = p /\ Semaphore THEN "wake" ELSE @]
  /\ UNCHANGED <<wait, sem, spin, seen, locks, crashes, lost>>

Step(p) ==
  \/ Try(p) \/ Spin(p) \/ Announce(p) \/ Retry(p) \/ Sleep(p) \/ Unlock(p)

WakeStep(p) == Wake(p) \/ WakeCas(p) \/ Post(p)

Next ==
  \/ \E p \in Procs : Trylock(p) \/ Lock(p) \/ Step(p) \/ Crash(p) \/ ForceUnlock(p)
  \/ \E p \in All : WakeStep(p)

(* A process that is inside a call keeps running, the holder finishes its
   critical section, and the master reaps its children. *)
Fairness ==
  /\ \A p \in Procs : WF_vars(Step(p)) /\ WF_vars(ForceUnlock(p))
  /\ \A p \in All : WF_vars(WakeStep(p))

SafetySpec == Init /\ [][Next]_vars

Spec == SafetySpec /\ Fairness

-----------------------------------------------------------------------------
(* Two processes never both own the mutex, and a dead holder still excludes
   the others until the master has cleared the lock word. *)
MutualExclusion ==
  \A p, q \in Procs :
    pc[p] \in {"held", "dead"} /\ pc[q] \in {"held", "dead"} => p = q

Asleep == {p \in Procs : pc[p] = "sleep"}

(* No lost wake-up: while the mutex is free and processes sleep in sem_wait(), the
   semaphore is posted or some process is still on its way to look at the lock word or
   at mtx->wait.  The forced unlock covers a worker that dies as the holder.  A worker
   that dies elsewhere may take a wake-up with it: until the next unlock, unless it
   died just before sem_post(), which leaves one sleeper behind for good. *)
NoLostWakeup ==
  lock = Free /\ Cardinality(Asleep) > lost =>
    \/ sem > 0
    \/ \E p \in All : pc[p] \in OnTheWay
    \/ astray

(* Of the processes that wait for the mutex, no more are overlooked for ever than died
   just before sem_post(): while more than those wait, and no wake-up went astray, some
   process gets the mutex. *)
Progress ==
  LET overdue == ~astray /\ Cardinality({p \in Procs : pc[p] \in Locking}) > lost
  IN  overdue ~> (~overdue \/ \E p \in Procs : pc[p] = "held")
==============================================================================
