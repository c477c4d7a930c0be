------------------------------- MODULE Master -------------------------------
(***************************************************************************)
(* The master process: ngx_master_process_cycle() and what it calls        *)
(* (src/os/unix/ngx_process_cycle.c, ngx_process.c; src/core/nginx.c), with *)
(* the children as it sees them.                                           *)
(*                                                                         *)
(* All signals are blocked except inside sigsuspend(), and the master       *)
(* learns about a child only in waitpid(), which its SIGCHLD handler calls. *)
(* A step of a child taken during the loop body therefore has the same      *)
(* effect as the same step taken at the next sigsuspend(), and children     *)
(* move only while pc = "suspend" (or after the master has gone).           *)
(***************************************************************************)
EXTENDS Integers, Sequences, FiniteSets, SequencesExt

CONSTANTS
  Workers,       \* worker_processes
  Manager,       \* a path has a cache manager
  Loader,        \* a path has a cache loader
  MaxProcesses,  \* NGX_MAX_PROCESSES
  Pids,          \* the process ids, 1..n
  Operator,      \* the signals that an administrator sends
  MaxSignals,    \* bound on the number of signals the administrator sends
  MaxCrashes,    \* bound on the number of children that die by themselves
  MaxForkFails   \* bound on the number of failures of fork() or socketpair()

ASSUME MasterAssumption ==
  /\ Workers \in Nat \ {0}
  /\ Manager \in BOOLEAN /\ Loader \in BOOLEAN
  /\ MaxProcesses \in Nat
  /\ Pids \subseteq Nat \ {0}
  /\ Operator \subseteq {"hup", "usr1", "usr2", "winch", "quit", "term"}
  /\ MaxSignals \in Nat /\ MaxCrashes \in Nat /\ MaxForkFails \in Nat

NoPid      == 0    \* ngx_new_binary == 0: no new binary was started
InvalidPid == -1   \* NGX_INVALID_PID; also the pid of a free slot
KillDelay  == 1000 \* a longer delay turns SIGTERM into SIGKILL

VARIABLES
  pc,         \* where the master is in its loop
  table,      \* ngx_processes[0 .. ngx_last_process - 1]
  flags,      \* the ngx_* flags that are set (ngx_reap, ngx_quit, ...)
  newBinary,  \* ngx_new_binary
  live,       \* local variable of the loop: some child is alive
  delay,      \* local variable of the loop: the termination delay, in ms
  sigio,      \* local variable of the loop: wake-ups to ignore
  armed,      \* the interval timer is running
  listening,  \* the master still has its listening sockets
  gen,        \* the configuration in use: the number of reloads
  todo,       \* the processes that the present branch has still to spawn
  after,      \* where the loop goes on when they are spawned
  index,      \* the slot that ngx_reap_children() looks at
  pending,    \* signals sent to the master and not yet delivered
  kid,        \* the child processes, by pid
  sent,       \* signals of the administrator so far
  crashes,    \* children that died of a signal so far
  fatals,     \* children that exited with the fatal code 2 so far
  forkFails   \* failures of fork() or socketpair() so far

loopVars  == <<live, delay, sigio, armed, listening, gen>>
spawnVars == <<todo, after, index>>
envVars   == <<sent, crashes, fatals>>
vars == <<pc, table, flags, newBinary, loopVars, spawnVars, pending, kid,
          envVars, forkFails>>

Roles    == {"worker", "manager", "loader", "binary"}
States   == {"none", "run", "drain", "zombie", "fatal"}
Commands == {"quit", "term", "kill", "reopen"}
Signals  == {"hup", "usr1", "usr2", "winch", "quit", "term", "alrm", "io", "chld"}
Flags    == {"reap", "terminate", "quit", "reconfigure", "restart", "reopen",
             "change_binary", "noaccept", "noaccepting", "sigalrm"}
Slot     == [pid : Pids \cup {InvalidPid}, role : Roles, exiting : BOOLEAN,
             exited : BOOLEAN, detached : BOOLEAN, respawn : BOOLEAN,
             just : BOOLEAN]
Kid      == [st : States, role : Roles, gen : Nat, mail : SUBSET Commands]
Job      == [role : Roles, respawn : BOOLEAN, just : BOOLEAN, detached : BOOLEAN]

TypeOK ==
  /\ pc \in {"top", "suspend", "reap", "decide", "spawn", "signal", "restart",
             "reopen", "change", "noaccept", "exited"}
  /\ table \in Seq(Slot) /\ Len(table) <= MaxProcesses
  /\ flags \subseteq Flags
  /\ newBinary \in Pids \cup {NoPid, InvalidPid}
  /\ live \in BOOLEAN /\ armed \in BOOLEAN /\ listening \in BOOLEAN
  /\ delay \in {0, 50, 100, 200, 400, 800, 1600}
  /\ sigio \in 0..Workers + 2
  /\ gen \in 0..MaxSignals
  /\ todo \in Seq(Job)
  /\ after \in {"top", "signal", "reopen"}
  /\ index \in 0..MaxProcesses + 1
  /\ pending \subseteq Signals
  /\ kid \in [Pids -> Kid]
  /\ sent \in 0..MaxSignals
  /\ crashes \in 0..MaxCrashes /\ fatals \in 0..MaxCrashes
  /\ forkFails \in 0..MaxForkFails

NoKid == [st |-> "none", role |-> "worker", gen |-> 0, mail |-> {}]
Alive(p) == kid[p].st \in {"run", "drain"}

-----------------------------------------------------------------------------
(* The processes that ngx_start_worker_processes() and
   ngx_start_cache_manager_processes() spawn, in their order; "just" is the
   JUST_ variant of the respawn type, which the reload uses. *)
WorkerJobs(just) ==
  [n \in 1..Workers |->
     [role |-> "worker", respawn |-> TRUE, just |-> just, detached |-> FALSE]]

CacheJobs(just) ==
  (IF Manager
     THEN <<[role |-> "manager", respawn |-> TRUE, just |-> just, detached |-> FALSE]>>
     ELSE <<>>)
  \o
  (IF Manager /\ Loader
     THEN <<[role |-> "loader", respawn |-> FALSE, just |-> just, detached |-> FALSE]>>
     ELSE <<>>)

StartAll(just) == WorkerJobs(just) \o CacheJobs(just)

Init ==
  /\ pc = "spawn"
  /\ table = <<>>
  /\ flags = {}
  /\ newBinary = NoPid
  /\ live = TRUE
  /\ delay = 0 /\ sigio = 0
  /\ armed = FALSE
  /\ listening = TRUE
  /\ gen = 0
  /\ todo = StartAll(FALSE) /\ after = "top" /\ index = 0
  /\ pending = {}
  /\ kid = [p \in Pids |-> NoKid]
  /\ sent = 0 /\ crashes = 0 /\ fatals = 0 /\ forkFails = 0

-----------------------------------------------------------------------------
(* fork(): the lowest pid that neither a process nor a slot uses. *)
Unused == {p \in Pids : kid[p].st = "none" /\ \A s \in DOMAIN table : table[s].pid # p}
NewPid == CHOOSE p \in Unused : \A q \in Unused : p <= q

Fork(p, role) == kid' = [kid EXCEPT ![p] =
                           [st |-> "run", role |-> role, gen |-> gen, mail |-> {}]]

(* The slot that ngx_spawn_process() takes: the first free one, or a new one. *)
FreeSlot ==
  LET free == {s \in DOMAIN table : table[s].pid = InvalidPid}
  IN  IF free = {} THEN Len(table) + 1 ELSE CHOOSE s \in free : \A r \in free : s <= r

(* The new process, in its slot; ngx_last_process grows with a new slot. *)
Enter(job) ==
  LET slot == [pid |-> NewPid, role |-> job.role, exiting |-> FALSE, exited |-> FALSE,
               detached |-> job.detached, respawn |-> job.respawn, just |-> job.just]
  IN  table' = IF FreeSlot > Len(table) THEN Append(table, slot)
                                        ELSE [table EXCEPT ![FreeSlot] = slot]

ForkFailure == forkFails < MaxForkFails /\ forkFails' = forkFails + 1

(* ngx_spawn_process() for a new process: it enters the table, unless there is
   no slot left or socketpair() or fork() fails; the callers do not look. *)
Spawn ==
  /\ pc = "spawn" /\ todo # <<>>
  /\ todo' = Tail(todo)
  /\ \/ /\ FreeSlot <= MaxProcesses
        /\ Unused # {}
        /\ Fork(NewPid, Head(todo).role)
        /\ Enter(Head(todo))
        /\ UNCHANGED forkFails
     \/ FreeSlot > MaxProcesses /\ UNCHANGED <<table, kid, forkFails>>
     \/ ForkFailure /\ UNCHANGED <<table, kid>>
  /\ UNCHANGED <<pc, flags, newBinary, loopVars, after, index, pending, envVars>>

SpawnDone ==
  /\ pc = "spawn" /\ todo = <<>>
  /\ pc' = after
  /\ after' = "top"
  /\ UNCHANGED <<table, flags, newBinary, loopVars, todo, index, pending, kid,
                 envVars, forkFails>>

-----------------------------------------------------------------------------
(* The top of the loop: in a termination cycle double the delay when the alarm
   went off, and set the timer again.  Doubling stops at the first value that
   means SIGKILL. *)
Top ==
  /\ pc = "top"
  /\ pc' = "suspend"
  /\ \/ /\ delay > 0
        /\ armed' = TRUE
        /\ \/ /\ "sigalrm" \in flags
              /\ sigio' = 0
              /\ delay' = IF delay > KillDelay THEN delay ELSE delay * 2
              /\ flags' = flags \ {"sigalrm"}
           \/ "sigalrm" \notin flags /\ UNCHANGED <<sigio, delay, flags>>
     \/ delay = 0 /\ UNCHANGED <<armed, sigio, delay, flags>>
  /\ UNCHANGED <<table, newBinary, live, listening, gen, spawnVars, pending,
                 kid, envVars, forkFails>>

(* ngx_signal_handler(), one flag for each signal.  SIGUSR2 is ignored while
   the new binary runs. *)
FlagOf == [quit |-> "quit", term |-> "terminate", winch |-> "noaccept",
           hup |-> "reconfigure", usr1 |-> "reopen", usr2 |-> "change_binary",
           alrm |-> "sigalrm", chld |-> "reap"]

Raised ==
  {FlagOf[sig] : sig \in pending \ ({"io"} \cup IF newBinary > 0 THEN {"usr2"} ELSE {})}

(* ngx_process_get_status(): collect every zombie, note it in its slot, and do
   not respawn a process that left with the fatal code 2. *)
Zombies == {p \in Pids : kid[p].st \in {"zombie", "fatal"}}

Collected ==
  [s \in DOMAIN table |->
     IF table[s].pid \in Zombies
       THEN [table[s] EXCEPT !.exited = TRUE,
                             !.respawn = @ /\ kid[table[s].pid].st # "fatal"]
       ELSE table[s]]

(* sigsuspend() returns: the handlers of all pending signals have run.  ngx_reap
   is cleared on the way to ngx_reap_children(). *)
Deliver ==
  /\ pc = "suspend"
  /\ pending # {}
  /\ pending' = {}
  /\ \/ /\ "chld" \in pending
        /\ table' = Collected
        /\ kid' = [p \in Pids |-> IF p \in Zombies THEN NoKid ELSE kid[p]]
     \/ "chld" \notin pending /\ UNCHANGED <<table, kid>>
  /\ LET raised == flags \cup Raised
     IN  /\ flags' = raised \ {"reap"}
         /\ pc' = IF "reap" \in raised THEN "reap" ELSE "decide"
         /\ index' = IF "reap" \in raised THEN 1 ELSE 0
         /\ live' = IF "reap" \in raised THEN FALSE ELSE live
  /\ UNCHANGED <<newBinary, delay, sigio, armed, listening, gen, todo, after,
                 envVars, forkFails>>

-----------------------------------------------------------------------------
\* Bug: a child that was told to quit is not counted as alive
CountsUnlessExiting(s) == ~ table[s].exiting /\ ~ table[s].detached

(* A child that has not exited keeps the master alive, unless it is detached. *)
Counts(s) == table[s].exiting \/ ~ table[s].detached

Vacant == [pid |-> InvalidPid, role |-> "worker", exiting |-> FALSE, exited |-> FALSE,
           detached |-> FALSE, respawn |-> FALSE, just |-> FALSE]

\* Bug: the table is shortened whichever slot is given back
VacateLast(s) == Front(table)

(* The slot of an exited child is given back: the last one shortens the table,
   and another one is marked free (what else is in it is never read). *)
Vacate(s) ==
  IF s = Len(table) THEN Front(table) ELSE [table EXCEPT ![s] = Vacant]

Shutdown == flags \cap {"terminate", "quit"} # {}

Respawns(s) == table[s].respawn /\ ~ table[s].exiting /\ ~ Shutdown

\* Bug: the end of the new binary does not bring the workers back
WithoutBinaryIdle == flags \ {"noaccepting"}

(* The new binary is gone: the workers that SIGWINCH stopped come back. *)
WithoutBinary ==
  IF "noaccepting" \in flags THEN (flags \ {"noaccepting"}) \cup {"restart"}
                             ELSE flags

(* ngx_reap_children(), one slot: respawn an exited child, or give back its
   slot and note the end of the new binary; count the ones that still run. *)
ReapSlot ==
  /\ pc = "reap" /\ index <= Len(table)
  /\ index' = index + 1
  /\ LET slot == table[index] IN
     \/ /\ slot.pid = InvalidPid
        /\ UNCHANGED <<table, flags, newBinary, live, kid, forkFails>>
     \/ /\ slot.pid # InvalidPid /\ slot.exited /\ Respawns(index)
        /\ \/ /\ Unused # {}
              /\ Fork(NewPid, slot.role)
              /\ table' = [table EXCEPT ![index].pid = NewPid, ![index].exited = FALSE]
              /\ live' = TRUE
              /\ UNCHANGED forkFails
           \/ ForkFailure /\ UNCHANGED <<table, live, kid>>
        /\ UNCHANGED <<flags, newBinary>>
     \/ /\ slot.pid # InvalidPid /\ slot.exited /\ ~ Respawns(index)
        /\ table' = Vacate(index)
        /\ \/ /\ slot.pid = newBinary
              /\ newBinary' = NoPid
              /\ flags' = WithoutBinary
           \/ slot.pid # newBinary /\ UNCHANGED <<flags, newBinary>>
        /\ UNCHANGED <<live, kid, forkFails>>
     \/ /\ slot.pid # InvalidPid /\ ~ slot.exited
        /\ live' = (live \/ Counts(index))
        /\ UNCHANGED <<table, flags, newBinary, kid, forkFails>>
  /\ UNCHANGED <<pc, delay, sigio, armed, listening, gen, todo, after, pending,
                 envVars>>

ReapDone ==
  /\ pc = "reap" /\ index > Len(table)
  /\ pc' = "decide"
  /\ index' = 0
  /\ UNCHANGED <<table, flags, newBinary, loopVars, todo, after, pending, kid,
                 envVars, forkFails>>

-----------------------------------------------------------------------------
(* kill() answers ESRCH for a process that is already collected, as after a
   failed respawn. *)
Gone(s) == kid[table[s].pid].st = "none"

(* The slots that ngx_signal_worker_processes() does not pass over. *)
Addressed(cmd) ==
  {s \in DOMAIN table : /\ ~ table[s].detached /\ table[s].pid # InvalidPid
                        /\ ~ table[s].just
                        /\ ~ (table[s].exiting /\ cmd = "quit")}

(* What becomes of a slot: a process that the reload has just started loses that
   mark, and a process that is told remembers it, except that a reopen leaves no
   trace. *)
Told(s, cmd) ==
  IF s \notin Addressed(cmd)
    THEN [table[s] EXCEPT !.just = @ /\ (table[s].detached \/ table[s].pid = InvalidPid)]
  ELSE IF Gone(s) THEN [table[s] EXCEPT !.exited = TRUE, !.exiting = FALSE]
  ELSE [table[s] EXCEPT !.exiting = @ \/ cmd # "reopen"]

(* The command goes through the channel, or as a signal when the channel is
   full; SIGKILL has no command and is always a signal. *)
SignalWorkers(cmd) ==
  /\ table' = [s \in DOMAIN table |-> Told(s, cmd)]
  /\ kid' = [p \in Pids |->
               IF Alive(p) /\ \E s \in Addressed(cmd) : table[s].pid = p
                 THEN [kid[p] EXCEPT !.mail = @ \cup {cmd}]
                 ELSE kid[p]]

Esrch(cmd) == \E s \in Addressed(cmd) : Gone(s)

(* ngx_master_process_exit() *)
Exit ==
  /\ pc = "decide" /\ ~ live /\ Shutdown
  /\ pc' = "exited"
  /\ armed' = FALSE
  /\ listening' = FALSE
  /\ UNCHANGED <<table, flags, newBinary, live, delay, sigio, gen, spawnVars,
                 pending, kid, envVars, forkFails>>

Continuing == live \/ ~ Shutdown

\* Bug: the termination never becomes a SIGKILL
StopCommandMild == "term"

(* The signal of a termination cycle. *)
StopCommand == IF delay > KillDelay THEN "kill" ELSE "term"

(* SIGTERM: tell the workers at once, then again whenever the alarm has gone
   off or as many wake-ups as there are processes have passed. *)
Terminate ==
  /\ pc = "decide" /\ Continuing /\ "terminate" \in flags
  /\ pc' = "top"
  /\ delay' = IF delay = 0 THEN 50 ELSE delay
  /\ \/ /\ sigio > 0
        /\ sigio' = sigio - 1
        /\ UNCHANGED <<table, kid, flags>>
     \/ /\ sigio = 0
        /\ sigio' = Workers + 2
        /\ SignalWorkers(StopCommand)
        /\ flags' = IF Esrch(StopCommand) THEN flags \cup {"reap"} ELSE flags
  /\ UNCHANGED <<newBinary, live, armed, listening, gen, spawnVars, pending,
                 envVars, forkFails>>

(* SIGQUIT: tell the workers, and close the listening sockets. *)
Quit ==
  /\ pc = "decide" /\ Continuing
  /\ "terminate" \notin flags /\ "quit" \in flags
  /\ pc' = "top"
  /\ SignalWorkers("quit")
  /\ flags' = IF Esrch("quit") THEN flags \cup {"reap"} ELSE flags
  /\ listening' = FALSE
  /\ UNCHANGED <<newBinary, live, delay, sigio, armed, gen, spawnVars, pending,
                 envVars, forkFails>>

(* SIGHUP.  While a new binary runs the old workers are started again with the
   old configuration.  Otherwise ngx_init_cycle() fails, which ends the pass, or
   new workers are started and the older ones told to quit. *)
ReconfigureOldBinary ==
  /\ pc = "decide" /\ ~ Shutdown /\ "reconfigure" \in flags
  /\ newBinary # NoPid
  /\ flags' = flags \ {"reconfigure", "noaccepting"}
  /\ todo' = StartAll(FALSE)
  /\ pc' = "spawn" /\ after' = "top"
  /\ UNCHANGED <<table, newBinary, loopVars, index, pending, kid, envVars, forkFails>>

ReconfigureFails ==
  /\ pc = "decide" /\ ~ Shutdown /\ "reconfigure" \in flags
  /\ newBinary = NoPid
  /\ flags' = flags \ {"reconfigure"}
  /\ pc' = "top"
  /\ UNCHANGED <<table, newBinary, loopVars, spawnVars, pending, kid, envVars,
                 forkFails>>

Reconfigure ==
  /\ pc = "decide" /\ ~ Shutdown /\ "reconfigure" \in flags
  /\ newBinary = NoPid
  /\ flags' = flags \ {"reconfigure"}
  /\ gen' = gen + 1
  /\ todo' = StartAll(TRUE)
  /\ pc' = "spawn" /\ after' = "signal"
  /\ UNCHANGED <<table, newBinary, live, delay, sigio, armed, listening, index,
                 pending, kid, envVars, forkFails>>

\* Bug: the old workers are not told
RetireOldSkipped ==
  /\ pc = "signal"
  /\ pc' = "restart"
  /\ live' = TRUE
  /\ table' = [s \in DOMAIN table |-> [table[s] EXCEPT !.just = FALSE]]
  /\ UNCHANGED <<newBinary, delay, sigio, armed, listening, gen, spawnVars,
                 pending, envVars, forkFails, kid, flags>>

(* The end of a successful reload. *)
RetireOld ==
  /\ pc = "signal"
  /\ pc' = "restart"
  /\ live' = TRUE
  /\ SignalWorkers("quit")
  /\ flags' = IF Esrch("quit") THEN flags \cup {"reap"} ELSE flags
  /\ UNCHANGED <<newBinary, delay, sigio, armed, listening, gen, spawnVars,
                 pending, envVars, forkFails>>

NoReconfigure ==
  /\ pc = "decide" /\ ~ Shutdown /\ "reconfigure" \notin flags
  /\ pc' = "restart"
  /\ UNCHANGED <<table, flags, newBinary, loopVars, spawnVars, pending, kid,
                 envVars, forkFails>>

(* ngx_restart: the new binary is gone, and the workers are needed again. *)
Restart ==
  /\ pc = "restart"
  /\ \/ /\ "restart" \in flags
        /\ flags' = flags \ {"restart"}
        /\ todo' = StartAll(FALSE)
        /\ pc' = "spawn" /\ after' = "reopen"
        /\ live' = TRUE
     \/ /\ "restart" \notin flags
        /\ pc' = "reopen"
        /\ UNCHANGED <<flags, todo, after, live>>
  /\ UNCHANGED <<table, newBinary, delay, sigio, armed, listening, gen, index,
                 pending, kid, envVars, forkFails>>

(* SIGUSR1: reopen the logs here and in the workers. *)
Reopen ==
  /\ pc = "reopen"
  /\ pc' = "change"
  /\ \/ /\ "reopen" \in flags
        /\ SignalWorkers("reopen")
        /\ flags' = (flags \ {"reopen"}) \cup
                     (IF Esrch("reopen") THEN {"reap"} ELSE {})
     \/ "reopen" \notin flags /\ UNCHANGED <<table, kid, flags>>
  /\ UNCHANGED <<newBinary, loopVars, spawnVars, pending, envVars, forkFails>>

(* SIGUSR2, ngx_exec_new_binary(): a detached child, or NGX_INVALID_PID when it
   could not be started (the pid file, the slots, or fork()). *)
ChangeBinary ==
  /\ pc = "change"
  /\ pc' = "noaccept"
  /\ \/ /\ "change_binary" \in flags
        /\ flags' = flags \ {"change_binary"}
        /\ \/ /\ FreeSlot <= MaxProcesses /\ Unused # {}
              /\ Fork(NewPid, "binary")
              /\ newBinary' = NewPid
              /\ Enter([role |-> "binary", respawn |-> FALSE, just |-> FALSE,
                        detached |-> TRUE])
              /\ UNCHANGED forkFails
           \/ ForkFailure /\ newBinary' = InvalidPid /\ UNCHANGED <<table, kid>>
     \/ "change_binary" \notin flags /\ UNCHANGED <<flags, newBinary, table, kid, forkFails>>
  /\ UNCHANGED <<loopVars, spawnVars, pending, envVars>>

(* SIGWINCH: the workers are told to quit, and this master stays. *)
NoAccept ==
  /\ pc = "noaccept"
  /\ pc' = "top"
  /\ \/ /\ "noaccept" \in flags
        /\ SignalWorkers("quit")
        /\ flags' = (flags \ {"noaccept"}) \cup {"noaccepting"} \cup
                     (IF Esrch("quit") THEN {"reap"} ELSE {})
     \/ "noaccept" \notin flags /\ UNCHANGED <<table, kid, flags>>
  /\ UNCHANGED <<newBinary, loopVars, spawnVars, pending, envVars, forkFails>>

-----------------------------------------------------------------------------
(* The children and the rest of the world.                                 *)

Outside == pc \in {"suspend", "exited"}

(* A child ends: the kernel keeps a zombie and sends SIGCHLD. *)
Ends(p, st) ==
  /\ kid' = [kid EXCEPT ![p] = [@ EXCEPT !.st = st, !.mail = {}]]
  /\ pending' = pending \cup {"chld"}

MasterIdle == <<pc, table, flags, newBinary, loopVars, spawnVars, forkFails>>

(* A child reads its channel (or takes the signal): a terminated child and a
   cache process that should quit end, a worker that should quit goes on until
   its connections are closed.  Reading makes room in the socket of the
   master, which gets SIGIO. *)
ReadChannel(p) ==
  /\ Outside /\ Alive(p)
  /\ \/ /\ \/ "term" \in kid[p].mail
           \/ "quit" \in kid[p].mail /\ kid[p].role \in {"manager", "loader"}
        /\ Ends(p, "zombie")
     \/ /\ "quit" \in kid[p].mail /\ "term" \notin kid[p].mail
        /\ kid[p].role = "worker"
        /\ kid' = [kid EXCEPT ![p].st = "drain",
                              ![p].mail = @ \ {"quit", "reopen"}]
        /\ pending' = pending \cup {"io"}
     \/ /\ kid[p].mail \cap {"quit", "term", "kill"} = {} /\ "reopen" \in kid[p].mail
        /\ kid' = [kid EXCEPT ![p].mail = @ \ {"reopen"}]
        /\ pending' = pending \cup {"io"}
  /\ UNCHANGED <<MasterIdle, envVars>>

(* SIGKILL *)
Killed(p) ==
  /\ Outside /\ Alive(p) /\ "kill" \in kid[p].mail
  /\ Ends(p, "zombie")
  /\ UNCHANGED <<MasterIdle, envVars>>

(* The last timer of a worker that is shutting down is gone: it exits. *)
Drained(p) ==
  /\ Outside /\ kid[p].st = "drain"
  /\ Ends(p, "zombie")
  /\ UNCHANGED <<MasterIdle, envVars>>

(* The cache loader has read the cache, or the new binary stops. *)
Finish(p) ==
  /\ Outside /\ kid[p].st = "run" /\ kid[p].role \in {"loader", "binary"}
  /\ Ends(p, "zombie")
  /\ UNCHANGED <<MasterIdle, envVars>>

(* A child dies of a signal, or with exit(2) because it cannot start. *)
Crash(p) ==
  /\ Outside /\ Alive(p) /\ crashes + fatals < MaxCrashes
  /\ \/ crashes' = crashes + 1 /\ Ends(p, "zombie") /\ UNCHANGED fatals
     \/ fatals' = fatals + 1 /\ Ends(p, "fatal") /\ UNCHANGED crashes
  /\ UNCHANGED <<MasterIdle, sent>>

Alarm ==
  /\ armed
  /\ armed' = FALSE
  /\ pending' = pending \cup {"alrm"}
  /\ UNCHANGED <<pc, table, flags, newBinary, live, delay, sigio, listening, gen,
                 spawnVars, kid, envVars, forkFails>>

(* The administrator sends a signal, at any time. *)
Send(sig) ==
  /\ pc = "suspend" /\ sent < MaxSignals
  /\ sent' = sent + 1
  /\ pending' = pending \cup {sig}
  /\ UNCHANGED <<MasterIdle, kid, crashes, fatals>>

Loop ==
  \/ Spawn \/ SpawnDone \/ Top \/ Deliver \/ ReapSlot \/ ReapDone \/ Exit
  \/ Terminate \/ Quit \/ ReconfigureOldBinary \/ ReconfigureFails \/ Reconfigure
  \/ RetireOld \/ NoReconfigure \/ Restart \/ Reopen \/ ChangeBinary \/ NoAccept

Next ==
  \/ Loop \/ Alarm
  \/ \E sig \in Operator : Send(sig)
  \/ \E p \in Pids : ReadChannel(p) \/ Killed(p) \/ Drained(p) \/ Finish(p) \/ Crash(p)

(* The master runs, the timer expires, and SIGKILL kills.  Nothing is assumed of
   a child that should read its channel or close its connections.  Fairness of
   the children is strong because the model lets them move only at sigsuspend(),
   to which the master returns again and again; one child at a time is enough,
   since none of these steps can be repeated for ever. *)
Fairness ==
  /\ WF_vars(Loop)
  /\ WF_vars(Alarm)
  /\ SF_vars(\E p \in Pids : Killed(p))

SafetySpec == Init /\ [][Next]_vars

Spec == SafetySpec /\ Fairness

(* A worker that is not stuck reads its channel and, told to quit, gets rid of
   its connections some day. *)
Draining ==
  /\ SF_vars(\E p \in Pids : ReadChannel(p))
  /\ SF_vars(\E p \in Pids : Drained(p))

-----------------------------------------------------------------------------
Children == {p \in Pids : Alive(p) /\ kid[p].role # "binary"}

(* A child that is alive is in exactly one slot, so the master can signal it
   and wait for it; a slot is given back only after waitpid().  And the state is
   well typed: the countdown of the termination never goes below zero. *)
Tracked ==
  TypeOK /\ \A p \in Pids : kid[p].st # "none" =>
    \E s \in DOMAIN table :
      table[s].pid = p /\ ~ table[s].exited
      /\ \A r \in DOMAIN table : table[r].pid = p => r = s

(* The master never exits before its workers and cache processes. *)
NoOrphans == pc = "exited" => Children = {}

Resigned(p) == kid[p].st = "drain" \/ kid[p].mail \cap {"quit", "term", "kill"} # {}

(* Nobody is forgotten: after a reload every process of an older configuration has
   been told to quit, and once the master has given up its listening sockets every
   child has been, so that no worker is left that would run for ever. *)
Retired ==
  pc = "suspend" =>
    \A p \in Children : kid[p].gen < gen \/ ~ listening => Resigned(p)

(* While no shutdown is under way there are worker_processes workers that have
   not been told to quit: a dead worker is replaced, in a reload the new workers
   come before the old ones go, and the workers come back when an upgrade is
   given up.  Only a fatal exit or a failed fork() costs a worker. *)
FullStrength ==
  pc = "suspend" /\ flags \cap {"terminate", "quit", "noaccepting", "restart"} = {}
  => Cardinality({s \in DOMAIN table : /\ table[s].role = "worker"
                                       /\ table[s].pid # InvalidPid
                                       /\ ~ table[s].exiting})
       + fatals + forkFails >= Workers

(* SIGTERM stops nginx, whatever its workers do: they are killed in the end.
   SIGQUIT stops it when its workers read their channels and finish. *)
StopCompletes ==
  /\ "term" \in pending ~> pc = "exited"
  /\ Draining => ("quit" \in pending ~> pc = "exited")
=============================================================================
