-------------------------------- MODULE Cycle --------------------------------
(***************************************************************************)
(* A cycle and its successor (src/core/ngx_cycle.c, ngx_connection.c, nginx.c):     *)
(* ngx_init_cycle() opens what a new configuration asks for, takes over the            *)
(* listening sockets and shared zones that both have, and then gives up what is left      *)
(* of the old one; if anything fails on the way, the new one is rolled back and the        *)
(* master goes on with the old one.                                           *)
(*                                                                         *)
(* Every system call may fail.  A descriptor or an address in memory is a number, and      *)
(* the lowest free one is given out.  Left out: single-process operation, which keeps     *)
(* old cycles for a while, the test of a configuration, and stderr.                *)
(***************************************************************************)
EXTENDS Naturals, FiniteSets, FiniteSetsExt, Sequences, SequencesExt, TLC

CONSTANTS
  Configs,     \* configurations: zones, the addresses in listen, files, and pid
  Unix,        \* addresses of UNIX domain sockets
  Inherits,    \* sequences of addresses that a new binary may inherit
  Nothing,
  MaxReloads,  \* how often ngx_init_cycle() is called
  MaxFds, MaxShm

(* What is assumed of the constants; the modules of the instances state it. *)
CycleAssumption ==
  /\ MaxReloads \in Nat /\ MaxFds \in Nat /\ MaxShm \in Nat
  /\ \A c \in Configs : IsInjective(c.listen) /\ IsInjective(c.files)
                        /\ \A i, j \in DOMAIN c.zones :
                             c.zones[i].name = c.zones[j].name => i = j

VARIABLES
  cycle,  \* ngx_cycle
  next,   \* the cycle that is being made
  os,     \* descriptors, mapped memory, files of UNIX sockets, pid files
  st      \* where ngx_init_cycle() is; the configurations so far; and, for the
          \* properties, what was inherited and what failed calls have spoilt

vars == <<cycle, next, os, st>>

Invalid == 0

(* What a descriptor is open on; age is the number of the cycle that opened it. *)
Socket(a, age) == [what |-> "socket", name |-> a, age |-> age]
File(name)     == [what |-> "file", name |-> name, age |-> 0]

Fresh(f) == Min({d \in DOMAIN f : f[d] = Nothing})

Opening(o, fd, x) == [o EXCEPT !.fds[fd] = x]
Closing(o, fds)   == [o EXCEPT !.fds = [d \in DOMAIN @ |-> IF d \in fds THEN Nothing ELSE @[d]]]

(* ngx_shm_free(): munmap() of whatever is there. *)
ShmFree(o, addrs) == [o EXCEPT !.shm = [a \in DOMAIN @ |-> IF a \in addrs THEN Nothing ELSE @[a]]]

Listening(a, fd) == [sockaddr |-> a, fd |-> fd, open |-> FALSE, remain |-> FALSE]

(* ngx_set_inherited_sockets(): one whose address cannot be had is to be ignored; here
   its address is no address. *)
SetInherited(inherited, ignored) ==
  [i \in DOMAIN inherited |-> Listening(IF i \in ignored THEN Nothing ELSE inherited[i], i)]

(* init_cycle, with the sockets that ngx_add_inherited_sockets() finds. *)
Init ==
  \E inherited \in Inherits, ignored \in {{}, {1}} :
    /\ cycle = [zones |-> <<>>, files |-> <<>>, pid |-> Nothing,
                listening |-> SetInherited(inherited, ignored)]
    /\ next = Nothing
    /\ os = [fds |-> [d \in 1..MaxFds |->
                        IF d \in DOMAIN inherited THEN Socket(inherited[d], 0) ELSE Nothing],
             shm |-> [a \in 1..MaxShm |-> Nothing],
             names |-> ToSet(inherited) \cap Unix, pids |-> {}]
    /\ st = [pc |-> "idle", i |-> 1, calls |-> 0, in_use |-> FALSE, hist |-> <<>>,
             inherited |-> {inherited[i] : i \in DOMAIN inherited \ ignored},
             leaves |-> {}, spoilt |-> {},
             stale |-> {inherited[i] : i \in DOMAIN inherited \cap ignored} \cap Unix]

InitCycle == st.hist = <<>>    \* ngx_is_init_cycle(old_cycle)

Goto(pc) == [st EXCEPT !.pc = pc, !.i = 1]
Advance(s) == [s EXCEPT !.i = @ + 1]
Leaves(s, what) == [s EXCEPT !.leaves = @ \cup what]

-----------------------------------------------------------------------------
(* The configuration has been read; nothing is open yet. *)
Start ==
  /\ st.pc = "idle" /\ st.calls < MaxReloads
  /\ \E conf \in Configs :
       /\ next' = [zones |-> [i \in DOMAIN conf.zones |-> conf.zones[i] @@ [addr |-> Invalid]],
                   files |-> [i \in DOMAIN conf.files |-> [name |-> conf.files[i], fd |-> Invalid]],
                   listening |-> [i \in DOMAIN conf.listen |-> Listening(conf.listen[i], Invalid)],
                   pid |-> conf.pid, conf |-> conf]
       /\ st' = [Goto("pid") EXCEPT !.calls = @ + 1, !.leaves = {}]
  /\ UNCHANGED <<cycle, os>>

(* A new name for the pid file, then the paths and the default log. *)
PidFile ==
  LET new == ~InitCycle /\ next.pid # cycle.pid
  IN
  /\ st.pc = "pid"
  /\ \/ /\ new
        /\ st' = Goto("failed") /\ UNCHANGED os
     \/ /\ os' = IF new THEN [os EXCEPT !.pids = (@ \cup {next.pid}) \ {cycle.pid}] ELSE os
        /\ \E pc \in {"files", "failed"} :
             st' = Leaves(Goto(pc), IF new THEN {"pid"} ELSE {})
  /\ UNCHANGED <<cycle, next>>

(* open() and fcntl() for each of the files. *)
OpenFile ==
  LET fd == Fresh(os.fds)
  IN
  /\ st.pc = "files" /\ st.i <= Len(next.files)
  /\ \/ st' = Goto("failed") /\ UNCHANGED <<next, os>>
     \/ /\ os' = Opening(os, fd, File(next.files[st.i].name))
        /\ next' = [next EXCEPT !.files[st.i].fd = fd]
        /\ st' \in {Advance(st), Goto("failed")}
  /\ UNCHANGED cycle

-----------------------------------------------------------------------------
(* The old zone of the same name: its tag and size decide whether it is taken over, or
   freed before the new one is allocated. *)

OldZones(zone) == {i \in DOMAIN cycle.zones : cycle.zones[i].name = zone.name}

SameZone(old, zone) == old.tag = zone.tag /\ old.size = zone.size

CreateZone ==
  LET zone == next.zones[st.i]
      same == {i \in OldZones(zone) : SameZone(cycle.zones[i], zone)}
      o == ShmFree(os, {cycle.zones[i].addr : i \in OldZones(zone)})
      addr == Fresh(o.shm)
      s == Leaves(st, IF OldZones(zone) = {} THEN {} ELSE {"zone"})
  IN
  /\ st.pc = "zones" /\ st.i <= Len(next.zones)
  /\ \/ /\ same # {}
        /\ next' = [next EXCEPT !.zones[st.i].addr = cycle.zones[Min(same)].addr]
        /\ st' \in {Advance(st), Goto("failed")}
        /\ UNCHANGED os
     \/ /\ same = {}
        /\ os' = o
        /\ st' = [s EXCEPT !.pc = "failed"] /\ UNCHANGED next
     \/ /\ same = {}
        /\ os' = [o EXCEPT !.shm[addr] = Len(st.hist) + 1]
        /\ next' = [next EXCEPT !.zones[st.i].addr = addr]
        /\ st' \in {Advance(s), [s EXCEPT !.pc = "failed"]}
  /\ UNCHANGED cycle

-----------------------------------------------------------------------------
(* Listening sockets that the old cycle has already. *)

OldSockets(a) == {i \in DOMAIN cycle.listening : cycle.listening[i].sockaddr = a}

Remains(l) == \E i \in DOMAIN next.listening : next.listening[i].sockaddr = l.sockaddr

Marked(l) == [l EXCEPT !.remain = Remains(l)]

TakenOver(l) ==
  LET old == OldSockets(l.sockaddr)
  IN  IF old = {} THEN [l EXCEPT !.open = TRUE] ELSE [l EXCEPT !.fd = cycle.listening[Min(old)].fd]

MatchSockets ==
  /\ st.pc = "match"
  /\ cycle' = [cycle EXCEPT !.listening = [i \in DOMAIN @ |-> Marked(@[i])]]
  /\ next' = [next EXCEPT !.listening = [i \in DOMAIN @ |-> TakenOver(@[i])]]
  /\ st' = [Goto("sockets") EXCEPT !.in_use = FALSE]
  /\ UNCHANGED os

(* ngx_open_listening_sockets(): bind() fails while the file of a UNIX socket is there.
   An address in use does not keep the other ones from being opened; after five rounds
   the call fails. *)
OpenSocket ==
  LET l == next.listening[st.i]
      fd == Fresh(os.fds)
      name == {l.sockaddr} \cap Unix
      step(used) == Advance([st EXCEPT !.in_use = @ \/ used])
  IN
  /\ st.pc = "sockets" /\ st.i <= Len(next.listening)
  /\ \/ /\ l.fd # Invalid
        /\ st' = step(FALSE) /\ UNCHANGED <<next, os>>
     \/ /\ l.fd = Invalid
        /\ st' \in {step(TRUE), Goto("failed")} /\ UNCHANGED <<next, os>>
     \/ /\ l.fd = Invalid /\ l.sockaddr \notin os.names
        /\ \/ /\ os' = [Opening(os, fd, Socket(l.sockaddr, Len(st.hist) + 1))
                          EXCEPT !.names = @ \cup name]
              /\ next' = [next EXCEPT !.listening[st.i].fd = fd]
              /\ st' = step(FALSE)
           \/ /\ os' = [os EXCEPT !.names = @ \cup name]    \* listen() fails
              /\ st' = [Goto("failed") EXCEPT !.stale = @ \cup name]
              /\ UNCHANGED next
  /\ UNCHANGED cycle

(* The end of one of these three loops. *)
LoopDone ==
  /\ \/ st.pc = "files" /\ st.i > Len(next.files) /\ st' = Goto("zones")
     \/ st.pc = "zones" /\ st.i > Len(next.zones) /\ st' = Goto("match")
     \/ /\ st.pc = "sockets" /\ st.i > Len(next.listening)
        /\ st' = Goto(IF st.in_use THEN "failed" ELSE "commit")
  /\ UNCHANGED <<cycle, next, os>>

-----------------------------------------------------------------------------
(* The new cycle takes the place of the old one.  A module that cannot be initialized
   ends the process, and so does the first pid file. *)
Commit ==
  LET free == {cycle.zones[i].addr : i \in {j \in DOMAIN cycle.zones :
                 \A n \in DOMAIN next.zones : next.zones[n].name # cycle.zones[j].name}}
      gone == {i \in DOMAIN cycle.listening : ~cycle.listening[i].remain}
      fds  == {cycle.listening[i].fd : i \in gone}
                \cup {cycle.files[i].fd : i \in DOMAIN cycle.files}
      o    == Closing(ShmFree(os, free), fds)
  IN
  /\ st.pc = "commit"
  /\ next' = Nothing
  /\ \/ /\ cycle' = [zones |-> next.zones, files |-> next.files, pid |-> next.pid,
                     listening |-> next.listening]
        /\ os' = [o EXCEPT !.names = @ \ {cycle.listening[i].sockaddr : i \in gone},
                           !.pids = IF InitCycle THEN {next.pid} ELSE @]
        /\ st' = [Goto("idle") EXCEPT !.hist = Append(@, next.conf)]
     \/ /\ st' = Goto("exited") /\ UNCHANGED <<cycle, os>>

\* Bug: the roll-back closes the sockets that it took over, too.
Opened_Any(l) == TRUE

Opened(l) == l.open

(* The label failed.  Descriptors are closed; pid files, memory and the files of UNIX
   sockets stay as they are. *)
Rollback ==
  LET sockets == {i \in DOMAIN next.listening :
                    next.listening[i].fd # Invalid /\ Opened(next.listening[i])}
      fds == {next.listening[i].fd : i \in sockets}
               \cup ({next.files[i].fd : i \in DOMAIN next.files} \ {Invalid})
      mapped == \E i \in DOMAIN next.zones :
                  next.zones[i].addr \notin {Invalid} \cup {cycle.zones[j].addr : j \in DOMAIN cycle.zones}
  IN
  /\ st.pc = "failed"
  /\ os' = Closing(os, fds)
  /\ next' = Nothing
  /\ st' = [Goto(IF InitCycle THEN "exited" ELSE "idle") EXCEPT
              !.spoilt = @ \cup st.leaves \cup (IF mapped THEN {"memory"} ELSE {}),
              !.stale = @ \cup ({next.listening[i].sockaddr : i \in sockets} \cap Unix)]
  /\ UNCHANGED cycle

(* ngx_reopen_files(), for one file. *)
Reopened(i, w) ==
  LET fd == Fresh(w.os.fds)
      old == w.cycle.files[i]
  IN  [os |-> Closing(Opening(w.os, fd, File(old.name)), {old.fd}),
       cycle |-> [w.cycle EXCEPT !.files[i].fd = fd]]

(* A file that cannot be opened stays the old one. *)
ReopenFiles ==
  /\ st.pc = "idle" /\ ~InitCycle
  /\ \E some \in SUBSET DOMAIN cycle.files :
       LET w == FoldSet(Reopened, [os |-> os, cycle |-> cycle], some)
       IN  os' = w.os /\ cycle' = w.cycle
  /\ UNCHANGED <<next, st>>

Next ==
  \/ Start \/ PidFile \/ OpenFile \/ CreateZone \/ MatchSockets \/ OpenSocket
  \/ LoopDone \/ Commit \/ Rollback \/ ReopenFiles

Spec == Init /\ [][Next]_vars

-----------------------------------------------------------------------------
(* The first of the configurations since which there has always been P. *)
Since(P(_)) ==
  Min({k \in DOMAIN st.hist : \A j \in k..Len(st.hist) : P(st.hist[j])})

SocketAge(a) ==
  LET since == Since(LAMBDA c : a \in ToSet(c.listen))
  IN  IF since = 1 /\ a \in st.inherited THEN 0 ELSE since

ZoneAge(zone) ==
  Since(LAMBDA c : \E i \in DOMAIN c.zones :
                     c.zones[i].name = zone.name /\ SameZone(c.zones[i], zone))

(* At every moment of a reload, also of one that fails, the running cycle has its
   listening sockets: the ones that were opened when the address first came up, so that
   no waiting connection is lost.  Between reloads it has its files as well, and nothing
   else is open, whatever has failed.  Its zones are the memory they were from the
   first configuration that has them like this, its pid file is there, and no memory,
   pid file or file of a UNIX socket is left over - but for what the code does
   not roll back: zones of another size, memory, pid file, UNIX sockets. *)
Continuous ==
  LET sockets == {cycle.listening[i].fd : i \in DOMAIN cycle.listening}
      files   == {cycle.files[i].fd : i \in DOMAIN cycle.files}
      zones   == {cycle.zones[i].addr : i \in DOMAIN cycle.zones}
      names   == {cycle.listening[i].sockaddr : i \in DOMAIN cycle.listening} \cap Unix
      open    == {d \in DOMAIN os.fds : os.fds[d] # Nothing}
      used    == {a \in DOMAIN os.shm : os.shm[a] # Nothing}
  IN
  st.pc # "exited" /\ ~InitCycle =>
    /\ \A i \in DOMAIN cycle.listening :
         LET l == cycle.listening[i]
         IN  os.fds[l.fd] = Socket(l.sockaddr, SocketAge(l.sockaddr))
    /\ names \subseteq os.names
    /\ st.pc = "idle" =>
         /\ \A i \in DOMAIN cycle.files : os.fds[cycle.files[i].fd] = File(cycle.files[i].name)
         /\ open = sockets \cup files
         /\ Cardinality(open) = Len(cycle.listening) + Len(cycle.files)
         /\ os.names \subseteq names \cup st.stale
         /\ "pid" \notin st.spoilt => os.pids = {cycle.pid}
         /\ "zone" \notin st.spoilt =>
              /\ \A i \in DOMAIN cycle.zones :
                   os.shm[cycle.zones[i].addr] = ZoneAge(cycle.zones[i])
              /\ Cardinality(zones) = Len(cycle.zones)
              /\ "memory" \notin st.spoilt => used = zones
===============================================================================
