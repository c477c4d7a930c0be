----------------------------- MODULE MCProcesses -----------------------------
(* Small instances for TLC: the master process, and of a worker the connection structures
   and the timers.  A behaviour is one of the three; the connections of the others stay in
   an initial state, and the rest has no value. *)
EXTENDS Connections

CONSTANTS Workers, Manager, Loader, MaxProcesses, Pids, Operator, MaxSignals, MaxCrashes,
          MaxForkFails, None
CONSTANTS Events, Modulus, Timeouts, Lazy, Late

VARIABLES part, master, table, flags, newBinary, live, delay, sigio, armed, listening, gen,
          todo, goon, index, pending, kid, sent, crashes, fatals, forkFails,
          now, tree, key, due, wish, wait, delta, tpc, tops

mvars == <<master, table, flags, newBinary, live, delay, sigio, armed, listening, gen,
           todo, goon, index, pending, kid, sent, crashes, fatals, forkFails>>
tvars == <<now, tree, key, due, wish, wait, delta, tpc, tops>>

M == INSTANCE Master WITH pc <- master, after <- goon
T == INSTANCE Timers WITH pc <- tpc, ops <- tops

ASSUME TimersAssumption == T!TimersAssumption

FewPids == 1..6

MCInit ==
  /\ part \in {"master", "connections", "timers"}
  /\ Init
  /\ part # "connections" => free = CHOOSE f \in SetToSeqs(Conns) : TRUE
  /\ IF part = "master" THEN M!Init
     ELSE /\ master = None /\ table = None /\ flags = None /\ newBinary = None
          /\ live = None /\ delay = None /\ sigio = None /\ armed = None
          /\ listening = None /\ gen = None /\ todo = None /\ goon = None
          /\ index = None /\ pending = None /\ kid = None /\ sent = None
          /\ crashes = None /\ fatals = None /\ forkFails = None
  /\ IF part = "timers" THEN T!Init
     ELSE /\ now = None /\ tree = None /\ key = None /\ due = None /\ wish = None
          /\ wait = None /\ delta = None /\ tpc = None /\ tops = None

(* The master may have exited, or wait for a signal for ever. *)
Rest == part = "master" /\ UNCHANGED mvars

MCNext ==
  \/ part = "master" /\ M!Next /\ UNCHANGED <<part, vars, tvars>>
  \/ part = "connections" /\ Next /\ UNCHANGED <<part, mvars, tvars>>
  \/ part = "timers" /\ T!Next /\ UNCHANGED <<part, mvars, vars>>
  \/ Rest /\ UNCHANGED <<part, vars, tvars>>

MCSpec == MCInit /\ [][MCNext]_<<part, mvars, vars, tvars>>

(* Of the master, besides Master!FullStrength, what it rests on: no child is lost, and old
   generations are told to go. *)
FullStrength == part = "master" => M!Tracked /\ M!Retired /\ M!FullStrength

(* Timers fire when they should: Timers!OnTime. *)
OnTime == part = "timers" => T!OnTime

Symmetry == Permutations(Conns)
==============================================================================
