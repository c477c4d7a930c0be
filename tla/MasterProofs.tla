----------------------------- MODULE MasterProofs -----------------------------
(***************************************************************************)
(* What the master knows of its children, for any number of workers, slots, process *)
(* ids, signals, crashes and failures of fork(): every child is in the table, and     *)
(* none is forgotten when the master retires it.                                 *)
(***************************************************************************)
EXTENDS Master, WellFoundedInduction, TLAPS

One(b) == IF b THEN 1 ELSE 0

(* A reload is a signal that was sent, is pending, was noted, or was done. *)
Reloads == gen + One("hup" \in pending) + One("reconfigure" \in flags) <= sent

(* From the start of a reload until the older processes are told. *)
Window == after = "signal" \/ pc = "signal"

(* The part of the loop that is passed over in a shutdown. *)
Going == pc \in {"spawn", "signal", "restart", "reopen", "change", "noaccept"}

JobOK(j) == /\ j.role # "binary" /\ ~ j.detached
            /\ j.just => after = "signal"

Course ==
  /\ Going => ~ Shutdown
  /\ ~ listening => Shutdown
  /\ after = "signal" => pc = "spawn"
  /\ pc = "reap" => index >= 1

Jobs == todo \in Seq(Job) /\ \A i \in DOMAIN todo : JobOK(todo[i])

Places ==
  /\ pc \in {"top", "suspend", "reap", "decide", "spawn", "signal", "restart",
             "reopen", "change", "noaccept", "exited"}
  /\ after \in {"top", "signal", "reopen"}
  /\ flags \subseteq Flags
  /\ pending \subseteq Signals
  /\ newBinary \in Pids \cup {NoPid, InvalidPid}
  /\ live \in BOOLEAN /\ armed \in BOOLEAN /\ listening \in BOOLEAN

Numbers ==
  /\ delay \in {0, 50, 100, 200, 400, 800, 1600}
  /\ sigio \in 0..Workers + 2
  /\ gen \in Nat
  /\ index \in 0..MaxProcesses + 1
  /\ sent \in 0..MaxSignals
  /\ crashes \in 0..MaxCrashes /\ fatals \in 0..MaxCrashes
  /\ forkFails \in 0..MaxForkFails

Rest == Places /\ Numbers /\ Reloads /\ Course /\ Jobs

(* The process in a slot that was not told to quit is one of the present configuration. *)
Current(p, s) ==
  /\ listening \/ pc = "exited"
  /\ kid[p].gen = gen \/ (Window /\ ~ table[s].just)

KidOK(p, s) ==
  /\ kid[p].role = table[s].role
  /\ Alive(p) /\ ~ table[s].detached =>
       IF table[s].exiting THEN Resigned(p) ELSE Current(p, s)

SlotOK(s) ==
  /\ table[s].role = "binary" <=> table[s].detached
  /\ table[s].just => Window /\ ~ table[s].detached /\ table[s].pid # InvalidPid
  /\ \A p \in Pids : table[s].pid = p /\ kid[p].st # "none" => KidOK(p, s)

Tracking ==
  \A p \in Pids : kid[p].st # "none" =>
    \E s \in DOMAIN table :
      table[s].pid = p /\ ~ table[s].exited
      /\ \A r \in DOMAIN table : table[r].pid = p => r = s

Typed ==
  /\ table \in Seq(Slot) /\ Len(table) <= MaxProcesses
  /\ kid \in [Pids -> Kid]

Slots == Typed /\ Tracking /\ \A s \in DOMAIN table : SlotOK(s)

IInv == Rest /\ Slots

-----------------------------------------------------------------------------
(* Least elements.                                                          *)

LEMMA Least ==
  ASSUME NEW T \in SUBSET Nat, T # {}
  PROVE  \E x \in T : \A y \in T : x <= y
<1>1. PICK x \in T : \A y \in T : ~ (<<y, x>> \in OpToRel(<, Nat))
  BY WFMin, NatLessThanWellFounded
<1>2. \A y \in T : x <= y
  <2> TAKE y \in T
  <2>1. x \in Nat /\ y \in Nat
    OBVIOUS
  <2>2. ~ (y < x)
    BY <1>1, <2>1 DEF OpToRel
  <2> QED
    BY <2>1, <2>2
<1> QED
  BY <1>2

(* A new process has a pid that neither a process nor a slot has. *)
LEMMA NewPidUnused ==
  ASSUME MasterAssumption, Unused # {}
  PROVE  NewPid \in Unused
<1>1. Unused \in SUBSET Nat
  BY DEF Unused, MasterAssumption
<1>2. \E p \in Unused : \A q \in Unused : p <= q
  BY <1>1, Least
<1> QED
  BY <1>2 DEF NewPid

(* A free slot is in the table, or the one behind it. *)
LEMMA FreeSlotFree ==
  ASSUME Typed
  PROVE  /\ FreeSlot \in 1..Len(table) + 1
         /\ FreeSlot \in DOMAIN table => table[FreeSlot].pid = InvalidPid
<1> DEFINE free == {s \in DOMAIN table : table[s].pid = InvalidPid}
<1>1. DOMAIN table = 1..Len(table) /\ Len(table) \in Nat
  BY DEF Typed
<1>2. CASE free = {}
  <2>1. FreeSlot = Len(table) + 1
    BY <1>2 DEF FreeSlot
  <2> QED
    BY <1>1, <2>1
<1>3. CASE free # {}
  <2>1. free \in SUBSET Nat
    BY <1>1
  <2>2. \E s \in free : \A r \in free : s <= r
    BY <1>3, <2>1, Least
  <2>3. FreeSlot \in free
    BY <1>3, <2>2 DEF FreeSlot
  <2> QED
    BY <1>1, <2>3
<1> QED
  BY <1>2, <1>3

-----------------------------------------------------------------------------
(* What a step may do to the table and the children.                         *)

(* The table and the children stay.  If the configuration changes, the processes that
   are there are older than the reload. *)
LEMMA QuietStep ==
  ASSUME Slots, UNCHANGED <<table, kid>>,
         Window => Window',
         gen' = gen \/ (~ Window /\ Window'),
         listening \/ pc = "exited" => listening' \/ pc' = "exited"
  PROVE  Slots'
<1>1. Typed' /\ Tracking'
  BY DEF Slots, Typed, Tracking
<1>2. ASSUME NEW s \in DOMAIN table
      PROVE  SlotOK(s)'
  <2>1. SlotOK(s)
    BY DEF Slots
  <2>2. (table[s].role = "binary" <=> table[s].detached)'
    BY <2>1 DEF SlotOK
  <2>3. (table[s].just => Window /\ ~ table[s].detached /\ table[s].pid # InvalidPid)'
    BY <2>1 DEF SlotOK
  <2>4. ASSUME NEW p \in Pids, table[s].pid = p, kid[p].st # "none"
        PROVE  KidOK(p, s)'
    <3>1. KidOK(p, s)
      BY <2>1, <2>4 DEF SlotOK
    <3>2. Current(p, s) => Current(p, s)'
      BY <2>1 DEF Current, SlotOK
    <3>3. Resigned(p)' = Resigned(p) /\ Alive(p)' = Alive(p)
      BY DEF Resigned, Alive
    <3> QED
      BY <3>1, <3>2, <3>3 DEF KidOK
  <2> QED
    BY <2>2, <2>3, <2>4 DEF SlotOK
<1> QED
  BY <1>1, <1>2 DEF Slots

(* A process n starts in slot k, which was free or that of an exited process. *)
LEMMA SpawnedStep ==
  ASSUME MasterAssumption, Slots, gen \in Nat, NEW n \in Unused, NEW k, NEW role \in Roles,
         Fork(n, role),
         table' \in Seq(Slot), Len(table') <= MaxProcesses,
         k \in DOMAIN table', DOMAIN table' = DOMAIN table \cup {k},
         \A s \in DOMAIN table \ {k} : table'[s] = table[s],
         k \in DOMAIN table => table[k].pid = InvalidPid \/ table[k].exited,
         table'[k].pid = n, ~ table'[k].exited, ~ table'[k].exiting,
         table'[k].role = role, role = "binary" <=> table'[k].detached,
         table'[k].just => Window /\ ~ table'[k].detached,
         Window' = Window, gen' = gen, listening' = listening,
         pc = "exited" => pc' = "exited", listening
  PROVE  Slots'
<1> DEFINE new == [st |-> "run", role |-> role, gen |-> gen, mail |-> {}]
<1>1. n \in Pids /\ kid[n].st = "none" /\ \A s \in DOMAIN table : table[s].pid # n
  BY DEF Unused
<1>2. kid' = [kid EXCEPT ![n] = new] /\ new \in Kid
  BY DEF Fork, Kid, States
<1>3. Typed'
  BY <1>1, <1>2 DEF Slots, Typed
<1>4. kid'[n] = new /\ \A p \in Pids \ {n} : kid'[p] = kid[p]
  BY <1>1, <1>2 DEF Slots, Typed
<1>5. Tracking'
  <2> SUFFICES ASSUME NEW p \in Pids, kid'[p].st # "none"
               PROVE  \E s \in DOMAIN table' :
                        table'[s].pid = p /\ ~ table'[s].exited
                        /\ \A r \in DOMAIN table' : table'[r].pid = p => r = s
    BY DEF Tracking
  <2>1. CASE p = n
    BY <2>1, <1>1
  <2>2. CASE p # n
    <3>1. PICK s \in DOMAIN table :
            table[s].pid = p /\ ~ table[s].exited
            /\ \A r \in DOMAIN table : table[r].pid = p => r = s
      BY <2>2, <1>4 DEF Slots, Tracking
    <3>2. s # k
      BY <3>1 DEF MasterAssumption, InvalidPid
    <3> QED
      BY <2>2, <3>1, <3>2
  <2> QED
    BY <2>1, <2>2
<1>6. ASSUME NEW s \in DOMAIN table'
      PROVE  SlotOK(s)'
  <2>1. CASE s = k
    <3>1. n # InvalidPid
      BY <1>1 DEF MasterAssumption, InvalidPid
    <3>2. KidOK(n, k)'
      BY <1>4 DEF KidOK, Current
    <3>3. \A p \in Pids : table'[k].pid = p => p = n
      OBVIOUS
    <3> QED
      BY <2>1, <3>1, <3>2, <3>3 DEF SlotOK
  <2>2. CASE s # k
    <3>1. s \in DOMAIN table /\ table'[s] = table[s] /\ SlotOK(s)
      BY <2>2 DEF Slots
    <3>2. ASSUME NEW p \in Pids, table[s].pid = p, kid'[p].st # "none"
          PROVE  KidOK(p, s)'
      <4>1. kid'[p] = kid[p]
        BY <1>1, <1>4, <3>1, <3>2
      <4>2. KidOK(p, s)
        BY <3>1, <3>2, <4>1 DEF SlotOK
      <4> QED
        BY <3>1, <4>1, <4>2 DEF KidOK, Current, Resigned, Alive
    <3> QED
      BY <3>1, <3>2 DEF SlotOK
  <2> QED
    BY <2>1, <2>2
<1> QED
  BY <1>3, <1>5, <1>6 DEF Slots

(* A process changes: it does not come to life again, and what it was told it knows
   until it ends. *)
LEMMA ChildStep ==
  ASSUME Slots, NEW p \in Pids, kid' \in [Pids -> Kid],
         kid[p].st # "none", kid'[p].st # "none",
         kid'[p].role = kid[p].role, kid'[p].gen = kid[p].gen,
         Alive(p)' => Alive(p) /\ (Resigned(p) => Resigned(p)'),
         \A q \in Pids \ {p} : kid'[q] = kid[q],
         UNCHANGED <<table, gen, listening, pc, after>>
  PROVE  Slots'
<1>1. Typed' /\ Tracking'
  BY DEF Slots, Typed, Tracking
<1>2. ASSUME NEW s \in DOMAIN table
      PROVE  SlotOK(s)'
  <2>1. SlotOK(s)
    BY DEF Slots
  <2>2. ASSUME NEW q \in Pids, table[s].pid = q, kid'[q].st # "none"
        PROVE  KidOK(q, s)'
    <3>1. KidOK(q, s)
      BY <2>1, <2>2 DEF SlotOK
    <3>2. Current(q, s) => Current(q, s)'
      BY DEF Current, Window
    <3>3. CASE q = p
      BY <3>1, <3>2, <3>3 DEF KidOK
    <3>4. CASE q # p
      BY <3>1, <3>2, <3>4 DEF KidOK, Resigned, Alive
    <3> QED
      BY <3>3, <3>4
  <2> QED
    BY <2>1, <2>2 DEF SlotOK, Window
<1> QED
  BY <1>1, <1>2 DEF Slots

(* A function on the indices of a sequence is a sequence. *)
LEMMA FunctionIsSequence ==
  ASSUME NEW S, NEW n \in Nat, NEW f \in [1..n -> S]
  PROVE  f \in Seq(S) /\ Len(f) = n /\ DOMAIN f = 1..n
OBVIOUS

(* waitpid(): every zombie is collected and noted in its slot. *)
LEMMA CollectedStep ==
  ASSUME Slots, table' = Collected,
         kid' = [p \in Pids |-> IF p \in Zombies THEN NoKid ELSE kid[p]],
         Window' = Window, gen' = gen, listening' = listening,
         pc = "exited" => pc' = "exited"
  PROVE  Slots'
<1> DEFINE n == Len(table)
<1>1. n \in Nat /\ DOMAIN table = 1..n /\ \A s \in 1..n : table[s] \in Slot
  BY DEF Slots, Typed
<1>2. ASSUME NEW s \in 1..n
      PROVE  /\ Collected[s] \in Slot
             /\ Collected[s].pid = table[s].pid /\ Collected[s].role = table[s].role
             /\ Collected[s].exiting = table[s].exiting
             /\ Collected[s].detached = table[s].detached
             /\ Collected[s].just = table[s].just
             /\ Collected[s].exited =>
                  table[s].exited \/ table[s].pid \in Zombies
  <2>1. CASE table[s].pid \notin Zombies
    BY <1>1, <2>1 DEF Collected
  <2>2. CASE table[s].pid \in Zombies
    <3> DEFINE r == table[s].respawn /\ kid[table[s].pid].st # "fatal"
    <3>1. Collected[s] = [table[s] EXCEPT !.exited = TRUE, !.respawn = r]
      BY <1>1, <2>2 DEF Collected
    <3>2. table[s] \in Slot /\ r \in BOOLEAN
      BY <1>1
    <3> HIDE DEF r
    <3> QED
      BY <2>2, <3>1, <3>2 DEF Slot
  <2> QED
    BY <2>1, <2>2
<1>3. Collected \in [1..n -> Slot]
  BY <1>1, <1>2 DEF Collected
<1>4. table' \in Seq(Slot) /\ Len(table') = n /\ DOMAIN table' = 1..n
  BY <1>1, <1>3, FunctionIsSequence
<1>5. ASSUME NEW p \in Pids
      PROVE  /\ kid'[p] = IF p \in Zombies THEN NoKid ELSE kid[p]
             /\ kid'[p] \in Kid
             /\ kid'[p].st # "none" => p \notin Zombies /\ kid'[p] = kid[p]
  BY DEF Slots, Typed, NoKid, Kid, States, Roles
<1>6. Typed'
  BY <1>4, <1>5 DEF Slots, Typed
<1>7. Tracking'
  <2> SUFFICES ASSUME NEW p \in Pids, kid'[p].st # "none"
               PROVE  \E s \in DOMAIN table' :
                        table'[s].pid = p /\ ~ table'[s].exited
                        /\ \A r \in DOMAIN table' : table'[r].pid = p => r = s
    BY DEF Tracking
  <2>1. p \notin Zombies /\ kid'[p] = kid[p]
    BY <1>5
  <2>2. PICK s \in DOMAIN table :
          table[s].pid = p /\ ~ table[s].exited
          /\ \A r \in DOMAIN table : table[r].pid = p => r = s
    BY <2>1 DEF Slots, Tracking
  <2> QED
    BY <1>1, <1>2, <1>4, <2>1, <2>2
<1>8. ASSUME NEW s \in DOMAIN table'
      PROVE  SlotOK(s)'
  <2>1. s \in DOMAIN table /\ SlotOK(s)
    BY <1>1, <1>4 DEF Slots
  <2>2. ASSUME NEW p \in Pids, table'[s].pid = p, kid'[p].st # "none"
        PROVE  KidOK(p, s)'
    <3>1. kid'[p] = kid[p] /\ table[s].pid = p
      BY <1>1, <1>2, <1>5, <2>1, <2>2
    <3>2. KidOK(p, s)
      BY <2>1, <2>2, <3>1 DEF SlotOK
    <3> QED
      BY <1>1, <1>2, <2>1, <3>1, <3>2 DEF KidOK, Current, Resigned, Alive
  <2> QED
    BY <1>1, <1>2, <2>1, <2>2 DEF SlotOK
<1> QED
  BY <1>6, <1>7, <1>8 DEF Slots

(* A sequence without its last element, or with another one at a place. *)
LEMMA Shortened ==
  ASSUME NEW S, NEW q \in Seq(S), Len(q) >= 1
  PROVE  /\ Front(q) \in Seq(S) /\ Len(Front(q)) = Len(q) - 1
         /\ DOMAIN Front(q) = 1..Len(q) - 1
         /\ \A i \in 1..Len(q) - 1 : Front(q)[i] = q[i]
<1>1. PICK m \in Nat : m = Len(q) - 1 /\ Len(q) \in Nat
  OBVIOUS
<1>2. PICK f : f = SubSeq(q, 1, m)
  OBVIOUS
<1>3. f \in Seq(S) /\ Len(f) = m /\ \A i \in 1..m : f[i] = q[i]
  <2>1. f \in Seq(S)
    BY <1>1, <1>2
  <2>2. Len(f) = m
    BY <1>1, <1>2
  <2>3. \A i \in 1..m : f[i] = q[i]
    BY <1>1, <1>2
  <2> QED
    BY <2>1, <2>2, <2>3
<1>4. DOMAIN f = 1..Len(f)
  BY <1>3
<1>5. Front(q) = f
  BY <1>1, <1>2 DEF Front
<1> QED
  BY <1>1, <1>3, <1>4, <1>5

LEMMA Replaced ==
  ASSUME NEW S, NEW q \in Seq(S), NEW k \in 1..Len(q), NEW x \in S
  PROVE  /\ [q EXCEPT ![k] = x] \in Seq(S)
         /\ Len([q EXCEPT ![k] = x]) = Len(q)
         /\ DOMAIN [q EXCEPT ![k] = x] = 1..Len(q)
         /\ [q EXCEPT ![k] = x][k] = x
         /\ \A i \in 1..Len(q) : i # k => [q EXCEPT ![k] = x][i] = q[i]
OBVIOUS

(* The slot k of an exited process is given back. *)
LEMMA VacatedStep ==
  ASSUME MasterAssumption, Slots, NEW k \in DOMAIN table, table[k].exited,
         table' = Vacate(k),
         UNCHANGED <<kid, gen, listening, pc, after>>
  PROVE  Slots'
<1> DEFINE n == Len(table)
<1>1. n \in Nat /\ DOMAIN table = 1..n /\ k \in 1..n /\ n <= MaxProcesses
  BY DEF Slots, Typed
<1>2. Vacant \in Slot
  BY DEF Vacant, Slot, Roles
<1>3. /\ table' \in Seq(Slot) /\ Len(table') <= n
      /\ \A s \in DOMAIN table' : s \in DOMAIN table
      /\ \A s \in DOMAIN table : s # k => s \in DOMAIN table' /\ table'[s] = table[s]
      /\ k \in DOMAIN table' => table'[k] = Vacant
  <2>1. CASE k = n
    <3>1. table' = Front(table)
      BY <2>1 DEF Vacate
    <3>2. /\ Front(table) \in Seq(Slot) /\ Len(Front(table)) = n - 1
          /\ DOMAIN Front(table) = 1..n - 1
          /\ \A i \in 1..n - 1 : Front(table)[i] = table[i]
      <4>1. table \in Seq(Slot) /\ Len(table) >= 1
        BY <1>1 DEF Slots, Typed
      <4> QED
        BY <4>1, Shortened
    <3> HIDE DEF n
    <3>3. n - 1 <= n /\ \A i \in 1..n - 1 : i \in 1..n /\ i # n
      BY <1>1
    <3>4. \A i \in 1..n : i # n => i \in 1..n - 1
      BY <1>1
    <3> QED
      BY <1>1, <2>1, <3>1, <3>2, <3>3, <3>4
  <2>2. CASE k # n
    <3>1. table' = [table EXCEPT ![k] = Vacant]
      BY <2>2 DEF Vacate
    <3>2. /\ table' \in Seq(Slot) /\ Len(table') = n /\ DOMAIN table' = 1..n
          /\ table'[k] = Vacant
          /\ \A i \in 1..n : i # k => table'[i] = table[i]
      BY <1>1, <1>2, <3>1, Replaced DEF Slots, Typed
    <3> HIDE DEF n
    <3> QED
      BY <1>1, <3>2
  <2> QED
    BY <2>1, <2>2
<1>4. Typed'
  BY <1>1, <1>3 DEF Slots, Typed, MasterAssumption
<1>5. Tracking'
  <2> SUFFICES ASSUME NEW p \in Pids, kid[p].st # "none"
               PROVE  \E s \in DOMAIN table' :
                        table'[s].pid = p /\ ~ table'[s].exited
                        /\ \A r \in DOMAIN table' : table'[r].pid = p => r = s
    BY DEF Tracking
  <2>1. PICK s \in DOMAIN table :
          table[s].pid = p /\ ~ table[s].exited
          /\ \A r \in DOMAIN table : table[r].pid = p => r = s
    BY DEF Slots, Tracking
  <2>2. Vacant.pid # p
    BY DEF Vacant, MasterAssumption, InvalidPid
  <2>3. s # k
    BY <2>1
  <2> QED
    BY <1>3, <2>1, <2>2, <2>3
<1>6. ASSUME NEW s \in DOMAIN table'
      PROVE  SlotOK(s)'
  <2>1. CASE s = k
    <3>1. table'[s] = Vacant
      BY <1>3, <2>1
    <3>2. \A p \in Pids : Vacant.pid # p
      BY DEF Vacant, MasterAssumption, InvalidPid
    <3> QED
      BY <3>1, <3>2 DEF SlotOK, Vacant
  <2>2. CASE s # k
    <3>1. s \in DOMAIN table /\ table'[s] = table[s] /\ SlotOK(s)
      BY <1>3, <2>2 DEF Slots
    <3> QED
      BY <3>1 DEF SlotOK, KidOK, Current, Window, Resigned, Alive
  <2> QED
    BY <2>1, <2>2
<1> QED
  BY <1>4, <1>5, <1>6 DEF Slots

(* What telling a command does to a slot. *)
LEMMA ToldSlot ==
  ASSUME Typed, NEW cmd \in Commands, NEW s \in DOMAIN table
  PROVE  /\ Told(s, cmd) \in Slot
         /\ Told(s, cmd).pid = table[s].pid /\ Told(s, cmd).role = table[s].role
         /\ Told(s, cmd).detached = table[s].detached
         /\ Told(s, cmd).just => table[s].just /\ s \notin Addressed(cmd)
                                 /\ (table[s].detached \/ table[s].pid = InvalidPid)
         /\ Told(s, cmd).exited => table[s].exited \/ (s \in Addressed(cmd) /\ Gone(s))
         /\ s \notin Addressed(cmd) => (Told(s, cmd).exiting <=> table[s].exiting)
         /\ s \in Addressed(cmd) /\ ~ Gone(s) =>
              (Told(s, cmd).exiting <=> table[s].exiting \/ cmd # "reopen")
<1>1. table[s] \in Slot
  BY DEF Typed
<1>2. CASE s \notin Addressed(cmd)
  <2>1. PICK b \in BOOLEAN : b = (table[s].just /\ (table[s].detached \/ table[s].pid = InvalidPid))
    OBVIOUS
  <2>2. Told(s, cmd) = [table[s] EXCEPT !.just = b]
    BY <1>2, <2>1 DEF Told
  <2>3. PICK t : t = Told(s, cmd)
    OBVIOUS
  <2>4. /\ t \in Slot
        /\ t.pid = table[s].pid /\ t.role = table[s].role /\ t.detached = table[s].detached
        /\ t.exited = table[s].exited /\ t.exiting = table[s].exiting /\ t.just = b
    BY <1>1, <2>1, <2>2, <2>3 DEF Slot
  <2>5. t.just => table[s].just /\ (table[s].detached \/ table[s].pid = InvalidPid)
    BY <2>1, <2>4
  <2> QED
    BY <1>2, <2>3, <2>4, <2>5
<1>3. CASE s \in Addressed(cmd) /\ Gone(s)
  <2>1. Told(s, cmd) = [table[s] EXCEPT !.exited = TRUE, !.exiting = FALSE]
    BY <1>3 DEF Told
  <2>2. ~ table[s].just
    BY <1>3 DEF Addressed
  <2> QED
    BY <1>1, <1>3, <2>1, <2>2 DEF Slot
<1>4. CASE s \in Addressed(cmd) /\ ~ Gone(s)
  <2>1. PICK b \in BOOLEAN : b = (table[s].exiting \/ cmd # "reopen")
    OBVIOUS
  <2>2. Told(s, cmd) = [table[s] EXCEPT !.exiting = b]
    BY <1>4, <2>1 DEF Told
  <2>3. ~ table[s].just
    BY <1>4 DEF Addressed
  <2>4. PICK t : t = Told(s, cmd)
    OBVIOUS
  <2>5. /\ t \in Slot
        /\ t.pid = table[s].pid /\ t.role = table[s].role /\ t.detached = table[s].detached
        /\ t.exited = table[s].exited /\ t.exiting = b /\ t.just = table[s].just
    BY <1>1, <2>1, <2>2, <2>4 DEF Slot
  <2>6. t.exiting <=> table[s].exiting \/ cmd # "reopen"
    BY <2>1, <2>5
  <2> QED
    BY <1>4, <2>3, <2>4, <2>5, <2>6
<1> QED
  BY <1>2, <1>3, <1>4

(* The children are told a command; whoever is not told was told to quit before, or was
   started by the reload that is going on. *)
LEMMA SignalledStep ==
  ASSUME MasterAssumption, Slots, NEW cmd \in Commands, SignalWorkers(cmd),
         gen' = gen, ~ Window',
         cmd = "reopen" => ~ Window,
         cmd = "reopen" \/ Window => listening'
  PROVE  Slots'
<1> DEFINE n == Len(table)
<1>1. n \in Nat /\ DOMAIN table = 1..n /\ Typed
  BY DEF Slots, Typed
<1>2. table' = [s \in 1..n |-> Told(s, cmd)]
  BY <1>1 DEF SignalWorkers
<1>3. \A s \in 1..n : Told(s, cmd) \in Slot
  BY <1>1, ToldSlot
<1>4. table' \in Seq(Slot) /\ Len(table') = n /\ DOMAIN table' = 1..n
  <2>1. table' \in [1..n -> Slot]
    BY <1>2, <1>3
  <2> QED
    BY <1>1, <2>1, FunctionIsSequence
<1>5. ASSUME NEW p \in Pids
      PROVE  /\ kid'[p] \in Kid
             /\ kid'[p].st = kid[p].st /\ kid'[p].role = kid[p].role
             /\ kid'[p].gen = kid[p].gen
             /\ kid[p].mail \subseteq kid'[p].mail
             /\ \A s \in Addressed(cmd) : table[s].pid = p /\ Alive(p) => cmd \in kid'[p].mail
  <2>1. kid[p] \in Kid
    BY DEF Slots, Typed
  <2>2. CASE Alive(p) /\ \E s \in Addressed(cmd) : table[s].pid = p
    <3>1. PICK m : m = kid[p].mail \cup {cmd}
      OBVIOUS
    <3>2. kid'[p] = [kid[p] EXCEPT !.mail = m]
      BY <2>2, <3>1 DEF SignalWorkers
    <3>3. m \subseteq Commands
      BY <2>1, <3>1 DEF Kid
    <3> QED
      BY <2>1, <3>1, <3>2, <3>3 DEF Kid
  <2>3. CASE ~ (Alive(p) /\ \E s \in Addressed(cmd) : table[s].pid = p)
    <3>1. kid'[p] = kid[p]
      BY <2>3 DEF SignalWorkers
    <3> QED
      BY <2>1, <2>3, <3>1
  <2> QED
    BY <2>2, <2>3
<1>6. Typed'
  <2>1. kid' \in [Pids -> Kid]
    BY <1>5 DEF SignalWorkers
  <2> QED
    BY <1>1, <1>4, <2>1 DEF Typed
<1>7. Tracking'
  <2> SUFFICES ASSUME NEW p \in Pids, kid'[p].st # "none"
               PROVE  \E s \in DOMAIN table' :
                        table'[s].pid = p /\ ~ table'[s].exited
                        /\ \A r \in DOMAIN table' : table'[r].pid = p => r = s
    BY DEF Tracking
  <2>1. PICK s \in DOMAIN table :
          table[s].pid = p /\ ~ table[s].exited
          /\ \A r \in DOMAIN table : table[r].pid = p => r = s
    BY <1>5 DEF Slots, Tracking
  <2>2. ~ Gone(s)
    BY <1>5, <2>1 DEF Gone
  <2>3. table'[s].pid = p /\ ~ table'[s].exited
    BY <1>1, <1>2, <2>1, <2>2, ToldSlot
  <2>4. \A r \in DOMAIN table' : table'[r].pid = table[r].pid
    BY <1>1, <1>2, <1>4, ToldSlot
  <2> QED
    BY <1>1, <1>4, <2>1, <2>3, <2>4
<1>8. ASSUME NEW s \in DOMAIN table'
      PROVE  SlotOK(s)'
  <2>1. s \in DOMAIN table /\ SlotOK(s) /\ table'[s] = Told(s, cmd) /\ table[s] \in Slot
    BY <1>1, <1>2, <1>4 DEF Slots, Typed
  <2>2. table'[s].pid = table[s].pid /\ table'[s].role = table[s].role
        /\ table'[s].detached = table[s].detached
    BY <1>1, <2>1, ToldSlot
  <2>3. ~ table'[s].just
    BY <1>1, <2>1, ToldSlot DEF SlotOK
  <2>4. ASSUME NEW p \in Pids, table[s].pid = p, kid'[p].st # "none"
        PROVE  KidOK(p, s)'
    <3>1. KidOK(p, s) /\ ~ Gone(s)
      BY <1>5, <2>1, <2>4 DEF SlotOK, Gone
    <3>2. Resigned(p) => Resigned(p)'
      BY <1>5 DEF Resigned
    <3>3. Alive(p)' = Alive(p)
      BY <1>5 DEF Alive
    <3>4. p # InvalidPid
      BY DEF MasterAssumption, InvalidPid
    <3>5. ASSUME Alive(p), ~ table[s].detached, table'[s].exiting
          PROVE  Resigned(p)'
      <4>1. CASE table[s].exiting
        BY <3>1, <3>2, <3>5, <4>1 DEF KidOK
      <4>2. CASE ~ table[s].exiting
        <5>1. s \in Addressed(cmd) /\ cmd # "reopen"
          BY <1>1, <2>1, <3>1, <3>5, <4>2, ToldSlot
        <5>2. cmd \in kid'[p].mail
          BY <1>5, <2>4, <3>5, <5>1
        <5> QED
          BY <5>1, <5>2 DEF Resigned, Commands
      <4> QED
        BY <4>1, <4>2
    <3>6. ASSUME Alive(p), ~ table[s].detached, ~ table'[s].exiting
          PROVE  Current(p, s)'
      <4>1. ~ table[s].exiting
        BY <1>1, <2>1, <3>1, <3>6, ToldSlot
      <4>2. cmd = "reopen" \/ table[s].just
        <5>1. s \in Addressed(cmd) \/ table[s].just
          BY <2>1, <2>4, <3>4, <3>6, <4>1 DEF Addressed
        <5> QED
          BY <1>1, <2>1, <3>1, <3>6, <5>1, ToldSlot
      <4>3. listening'
        BY <2>1, <4>2 DEF SlotOK
      <4>4. kid[p].gen = gen
        BY <3>1, <3>6, <4>1, <4>2 DEF KidOK, Current
      <4> QED
        BY <1>5, <4>3, <4>4 DEF Current
    <3> QED
      BY <1>5, <2>2, <3>1, <3>3, <3>5, <3>6 DEF KidOK
  <2> QED
    BY <2>1, <2>2, <2>3, <2>4 DEF SlotOK
<1> QED
  BY <1>6, <1>7, <1>8 DEF Slots

-----------------------------------------------------------------------------
(* The processes that are to be started.                                      *)

LEMMA Concatenated ==
  ASSUME NEW S, NEW a \in Seq(S), NEW b \in Seq(S)
  PROVE  /\ a \o b \in Seq(S) /\ Len(a \o b) = Len(a) + Len(b)
         /\ \A i \in 1..Len(a \o b) :
              (a \o b)[i] = IF i <= Len(a) THEN a[i] ELSE b[i - Len(a)]
OBVIOUS

LEMMA StartAllJobs ==
  ASSUME MasterAssumption, NEW j \in BOOLEAN
  PROVE  /\ StartAll(j) \in Seq(Job)
         /\ \A i \in DOMAIN StartAll(j) :
              /\ StartAll(j)[i].role # "binary" /\ ~ StartAll(j)[i].detached
              /\ StartAll(j)[i].just => j
<1> DEFINE good == {x \in Job : x.role # "binary" /\ ~ x.detached /\ (x.just => j)}
<1>1. \A r \in {"worker", "manager", "loader"}, b \in BOOLEAN :
        [role |-> r, respawn |-> b, just |-> j, detached |-> FALSE] \in good
  BY DEF Job, Roles
<1> HIDE DEF good
<1>2. WorkerJobs(j) \in Seq(good)
  <2>1. Workers \in Nat
    BY DEF MasterAssumption
  <2>2. WorkerJobs(j) \in [1..Workers -> good]
    BY <1>1 DEF WorkerJobs
  <2> QED
    BY <2>1, <2>2, FunctionIsSequence
<1>3. CacheJobs(j) \in Seq(good)
  <2> DEFINE job(r, b) == [role |-> r, respawn |-> b, just |-> j, detached |-> FALSE]
             a == IF Manager THEN <<job("manager", TRUE)>> ELSE <<>>
             b == IF Manager /\ Loader THEN <<job("loader", FALSE)>> ELSE <<>>
  <2>1. job("manager", TRUE) \in good /\ job("loader", FALSE) \in good
    BY <1>1
  <2>2. CacheJobs(j) = a \o b
    BY DEF CacheJobs
  <2> HIDE DEF job
  <2>3. ASSUME NEW x \in good
        PROVE  <<x>> \in Seq(good)
    OBVIOUS
  <2>4. a \in Seq(good) /\ b \in Seq(good)
    <3>1. <<>> \in Seq(good)
      OBVIOUS
    <3> QED
      BY <2>1, <2>3, <3>1, Zenon
  <2> HIDE DEF a, b
  <2> QED
    BY <2>2, <2>4, Concatenated
<1>4. StartAll(j) \in Seq(good)
  BY <1>2, <1>3, Concatenated DEF StartAll
<1> QED
  <2>1. PICK q \in Seq(good) : q = StartAll(j)
    BY <1>4
  <2>2. \A x \in good : x \in Job /\ x.role # "binary" /\ ~ x.detached /\ (x.just => j)
    BY DEF good
  <2>3. DOMAIN q = 1..Len(q) /\ Len(q) \in Nat /\ \A i \in 1..Len(q) : q[i] \in good
    OBVIOUS
  <2>4. q \in Seq(Job)
    <3>1. q \in [1..Len(q) -> Job]
      BY <2>2, <2>3
    <3> QED
      BY <2>3, <3>1, FunctionIsSequence
  <2> QED
    BY <2>1, <2>2, <2>3, <2>4

LEMMA StartedJobs ==
  ASSUME MasterAssumption, NEW j \in BOOLEAN, todo' = StartAll(j), j => after' = "signal"
  PROVE  Jobs'
BY StartAllJobs DEF Jobs, JobOK

-----------------------------------------------------------------------------
(* The actions, one by one.                                                   *)

LEMMA InitHolds ==
  ASSUME MasterAssumption, Init
  PROVE  IInv
<1>1. Jobs
  BY StartAllJobs DEF Init, Jobs, JobOK
<1>2. Course
  BY DEF Init, Course, Going, Shutdown
<1>3. Reloads
  BY DEF Init, Reloads, One
<1>4. Places
  BY DEF Init, Places, NoPid
<1>5. Numbers
  BY DEF Init, Numbers, MasterAssumption
<1>6. Slots
  <2>1. NoKid \in Kid /\ NoKid.st = "none"
    BY DEF NoKid, Kid, States, Roles
  <2> QED
    BY <2>1 DEF Init, Slots, Typed, Tracking, MasterAssumption
<1> QED
  BY <1>1, <1>2, <1>3, <1>4, <1>5, <1>6 DEF IInv, Rest

LEMMA SpawnDoneStep ==
  ASSUME IInv, SpawnDone
  PROVE  IInv'
<1>1. Slots'
  BY QuietStep DEF IInv, Rest, SpawnDone, loopVars, envVars, Window
<1>2. Reloads'
  BY DEF IInv, Rest, Numbers, SpawnDone, loopVars, envVars, Reloads, One
<1>3. Course'
  BY DEF IInv, Rest, Places, SpawnDone, loopVars, envVars, Course, Going, Shutdown
<1>4. Jobs'
  BY DEF IInv, Rest, SpawnDone, loopVars, envVars, Jobs, JobOK
<1>5. Places'
  BY DEF IInv, Rest, Places, SpawnDone, loopVars, envVars
<1>6. Numbers'
  BY DEF IInv, Rest, Numbers, SpawnDone, loopVars, envVars
<1> QED
  BY <1>1, <1>2, <1>3, <1>4, <1>5, <1>6 DEF IInv, Rest

LEMMA TopStep ==
  ASSUME MasterAssumption, IInv, Top
  PROVE  IInv'
<1>1. Slots'
  BY QuietStep DEF IInv, Rest, Top, spawnVars, envVars, Window
<1>2. Reloads'
  BY DEF IInv, Rest, Numbers, Top, spawnVars, envVars, Reloads, One
<1>3. Course'
  BY DEF IInv, Rest, Top, spawnVars, envVars, Course, Going, Shutdown
<1>4. Jobs'
  BY DEF IInv, Rest, Top, spawnVars, envVars, Jobs, JobOK
<1>5. Places'
  <2>1. armed' \in BOOLEAN
    BY DEF IInv, Rest, Places, Top
  <2>2. /\ flags' \subseteq flags
        /\ pc' = "suspend" /\ after' = after /\ pending' = pending
        /\ newBinary' = newBinary /\ live' = live /\ listening' = listening
    BY DEF Top, spawnVars
  <2>3. Places
    BY DEF IInv, Rest
  <2> QED
    BY <2>1, <2>2, <2>3 DEF Places
<1>6. Numbers'
  <2>1. Numbers
    BY DEF IInv, Rest
  <2>2. delay' \in {0, 50, 100, 200, 400, 800, 1600}
    BY <2>1 DEF Numbers, Top, KillDelay
  <2>3. sigio' \in {0, sigio}
    BY DEF Top
  <2>4. /\ gen' = gen /\ index' = index /\ sent' = sent /\ crashes' = crashes
        /\ fatals' = fatals /\ forkFails' = forkFails
    BY DEF Top, spawnVars, envVars
  <2> QED
    BY <2>1, <2>2, <2>3, <2>4 DEF Numbers, MasterAssumption
<1> QED
  BY <1>1, <1>2, <1>3, <1>4, <1>5, <1>6 DEF IInv, Rest

LEMMA ReapDoneStep ==
  ASSUME MasterAssumption, IInv, ReapDone
  PROVE  IInv'
<1>1. Slots'
  BY QuietStep DEF IInv, Rest, ReapDone, loopVars, envVars, Window
<1>2. Reloads'
  BY DEF IInv, Rest, Numbers, ReapDone, loopVars, envVars, Reloads, One
<1>3. Course'
  BY DEF IInv, Rest, ReapDone, loopVars, envVars, Course, Going, Shutdown
<1>4. Jobs'
  BY DEF IInv, Rest, ReapDone, loopVars, envVars, Jobs, JobOK
<1>5. Places'
  BY DEF IInv, Rest, Places, ReapDone, loopVars, envVars
<1>6. Numbers'
  BY DEF IInv, Rest, Numbers, ReapDone, loopVars, envVars, MasterAssumption
<1> QED
  BY <1>1, <1>2, <1>3, <1>4, <1>5, <1>6 DEF IInv, Rest

LEMMA ExitStep ==
  ASSUME IInv, Exit
  PROVE  IInv'
<1>1. Slots'
  BY QuietStep DEF IInv, Rest, Exit, spawnVars, envVars, Window
<1>2. Reloads'
  BY DEF IInv, Rest, Numbers, Exit, spawnVars, envVars, Reloads, One
<1>3. Course'
  BY DEF IInv, Rest, Exit, spawnVars, envVars, Course, Going, Shutdown
<1>4. Jobs'
  BY DEF IInv, Rest, Exit, spawnVars, envVars, Jobs, JobOK
<1>5. Places'
  BY DEF IInv, Rest, Places, Exit, spawnVars, envVars
<1>6. Numbers'
  BY DEF IInv, Rest, Numbers, Exit, spawnVars, envVars
<1> QED
  BY <1>1, <1>2, <1>3, <1>4, <1>5, <1>6 DEF IInv, Rest

LEMMA NoReconfigureStep ==
  ASSUME IInv, NoReconfigure
  PROVE  IInv'
<1>1. Slots'
  BY QuietStep DEF IInv, Rest, NoReconfigure, loopVars, spawnVars, envVars, Window
<1>2. Reloads'
  BY DEF IInv, Rest, Numbers, NoReconfigure, loopVars, spawnVars, envVars, Reloads, One
<1>3. Course'
  BY DEF IInv, Rest, NoReconfigure, loopVars, spawnVars, envVars, Course, Going, Shutdown
<1>4. Jobs'
  BY DEF IInv, Rest, NoReconfigure, loopVars, spawnVars, envVars, Jobs, JobOK
<1>5. Places'
  BY DEF IInv, Rest, Places, NoReconfigure, loopVars, spawnVars, envVars
<1>6. Numbers'
  BY DEF IInv, Rest, Numbers, NoReconfigure, loopVars, spawnVars, envVars
<1> QED
  BY <1>1, <1>2, <1>3, <1>4, <1>5, <1>6 DEF IInv, Rest

LEMMA ReconfigureFailsStep ==
  ASSUME IInv, ReconfigureFails
  PROVE  IInv'
<1>1. Slots'
  BY QuietStep DEF IInv, Rest, ReconfigureFails, loopVars, spawnVars, envVars, Window
<1>2. Reloads'
  BY DEF IInv, Rest, Numbers, ReconfigureFails, loopVars, spawnVars, envVars, Reloads, One
<1>3. Course'
  BY DEF IInv, Rest, ReconfigureFails, loopVars, spawnVars, envVars, Course, Going, Shutdown
<1>4. Jobs'
  BY DEF IInv, Rest, ReconfigureFails, loopVars, spawnVars, envVars, Jobs, JobOK
<1>5. Places'
  BY DEF IInv, Rest, Places, ReconfigureFails, loopVars, spawnVars, envVars
<1>6. Numbers'
  BY DEF IInv, Rest, Numbers, ReconfigureFails, loopVars, spawnVars, envVars
<1> QED
  BY <1>1, <1>2, <1>3, <1>4, <1>5, <1>6 DEF IInv, Rest

LEMMA ReconfigureOldBinaryStep ==
  ASSUME MasterAssumption, IInv, ReconfigureOldBinary
  PROVE  IInv'
<1>1. Slots'
  BY QuietStep DEF IInv, Rest, ReconfigureOldBinary, loopVars, envVars, Window, Course
<1>2. Reloads'
  BY DEF IInv, Rest, Numbers, ReconfigureOldBinary, loopVars, envVars, Reloads, One
<1>3. Course'
  BY DEF IInv, Rest, ReconfigureOldBinary, loopVars, envVars, Course, Going, Shutdown
<1>4. Jobs'
  BY StartedJobs DEF ReconfigureOldBinary
<1>5. Places'
  BY DEF IInv, Rest, Places, ReconfigureOldBinary, loopVars, envVars
<1>6. Numbers'
  BY DEF IInv, Rest, Numbers, ReconfigureOldBinary, loopVars, envVars
<1> QED
  BY <1>1, <1>2, <1>3, <1>4, <1>5, <1>6 DEF IInv, Rest

(* The processes that are there become those of an older configuration. *)
LEMMA ReconfigureStep ==
  ASSUME MasterAssumption, IInv, Reconfigure
  PROVE  IInv'
<1>1. Slots'
  BY QuietStep DEF IInv, Rest, Reconfigure, envVars, Window, Course
<1>2. Reloads'
  BY DEF IInv, Rest, Numbers, Reconfigure, envVars, Reloads, One
<1>3. Course'
  BY DEF IInv, Rest, Reconfigure, envVars, Course, Going, Shutdown
<1>4. Jobs'
  BY StartedJobs DEF Reconfigure
<1>5. Places'
  BY DEF IInv, Rest, Places, Reconfigure, envVars
<1>6. Numbers'
  BY DEF IInv, Rest, Numbers, Reconfigure, envVars
<1> QED
  BY <1>1, <1>2, <1>3, <1>4, <1>5, <1>6 DEF IInv, Rest

LEMMA RestartStep ==
  ASSUME MasterAssumption, IInv, Restart
  PROVE  IInv'
<1>1. Slots'
  <2>1. ~ Window /\ pc # "exited"
    BY DEF IInv, Rest, Course, Restart, Window
  <2>2. UNCHANGED <<table, kid>> /\ gen' = gen /\ (listening => listening')
    BY DEF Restart
  <2>3. Slots
    BY DEF IInv
  <2> QED
    BY <2>1, <2>2, <2>3, QuietStep
<1>2. Reloads'
  <2>1. gen' = gen /\ pending' = pending /\ sent' = sent
    BY DEF Restart, envVars
  <2>2. "reconfigure" \in flags' <=> "reconfigure" \in flags
    BY DEF Restart
  <2>3. Reloads
    BY DEF IInv, Rest
  <2> QED
    BY <2>1, <2>2, <2>3 DEF Reloads, One
<1>3. Course'
  BY DEF IInv, Rest, Restart, envVars, Course, Going, Shutdown
<1>4. Jobs'
  <2>1. CASE todo' = StartAll(FALSE)
    BY <2>1, StartedJobs
  <2>2. CASE todo' = todo /\ after' = after
    BY <2>2 DEF IInv, Rest, Jobs, JobOK
  <2> QED
    BY <2>1, <2>2 DEF Restart
<1>5. Places'
  BY DEF IInv, Rest, Places, Restart, envVars
<1>6. Numbers'
  BY DEF IInv, Rest, Numbers, Restart, envVars
<1> QED
  BY <1>1, <1>2, <1>3, <1>4, <1>5, <1>6 DEF IInv, Rest

LEMMA TerminateStep ==
  ASSUME MasterAssumption, IInv, Terminate
  PROVE  IInv'
<1>1. Slots'
  <2>1. ~ Window /\ ~ Window' /\ gen' = gen /\ pc # "exited" /\ (listening => listening')
    BY DEF IInv, Rest, Course, Terminate, Window, spawnVars
  <2>2. CASE UNCHANGED <<table, kid>>
    BY <2>1, <2>2, QuietStep DEF IInv
  <2>3. CASE SignalWorkers(StopCommand)
    <3>1. StopCommand \in Commands /\ StopCommand # "reopen"
      BY DEF StopCommand, Commands
    <3> QED
      BY <2>1, <2>3, <3>1, SignalledStep DEF IInv
  <2> QED
    BY <2>2, <2>3 DEF Terminate
<1>2. Reloads'
  BY DEF IInv, Rest, Numbers, Terminate, spawnVars, envVars, Reloads, One
<1>3. Course'
  BY DEF IInv, Rest, Terminate, spawnVars, envVars, Course, Going, Shutdown
<1>4. Jobs'
  BY DEF IInv, Rest, Terminate, spawnVars, envVars, Jobs, JobOK
<1>5. Places'
  BY DEF IInv, Rest, Places, Terminate, spawnVars, envVars, Flags
<1>6. Numbers'
  BY DEF IInv, Rest, Numbers, Terminate, spawnVars, envVars, MasterAssumption
<1> QED
  BY <1>1, <1>2, <1>3, <1>4, <1>5, <1>6 DEF IInv, Rest

LEMMA QuitStep ==
  ASSUME MasterAssumption, IInv, Quit
  PROVE  IInv'
<1>1. Slots'
  <2>1. ~ Window /\ ~ Window' /\ gen' = gen
    BY DEF IInv, Rest, Course, Quit, Window, spawnVars
  <2>2. SignalWorkers("quit") /\ "quit" \in Commands
    BY DEF Quit, Commands
  <2> QED
    BY <2>1, <2>2, SignalledStep DEF IInv
<1>2. Reloads'
  BY DEF IInv, Rest, Numbers, Quit, spawnVars, envVars, Reloads, One
<1>3. Course'
  BY DEF IInv, Rest, Quit, spawnVars, envVars, Course, Going, Shutdown
<1>4. Jobs'
  BY DEF IInv, Rest, Quit, spawnVars, envVars, Jobs, JobOK
<1>5. Places'
  BY DEF IInv, Rest, Places, Quit, spawnVars, envVars, Flags
<1>6. Numbers'
  BY DEF IInv, Rest, Numbers, Quit, spawnVars, envVars
<1> QED
  BY <1>1, <1>2, <1>3, <1>4, <1>5, <1>6 DEF IInv, Rest

LEMMA RetireOldStep ==
  ASSUME MasterAssumption, IInv, RetireOld
  PROVE  IInv'
<1>1. Slots'
  <2>1. ~ Window' /\ gen' = gen /\ listening'
    BY DEF IInv, Rest, Course, Going, RetireOld, Window, spawnVars
  <2>2. SignalWorkers("quit") /\ "quit" \in Commands
    BY DEF RetireOld, Commands
  <2> QED
    BY <2>1, <2>2, SignalledStep DEF IInv
<1>2. Reloads'
  BY DEF IInv, Rest, Numbers, RetireOld, spawnVars, envVars, Reloads, One
<1>3. Course'
  BY DEF IInv, Rest, RetireOld, spawnVars, envVars, Course, Going, Shutdown
<1>4. Jobs'
  BY DEF IInv, Rest, RetireOld, spawnVars, envVars, Jobs, JobOK
<1>5. Places'
  BY DEF IInv, Rest, Places, RetireOld, spawnVars, envVars, Flags
<1>6. Numbers'
  BY DEF IInv, Rest, Numbers, RetireOld, spawnVars, envVars
<1> QED
  BY <1>1, <1>2, <1>3, <1>4, <1>5, <1>6 DEF IInv, Rest

LEMMA ReopenStep ==
  ASSUME MasterAssumption, IInv, Reopen
  PROVE  IInv'
<1>1. Slots'
  <2>1. ~ Window /\ ~ Window' /\ gen' = gen /\ listening /\ listening'
    BY DEF IInv, Rest, Course, Going, Reopen, Window, loopVars, spawnVars
  <2>2. CASE UNCHANGED <<table, kid>>
    BY <2>1, <2>2, QuietStep DEF IInv
  <2>3. CASE SignalWorkers("reopen")
    BY <2>1, <2>3, SignalledStep DEF IInv, Commands
  <2> QED
    BY <2>2, <2>3 DEF Reopen
<1>2. Reloads'
  BY DEF IInv, Rest, Numbers, Reopen, loopVars, spawnVars, envVars, Reloads, One
<1>3. Course'
  BY DEF IInv, Rest, Reopen, loopVars, spawnVars, envVars, Course, Going, Shutdown
<1>4. Jobs'
  BY DEF IInv, Rest, Reopen, loopVars, spawnVars, envVars, Jobs, JobOK
<1>5. Places'
  BY DEF IInv, Rest, Places, Reopen, loopVars, spawnVars, envVars, Flags
<1>6. Numbers'
  BY DEF IInv, Rest, Numbers, Reopen, loopVars, spawnVars, envVars
<1> QED
  BY <1>1, <1>2, <1>3, <1>4, <1>5, <1>6 DEF IInv, Rest

LEMMA NoAcceptStep ==
  ASSUME MasterAssumption, IInv, NoAccept
  PROVE  IInv'
<1>1. Slots'
  <2>1. ~ Window /\ ~ Window' /\ gen' = gen /\ listening /\ listening'
    BY DEF IInv, Rest, Course, Going, NoAccept, Window, loopVars, spawnVars
  <2>2. CASE UNCHANGED <<table, kid>>
    BY <2>1, <2>2, QuietStep DEF IInv
  <2>3. CASE SignalWorkers("quit")
    BY <2>1, <2>3, SignalledStep DEF IInv, Commands
  <2> QED
    BY <2>2, <2>3 DEF NoAccept
<1>2. Reloads'
  BY DEF IInv, Rest, Numbers, NoAccept, loopVars, spawnVars, envVars, Reloads, One
<1>3. Course'
  BY DEF IInv, Rest, NoAccept, loopVars, spawnVars, envVars, Course, Going, Shutdown
<1>4. Jobs'
  BY DEF IInv, Rest, NoAccept, loopVars, spawnVars, envVars, Jobs, JobOK
<1>5. Places'
  BY DEF IInv, Rest, Places, NoAccept, loopVars, spawnVars, envVars, Flags
<1>6. Numbers'
  BY DEF IInv, Rest, Numbers, NoAccept, loopVars, spawnVars, envVars
<1> QED
  BY <1>1, <1>2, <1>3, <1>4, <1>5, <1>6 DEF IInv, Rest

(* The slot that ngx_spawn_process() fills. *)
LEMMA EnteredStep ==
  ASSUME MasterAssumption, Slots, gen \in Nat, NEW job \in Job,
         job.role # "binary" <=> ~ job.detached,
         job.just => Window /\ ~ job.detached,
         FreeSlot <= MaxProcesses, Unused # {}, Fork(NewPid, job.role), Enter(job),
         Window' = Window, gen' = gen, listening, listening' = listening, pc # "exited"
  PROVE  Slots'
<1> DEFINE slot == [pid |-> NewPid, role |-> job.role, exiting |-> FALSE, exited |-> FALSE,
                    detached |-> job.detached, respawn |-> job.respawn, just |-> job.just]
           n == Len(table)
<1>1. NewPid \in Unused /\ NewPid \in Pids
  BY NewPidUnused DEF Unused
<1>2. slot \in Slot
  BY <1>1 DEF Slot, Job
<1>3. /\ slot.pid = NewPid /\ ~ slot.exited /\ ~ slot.exiting /\ slot.role = job.role
      /\ slot.detached = job.detached /\ slot.just = job.just
  OBVIOUS
<1> HIDE DEF slot
<1>4. n \in Nat /\ DOMAIN table = 1..n /\ n <= MaxProcesses /\ table \in Seq(Slot)
  BY DEF Slots, Typed
<1>5. PICK k : k = FreeSlot
  OBVIOUS
<1>6. k \in 1..n + 1 /\ (k \in DOMAIN table => table[k].pid = InvalidPid)
  BY <1>5, FreeSlotFree DEF Slots
<1>7. /\ table' \in Seq(Slot) /\ Len(table') <= MaxProcesses
      /\ k \in DOMAIN table' /\ DOMAIN table' = DOMAIN table \cup {k}
      /\ \A s \in DOMAIN table \ {k} : table'[s] = table[s]
      /\ table'[k] = slot
  <2>1. CASE k > n
    <3>1. k = n + 1 /\ table' = Append(table, slot)
      BY <1>4, <1>5, <1>6, <2>1 DEF Enter, slot
    <3>2. /\ table' \in Seq(Slot) /\ Len(table') = n + 1 /\ DOMAIN table' = 1..n + 1
          /\ table'[n + 1] = slot /\ \A s \in 1..n : table'[s] = table[s]
      BY <1>2, <1>4, <3>1
    <3>3. n + 1 <= MaxProcesses
      BY <1>5, <3>1
    <3> HIDE DEF n
    <3>4. n + 1 \in 1..n + 1 /\ 1..n + 1 = (1..n) \cup {n + 1}
      BY <1>4
    <3> QED
      BY <1>4, <3>1, <3>2, <3>3, <3>4
  <2>2. CASE ~ (k > n)
    <3>1. k \in 1..n /\ table' = [table EXCEPT ![k] = slot]
      BY <1>4, <1>5, <1>6, <2>2 DEF Enter, slot
    <3>2. /\ table' \in Seq(Slot) /\ Len(table') = n /\ DOMAIN table' = 1..n
          /\ table'[k] = slot
          /\ \A i \in 1..n : i # k => table'[i] = table[i]
      BY <1>2, <1>4, <3>1, Replaced
    <3> HIDE DEF n
    <3> QED
      BY <1>4, <3>1, <3>2
  <2> QED
    BY <2>1, <2>2
<1>8. job.role \in Roles
  BY DEF Job
<1> QED
  BY <1>1, <1>3, <1>6, <1>7, <1>8, SpawnedStep

LEMMA SpawnStep ==
  ASSUME MasterAssumption, IInv, Spawn
  PROVE  IInv'
<1> DEFINE job == Head(todo)
<1>1. job \in Job /\ JobOK(job)
  BY DEF IInv, Rest, Jobs, Spawn
<1>2. pc' = pc /\ after' = after /\ gen' = gen /\ listening' = listening
  BY DEF Spawn, loopVars
<1>3. listening /\ pc # "exited" /\ gen \in Nat /\ Window' = Window /\ Slots
  BY <1>2 DEF IInv, Rest, Course, Numbers, Going, Spawn, Window
<1>4. Slots'
  <2>1. CASE UNCHANGED <<table, kid>>
    BY <1>2, <1>3, <2>1, QuietStep
  <2>2. CASE FreeSlot <= MaxProcesses /\ Unused # {} /\ Fork(NewPid, job.role) /\ Enter(job)
    <3>1. ~ job.detached /\ job.role # "binary" /\ (job.just => Window)
      BY <1>1 DEF JobOK, Window
    <3> HIDE DEF job
    <3> QED
      BY <1>1, <1>2, <1>3, <2>2, <3>1, EnteredStep
  <2> QED
    BY <2>1, <2>2 DEF Spawn
<1>5. Reloads'
  BY DEF IInv, Rest, Spawn, loopVars, envVars, Reloads, One
<1>6. Course'
  BY <1>2 DEF IInv, Rest, Spawn, Course, Going, Shutdown
<1>7. Jobs'
  <2>1. todo \in Seq(Job) /\ todo # <<>> /\ todo' = Tail(todo)
    BY DEF IInv, Rest, Jobs, Spawn
  <2>2. todo' \in Seq(Job)
        /\ \A i \in DOMAIN todo' : i + 1 \in DOMAIN todo /\ todo'[i] = todo[i + 1]
    BY <2>1
  <2> QED
    BY <1>2, <2>2 DEF IInv, Rest, Jobs, JobOK
<1>8. Places'
  BY <1>2 DEF IInv, Rest, Places, Spawn, loopVars
<1>9. Numbers'
  BY <1>2 DEF IInv, Rest, Numbers, Spawn, loopVars, envVars, ForkFailure
<1> QED
  BY <1>4, <1>5, <1>6, <1>7, <1>8, <1>9 DEF IInv, Rest

LEMMA ChangeBinaryStep ==
  ASSUME MasterAssumption, IInv, ChangeBinary
  PROVE  IInv'
<1> DEFINE job == [role |-> "binary", respawn |-> FALSE, just |-> FALSE, detached |-> TRUE]
<1>1. job \in Job /\ job.role = "binary" /\ job.detached /\ ~ job.just
  BY DEF Job, Roles
<1>2. after' = after /\ gen' = gen /\ listening' = listening /\ pc' = "noaccept"
  BY DEF ChangeBinary, loopVars, spawnVars
<1>3. listening /\ pc # "exited" /\ gen \in Nat /\ Window' = Window /\ Slots
  BY <1>2 DEF IInv, Rest, Course, Numbers, Going, ChangeBinary, Window
<1>4. Slots'
  <2>1. CASE UNCHANGED <<table, kid>>
    BY <1>2, <1>3, <2>1, QuietStep
  <2>2. CASE FreeSlot <= MaxProcesses /\ Unused # {} /\ Fork(NewPid, "binary") /\ Enter(job)
    <3>1. Fork(NewPid, job.role)
      BY <2>2
    <3> HIDE DEF job
    <3> QED
      BY <1>1, <1>2, <1>3, <2>2, <3>1, EnteredStep
  <2> QED
    BY <2>1, <2>2 DEF ChangeBinary
<1>5. newBinary' \in Pids \cup {NoPid, InvalidPid}
  <2>1. Unused # {} => NewPid \in Pids
    BY NewPidUnused DEF Unused
  <2> QED
    BY <2>1 DEF IInv, Rest, Places, ChangeBinary
<1>6. flags' \subseteq flags /\ ("reconfigure" \in flags' <=> "reconfigure" \in flags)
      /\ ("quit" \in flags' <=> "quit" \in flags)
      /\ ("terminate" \in flags' <=> "terminate" \in flags)
  BY DEF ChangeBinary
<1>7. UNCHANGED <<loopVars, spawnVars, pending, envVars>>
  BY DEF ChangeBinary
<1>8. Reloads'
  BY <1>6, <1>7 DEF IInv, Rest, loopVars, envVars, Reloads, One
<1>9. Course'
  BY <1>2, <1>6, <1>7 DEF IInv, Rest, Course, Going, Shutdown, ChangeBinary
<1>10. Jobs'
  BY <1>7 DEF IInv, Rest, spawnVars, Jobs, JobOK
<1>11. Places'
  BY <1>2, <1>5, <1>6, <1>7 DEF IInv, Rest, Places, loopVars, spawnVars
<1>12. Numbers'
  BY <1>7 DEF IInv, Rest, Numbers, ChangeBinary, loopVars, spawnVars, envVars, ForkFailure
<1> QED
  BY <1>4, <1>8, <1>9, <1>10, <1>11, <1>12 DEF IInv, Rest

(* The handlers of the signals. *)
LEMMA DeliverStep ==
  ASSUME MasterAssumption, IInv, Deliver
  PROVE  IInv'
<1>1. PICK raised : raised = flags \cup Raised
  OBVIOUS
<1>2. Raised \subseteq Flags /\ ("reconfigure" \in Raised => "hup" \in pending)
  <2>1. ASSUME NEW sig \in pending \ {"io"}
        PROVE  FlagOf[sig] \in Flags /\ (FlagOf[sig] = "reconfigure" => sig = "hup")
    <3>1. sig \in {"hup", "usr1", "usr2", "winch", "quit", "term", "alrm", "chld"}
      BY <2>1 DEF IInv, Rest, Places, Signals
    <3> QED
      BY <3>1 DEF FlagOf, Flags
  <2> QED
    BY <2>1 DEF Raised
<1>3. /\ flags' = raised \ {"reap"} /\ pending' = {}
      /\ pc' = "reap" \/ pc' = "decide"
      /\ index' = 0 \/ index' = 1
      /\ live' = FALSE \/ live' = live
      /\ UNCHANGED <<newBinary, delay, sigio, armed, listening, gen, todo, after,
                     envVars, forkFails>>
  BY <1>1 DEF Deliver
<1>4. ~ Window /\ ~ Window' /\ Window' = Window /\ pc # "exited"
  BY <1>3 DEF IInv, Rest, Course, Deliver, Window
<1>5. Slots'
  <2>1. CASE UNCHANGED <<table, kid>>
    BY <1>3, <1>4, <2>1, QuietStep DEF IInv
  <2>2. CASE /\ table' = Collected
             /\ kid' = [p \in Pids |-> IF p \in Zombies THEN NoKid ELSE kid[p]]
    BY <1>3, <1>4, <2>2, CollectedStep DEF IInv
  <2> QED
    BY <2>1, <2>2 DEF Deliver
<1>6. Reloads'
  <2>1. gen' = gen /\ sent' = sent /\ "hup" \notin pending'
    BY <1>3 DEF envVars
  <2>2. "reconfigure" \in flags' => "reconfigure" \in flags \/ "hup" \in pending
    BY <1>1, <1>2, <1>3
  <2> QED
    BY <2>1, <2>2 DEF IInv, Rest, Numbers, Reloads, One
<1>7. Course'
  <2>1. ("quit" \in flags => "quit" \in flags') /\ ("terminate" \in flags => "terminate" \in flags')
    BY <1>1, <1>3
  <2> QED
    BY <1>3, <2>1 DEF IInv, Rest, Course, Going, Shutdown, Deliver
<1>8. Jobs'
  BY <1>3 DEF IInv, Rest, Jobs, JobOK
<1>9. Places'
  <2>1. flags' \subseteq Flags
    BY <1>1, <1>2, <1>3 DEF IInv, Rest, Places
  <2>2. live' \in BOOLEAN
    BY <1>3 DEF IInv, Rest, Places
  <2> QED
    BY <1>3, <2>1, <2>2 DEF IInv, Rest, Places
<1>10. Numbers'
  BY <1>3 DEF IInv, Rest, Numbers, envVars, MasterAssumption
<1> QED
  BY <1>5, <1>6, <1>7, <1>8, <1>9, <1>10 DEF IInv, Rest

(* One slot of ngx_reap_children(). *)
LEMMA ReapSlotStep ==
  ASSUME MasterAssumption, IInv, ReapSlot
  PROVE  IInv'
<1>1. /\ pc = "reap" /\ index <= Len(table) /\ index' = index + 1
      /\ UNCHANGED <<pc, delay, sigio, armed, listening, gen, todo, after, pending, envVars>>
  BY DEF ReapSlot
<1>2. /\ flags' = flags \/ flags' = WithoutBinary
      /\ newBinary' = newBinary \/ newBinary' = NoPid
      /\ live' \in BOOLEAN
      /\ forkFails' = forkFails \/ ForkFailure
  <2>1. live \in BOOLEAN
    BY DEF IInv, Rest, Places
  <2>2. live' \in BOOLEAN
    BY <2>1 DEF ReapSlot
  <2> QED
    BY <2>2 DEF ReapSlot
<1>3. ~ Window /\ Window' = Window /\ Slots
  BY <1>1 DEF IInv, Rest, Course, Window
<1>4. index \in DOMAIN table /\ index \in 1..Len(table)
  BY <1>1 DEF IInv, Rest, Course, Numbers, Slots, Typed
<1>5. Slots'
  <2>1. CASE UNCHANGED <<table, kid>>
    BY <1>1, <1>3, <2>1, QuietStep
  <2>2. CASE table[index].exited /\ table' = Vacate(index) /\ UNCHANGED kid
    BY <1>1, <1>3, <1>4, <2>2, VacatedStep
  <2>3. CASE /\ table[index].exited /\ Respawns(index) /\ Unused # {}
             /\ Fork(NewPid, table[index].role)
             /\ table' = [table EXCEPT ![index].pid = NewPid, ![index].exited = FALSE]
    <3> DEFINE slot == [table[index] EXCEPT !.pid = NewPid, !.exited = FALSE]
    <3>1. NewPid \in Unused /\ NewPid \in Pids
      BY <2>3, NewPidUnused DEF Unused
    <3>2. table[index] \in Slot /\ SlotOK(index) /\ table \in Seq(Slot)
          /\ Len(table) <= MaxProcesses
      BY <1>3, <1>4 DEF Slots, Typed
    <3>3. /\ slot \in Slot /\ slot.pid = NewPid /\ slot.exited = FALSE
          /\ slot.exiting = table[index].exiting /\ slot.role = table[index].role
          /\ slot.detached = table[index].detached /\ slot.just = table[index].just
      BY <3>1, <3>2 DEF Slot
    <3>4. table' = [table EXCEPT ![index] = slot]
      BY <2>3, <3>2
    <3> HIDE DEF slot
    <3>5. /\ table' \in Seq(Slot) /\ Len(table') = Len(table) /\ DOMAIN table' = 1..Len(table)
          /\ table'[index] = slot
          /\ \A i \in 1..Len(table) : i # index => table'[i] = table[i]
      BY <1>4, <3>2, <3>3, <3>4, Replaced
    <3>6. ~ table[index].exiting /\ listening /\ gen \in Nat
      BY <2>3 DEF Respawns, IInv, Rest, Course, Numbers
    <3>7. table[index].role \in Roles
      BY <3>2 DEF Slot
    <3>8. DOMAIN table' = DOMAIN table \cup {index}
      BY <1>4, <3>2, <3>5
    <3>9. /\ table[index].role = "binary" <=> table[index].detached
          /\ ~ table[index].just
      BY <1>3, <3>2 DEF SlotOK
    <3> QED
      BY SMTT(30), <1>1, <1>3, <1>4, <2>3, <3>1, <3>2, <3>3, <3>5, <3>6, <3>7, <3>8, <3>9, SpawnedStep
  <2> QED
    BY <2>1, <2>2, <2>3 DEF ReapSlot
<1>6. /\ flags' \subseteq Flags
      /\ "reconfigure" \in flags' <=> "reconfigure" \in flags
      /\ "quit" \in flags' <=> "quit" \in flags
      /\ "terminate" \in flags' <=> "terminate" \in flags
  BY <1>2 DEF IInv, Rest, Places, WithoutBinary, Flags
<1>7. Reloads'
  BY <1>1, <1>6 DEF IInv, Rest, envVars, Reloads, One
<1>8. Course'
  BY <1>1, <1>6 DEF IInv, Rest, Course, Numbers, Going, Shutdown
<1>9. Jobs'
  BY <1>1 DEF IInv, Rest, Jobs, JobOK
<1>10. Places'
  BY <1>1, <1>2, <1>6 DEF IInv, Rest, Places
<1>11. Numbers'
  <2>1. index' \in 0..MaxProcesses + 1
    BY <1>1, <1>4 DEF IInv, Slots, Typed, MasterAssumption
  <2> QED
    BY <1>1, <1>2, <2>1 DEF IInv, Rest, Numbers, envVars, ForkFailure
<1> QED
  BY <1>5, <1>7, <1>8, <1>9, <1>10, <1>11 DEF IInv, Rest

-----------------------------------------------------------------------------
(* The children and the rest of the world.                                    *)

(* Nothing of the master changes but its pending signals. *)
LEMMA OutsideRest ==
  ASSUME IInv, UNCHANGED MasterIdle, pending' \subseteq Signals,
         "hup" \in pending' => "hup" \in pending \/ sent' = sent + 1,
         sent' \in 0..MaxSignals, sent' >= sent,
         crashes' \in 0..MaxCrashes, fatals' \in 0..MaxCrashes
  PROVE  Rest'
<1>1. UNCHANGED <<pc, flags, newBinary, loopVars, spawnVars, forkFails>>
  BY DEF MasterIdle
<1>2. Reloads'
  BY <1>1 DEF IInv, Rest, Numbers, Reloads, One, loopVars
<1>3. Course'
  BY <1>1 DEF IInv, Rest, Course, Going, Shutdown, loopVars, spawnVars
<1>4. Jobs'
  BY <1>1 DEF IInv, Rest, Jobs, JobOK, spawnVars
<1>5. Places'
  BY <1>1 DEF IInv, Rest, Places, loopVars, spawnVars
<1>6. Numbers'
  BY <1>1 DEF IInv, Rest, Numbers, loopVars, spawnVars
<1> QED
  BY <1>2, <1>3, <1>4, <1>5, <1>6 DEF Rest

LEMMA SendStep ==
  ASSUME MasterAssumption, IInv, NEW sig \in Operator, Send(sig)
  PROVE  IInv'
<1>1. Slots'
  BY QuietStep DEF IInv, Send, MasterIdle, loopVars, spawnVars, Window
<1>2. sig \in Signals
  BY DEF MasterAssumption, Signals
<1>3. Rest'
  BY <1>2, OutsideRest DEF IInv, Rest, Places, Numbers, Send, MasterAssumption
<1> QED
  BY <1>1, <1>3 DEF IInv

LEMMA AlarmStep ==
  ASSUME IInv, Alarm
  PROVE  IInv'
<1>1. Slots'
  BY QuietStep DEF IInv, Alarm, spawnVars, Window
<1>2. Reloads'
  BY DEF IInv, Rest, Numbers, Alarm, envVars, Reloads, One
<1>3. Course'
  BY DEF IInv, Rest, Alarm, spawnVars, Course, Going, Shutdown
<1>4. Jobs'
  BY DEF IInv, Rest, Alarm, spawnVars, Jobs, JobOK
<1>5. Places'
  BY DEF IInv, Rest, Places, Alarm, spawnVars, Signals
<1>6. Numbers'
  BY DEF IInv, Rest, Numbers, Alarm, spawnVars, envVars
<1> QED
  BY <1>1, <1>2, <1>3, <1>4, <1>5, <1>6 DEF IInv, Rest

(* A child ends. *)
LEMMA EndsStep ==
  ASSUME MasterAssumption, IInv, NEW p \in Pids, Alive(p), NEW st \in {"zombie", "fatal"},
         Ends(p, st), UNCHANGED MasterIdle, sent' = sent,
         crashes' \in 0..MaxCrashes, fatals' \in 0..MaxCrashes
  PROVE  IInv'
<1>1. /\ kid'[p].st = st /\ kid'[p].role = kid[p].role /\ kid'[p].gen = kid[p].gen
      /\ kid' \in [Pids -> Kid]
      /\ \A q \in Pids \ {p} : kid'[q] = kid[q]
  <2>1. kid \in [Pids -> Kid] /\ kid[p] \in Kid
    BY DEF IInv, Slots, Typed
  <2>2. PICK k : k = [kid[p] EXCEPT !.st = st, !.mail = {}]
    OBVIOUS
  <2>3. k \in Kid /\ k.st = st /\ k.role = kid[p].role /\ k.gen = kid[p].gen
    BY <2>1, <2>2 DEF Kid, States
  <2>4. kid' = [kid EXCEPT ![p] = k]
    BY <2>2 DEF Ends
  <2> QED
    BY <2>1, <2>3, <2>4
<1>2. Slots'
  <2>1. ~ Alive(p)' /\ kid[p].st # "none"
    BY <1>1 DEF Alive
  <2>2. UNCHANGED <<table, gen, listening, pc, after>>
    BY DEF MasterIdle, loopVars, spawnVars
  <2> QED
    BY <1>1, <2>1, <2>2, ChildStep DEF IInv
<1>3. Rest'
  BY OutsideRest DEF IInv, Rest, Places, Numbers, Ends, Signals
<1> QED
  BY <1>2, <1>3 DEF IInv

(* A child that reads a command ends, or remembers that it should. *)
LEMMA ReadChannelStep ==
  ASSUME MasterAssumption, IInv, NEW p \in Pids, ReadChannel(p)
  PROVE  IInv'
<1>1. /\ Alive(p) /\ UNCHANGED MasterIdle /\ UNCHANGED envVars
      /\ sent' = sent /\ crashes' = crashes /\ fatals' = fatals
  BY DEF ReadChannel, envVars
<1>2. crashes' \in 0..MaxCrashes /\ fatals' \in 0..MaxCrashes
  BY <1>1 DEF IInv, Rest, Numbers
<1>3. CASE Ends(p, "zombie")
  BY <1>1, <1>2, <1>3, EndsStep
<1>4. ASSUME NEW k \in Kid, kid' = [kid EXCEPT ![p] = k],
             k.role = kid[p].role, k.gen = kid[p].gen, k.st # "none",
             Resigned(p) => k.st = "drain" \/ k.mail \cap {"quit", "term", "kill"} # {},
             pending' = pending \cup {"io"}
      PROVE  IInv'
  <2>1. /\ kid' \in [Pids -> Kid] /\ kid'[p] = k /\ kid[p].st # "none"
        /\ \A q \in Pids \ {p} : kid'[q] = kid[q]
    BY <1>1, <1>4 DEF IInv, Slots, Typed, Alive
  <2>2. UNCHANGED <<table, gen, listening, pc, after>>
    BY <1>1 DEF MasterIdle, loopVars, spawnVars
  <2>3. Resigned(p) => Resigned(p)'
    BY <1>4, <2>1 DEF Resigned
  <2>4. Slots'
    BY <1>1, <1>4, <2>1, <2>2, <2>3, ChildStep DEF IInv
  <2>5. Rest'
    BY <1>1, <1>2, <1>4, OutsideRest DEF IInv, Rest, Places, Numbers, Signals
  <2> QED
    BY <2>4, <2>5 DEF IInv
<1>5. kid[p] \in Kid /\ kid[p].st \in {"run", "drain"}
  BY <1>1 DEF IInv, Slots, Typed, Alive
<1>6. CASE /\ kid' = [kid EXCEPT ![p].st = "drain", ![p].mail = @ \ {"quit", "reopen"}]
           /\ pending' = pending \cup {"io"}
  <2>1. PICK m : m = kid[p].mail \ {"quit", "reopen"}
    OBVIOUS
  <2>2. PICK k : k = [kid[p] EXCEPT !.st = "drain", !.mail = m]
    OBVIOUS
  <2>3. k \in Kid /\ k.st = "drain" /\ k.role = kid[p].role /\ k.gen = kid[p].gen
    BY <1>5, <2>1, <2>2 DEF Kid, States
  <2>4. kid' = [kid EXCEPT ![p] = k]
    BY <1>6, <2>1, <2>2
  <2> QED
    BY <1>4, <1>6, <2>3, <2>4
<1>7. CASE /\ kid[p].mail \cap {"quit", "term", "kill"} = {}
           /\ kid' = [kid EXCEPT ![p].mail = @ \ {"reopen"}]
           /\ pending' = pending \cup {"io"}
  <2>1. PICK m : m = kid[p].mail \ {"reopen"}
    OBVIOUS
  <2>2. PICK k : k = [kid[p] EXCEPT !.mail = m]
    OBVIOUS
  <2>3. k \in Kid /\ k.st = kid[p].st /\ k.role = kid[p].role /\ k.gen = kid[p].gen
    BY <1>5, <2>1, <2>2 DEF Kid, States
  <2>4. kid' = [kid EXCEPT ![p] = k]
    BY <1>7, <2>1, <2>2
  <2>5. Resigned(p) => k.st = "drain"
    BY <1>7, <2>3 DEF Resigned
  <2> QED
    BY <1>4, <1>5, <1>7, <2>3, <2>4, <2>5
<1> QED
  BY <1>3, <1>6, <1>7 DEF ReadChannel

LEMMA OtherEndsStep ==
  ASSUME MasterAssumption, IInv, NEW p \in Pids, Killed(p) \/ Drained(p) \/ Finish(p) \/ Crash(p)
  PROVE  IInv'
<1>1. Alive(p) /\ UNCHANGED MasterIdle /\ sent' = sent
  BY DEF Killed, Drained, Finish, Crash, Alive, envVars
<1>2. crashes' \in 0..MaxCrashes /\ fatals' \in 0..MaxCrashes
  BY DEF Killed, Drained, Finish, Crash, envVars, IInv, Rest, Numbers, MasterAssumption
<1>3. Ends(p, "zombie") \/ Ends(p, "fatal")
  BY DEF Killed, Drained, Finish, Crash
<1> QED
  BY <1>1, <1>2, <1>3, EndsStep

LEMMA StutterStep ==
  ASSUME IInv, UNCHANGED vars
  PROVE  IInv'
<1>1. UNCHANGED MasterIdle /\ UNCHANGED <<pending, kid, sent, crashes, fatals>>
  BY DEF vars, MasterIdle, envVars
<1>2. Slots'
  BY <1>1, QuietStep DEF IInv, MasterIdle, loopVars, spawnVars, Window
<1>3. Rest'
  BY <1>1, OutsideRest DEF IInv, Rest, Places, Numbers
<1> QED
  BY <1>2, <1>3 DEF IInv

LEMMA NextStep ==
  ASSUME MasterAssumption, IInv, [Next]_vars
  PROVE  IInv'
<1>1. CASE Loop
  BY <1>1, SpawnStep, SpawnDoneStep, TopStep, DeliverStep, ReapSlotStep, ReapDoneStep, ExitStep,
     TerminateStep, QuitStep, ReconfigureOldBinaryStep, ReconfigureFailsStep, ReconfigureStep,
     RetireOldStep, NoReconfigureStep, RestartStep, ReopenStep, ChangeBinaryStep, NoAcceptStep
     DEF Loop
<1>2. CASE Alarm
  BY <1>2, AlarmStep
<1>3. CASE \E sig \in Operator : Send(sig)
  BY <1>3, SendStep
<1>4. CASE \E p \in Pids : ReadChannel(p) \/ Killed(p) \/ Drained(p) \/ Finish(p) \/ Crash(p)
  BY <1>4, ReadChannelStep, OtherEndsStep
<1>5. CASE UNCHANGED vars
  BY <1>5, StutterStep
<1> QED
  BY <1>1, <1>2, <1>3, <1>4, <1>5 DEF Next

-----------------------------------------------------------------------------
(* The invariant is one: what the master notes in its table, the flags of its loop and
   the commands on their way to the children agree after every step of the loop, of a
   child, of a timer and of the administrator. *)
THEOREM MasterInvariant == SafetySpec => []IInv
<1>1. ASSUME Init PROVE IInv
  BY <1>1, InitHolds, MasterAssumption
<1>2. ASSUME IInv, [Next]_vars PROVE IInv'
  BY <1>2, NextStep, MasterAssumption
<1> QED
  BY <1>1, <1>2, PTL DEF SafetySpec

(* A child is in one slot of ngx_processes from the fork() in ngx_spawn_process() until
   waitpid() in ngx_process_get_status(), whatever the other slots go through. *)
THEOREM TrackedHolds == SafetySpec => []Tracked
<1>1. IInv => TypeOK
  <2> SUFFICES ASSUME IInv PROVE TypeOK
    OBVIOUS
  <2>1. gen \in 0..MaxSignals
    <3>1. gen \in Nat /\ sent \in 0..MaxSignals /\ MaxSignals \in Nat
      BY MasterAssumption DEF IInv, Rest, Numbers, MasterAssumption
    <3>2. gen <= sent
      BY <3>1 DEF IInv, Rest, Reloads, One
    <3> QED
      BY <3>1, <3>2
  <2> QED
    BY <2>1 DEF IInv, Rest, Places, Numbers, Jobs, Slots, Typed, TypeOK
<1>2. IInv => Tracked
  BY <1>1 DEF IInv, Slots, Tracking, Tracked
<1> QED
  BY <1>2, MasterInvariant, PTL

(* When the master sleeps, every worker and cache process of an older configuration, and
   after SIGQUIT or SIGTERM every one, has been told to go: none is passed over
   by ngx_signal_worker_processes(). *)
THEOREM RetiredHolds == SafetySpec => []Retired
<1>1. IInv => Retired
  <2> SUFFICES ASSUME IInv, pc = "suspend", NEW p \in Children,
                      kid[p].gen < gen \/ ~ listening
               PROVE  Resigned(p)
    BY DEF Retired
  <2>1. p \in Pids /\ Alive(p) /\ kid[p].role # "binary" /\ kid[p].st # "none"
    BY DEF Children, Alive
  <2>2. PICK s \in DOMAIN table : table[s].pid = p
    BY <2>1 DEF IInv, Slots, Tracking
  <2>3. SlotOK(s) /\ KidOK(p, s)
    BY <2>1, <2>2 DEF IInv, Slots, SlotOK
  <2>4. ~ table[s].detached
    BY <2>1, <2>3 DEF SlotOK, KidOK
  <2>5. ~ Window /\ gen \in Nat
    BY DEF IInv, Rest, Course, Numbers, Window
  <2>6. ~ Current(p, s)
    BY <2>5 DEF Current
  <2> QED
    BY <2>1, <2>3, <2>4, <2>6 DEF KidOK
<1> QED
  BY <1>1, MasterInvariant, PTL
==============================================================================
