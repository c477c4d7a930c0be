--------------------------- MODULE FileCacheProofs ---------------------------
(* The count of a cache node is exactly its users, and one request at a time brings it up to
   date, for any number of workers, keys, nodes and dead workers. *)
EXTENDS FileCache, FiniteSetTheorems, TLAPS

Flags == [leaked : Nat, orphan : BOOLEAN, breach : BOOLEAN]

RequestType ==
  [pc : {"idle", "exists", "forced", "alloc", "test", "valid", "lock", "waiting", "fetch",
         "respond", "update", "finish"},
   key : Keys \cup {None}, node : Slots \cup {None}, bypass : BOOLEAN, lock : BOOLEAN,
   left : 0..LockTimeout, updating : BOOLEAN, error : BOOLEAN, cacheable : BOOLEAN,
   scarce : BOOLEAN, renamed : BOOLEAN]

Typed ==
  /\ conf \in Configs /\ crashes \in Nat
  /\ node \in [Slots -> Nodes \cup {None}]
  /\ queue \in Seq(Slots)
  /\ file \in [Keys -> BOOLEAN]
  /\ req \in [Requests -> RequestType]
  /\ del \in [Actors -> [node : Slots \cup {None}, gone : BOOLEAN]]
  /\ loader \in [cold : BOOLEAN, loading : BOOLEAN, key : Keys \cup {None}]
  /\ ghost \in [Slots -> Flags]

\* tree and queue hold the same nodes
Queued == ToSet(queue) = Used /\ IsInjective(queue) /\ \A s \in Used : node[s].uses <= conf.min

\* what a request has, at each place of its code
RequestOK(c) ==
  /\ c.pc = "idle" <=> c.key = None
  /\ c.pc = "idle" => c.node = None
  /\ c.pc \in {"test", "valid", "lock", "waiting", "respond", "update"} => c.node # None
  /\ c.pc = "fetch" => c.node # None \/ c.bypass
  /\ c.pc \in {"forced", "alloc"} => c.node = None
  /\ c.updating => c.node # None /\ c.pc \in {"fetch", "respond", "update"}
  /\ c.lock => c.left > 0
  /\ c.pc = "waiting" => c.lock

\* what it has is in the tree, for its key
Held ==
  \A r \in Requests :
    /\ RequestOK(req[r])
    /\ req[r].node # None => req[r].node \in Used /\ node[req[r].node].key = req[r].key

Deleted ==
  \A a \in Actors : del[a].node # None =>
    del[a].node \in Used /\ (a \in Requests => req[a].pc = "forced")

Sum(s)  == Cardinality(Users(s)) + Cardinality(Deleters(s)) + ghost[s].leaked
Counted == \A s \in Used : node[s].count = Sum(s)

Ghosts ==
  \A s \in Slots :
    /\ s \notin Used => ghost[s] = Clean
    /\ ghost[s].leaked <= 2 * crashes
    /\ s \in Used /\ ghost[s].orphan => node[s].updating

\* OneUpdater, for one node
Updated(s) ==
  \/ ghost[s].breach
  \/ node[s].updating /\ ghost[s].orphan /\ Updaters(s) = {}
  \/ node[s].updating /\ ~ghost[s].orphan /\ \E x : Updaters(s) = {x}
  \/ ~node[s].updating /\ Updaters(s) = {}

IInv ==
  Typed /\ Queued /\ Held /\ Deleted /\ Counted /\ Ghosts /\ \A s \in Used : Updated(s)

-----------------------------------------------------------------------------
(* The queue. *)

LEMMA Concatenated ==
  ASSUME NEW S, NEW a \in Seq(S), NEW b \in Seq(S)
  PROVE  a \o b \in Seq(S) /\ Len(a \o b) = Len(a) + Len(b)
OBVIOUS

LEMMA UnlinkedRemoves ==
  ASSUME NEW q \in Seq(Slots), IsInjective(q), NEW s
  PROVE  /\ Unlinked(q, s) \in Seq(Slots) /\ IsInjective(Unlinked(q, s))
         /\ ToSet(Unlinked(q, s)) = ToSet(q) \ {s}
<1>0. Len(q) \in Nat /\ DOMAIN q = 1..Len(q)
  OBVIOUS
<1>1. CASE ~ \E i \in 1..Len(q) : q[i] = s
  <2>1. Unlinked(q, s) = q
    BY <1>1 DEF Unlinked
  <2> QED
    BY <1>0, <1>1, <2>1 DEF ToSet
<1>2. CASE \E i \in 1..Len(q) : q[i] = s
  <2>1. PICK k \in 1..Len(q) : q[k] = s /\ Unlinked(q, s) = RemoveAt(q, k)
    BY <1>2 DEF Unlinked
  <2>2. PICK u : u = Unlinked(q, s)
    OBVIOUS
  <2>3. /\ u \in Seq(Slots) /\ Len(u) = Len(q) - 1
        /\ \A i \in 1..Len(q) - 1 : u[i] = IF i < k THEN q[i] ELSE q[i + 1]
    <3>1. PICK a : a = SubSeq(q, 1, k - 1)
      OBVIOUS
    <3>2. PICK b : b = SubSeq(q, k + 1, Len(q))
      OBVIOUS
    <3>3. a \in Seq(Slots) /\ Len(a) = k - 1 /\ \A i \in 1..k - 1 : a[i] = q[i]
      BY <2>1, <3>1
    <3>4. b \in Seq(Slots) /\ Len(b) = Len(q) - k /\ \A i \in 1..Len(q) - k : b[i] = q[k + i]
      BY <2>1, <3>2
    <3>5. u = a \o b
      BY <2>1, <2>2, <3>1, <3>2 DEF RemoveAt
    <3>6. k \in 1..Len(q) /\ k \in Nat
      BY <1>0, <2>1
    <3>7. u \in Seq(Slots) /\ Len(u) = Len(q) - 1
      <4>1. u \in Seq(Slots) /\ Len(u) = Len(a) + Len(b)
        <5>1. a \in Seq(Slots) /\ b \in Seq(Slots)
          BY <3>3, <3>4
        <5> QED
          BY <3>5, <5>1, Concatenated
      <4>2. (k - 1) + (Len(q) - k) = Len(q) - 1
        BY <1>0, <3>6
      <4> QED
        BY <3>3, <3>4, <4>1, <4>2
    <3>8. ASSUME NEW i \in 1..Len(q) - 1 PROVE u[i] = IF i < k THEN q[i] ELSE q[i + 1]
      <4>1. CASE i < k
        BY <1>0, <3>3, <3>4, <3>5, <3>6, <4>1
      <4>2. CASE ~(i < k)
        <5>1. PICK j \in 1..Len(q) - k : i = (k - 1) + j
          <6>1. i - (k - 1) \in 1..Len(q) - k /\ i = (k - 1) + (i - (k - 1))
            BY <1>0, <3>6, <3>8, <4>2
          <6> QED
            BY <6>1
        <5>2. u[i] = b[j]
          BY <1>0, <3>3, <3>4, <3>5, <3>6, <5>1
        <5>3. k + j = i + 1
          BY <3>6, <5>1
        <5> QED
          BY <3>4, <4>2, <5>2, <5>3
      <4> QED
        BY <4>1, <4>2
    <3> QED
      BY <3>7, <3>8
  <2>4. DOMAIN u = 1..Len(q) - 1
    BY <1>0, <2>3
  <2>5. \A i \in DOMAIN q : q[i] = s => i = k
    BY <1>0, <2>1 DEF IsInjective
  <2>6. IsInjective(u)
    <3> SUFFICES ASSUME NEW i \in DOMAIN u, NEW j \in DOMAIN u, u[i] = u[j] PROVE i = j
      BY DEF IsInjective
    <3>1. i \in 1..Len(q) - 1 /\ j \in 1..Len(q) - 1 /\ k \in 1..Len(q)
      BY <2>4
    <3>2. PICK a \in DOMAIN q, b \in DOMAIN q :
            /\ a = IF i < k THEN i ELSE i + 1
            /\ b = IF j < k THEN j ELSE j + 1
      BY <1>0, <3>1
    <3>3. q[a] = q[b]
      BY <2>3, <3>1, <3>2
    <3>4. a = b
      BY <3>3 DEF IsInjective
    <3> QED
      BY <1>0, <3>1, <3>2, <3>4
  <2>7. ToSet(u) = ToSet(q) \ {s}
    <3>1. ASSUME NEW x \in ToSet(u) PROVE x \in ToSet(q) \ {s}
      <4>1. PICK i \in 1..Len(q) - 1 : u[i] = x
        BY <2>4, <3>1 DEF ToSet
      <4>2. PICK a \in DOMAIN q : a # k /\ q[a] = x
        <5>1. CASE i < k
          <6>1. i \in DOMAIN q /\ i # k /\ q[i] = x
            BY <1>0, <2>3, <4>1, <5>1
          <6> QED
            BY <6>1
        <5>2. CASE ~(i < k)
          <6>1. i + 1 \in DOMAIN q /\ i + 1 # k /\ q[i + 1] = x
            BY <1>0, <2>3, <4>1, <5>2
          <6> QED
            BY <6>1
        <5> QED
          BY <5>1, <5>2
      <4> QED
        BY <2>5, <4>2 DEF ToSet
    <3>2. ASSUME NEW x \in ToSet(q) \ {s} PROVE x \in ToSet(u)
      <4>1. PICK a \in 1..Len(q) : q[a] = x
        BY <1>0, <3>2 DEF ToSet
      <4>2. a # k
        BY <2>1, <3>2, <4>1
      <4>3. CASE a < k
        <5>1. a \in 1..Len(q) - 1 /\ u[a] = x
          BY <1>0, <2>3, <4>1, <4>3
        <5> QED
          BY <2>4, <5>1 DEF ToSet
      <4>4. CASE ~(a < k)
        <5>1. PICK b \in 1..Len(q) - 1 : b + 1 = a /\ ~(b < k)
          BY <1>0, <4>1, <4>2, <4>4
        <5>2. u[b] = x
          BY <2>3, <4>1, <5>1
        <5> QED
          BY <2>4, <5>1, <5>2 DEF ToSet
      <4> QED
        BY <4>3, <4>4
    <3> QED
      BY <3>1, <3>2
  <2> QED
    BY <2>2, <2>3, <2>6, <2>7
<1> QED
  BY <1>1, <1>2

LEMMA TouchedAdds ==
  ASSUME Typed, Queued, NEW s \in Slots
  PROVE  /\ Touched(s) \in Seq(Slots) /\ IsInjective(Touched(s))
         /\ ToSet(Touched(s)) = Used \cup {s}
<1>1. PICK u \in Seq(Slots) : u = Unlinked(queue, s)
  BY UnlinkedRemoves DEF Typed, Queued
<1>2. IsInjective(u) /\ ToSet(u) = Used \ {s}
  BY <1>1, UnlinkedRemoves DEF Typed, Queued
<1>3. PICK t : t = <<s>> \o u
  OBVIOUS
<1>4. /\ t \in Seq(Slots) /\ Len(t) = Len(u) + 1 /\ DOMAIN t = 1..Len(u) + 1
      /\ t[1] = s /\ \A i \in 1..Len(u) : t[i + 1] = u[i]
      /\ DOMAIN u = 1..Len(u) /\ Len(u) \in Nat
  BY <1>3
<1>5. \A i \in DOMAIN t : i = 1 \/ \E j \in DOMAIN u : i = j + 1 /\ t[i] = u[j]
  <2> TAKE i \in DOMAIN t
  <2>1. CASE i # 1
    <3>1. i - 1 \in 1..Len(u) /\ i = (i - 1) + 1
      BY <1>4, <2>1
    <3> QED
      BY <1>4, <3>1
  <2> QED
    BY <2>1
<1>6. IsInjective(t)
  <2> SUFFICES ASSUME NEW i \in DOMAIN t, NEW j \in DOMAIN t, t[i] = t[j] PROVE i = j
    BY DEF IsInjective
  <2>1. \A k \in DOMAIN u : u[k] # s
    BY <1>2 DEF ToSet
  <2>2. CASE i = 1 \/ j = 1
    BY <1>4, <1>5, <2>1, <2>2
  <2>3. CASE i # 1 /\ j # 1
    <3>1. PICK a \in DOMAIN u, b \in DOMAIN u : i = a + 1 /\ j = b + 1 /\ t[i] = u[a] /\ t[j] = u[b]
      BY <1>5, <2>3
    <3>2. a = b
      BY <1>2, <3>1 DEF IsInjective
    <3> QED
      BY <3>1, <3>2
  <2> QED
    BY <2>2, <2>3
<1>7. ToSet(t) = {s} \cup ToSet(u)
  <2>1. ASSUME NEW x \in ToSet(t) PROVE x \in {s} \cup ToSet(u)
    BY <1>4, <1>5 DEF ToSet
  <2>2. s \in ToSet(t)
    BY <1>4 DEF ToSet
  <2>3. ASSUME NEW x \in ToSet(u) PROVE x \in ToSet(t)
    <3>1. PICK j \in 1..Len(u) : u[j] = x
      BY <1>4, <2>3 DEF ToSet
    <3>2. j + 1 \in DOMAIN t /\ t[j + 1] = x
      BY <1>4, <3>1
    <3> QED
      BY <3>2 DEF ToSet
  <2> QED
    BY <2>1, <2>2, <2>3
<1>8. Touched(s) = t
  BY <1>1, <1>3 DEF Touched
<1> QED
  BY <1>2, <1>4, <1>6, <1>7, <1>8

-----------------------------------------------------------------------------
(* Who has a node. *)

LEMMA Counts ==
  ASSUME NEW s
  PROVE  /\ IsFiniteSet(Users(s)) /\ Cardinality(Users(s)) \in Nat
         /\ IsFiniteSet(Deleters(s)) /\ Cardinality(Deleters(s)) \in Nat
<1>1. IsFiniteSet(Requests)
  BY FileCacheAssumption
<1>2. IsFiniteSet(Actors)
  BY <1>1, FS_AddElement DEF Actors
<1> QED
  BY <1>1, <1>2, FS_Subset, FS_CardinalityType DEF Users, Deleters

LEMMA NoneIsNothing ==
  /\ None \notin Slots /\ None \notin Keys /\ None \notin Nodes
  /\ Manager \in Actors /\ Manager \notin Requests /\ Requests \subseteq Actors
BY FileCacheAssumption DEF Slots, Actors

\* a set that one element joins or leaves
LEMMA Joined ==
  ASSUME NEW S, IsFiniteSet(S), NEW T, NEW r, r \notin S, T = S \cup {r}
  PROVE  Cardinality(T) = Cardinality(S) + 1
BY FS_AddElement

LEMMA Left ==
  ASSUME NEW S, IsFiniteSet(S), NEW T, NEW r, r \in S, T = S \ {r}
  PROVE  Cardinality(T) = Cardinality(S) - 1 /\ Cardinality(S) > 0
<1>1. Cardinality(T) = Cardinality(S) - 1
  BY FS_RemoveElement
<1>2. S # {} /\ Cardinality(S) \in Nat
  BY FS_CardinalityType
<1>3. Cardinality(S) # 0
  BY <1>2, FS_EmptySet
<1> QED
  BY <1>1, <1>2, <1>3

-----------------------------------------------------------------------------
(* A step changes one node s: who has another node has it still.  For the requests and the
   deletions, said of each. *)

Stays(x, s) ==
  \/ req'[x].node = req[x].node /\ req'[x].updating = req[x].updating
  \/ req[x].node \in {None, s} /\ req'[x].node \in {None, s}

Remains(a, s) ==
  del'[a].node = del[a].node \/ (del[a].node \in {None, s} /\ del'[a].node \in {None, s})

LEMMA SameUsers ==
  ASSUME NEW s, NEW t \in Slots, t # s, \A x \in Requests : Stays(x, s)
  PROVE  Users(t)' = Users(t) /\ Updaters(t)' = Updaters(t)
<1>1. t # None
  BY NoneIsNothing
<1>2. \A x \in Requests :
        (req'[x].node = t <=> req[x].node = t)
        /\ (req[x].node = t => req'[x].updating = req[x].updating)
  BY <1>1 DEF Stays
<1>3. Users(t)' = Users(t)
  BY <1>2 DEF Users
<1>4. \A x \in Users(t) : req'[x].updating = req[x].updating
  BY <1>2 DEF Users
<1> QED
  BY <1>3, <1>4 DEF Updaters

LEMMA SameDeleters ==
  ASSUME NEW s, NEW t \in Slots, t # s, \A a \in Actors : Remains(a, s)
  PROVE  Deleters(t)' = Deleters(t)
<1>1. t # None
  BY NoneIsNothing
<1>2. \A a \in Actors : del'[a].node = t <=> del[a].node = t
  BY <1>1 DEF Remains
<1> QED
  BY <1>2 DEF Deleters

\* the other node keeps its count and its updater
LEMMA OtherNode ==
  ASSUME NEW s, NEW t \in Slots, t # s, node'[t] = node[t], ghost'[t] = ghost[t],
         \A x \in Requests : Stays(x, s), \A a \in Actors : Remains(a, s)
  PROVE  Sum(t)' = Sum(t) /\ (Updated(t) => Updated(t)')
<1>1. Users(t)' = Users(t) /\ Updaters(t)' = Updaters(t)
  BY SameUsers
<1>2. Deleters(t)' = Deleters(t)
  BY SameDeleters
<1>3. Sum(t)' = Sum(t)
  BY <1>1, <1>2 DEF Sum
<1>4. Updated(t) => Updated(t)'
  BY <1>1 DEF Updated
<1> QED
  BY <1>3, <1>4

LEMMA UsedGrows ==
  ASSUME Typed, NEW s \in Slots, NEW n \in Nodes, node' = [node EXCEPT ![s] = n]
  PROVE  /\ Used' = Used \cup {s} /\ node'[s] = n
         /\ \A t \in Slots : t # s => node'[t] = node[t]
BY NoneIsNothing DEF Typed, Used

LEMMA UsedShrinks ==
  ASSUME Typed, NEW s \in Slots, node' = [node EXCEPT ![s] = None]
  PROVE  /\ Used' = Used \ {s}
         /\ \A t \in Slots : t # s => node'[t] = node[t]
BY NoneIsNothing DEF Typed, Used

\* what a request, and a deletion, has after a step that keeps its node or takes s
Holds(x, s, k) ==
  \/ req'[x].node = req[x].node /\ (req[x].node # None => req'[x].key = req[x].key)
  \/ req'[x].node = None
  \/ req'[x].node = s /\ req'[x].key = k

LEMMA KeptStep ==
  ASSUME IInv, Typed', NEW s \in Slots, NEW n \in Nodes, node' = [node EXCEPT ![s] = n],
         s \in Used => n.key = node[s].key, n.uses <= conf.min,
         queue' = Touched(s) \/ (queue' = queue /\ s \in Used),
         conf' = conf, crashes' = crashes,
         \A x \in Requests : RequestOK(req'[x]) /\ Stays(x, s) /\ Holds(x, s, n.key),
         \A a \in Actors : Remains(a, s),
         \A a \in Requests : del'[a].node # None => req'[a].pc = "forced",
         \A t \in Slots : t # s => ghost'[t] = ghost[t],
         ghost'[s].leaked = ghost[s].leaked, ghost'[s].orphan => n.updating,
         n.count = Sum(s)', Updated(s)'
  PROVE  IInv'
<1>1. Used' = Used \cup {s} /\ node'[s] = n /\ \A t \in Slots : t # s => node'[t] = node[t]
  BY UsedGrows DEF IInv
<1>2. Used \subseteq Slots /\ Used' \subseteq Slots
  BY DEF Used
<1>3. Queued'
  <2>1. ToSet(queue') = Used' /\ IsInjective(queue')
    BY <1>1, TouchedAdds DEF IInv, Queued
  <2>2. \A t \in Used' : node'[t].uses <= conf'.min
    BY <1>1, <1>2 DEF IInv, Queued
  <2> QED
    BY <2>1, <2>2 DEF Queued
<1>4. Held'
  <2> SUFFICES ASSUME NEW x \in Requests, req'[x].node # None
               PROVE  req'[x].node \in Used' /\ node'[req'[x].node].key = req'[x].key
    BY DEF Held
  <2>1. CASE req'[x].node = req[x].node /\ (req[x].node # None => req'[x].key = req[x].key)
    <3>1. PICK t : t = req[x].node
      OBVIOUS
    <3>2. t \in Used /\ node[t].key = req[x].key
      BY <2>1, <3>1 DEF IInv, Held
    <3>3. t \in Used' /\ node'[t].key = node[t].key
      BY <1>1, <1>2, <3>2
    <3> QED
      BY <2>1, <3>1, <3>2, <3>3
  <2>2. CASE req'[x].node = s /\ req'[x].key = n.key
    BY <1>1, <2>2
  <2> QED
    BY <2>1, <2>2 DEF Holds
<1>5. Deleted'
  BY <1>1 DEF IInv, Deleted, Remains
<1>6. Counted'
  <2> SUFFICES ASSUME NEW t \in Used' PROVE node'[t].count = Sum(t)'
    BY DEF Counted
  <2>1. CASE t # s
    <3>1. t \in Used /\ t \in Slots
      BY <1>1, <1>2, <2>1
    <3>2. Sum(t)' = Sum(t)
      BY <1>1, <2>1, <3>1, OtherNode
    <3> QED
      BY <1>1, <2>1, <3>1, <3>2 DEF IInv, Counted
  <2> QED
    BY <1>1, <2>1
<1>7. Ghosts'
  <2> SUFFICES ASSUME NEW t \in Slots
               PROVE  /\ t \notin Used' => ghost'[t] = Clean
                      /\ ghost'[t].leaked <= 2 * crashes'
                      /\ t \in Used' /\ ghost'[t].orphan => node'[t].updating
    BY DEF Ghosts
  <2>1. ghost[t].leaked <= 2 * crashes /\ (t \notin Used => ghost[t] = Clean)
        /\ (t \in Used /\ ghost[t].orphan => node[t].updating)
    BY DEF IInv, Ghosts
  <2>2. CASE t # s
    BY <1>1, <2>1, <2>2
  <2> QED
    BY <1>1, <2>1, <2>2
<1>8. ASSUME NEW t \in Used' PROVE Updated(t)'
  <2>1. CASE t # s
    <3>1. t \in Used /\ t \in Slots
      BY <1>1, <1>2, <1>8, <2>1
    <3>2. Updated(t) => Updated(t)'
      BY <1>1, <2>1, <3>1, OtherNode
    <3> QED
      BY <3>1, <3>2 DEF IInv
  <2> QED
    BY <2>1
<1> QED
  BY <1>3, <1>4, <1>5, <1>6, <1>7, <1>8 DEF IInv

\* a step that changes no node and that nobody takes or gives back
LEMMA QuietStep ==
  ASSUME IInv, Typed', node' = node, queue' = queue \/ \E s \in Used : queue' = Touched(s),
         conf' = conf, crashes' = crashes, ghost' = ghost,
         \A x \in Requests : /\ RequestOK(req'[x]) /\ req'[x].node = req[x].node
                             /\ req[x].node # None => /\ req'[x].key = req[x].key
                                                      /\ req'[x].updating = req[x].updating,
         \A a \in Actors : del'[a].node = del[a].node,
         \A a \in Requests : del'[a].node # None => req'[a].pc = "forced"
  PROVE  IInv'
<1>1. Used' = Used /\ Used \subseteq Slots
  BY DEF Used
<1>2. Queued'
  <2>1. ToSet(queue') = Used' /\ IsInjective(queue')
    <3>1. CASE \E s \in Used : queue' = Touched(s)
      <4>1. PICK s \in Used : queue' = Touched(s)
        BY <3>1
      <4>2. Used \cup {s} = Used /\ s \in Slots
        BY <1>1
      <4> QED
        BY <1>1, <4>1, <4>2, TouchedAdds DEF IInv
    <3> QED
      BY <1>1, <3>1 DEF IInv, Queued
  <2> QED
    BY <1>1, <2>1 DEF IInv, Queued
<1>3. Held'
  BY <1>1 DEF IInv, Held
<1>4. Deleted'
  BY <1>1 DEF IInv, Deleted
<1>5. \A x \in Requests : Stays(x, None)
  BY DEF Stays
<1>6. \A a \in Actors : Remains(a, None)
  BY DEF Remains
<1>7. ASSUME NEW t \in Used PROVE Sum(t)' = Sum(t) /\ (Updated(t) => Updated(t)')
  <2>1. t \in Slots /\ t # None
    BY <1>1, NoneIsNothing
  <2> QED
    BY <1>5, <1>6, <2>1, OtherNode
<1>8. Counted'
  BY <1>1, <1>7 DEF IInv, Counted
<1>9. Ghosts'
  BY <1>1 DEF IInv, Ghosts
<1>10. \A t \in Used' : Updated(t)'
  BY <1>1, <1>7 DEF IInv
<1> QED
  BY <1>2, <1>3, <1>4, <1>8, <1>9, <1>10 DEF IInv

\* or one that keeps its node or gives it back
GoesOn(x, s) ==
  /\ RequestOK(req'[x]) /\ Stays(x, s)
  /\ req'[x].node = req[x].node \/ req'[x].node = None
  /\ req'[x].node # None => req'[x].key = req[x].key

\* a node that nobody has any more leaves the tree
LEMMA FreedStep ==
  ASSUME IInv, Typed', NEW s \in Slots, Freed(s), conf' = conf, crashes' = crashes,
         \A x \in Requests : GoesOn(x, s) /\ req'[x].node # s,
         \A a \in Actors : Remains(a, s) /\ del'[a].node # s,
         \A a \in Requests : del'[a].node # None => req'[a].pc = "forced"
  PROVE  IInv'
<1>1. /\ Used' = Used \ {s} /\ \A t \in Slots : t # s => node'[t] = node[t]
      /\ Used \subseteq Slots
  BY UsedShrinks DEF IInv, Freed, Used
<1>2. ghost'[s] = Clean /\ \A t \in Slots : t # s => ghost'[t] = ghost[t]
  BY DEF IInv, Typed, Freed
<1>3. Queued'
  <2>1. ToSet(queue') = Used' /\ IsInjective(queue')
    BY <1>1, UnlinkedRemoves DEF IInv, Queued, Freed, Typed
  <2> QED
    BY <1>1, <2>1 DEF IInv, Queued
<1>4. Held'
  <2> SUFFICES ASSUME NEW x \in Requests, req'[x].node # None
               PROVE  req'[x].node \in Used' /\ node'[req'[x].node].key = req'[x].key
    BY DEF Held, GoesOn
  <2>1. PICK t : t = req[x].node
    OBVIOUS
  <2>2. req'[x].node = t /\ t # s /\ req'[x].key = req[x].key
    BY <2>1 DEF GoesOn
  <2>3. t \in Used /\ node[t].key = req[x].key
    BY <2>1, <2>2 DEF IInv, Held
  <2>4. t \in Slots
    BY <1>1, <2>3
  <2> QED
    BY <1>1, <2>2, <2>3, <2>4
<1>5. Deleted'
  BY <1>1 DEF IInv, Deleted, Remains
<1>6. ASSUME NEW t \in Used' PROVE t \in Used /\ t \in Slots /\ t # s /\ node'[t] = node[t]
  BY <1>1, <1>6
<1>7. ASSUME NEW t \in Used' PROVE Sum(t)' = Sum(t) /\ (Updated(t) => Updated(t)')
  <2>1. \A x \in Requests : Stays(x, s)
    BY DEF GoesOn
  <2> QED
    BY <1>2, <1>6, <1>7, <2>1, OtherNode
<1>8. Counted'
  BY <1>6, <1>7 DEF IInv, Counted
<1>9. Ghosts'
  <2> SUFFICES ASSUME NEW t \in Slots
               PROVE  /\ t \notin Used' => ghost'[t] = Clean
                      /\ ghost'[t].leaked <= 2 * crashes'
                      /\ t \in Used' /\ ghost'[t].orphan => node'[t].updating
    BY DEF Ghosts
  <2>1. ghost[t].leaked <= 2 * crashes /\ (t \notin Used => ghost[t] = Clean)
        /\ (t \in Used /\ ghost[t].orphan => node[t].updating)
    BY DEF IInv, Ghosts
  <2>2. CASE t # s
    BY <1>1, <1>2, <2>1, <2>2
  <2>3. CASE t = s
    <3>1. t \notin Used' /\ ghost'[t].leaked = 0
      BY <1>1, <1>2, <2>3 DEF Clean
    <3>2. crashes' \in Nat
      BY DEF Typed
    <3> QED
      BY <1>2, <2>3, <3>1, <3>2
  <2> QED
    BY <2>2, <2>3
<1>10. \A t \in Used' : Updated(t)'
  BY <1>6, <1>7 DEF IInv
<1> QED
  BY <1>3, <1>4, <1>5, <1>8, <1>9, <1>10 DEF IInv

LEMMA FreedType ==
  ASSUME IInv, NEW s \in Slots, Freed(s), req' \in [Requests -> RequestType],
         file' \in [Keys -> BOOLEAN], UNCHANGED <<conf, loader, crashes>>,
         del' \in [Actors -> [node : Slots \cup {None}, gone : BOOLEAN]]
  PROVE  Typed'
<1>1. node' \in [Slots -> Nodes \cup {None}]
  BY DEF IInv, Typed, Freed
<1>2. queue' \in Seq(Slots)
  BY UnlinkedRemoves DEF IInv, Typed, Queued, Freed
<1>3. Clean \in Flags
  BY DEF Clean, Flags
<1>4. ghost' \in [Slots -> Flags]
  BY <1>3 DEF IInv, Typed, Freed
<1> QED
  BY <1>1, <1>2, <1>4 DEF IInv, Typed

-----------------------------------------------------------------------------
(* What a request becomes. *)

LEMMA ConfOK ==
  ASSUME IInv
  PROVE  /\ conf.min \in Nat /\ conf.min >= 1 /\ conf.slots \in 1..NSlots
         /\ conf.lock \in BOOLEAN /\ conf.bypass \in BOOLEAN /\ conf.errors \in BOOLEAN
         /\ conf.stale \in BOOLEAN
BY FileCacheAssumption DEF IInv, Typed

LEMMA FetchingOK ==
  ASSUME NEW c \in RequestType, RequestOK(c), c.pc # "idle", c.node # None \/ c.bypass,
         NEW b \in BOOLEAN
  PROVE  /\ Fetching(c, b) \in RequestType /\ RequestOK(Fetching(c, b))
         /\ Fetching(c, b).node = c.node /\ Fetching(c, b).key = c.key
         /\ Fetching(c, b).updating = c.updating
<1>1. 0 \in 0..LockTimeout
  BY FileCacheAssumption
<1>2. PICK f : f = Fetching(c, b)
  OBVIOUS
<1>3. /\ f \in RequestType /\ f.pc = "fetch" /\ f.key = c.key /\ f.node = c.node
      /\ f.bypass = c.bypass /\ f.lock = FALSE /\ f.updating = c.updating
  BY <1>1, <1>2 DEF Fetching, RequestType
<1>4. RequestOK(f)
  BY <1>3 DEF RequestOK
<1> QED
  BY <1>2, <1>3, <1>4

LEMMA IdleOK == Idle \in RequestType /\ RequestOK(Idle) /\ Idle.node = None
<1>1. 0 \in 0..LockTimeout
  BY FileCacheAssumption
<1> QED
  BY <1>1 DEF Idle, RequestType, RequestOK

\* a request that goes to another place of its code
LEMMA MovedOK ==
  ASSUME NEW c \in RequestType, RequestOK(c), c.pc # "idle", ~c.updating,
         NEW p \in {"exists", "forced", "alloc", "test", "valid", "lock", "respond", "update",
                    "finish"},
         p \in {"test", "valid", "lock", "respond", "update"} => c.node # None,
         p \in {"forced", "alloc"} => c.node = None
  PROVE  /\ [c EXCEPT !.pc = p] \in RequestType /\ RequestOK([c EXCEPT !.pc = p])
         /\ [c EXCEPT !.pc = p].node = c.node /\ [c EXCEPT !.pc = p].key = c.key
         /\ [c EXCEPT !.pc = p].updating = c.updating
<1>1. PICK f : f = [c EXCEPT !.pc = p]
  OBVIOUS
<1>2. /\ f \in RequestType /\ f.pc = p /\ f.key = c.key /\ f.node = c.node
      /\ f.bypass = c.bypass /\ f.lock = c.lock /\ f.left = c.left /\ f.updating = c.updating
  BY <1>1 DEF RequestType
<1>3. RequestOK(f)
  BY <1>2 DEF RequestOK
<1> QED
  BY <1>1, <1>2, <1>3

\* what it looks like after ngx_http_file_cache_open()
LEMMA OpenedOK ==
  ASSUME IInv, NEW c \in RequestType, c.pc \in {"exists", "alloc"}, c.key # None, ~c.updating,
         c.lock => c.left > 0, NEW rc \in {"declined", "again", "ok", "exists", "error"},
         rc = "error" \/ c.node # None
  PROVE  /\ Opened(c, rc) \in RequestType /\ RequestOK(Opened(c, rc))
         /\ Opened(c, rc).node = c.node /\ Opened(c, rc).key = c.key /\ ~Opened(c, rc).updating
<1>1. PICK z : z = 0 /\ z \in 0..LockTimeout
  BY FileCacheAssumption
<1>2. PICK m \in BOOLEAN : m = (conf.min > 1)
  <2>1. (conf.min > 1) = TRUE \/ (conf.min > 1) = FALSE
    BY ConfOK
  <2> QED
    BY <2>1, Zenon
<1>3. ASSUME NEW b \in BOOLEAN, c.node # None
      PROVE  /\ Fetching(c, b) \in RequestType /\ RequestOK(Fetching(c, b))
             /\ Fetching(c, b).node = c.node /\ Fetching(c, b).key = c.key
             /\ ~Fetching(c, b).updating
  <2>1. PICK f : f = Fetching(c, b)
    OBVIOUS
  <2>2. /\ f \in RequestType /\ f.pc = "fetch" /\ f.key = c.key /\ f.node = c.node
        /\ f.lock = FALSE /\ f.updating = c.updating
    BY <1>1, <2>1 DEF Fetching, RequestType
  <2>3. RequestOK(f)
    BY <1>3, <2>2 DEF RequestOK
  <2> QED
    BY <2>1, <2>2, <2>3
<1>4. ASSUME NEW p \in {"test", "lock", "finish", "respond"}, NEW s \in BOOLEAN,
             p = "finish" \/ c.node # None, NEW f, f = [c EXCEPT !.pc = p, !.scarce = s]
      PROVE  /\ f \in RequestType /\ RequestOK(f)
             /\ f.node = c.node /\ f.key = c.key /\ ~f.updating
  <2>1. /\ f \in RequestType /\ f.pc = p /\ f.key = c.key /\ f.node = c.node
        /\ f.lock = c.lock /\ f.left = c.left /\ f.updating = c.updating
    BY <1>4 DEF RequestType
  <2>2. RequestOK(f)
    BY <1>4, <2>1 DEF RequestOK
  <2> QED
    BY <2>1, <2>2
<1>5. c.scarce \in BOOLEAN
  BY DEF RequestType
<1>6. ASSUME NEW p \in {"test", "lock", "finish", "respond"}, p = "finish" \/ c.node # None,
             NEW f, f = [c EXCEPT !.pc = p]
      PROVE  /\ f \in RequestType /\ RequestOK(f)
             /\ f.node = c.node /\ f.key = c.key /\ ~f.updating
  <2>1. f = [c EXCEPT !.pc = p, !.scarce = c.scarce]
    BY <1>6 DEF RequestType
  <2> QED
    BY <1>4, <1>5, <1>6, <2>1
<1>7. CASE c.bypass
  <2>1. PICK p \in {"finish", "respond"} : p = IF rc = "error" THEN "finish" ELSE "respond"
    OBVIOUS
  <2>2. Opened(c, rc) = [c EXCEPT !.pc = p]
    BY <1>7, <2>1 DEF Opened
  <2> QED
    BY <1>6, <2>1, <2>2
<1>8. CASE ~c.bypass /\ rc = "declined"
  <2>1. Opened(c, rc) = Missed(c) /\ c.node # None
    BY <1>8 DEF Opened
  <2>2. CASE loader.cold
    <3>1. Missed(c) = [c EXCEPT !.pc = "test", !.scarce = m]
      BY <1>2, <2>2 DEF Missed
    <3> QED
      BY <1>4, <2>1, <3>1
  <2>3. CASE ~loader.cold /\ m
    <3>1. Missed(c) = Fetching(c, FALSE)
      BY <1>2, <2>3 DEF Missed
    <3> QED
      BY <1>3, <2>1, <3>1
  <2>4. CASE ~loader.cold /\ ~m
    <3>1. Missed(c) = [c EXCEPT !.pc = "lock"]
      BY <1>2, <2>4 DEF Missed
    <3> QED
      BY <1>6, <2>1, <3>1
  <2> QED
    BY <2>2, <2>3, <2>4
<1>9. CASE ~c.bypass /\ rc = "again"
  <2>1. Opened(c, rc) = Fetching(c, FALSE)
    BY <1>9 DEF Opened
  <2> QED
    BY <1>3, <1>9, <2>1
<1>10. CASE ~c.bypass /\ rc \in {"ok", "exists", "error"}
  <2>1. PICK p \in {"finish", "test", "lock"} :
          p = IF rc = "error" \/ c.error THEN "finish" ELSE IF rc = "exists" THEN "test" ELSE "lock"
    OBVIOUS
  <2>2. Opened(c, rc) = [c EXCEPT !.pc = p]
    BY <1>10, <2>1 DEF Opened
  <2> QED
    BY <1>6, <2>1, <2>2
<1> QED
  BY <1>7, <1>8, <1>9, <1>10

-----------------------------------------------------------------------------
(* A request goes on and leaves the nodes alone. *)

LEMMA QuietRequest ==
  ASSUME IInv, NEW r \in Requests, NEW c \in RequestType, RequestOK(c),
         req' = [req EXCEPT ![r] = c], c.node = req[r].node,
         req[r].node # None => c.key = req[r].key /\ c.updating = req[r].updating,
         req[r].pc # "forced" \/ (del[r].node = None),
         file' \in [Keys -> BOOLEAN],
         UNCHANGED <<conf, node, queue, del, loader, ghost, crashes>>
  PROVE  IInv'
<1>1. /\ req' \in [Requests -> RequestType] /\ req'[r] = c
      /\ \A x \in Requests : x # r => req'[x] = req[x]
  BY DEF IInv, Typed
<1>2. Typed'
  BY <1>1 DEF IInv, Typed
<1>3. del[r].node = None
  BY NoneIsNothing DEF IInv, Deleted
<1>4. \A a \in Requests : del'[a].node # None => req'[a].pc = "forced"
  BY <1>1, <1>3, NoneIsNothing DEF IInv, Deleted
<1>5. \A x \in Requests : RequestOK(req[x])
  BY DEF IInv, Held
<1>6. \A x \in Requests : /\ RequestOK(req'[x]) /\ req'[x].node = req[x].node
                          /\ req[x].node # None => /\ req'[x].key = req[x].key
                                                   /\ req'[x].updating = req[x].updating
  BY <1>1, <1>5
<1> QED
  BY <1>2, <1>4, <1>6, QuietStep

\* the same, as Goto
LEMMA QuietMove ==
  ASSUME IInv, NEW r \in Requests,
         NEW p \in {"exists", "forced", "alloc", "test", "valid", "lock", "respond", "update",
                    "finish"},
         p \in {"test", "valid", "lock", "respond", "update"} => req[r].node # None,
         p \in {"forced", "alloc"} => req[r].node = None,
         req[r].pc # "idle", ~req[r].updating,
         req[r].pc # "forced" \/ (del[r].node = None),
         Goto(r, p), UNCHANGED <<conf, node, queue, file, del, loader, ghost, crashes>>
  PROVE  IInv'
<1>1. req[r] \in RequestType /\ RequestOK(req[r])
  BY DEF IInv, Typed, Held
<1>2. PICK c : c = [req[r] EXCEPT !.pc = p]
  OBVIOUS
<1>3. c \in RequestType /\ RequestOK(c) /\ c.node = req[r].node /\ c.key = req[r].key
      /\ c.updating = req[r].updating
  BY <1>1, <1>2, MovedOK
<1>4. req' = [req EXCEPT ![r] = c]
  BY <1>2 DEF Goto
<1>5. file' \in [Keys -> BOOLEAN]
  BY DEF IInv, Typed
<1> QED
  BY <1>3, <1>4, <1>5, QuietRequest

\* and as Fetching
LEMMA QuietFetch ==
  ASSUME IInv, NEW r \in Requests, NEW b \in BOOLEAN, req[r].node # None,
         req[r].pc # "idle", req[r].pc # "forced",
         req' = [req EXCEPT ![r] = Fetching(@, b)],
         UNCHANGED <<conf, node, queue, file, del, loader, ghost, crashes>>
  PROVE  IInv'
<1>1. req[r] \in RequestType /\ RequestOK(req[r])
  BY DEF IInv, Typed, Held
<1>2. PICK c : c = Fetching(req[r], b)
  OBVIOUS
<1>3. c \in RequestType /\ RequestOK(c) /\ c.node = req[r].node /\ c.key = req[r].key
      /\ c.updating = req[r].updating
  BY <1>1, <1>2, FetchingOK
<1>4. req' = [req EXCEPT ![r] = c]
  BY <1>2
<1>5. file' \in [Keys -> BOOLEAN]
  BY DEF IInv, Typed
<1> QED
  BY <1>3, <1>4, <1>5, QuietRequest

LEMMA BeginStep ==
  ASSUME IInv, NEW r \in Requests, Begin(r)
  PROVE  IInv'
<1>1. PICK k \in Keys, b \in {FALSE, conf.bypass} : \E x :
        /\ x = [Idle EXCEPT !.pc = "exists", !.key = k, !.bypass = b,
                            !.lock = conf.lock, !.left = LockTimeout]
        /\ req' = [req EXCEPT ![r] = IF b THEN Fetching(x, TRUE) ELSE x]
  BY DEF Begin
<1>2. PICK c :
        /\ c = [Idle EXCEPT !.pc = "exists", !.key = k, !.bypass = b,
                            !.lock = conf.lock, !.left = LockTimeout]
        /\ req' = [req EXCEPT ![r] = IF b THEN Fetching(c, TRUE) ELSE c]
  BY <1>1
<1>3. PICK l \in BOOLEAN, t \in 0..LockTimeout :
        l = conf.lock /\ t = LockTimeout /\ t > 0 /\ b \in BOOLEAN
  <2>1. conf.lock \in BOOLEAN /\ b \in BOOLEAN
    BY ConfOK
  <2>2. LockTimeout \in 0..LockTimeout /\ LockTimeout > 0
    BY FileCacheAssumption
  <2> QED
    BY <2>1, <2>2
<1>4. c = [Idle EXCEPT !.pc = "exists", !.key = k, !.bypass = b, !.lock = l, !.left = t]
  BY <1>2, <1>3
<1>5. /\ c \in RequestType /\ c.pc = "exists" /\ c.key = k /\ c.node = None /\ c.bypass = b
      /\ c.lock = l /\ c.left = t /\ c.updating = FALSE
  BY <1>3, <1>4 DEF Idle, RequestType
<1>6. RequestOK(c)
  BY <1>3, <1>5, NoneIsNothing DEF RequestOK
<1>7. req[r].node = None /\ req[r].pc = "idle"
  BY DEF Begin, IInv, Held, RequestOK
<1>8. file' \in [Keys -> BOOLEAN] /\ UNCHANGED <<conf, node, queue, del, loader, ghost, crashes>>
  BY DEF IInv, Typed, Begin
<1>9. CASE b
  <2>1. PICK f : f = Fetching(c, TRUE)
    OBVIOUS
  <2>2. f \in RequestType /\ RequestOK(f) /\ f.node = None
    BY <1>5, <1>6, <1>9, <2>1, FetchingOK
  <2>3. req' = [req EXCEPT ![r] = f]
    BY <1>2, <1>9, <2>1
  <2> QED
    BY <1>7, <1>8, <2>2, <2>3, QuietRequest
<1>10. CASE ~b
  <2>1. req' = [req EXCEPT ![r] = c]
    BY <1>2, <1>10
  <2> QED
    BY <1>5, <1>6, <1>7, <1>8, <2>1, QuietRequest
<1> QED
  BY <1>9, <1>10

\* a request changes its node, and may become its updater
LEMMA FlagStep ==
  ASSUME IInv, NEW r \in Requests, NEW s \in Slots, s = req[r].node,
         NEW n \in Nodes, n.key = node[s].key, n.count = node[s].count, n.uses <= conf.min,
         NEW c \in RequestType, RequestOK(c), c.node = s, c.key = req[r].key,
         \/ n.updating = node[s].updating /\ c.updating = req[r].updating
         \/ ~node[s].updating /\ n.updating /\ c.updating,
         node' = [node EXCEPT ![s] = n], req' = [req EXCEPT ![r] = c],
         queue' = queue \/ queue' = Touched(s),
         UNCHANGED <<conf, file, del, loader, ghost, crashes>>
  PROVE  IInv'
<1>1. /\ req' \in [Requests -> RequestType] /\ req'[r] = c
      /\ \A x \in Requests : x # r => req'[x] = req[x]
  BY DEF IInv, Typed
<1>2. s \in Used /\ node[s].key = req[r].key /\ s # None
  BY NoneIsNothing DEF IInv, Held
<1>3. node'[s] = n /\ node' \in [Slots -> Nodes \cup {None}]
  BY DEF IInv, Typed
<1>4. Typed'
  <2>1. queue' \in Seq(Slots)
    BY TouchedAdds DEF IInv, Typed
  <2> QED
    BY <1>1, <1>3, <2>1 DEF IInv, Typed
<1>5. \A x \in Requests : Stays(x, s)
  BY <1>1 DEF Stays
<1>6. \A x \in Requests : RequestOK(req'[x]) /\ Holds(x, s, n.key)
  <2> TAKE x \in Requests
  <2>1. CASE x = r
    BY <1>1, <2>1 DEF Holds
  <2>2. CASE x # r
    <3>1. req'[x] = req[x] /\ RequestOK(req[x])
      BY <1>1, <2>2 DEF IInv, Held
    <3> QED
      BY <3>1 DEF Holds
  <2> QED
    BY <2>1, <2>2
<1>7. \A a \in Actors : Remains(a, s)
  BY DEF Remains
<1>8. \A a \in Requests : del'[a].node # None => req'[a].pc = "forced"
  <2>1. req[r].pc # "forced"
    BY <1>2 DEF IInv, Held, RequestOK
  <2>2. del[r].node = None
    BY <2>1, NoneIsNothing DEF IInv, Deleted
  <2> QED
    BY <1>1, <2>2, NoneIsNothing DEF IInv, Deleted
<1>9. n.count = Sum(s)'
  <2>1. \A x \in Requests : req'[x].node = req[x].node
    BY <1>1
  <2>2. Users(s)' = Users(s)
    BY <2>1 DEF Users
  <2>3. Sum(s)' = Sum(s)
    BY <2>2 DEF Sum, Deleters
  <2> QED
    BY <1>2, <2>3 DEF IInv, Counted
<1>10. ghost'[s].orphan => n.updating
  BY <1>2 DEF IInv, Ghosts
<1>11. Updated(s)'
  <2>1. Updated(s)
    BY <1>2 DEF IInv
  <2>2. CASE n.updating = node[s].updating /\ c.updating = req[r].updating
    <3>1. \A x \in Requests : req'[x].node = req[x].node /\ req'[x].updating = req[x].updating
      BY <1>1, <2>2
    <3>2. Updaters(s)' = Updaters(s)
      BY <3>1 DEF Updaters, Users
    <3> QED
      BY <1>3, <2>1, <2>2, <3>2 DEF Updated
  <2>3. CASE ~node[s].updating /\ n.updating /\ c.updating
    <3>1. ~ghost[s].orphan
      BY <1>2, <2>3 DEF IInv, Ghosts
    <3>2. ghost[s].breach \/ Updaters(s) = {}
      BY <2>1, <2>3 DEF Updated
    <3>3. CASE Updaters(s) = {}
      <4>1. \A x \in Requests : req[x].node = s => ~req[x].updating
        BY <3>3 DEF Updaters, Users
      <4>2. \A x \in Requests : req'[x].node = s /\ req'[x].updating <=> x = r
        BY <1>1, <2>3, <4>1
      <4>3. Updaters(s)' = {r}
        BY <4>2 DEF Updaters, Users
      <4> QED
        BY <1>3, <2>3, <3>1, <4>3 DEF Updated
    <3>4. CASE ghost[s].breach
      BY <3>4 DEF Updated
    <3> QED
      BY <3>2, <3>3, <3>4
  <2> QED
    BY <2>2, <2>3
<1>12. queue' = Touched(s) \/ (queue' = queue /\ s \in Used)
  BY <1>2
<1> QED
  BY <1>4, <1>5, <1>6, <1>7, <1>8, <1>9, <1>10, <1>11, <1>12, KeptStep

\* what a request that has a node knows of it
LEMMA HasNode ==
  ASSUME IInv, NEW r \in Requests, req[r].node # None
  PROVE  /\ req[r].node \in Used /\ req[r].node \in Slots /\ node[req[r].node] \in Nodes
         /\ node[req[r].node].uses <= conf.min /\ node[req[r].node].key = req[r].key
         /\ req[r] \in RequestType /\ RequestOK(req[r])
         /\ req[r].pc \notin {"idle", "forced", "alloc"}
<1>1. req[r].node \in Used /\ node[req[r].node].key = req[r].key /\ RequestOK(req[r])
  BY DEF IInv, Held
<1>2. req[r].node \in Slots /\ node[req[r].node] \in Nodes /\ req[r] \in RequestType
  BY <1>1 DEF IInv, Typed, Used
<1>3. node[req[r].node].uses <= conf.min
  BY <1>1 DEF IInv, Queued
<1> QED
  BY <1>1, <1>2, <1>3 DEF RequestOK

LEMMA TestStep ==
  ASSUME IInv, NEW r \in Requests, Test(r)
  PROVE  IInv'
<1>1. req[r].pc = "test" /\ UNCHANGED <<conf, queue, file, del, loader, ghost, crashes>>
  BY DEF Test
<1>2. PICK e : e = req[r]
  OBVIOUS
<1>3. PICK s : s = e.node
  OBVIOUS
<1>4. e \in RequestType /\ RequestOK(e) /\ s # None /\ ~e.updating /\ e.pc = "test"
  BY <1>1, <1>2, <1>3 DEF IInv, Typed, Held, RequestOK
<1>5. /\ s \in Used /\ s \in Slots /\ node[s] \in Nodes /\ node[s].uses <= conf.min
      /\ node[s].key = e.key
  BY <1>2, <1>3, <1>4, HasNode
<1>6. CASE UNCHANGED node /\ \E b \in BOOLEAN : req' = [req EXCEPT ![r] = Fetching(@, b)]
  BY <1>1, <1>2, <1>3, <1>4, <1>6, QuietFetch
<1>7. CASE UNCHANGED node /\ \E p \in {"lock", "valid", "finish"} : Goto(r, p)
  BY <1>1, <1>2, <1>3, <1>4, <1>7, QuietMove
<1>8. CASE /\ Goto(r, "valid")
           /\ node' = [node EXCEPT ![s].exists = TRUE,
                                   ![s].uses = IF node[s].exists THEN @ ELSE 1]
  <2>1. PICK c : c = [e EXCEPT !.pc = "valid"]
    OBVIOUS
  <2>2. c \in RequestType /\ RequestOK(c) /\ c.node = s /\ c.key = e.key /\ c.updating = e.updating
    BY <1>3, <1>4, <2>1, MovedOK
  <2>3. PICK u \in Nat \ {0} : u = (IF node[s].exists THEN node[s].uses ELSE 1)
    BY <1>5 DEF Nodes
  <2>4. u <= conf.min
    BY <1>5, <2>3, ConfOK
  <2>5. PICK n : n = [node[s] EXCEPT !.exists = TRUE, !.uses = u]
    OBVIOUS
  <2>6. /\ n \in Nodes /\ n.key = node[s].key /\ n.count = node[s].count /\ n.uses = u
        /\ n.updating = node[s].updating
    BY <1>5, <2>5 DEF Nodes
  <2>7. node' = [node EXCEPT ![s] = n]
    BY <1>5, <1>8, <2>3, <2>5 DEF IInv, Typed
  <2>8. req' = [req EXCEPT ![r] = c]
    BY <1>2, <1>8, <2>1 DEF Goto
  <2> QED
    BY <1>1, <1>2, <1>3, <1>5, <2>2, <2>4, <2>6, <2>7, <2>8, FlagStep
<1>9. \/ UNCHANGED node /\ \E b \in BOOLEAN : req' = [req EXCEPT ![r] = Fetching(@, b)]
      \/ UNCHANGED node /\ \E p \in {"lock", "valid", "finish"} : Goto(r, p)
      \/ /\ Goto(r, "valid")
         /\ node' = [node EXCEPT ![s].exists = TRUE,
                                 ![s].uses = IF node[s].exists THEN @ ELSE 1]
  BY <1>2, <1>3 DEF Test, Goto
<1> QED
  BY <1>6, <1>7, <1>8, <1>9

\* a request that takes the lock of its node
LEMMA LockTaken ==
  ASSUME IInv, NEW r \in Requests, NEW s, s = req[r].node, s # None, ~node[s].updating,
         node' = [node EXCEPT ![s].updating = TRUE],
         req' = [req EXCEPT ![r] = [Fetching(@, TRUE) EXCEPT !.updating = TRUE]],
         UNCHANGED <<conf, queue, file, del, loader, ghost, crashes>>
  PROVE  IInv'
<1>1. /\ s \in Used /\ s \in Slots /\ node[s] \in Nodes /\ node[s].uses <= conf.min
      /\ node[s].key = req[r].key /\ req[r] \in RequestType /\ RequestOK(req[r])
      /\ req[r].pc # "idle"
  BY HasNode
<1>2. PICK f : f = Fetching(req[r], TRUE)
  OBVIOUS
<1>3. f \in RequestType /\ RequestOK(f) /\ f.node = s /\ f.key = req[r].key /\ f.pc = "fetch"
  <2>1. f.pc = "fetch"
    BY <1>1, <1>2 DEF Fetching, RequestType
  <2> QED
    BY <1>1, <1>2, <2>1, FetchingOK
<1>4. PICK c : c = [f EXCEPT !.updating = TRUE]
  OBVIOUS
<1>5. /\ c \in RequestType /\ c.node = s /\ c.key = req[r].key /\ c.pc = "fetch" /\ c.updating
      /\ c.lock = f.lock /\ c.left = f.left /\ c.bypass = f.bypass
  BY <1>3, <1>4 DEF RequestType
<1>6. RequestOK(c)
  BY <1>3, <1>5 DEF RequestOK
<1>7. PICK n : n = [node[s] EXCEPT !.updating = TRUE]
  OBVIOUS
<1>8. /\ n \in Nodes /\ n.key = node[s].key /\ n.count = node[s].count
      /\ n.uses = node[s].uses /\ n.updating
  BY <1>1, <1>7 DEF Nodes
<1>9. node' = [node EXCEPT ![s] = n]
  BY <1>1, <1>7 DEF IInv, Typed
<1>10. req' = [req EXCEPT ![r] = c]
  BY <1>2, <1>4
<1> QED
  BY ZenonT(60), <1>1, <1>5, <1>6, <1>8, <1>9, <1>10, FlagStep

LEMMA ValidStep ==
  ASSUME IInv, NEW r \in Requests, Valid(r)
  PROVE  IInv'
<1>1. req[r].pc = "valid" /\ UNCHANGED <<conf, queue, file, del, loader, ghost, crashes>>
  BY DEF Valid
<1>2. req[r].node # None /\ ~req[r].updating
  BY <1>1 DEF IInv, Held, RequestOK
<1>3. CASE Goto(r, "finish") /\ UNCHANGED node
  BY <1>1, <1>2, <1>3, QuietMove
<1>4. CASE req' = [req EXCEPT ![r] = Fetching(@, TRUE)] /\ UNCHANGED node
  BY <1>1, <1>2, <1>4, QuietFetch
<1>5. CASE /\ ~node[req[r].node].updating
           /\ node' = [node EXCEPT ![req[r].node].updating = TRUE]
           /\ req' = [req EXCEPT ![r] = [Fetching(@, TRUE) EXCEPT !.updating = TRUE]]
  BY <1>1, <1>2, <1>5, LockTaken
<1> QED
  BY <1>3, <1>4, <1>5 DEF Valid

LEMMA LockStep ==
  ASSUME IInv, NEW r \in Requests, Lock(r)
  PROVE  IInv'
<1>1. req[r].pc = "lock" /\ UNCHANGED <<conf, queue, file, del, loader, ghost, crashes>>
  BY DEF Lock
<1>2. req[r].node # None /\ ~req[r].updating
  BY <1>1 DEF IInv, Held, RequestOK
<1>3. CASE req' = [req EXCEPT ![r] = Fetching(@, TRUE)] /\ UNCHANGED node
  BY <1>1, <1>2, <1>3, QuietFetch
<1>4. CASE /\ ~node[req[r].node].updating
           /\ node' = [node EXCEPT ![req[r].node].updating = TRUE]
           /\ req' = [req EXCEPT ![r] = [Fetching(@, TRUE) EXCEPT !.updating = TRUE]]
  BY <1>1, <1>2, <1>4, LockTaken
<1>5. CASE req[r].lock /\ Goto(r, "waiting") /\ UNCHANGED node
  <2>1. req[r] \in RequestType /\ RequestOK(req[r])
    BY DEF IInv, Typed, Held
  <2>2. PICK c : c = [req[r] EXCEPT !.pc = "waiting"]
    OBVIOUS
  <2>3. /\ c \in RequestType /\ c.pc = "waiting" /\ c.node = req[r].node /\ c.key = req[r].key
        /\ c.updating = req[r].updating /\ c.lock = req[r].lock /\ c.left = req[r].left
        /\ c.bypass = req[r].bypass
    BY <2>1, <2>2 DEF RequestType
  <2>4. RequestOK(c)
    BY <1>1, <1>2, <1>5, <2>1, <2>3 DEF RequestOK
  <2>5. req' = [req EXCEPT ![r] = c] /\ file' \in [Keys -> BOOLEAN]
    BY <1>1, <1>5, <2>2 DEF Goto, IInv, Typed
  <2> QED
    BY <1>1, <1>5, <2>3, <2>4, <2>5, QuietRequest
<1> QED
  BY <1>3, <1>4, <1>5 DEF Lock

LEMMA LockWaitStep ==
  ASSUME IInv, NEW r \in Requests, LockWaitHandler(r)
  PROVE  IInv'
<1>1. req[r].pc = "waiting" /\ UNCHANGED <<conf, node, queue, file, del, loader, ghost, crashes>>
  BY DEF LockWaitHandler
<1>2. req[r] \in RequestType /\ RequestOK(req[r]) /\ req[r].node # None /\ ~req[r].updating
  BY <1>1 DEF IInv, Typed, Held, RequestOK
<1>3. PICK l : l = req[r].left - 1
  OBVIOUS
<1>4. l \in 0..LockTimeout
  BY <1>1, <1>2, <1>3, FileCacheAssumption DEF RequestOK, RequestType
<1>5. ASSUME NEW p \in {"exists", "waiting"}, NEW k \in BOOLEAN, NEW t \in 0..LockTimeout,
             k => t > 0, p = "waiting" => k,
             req' = [req EXCEPT ![r].pc = p, ![r].lock = k, ![r].left = t]
      PROVE  IInv'
  <2>1. PICK c : c = [req[r] EXCEPT !.pc = p, !.lock = k, !.left = t]
    OBVIOUS
  <2>2. /\ c \in RequestType /\ c.pc = p /\ c.node = req[r].node /\ c.key = req[r].key
        /\ c.updating = req[r].updating /\ c.lock = k /\ c.left = t
        /\ c.bypass = req[r].bypass
    BY <1>2, <2>1 DEF RequestType
  <2>3. RequestOK(c)
    BY <1>1, <1>2, <1>5, <2>2 DEF RequestOK
  <2>4. req' = [req EXCEPT ![r] = c] /\ file' \in [Keys -> BOOLEAN]
    BY <1>1, <1>5, <2>1 DEF IInv, Typed
  <2> QED
    BY <1>1, <2>2, <2>3, <2>4, QuietRequest
<1>6. req[r].lock
  BY <1>1, <1>2 DEF RequestOK
<1>7. CASE l = 0 /\ req' = [req EXCEPT ![r].pc = "exists", ![r].lock = FALSE, ![r].left = 0]
  BY <1>4, <1>5, <1>7
<1>8. CASE l > 0 /\ req' = [req EXCEPT ![r].left = l]
  <2>1. req' = [req EXCEPT ![r].pc = "waiting", ![r].lock = TRUE, ![r].left = l]
    BY ZenonT(60), <1>1, <1>2, <1>6, <1>8 DEF RequestType, IInv, Typed
  <2> QED
    BY <1>4, <1>5, <1>8, <2>1
<1>9. CASE l > 0 /\ req' = [req EXCEPT ![r].pc = "exists", ![r].left = l]
  <2>1. req' = [req EXCEPT ![r].pc = "exists", ![r].lock = TRUE, ![r].left = l]
    BY ZenonT(60), <1>1, <1>2, <1>6, <1>9 DEF RequestType, IInv, Typed
  <2> QED
    BY <1>4, <1>5, <1>9, <2>1
<1> QED
  BY <1>3, <1>7, <1>8, <1>9 DEF LockWaitHandler

-----------------------------------------------------------------------------
(* A request takes a node, that is in the tree or is added to it. *)

LEMMA NobodyHas ==
  ASSUME IInv, NEW s \in Slots, s \notin Used
  PROVE  /\ Users(s) = {} /\ Deleters(s) = {} /\ Updaters(s) = {}
         /\ ghost[s].leaked = 0 /\ ~ghost[s].orphan /\ Sum(s) = 0
<1>1. s # None
  BY NoneIsNothing
<1>2. \A x \in Requests : req[x].node # s
  BY <1>1 DEF IInv, Held
<1>3. \A a \in Actors : del[a].node # s
  BY <1>1 DEF IInv, Deleted
<1>4. Users(s) = {} /\ Deleters(s) = {}
  BY <1>2, <1>3 DEF Users, Deleters
<1>5. Updaters(s) = {}
  BY <1>4 DEF Updaters
<1>6. ghost[s].leaked = 0 /\ ~ghost[s].orphan
  BY DEF IInv, Ghosts, Clean
<1>7. Sum(s) = 0
  BY <1>4, <1>6, FS_EmptySet DEF Sum
<1> QED
  BY <1>4, <1>5, <1>6, <1>7

LEMMA SumType ==
  ASSUME Typed, NEW s \in Slots
  PROVE  Sum(s) \in Nat /\ ghost[s].leaked \in Nat
BY Counts DEF Typed, Sum, Flags

LEMMA TakeStep ==
  ASSUME IInv, NEW r \in Requests, NEW s \in Slots, req[r].node = None, req[r].pc # "forced",
         NEW n \in Nodes, n.uses <= conf.min,
         NEW c \in RequestType, RequestOK(c), c.node = s, c.key = n.key, ~c.updating,
         s \in Used => /\ n.key = node[s].key /\ n.count = node[s].count + 1
                       /\ n.updating = node[s].updating,
         s \notin Used => n.count = 1 /\ ~n.updating,
         node' = [node EXCEPT ![s] = n], req' = [req EXCEPT ![r] = c], queue' = Touched(s),
         UNCHANGED <<conf, file, del, loader, ghost, crashes>>
  PROVE  IInv'
<1>1. /\ req' \in [Requests -> RequestType] /\ req'[r] = c
      /\ \A x \in Requests : x # r => req'[x] = req[x]
  BY DEF IInv, Typed
<1>2. node'[s] = n /\ node' \in [Slots -> Nodes \cup {None}]
  BY DEF IInv, Typed
<1>3. Typed'
  <2>1. queue' \in Seq(Slots)
    BY TouchedAdds DEF IInv, Typed
  <2> QED
    BY <1>1, <1>2, <2>1 DEF IInv, Typed
<1>4. \A x \in Requests : Stays(x, s)
  BY <1>1 DEF Stays
<1>5. \A x \in Requests : RequestOK(req'[x]) /\ Holds(x, s, n.key)
  <2> TAKE x \in Requests
  <2>1. CASE x = r
    BY <1>1, <2>1 DEF Holds
  <2>2. CASE x # r
    <3>1. req'[x] = req[x] /\ RequestOK(req[x])
      BY <1>1, <2>2 DEF IInv, Held
    <3> QED
      BY <3>1 DEF Holds
  <2> QED
    BY <2>1, <2>2
<1>6. \A a \in Actors : Remains(a, s)
  BY DEF Remains
<1>7. \A a \in Requests : del'[a].node # None => req'[a].pc = "forced"
  <2>1. del[r].node = None
    BY NoneIsNothing DEF IInv, Deleted
  <2> QED
    BY <1>1, <2>1, NoneIsNothing DEF IInv, Deleted
<1>8. s # None /\ r \notin Users(s)
  BY NoneIsNothing DEF Users
<1>9. Users(s)' = Users(s) \cup {r} /\ Deleters(s)' = Deleters(s)
  <2>1. \A x \in Requests : req'[x].node = s <=> x = r \/ req[x].node = s
    BY <1>1
  <2> QED
    BY <2>1 DEF Users, Deleters
<1>10. Sum(s)' = Sum(s) + 1
  <2>1. Cardinality(Users(s)') = Cardinality(Users(s)) + 1
    BY <1>8, <1>9, Counts, Joined
  <2>2. PICK u \in Nat, d \in Nat, l \in Nat :
          u = Cardinality(Users(s)) /\ d = Cardinality(Deleters(s)) /\ l = ghost[s].leaked
    BY Counts, SumType DEF IInv
  <2>3. Sum(s) = u + d + l /\ Sum(s)' = (u + 1) + d + l
    BY <1>9, <2>1, <2>2 DEF Sum
  <2> QED
    BY <2>3
<1>11. n.count = Sum(s)'
  <2>1. CASE s \in Used
    BY <1>10, <2>1 DEF IInv, Counted
  <2>2. CASE s \notin Used
    BY <1>10, <2>2, NobodyHas
  <2> QED
    BY <2>1, <2>2
<1>12. Updaters(s)' = Updaters(s)
  <2>1. \A x \in Requests : req'[x].node = s /\ req'[x].updating
                           <=> req[x].node = s /\ req[x].updating
    <3> TAKE x \in Requests
    <3>1. CASE x = r
      BY <1>1, <1>8, <3>1
    <3>2. CASE x # r
      BY <1>1, <3>2
    <3> QED
      BY <3>1, <3>2
  <2> QED
    BY <2>1 DEF Updaters, Users
<1>13. Updated(s)' /\ (ghost'[s].orphan => n.updating)
  <2>1. CASE s \in Used
    <3>1. Updated(s) /\ (ghost[s].orphan => n.updating) /\ n.updating = node[s].updating
      BY <2>1 DEF IInv, Ghosts
    <3> QED
      BY <1>2, <1>12, <3>1 DEF Updated
  <2>2. CASE s \notin Used
    <3>1. Updaters(s) = {} /\ ~ghost[s].orphan /\ ~n.updating
      BY <2>2, NobodyHas
    <3> QED
      BY <1>2, <1>12, <3>1 DEF Updated
  <2> QED
    BY <2>1, <2>2
<1> QED
  BY <1>3, <1>4, <1>5, <1>6, <1>7, <1>11, <1>13, KeptStep

LEMMA ExistsNodeStep ==
  ASSUME IInv, NEW r \in Requests, ExistsNode(r)
  PROVE  IInv'
<1>1. PICK s \in (IF req[r].node # None THEN {req[r].node} ELSE Found(req[r].key)),
           expired \in BOOLEAN :
        /\ node' = [node EXCEPT ![s] = IF Answer(Looked(req[r], s), expired) = "declined"
                                       THEN Declined(Looked(req[r], s)) ELSE Looked(req[r], s)]
        /\ queue' = Touched(s)
        /\ req' = [req EXCEPT ![r] =
                     Opened([@ EXCEPT !.node = s,
                                      !.error = Looked(req[r], s).error /\ ~expired],
                            Answer(Looked(req[r], s), expired))]
  BY DEF ExistsNode
<1>2. PICK n : n = Looked(req[r], s)
  OBVIOUS
<1>3. PICK rc : rc = Answer(n, expired)
  OBVIOUS
<1>4. PICK c : c = [req[r] EXCEPT !.node = s, !.error = n.error /\ ~expired]
  OBVIOUS
<1>5. /\ req[r].pc = "exists" /\ UNCHANGED <<conf, file, del, loader, ghost, crashes>>
      /\ req[r] \in RequestType /\ RequestOK(req[r])
  BY DEF ExistsNode, IInv, Typed, Held
<1>6. req[r].key # None /\ ~req[r].updating
  BY <1>5 DEF RequestOK
<1>7. s \in Used /\ node[s].key = req[r].key
  <2>1. CASE req[r].node # None
    BY <2>1, HasNode
  <2>2. CASE req[r].node = None
    BY <1>1, <2>2 DEF Found
  <2> QED
    BY <2>1, <2>2
<1>8. s \in Slots /\ s # None /\ node[s] \in Nodes /\ node[s].uses <= conf.min
  BY <1>7, NoneIsNothing DEF IInv, Typed, Queued, Used
<1>9. /\ n \in Nodes /\ n.key = node[s].key /\ n.updating = node[s].updating
      /\ n.uses <= conf.min
      /\ req[r].node # None => n.count = node[s].count
      /\ req[r].node = None => n.count = node[s].count + 1
  <2>1. CASE req[r].node # None
    BY <1>2, <1>8, <2>1 DEF Looked
  <2>2. CASE req[r].node = None
    <3>1. PICK u \in Nat \ {0}, k \in Nat :
            u = (IF node[s].uses < conf.min THEN node[s].uses + 1 ELSE node[s].uses)
            /\ k = node[s].count + 1
      BY <1>8 DEF Nodes
    <3>2. u <= conf.min
      BY <1>8, <3>1, ConfOK DEF Nodes
    <3>3. n = [node[s] EXCEPT !.uses = u, !.count = k]
      BY <1>2, <1>8, <2>2, <3>1 DEF Nodes, Looked
    <3> QED
      BY <1>8, <2>2, <3>1, <3>2, <3>3 DEF Nodes
  <2> QED
    BY <2>1, <2>2
<1>10. rc \in {"declined", "again", "ok", "exists", "error"}
  BY <1>3 DEF Answer
<1>11. PICK m : m = IF rc = "declined" THEN [n EXCEPT !.error = FALSE, !.exists = FALSE] ELSE n
  OBVIOUS
<1>12. /\ m \in Nodes /\ m.key = node[s].key /\ m.updating = node[s].updating
       /\ m.uses <= conf.min /\ m.count = n.count
  BY <1>9, <1>11 DEF Nodes
<1>13. PICK b \in BOOLEAN : b = (n.error /\ ~expired)
  BY <1>9 DEF Nodes
<1>14. c = [req[r] EXCEPT !.node = s, !.error = b]
  BY <1>13, <1>4
<1>15. /\ c \in RequestType /\ c.pc = "exists" /\ c.key = req[r].key /\ c.node = s
       /\ ~c.updating /\ c.lock = req[r].lock /\ c.left = req[r].left
  BY <1>5, <1>6, <1>8, <1>14 DEF RequestType
<1>16. c.lock => c.left > 0
  BY <1>5, <1>15 DEF RequestOK
<1>17. PICK o : o = Opened(c, rc)
  OBVIOUS
<1>18. o \in RequestType /\ RequestOK(o) /\ o.node = s /\ o.key = req[r].key /\ ~o.updating
  BY <1>6, <1>8, <1>10, <1>15, <1>16, <1>17, OpenedOK
<1>19. node' = [node EXCEPT ![s] = m] /\ req' = [req EXCEPT ![r] = o] /\ queue' = Touched(s)
  BY <1>1, <1>2, <1>11, <1>17, <1>3, <1>4 DEF Declined
<1>20. CASE req[r].node # None
  <2>1. s = req[r].node
    BY <1>1, <1>20
  <2>2. m.count = node[s].count /\ o.updating = req[r].updating
    <3>1. o.updating \in BOOLEAN /\ req[r].updating \in BOOLEAN
      BY <1>5, <1>18 DEF RequestType
    <3> QED
      BY <1>6, <1>9, <1>12, <1>18, <1>20, <3>1
  <2> QED
    BY <1>5, <1>8, <1>12, <1>18, <1>19, <2>1, <2>2, FlagStep
<1>21. CASE req[r].node = None
  BY <1>5, <1>7, <1>8, <1>9, <1>12, <1>18, <1>19, <1>21, TakeStep
<1> QED
  BY <1>20, <1>21

LEMMA NodeAddedStep ==
  ASSUME IInv, NEW r \in Requests, req[r].pc \in {"exists", "alloc"}, req[r].node = None,
         NEW s \in FreeSlots, NodeAdded(r, s)
  PROVE  IInv'
<1>1. s \in Slots /\ s \notin Used /\ s # None
  BY ConfOK, FileCacheAssumption, NoneIsNothing DEF FreeSlots, Room, Slots
<1>2. req[r] \in RequestType /\ RequestOK(req[r]) /\ req[r].key # None /\ ~req[r].updating
  BY DEF IInv, Typed, Held, RequestOK
<1>3. PICK n : n = NewNode(req[r].key, FALSE, 1)
  OBVIOUS
<1>4. n \in Nodes /\ n.uses = 1 /\ n.count = 1 /\ ~n.updating /\ n.key = req[r].key
  BY <1>2, <1>3 DEF NewNode, Nodes, RequestType
<1>5. PICK c : c = [req[r] EXCEPT !.node = s]
  OBVIOUS
<1>6. /\ c \in RequestType /\ c.pc = req[r].pc /\ c.key = req[r].key /\ c.node = s
      /\ ~c.updating /\ c.lock = req[r].lock /\ c.left = req[r].left
  BY <1>1, <1>2, <1>5 DEF RequestType
<1>7. c.lock => c.left > 0
  BY <1>2, <1>6 DEF RequestOK
<1>8. PICK o : o = Opened(c, "declined")
  OBVIOUS
<1>9. o \in RequestType /\ RequestOK(o) /\ o.node = s /\ o.key = req[r].key /\ ~o.updating
  BY <1>1, <1>2, <1>6, <1>7, <1>8, OpenedOK
<1>10. /\ node' = [node EXCEPT ![s] = n] /\ req' = [req EXCEPT ![r] = o]
       /\ queue' = Touched(s) /\ UNCHANGED <<conf, file, del, loader, ghost, crashes>>
  BY <1>3, <1>5, <1>8 DEF NodeAdded
<1>11. n.uses <= conf.min /\ req[r].pc # "forced"
  BY <1>4, ConfOK
<1> QED
  BY <1>1, <1>4, <1>9, <1>10, <1>11, TakeStep

LEMMA ExistsNewStep ==
  ASSUME IInv, NEW r \in Requests, ExistsNew(r)
  PROVE  IInv'
<1>1. req[r].pc = "exists" /\ req[r].node = None
  BY DEF ExistsNew
<1>2. CASE \E s \in FreeSlots : NodeAdded(r, s)
  BY <1>1, <1>2, NodeAddedStep
<1>3. CASE Goto(r, "forced") /\ UNCHANGED <<conf, node, queue, file, del, loader, ghost, crashes>>
  <2>1. ~req[r].updating
    BY <1>1 DEF IInv, Held, RequestOK
  <2> QED
    BY <1>1, <1>3, <2>1, QuietMove
<1> QED
  BY <1>2, <1>3 DEF ExistsNew

LEMMA AllocAgainStep ==
  ASSUME IInv, NEW r \in Requests, AllocAgain(r)
  PROVE  IInv'
<1>1. req[r].pc = "alloc" /\ req[r] \in RequestType /\ RequestOK(req[r])
  BY DEF AllocAgain, IInv, Typed, Held
<1>2. req[r].node = None /\ ~req[r].updating /\ req[r].key # None
      /\ (req[r].lock => req[r].left > 0)
  BY <1>1 DEF RequestOK
<1>3. CASE \E s \in FreeSlots : NodeAdded(r, s)
  BY <1>1, <1>2, <1>3, NodeAddedStep
<1>4. CASE /\ req' = [req EXCEPT ![r] = Opened(@, "error")]
           /\ UNCHANGED <<conf, node, queue, file, del, loader, ghost, crashes>>
  <2>1. PICK o : o = Opened(req[r], "error")
    OBVIOUS
  <2>2. o \in RequestType /\ RequestOK(o) /\ o.node = None
    BY <1>1, <1>2, <2>1, OpenedOK
  <2>3. req' = [req EXCEPT ![r] = o] /\ file' \in [Keys -> BOOLEAN]
    BY <1>4, <2>1 DEF IInv, Typed
  <2> QED
    BY <1>1, <1>2, <1>4, <2>2, <2>3, QuietRequest
<1> QED
  BY <1>3, <1>4 DEF AllocAgain

-----------------------------------------------------------------------------
(* A request gives its node back. *)

LEMMA GaveUp ==
  ASSUME IInv, NEW r \in Requests, NEW s, s = req[r].node, s # None,
         req' = [req EXCEPT ![r] = Idle], del' = del
  PROVE  /\ s \in Slots /\ s \in Used
         /\ Users(s)' = Users(s) \ {r} /\ Updaters(s)' = Updaters(s) \ {r}
         /\ Deleters(s)' = Deleters(s)
         /\ Cardinality(Users(s)') = Cardinality(Users(s)) - 1 /\ Cardinality(Users(s)) > 0
         /\ (r \in Updaters(s) <=> req[r].updating)
<1>1. s \in Slots /\ s \in Used
  BY HasNode
<1>2. /\ req'[r] = Idle /\ Idle.node = None
      /\ \A x \in Requests : x # r => req'[x] = req[x]
  BY DEF IInv, Typed, Idle
<1>3. \A x \in Requests : req'[x].node = s <=> req[x].node = s /\ x # r
  BY <1>2
<1>4. Users(s)' = Users(s) \ {r} /\ r \in Users(s)
  BY <1>3 DEF Users
<1>5. \A x \in Users(s)' : req'[x].updating = req[x].updating
  BY <1>2, <1>4 DEF Users
<1>6. Updaters(s)' = Updaters(s) \ {r}
  BY <1>4, <1>5 DEF Updaters
<1>7. Deleters(s)' = Deleters(s)
  BY DEF Deleters
<1>8. r \in Updaters(s) <=> req[r].updating
  BY <1>4 DEF Updaters
<1> QED
  BY <1>1, <1>4, <1>6, <1>7, <1>8, Counts, Left

LEMMA GaveUpType ==
  ASSUME IInv, NEW r \in Requests, req[r].pc # "forced", req' = [req EXCEPT ![r] = Idle],
         del' = del, NEW s, req[r].node = None \/ req[r].node = s
  PROVE  /\ req' \in [Requests -> RequestType] /\ req'[r] = Idle
         /\ \A x \in Requests : x # r => req'[x] = req[x]
         /\ \A x \in Requests : GoesOn(x, s)
         /\ \A a \in Actors : Remains(a, s)
         /\ \A a \in Requests : del'[a].node # None => req'[a].pc = "forced"
<1>1. /\ req' \in [Requests -> RequestType] /\ req'[r] = Idle
      /\ \A x \in Requests : x # r => req'[x] = req[x]
  BY IdleOK DEF IInv, Typed
<1>2. Idle.node = None /\ RequestOK(Idle)
  BY IdleOK
<1>3. \A x \in Requests : RequestOK(req[x])
  BY DEF IInv, Held
<1>4. ASSUME NEW x \in Requests
      PROVE  GoesOn(x, s)
  <2>1. CASE x = r
    BY <1>1, <1>2, <2>1 DEF Stays, GoesOn
  <2>2. CASE x # r
    BY <1>1, <1>3, <2>2 DEF Stays, GoesOn
  <2> QED
    BY <2>1, <2>2
<1>5. \A a \in Actors : Remains(a, s)
  BY DEF Remains
<1>6. \A a \in Requests : del'[a].node # None => req'[a].pc = "forced"
  <2>1. del[r].node = None
    BY NoneIsNothing DEF IInv, Deleted
  <2> QED
    BY <1>1, <2>1, NoneIsNothing DEF IInv, Deleted
<1> QED
  BY <1>1, <1>4, <1>5, <1>6

\* the node stays
LEMMA GiveStep ==
  ASSUME IInv, NEW r \in Requests, NEW s, s = req[r].node, s # None,
         req' = [req EXCEPT ![r] = Idle],
         NEW n \in Nodes, n.key = node[s].key, n.count = node[s].count - 1, n.uses <= conf.min,
         node' = [node EXCEPT ![s] = n], NEW g \in Flags, ghost' = [ghost EXCEPT ![s] = g],
         g.leaked = ghost[s].leaked, g.orphan => n.updating, Updated(s)',
         file' \in [Keys -> BOOLEAN], UNCHANGED <<conf, queue, del, loader, crashes>>
  PROVE  IInv'
<1>1. /\ s \in Slots /\ s \in Used /\ Deleters(s)' = Deleters(s)
      /\ Cardinality(Users(s)') = Cardinality(Users(s)) - 1 /\ Cardinality(Users(s)) > 0
  BY GaveUp
<1>2. req[r].pc # "forced"
  BY HasNode
<1>3. /\ req' \in [Requests -> RequestType]
      /\ \A x \in Requests : GoesOn(x, s)
      /\ \A a \in Actors : Remains(a, s)
      /\ \A a \in Requests : del'[a].node # None => req'[a].pc = "forced"
  <2>1. del' = del /\ (req[r].node = None \/ req[r].node = s)
    OBVIOUS
  <2> QED
    BY <1>2, <2>1, GaveUpType
<1>4. /\ node' \in [Slots -> Nodes \cup {None}]
      /\ ghost' \in [Slots -> Flags] /\ ghost'[s] = g
      /\ \A t \in Slots : t # s => ghost'[t] = ghost[t]
  BY <1>1 DEF IInv, Typed
<1>5. Typed'
  BY <1>3, <1>4 DEF IInv, Typed
<1>6. \A x \in Requests : RequestOK(req'[x]) /\ Stays(x, s) /\ Holds(x, s, n.key)
  BY <1>3 DEF Holds, GoesOn
<1>7. n.count = Sum(s)'
  <2>1. PICK u \in Nat, d \in Nat, l \in Nat :
          u = Cardinality(Users(s)) /\ d = Cardinality(Deleters(s)) /\ l = ghost[s].leaked
    BY <1>1, Counts, SumType DEF IInv
  <2>2. node[s].count = u + d + l
    BY <1>1, <2>1 DEF IInv, Counted, Sum
  <2>3. Sum(s)' = (u - 1) + d + l
    BY <1>1, <1>4, <2>1 DEF Sum
  <2> QED
    BY <2>1, <2>2, <2>3
<1> QED
  BY <1>1, <1>3, <1>4, <1>5, <1>6, <1>7, KeptStep

LEMMA FreeCacheStep ==
  ASSUME IInv, NEW r \in Requests, req[r].pc # "forced", NEW error \in BOOLEAN,
         FreeCache(r, error), req' = [req EXCEPT ![r] = Idle],
         file' \in [Keys -> BOOLEAN], UNCHANGED <<conf, del, loader, crashes>>
  PROVE  IInv'
<1>1. CASE req[r].node = None
  <2>1. UNCHANGED <<node, queue, ghost>>
    BY <1>1 DEF FreeCache
  <2> QED
    BY <1>1, <2>1, IdleOK, QuietRequest
<1>2. CASE req[r].node # None
  <2>1. PICK s : s = req[r].node
    OBVIOUS
  <2>2. /\ s \in Used /\ s \in Slots /\ node[s] \in Nodes /\ node[s].uses <= conf.min
        /\ req[r] \in RequestType
    BY <1>2, <2>1, HasNode
  <2>3. /\ Users(s)' = Users(s) \ {r} /\ Updaters(s)' = Updaters(s) \ {r}
        /\ Cardinality(Users(s)') = Cardinality(Users(s)) - 1 /\ Cardinality(Users(s)) > 0
        /\ (r \in Updaters(s) <=> req[r].updating)
    BY <1>2, <2>1, GaveUp
  <2>4. PICK u \in Nat, d \in Nat, l \in Nat :
          u = Cardinality(Users(s)) /\ d = Cardinality(Deleters(s)) /\ l = ghost[s].leaked
    BY <2>2, Counts, SumType DEF IInv
  <2>5. node[s].count = u + d + l /\ u > 0
    BY <2>2, <2>3, <2>4 DEF IInv, Counted, Sum
  <2>6. PICK k \in Nat : k = node[s].count - 1
    BY <2>4, <2>5
  <2>7. PICK up \in BOOLEAN : up = (node[s].updating /\ ~req[r].updating)
    BY <2>2 DEF Nodes, RequestType
  <2>8. PICK er \in BOOLEAN : er = (node[s].error \/ error)
    BY <2>2 DEF Nodes
  <2>9. PICK n : n = [node[s] EXCEPT !.count = k, !.updating = up, !.error = er]
    OBVIOUS
  <2>10. /\ n \in Nodes /\ n.count = k /\ n.updating = up /\ n.key = node[s].key
         /\ n.uses = node[s].uses
    BY <2>2, <2>9 DEF Nodes
  <2>11. GivenBack(r, error, n)
    <3>1. GivenBack(r, error, [node[s] EXCEPT !.count = @ - 1,
                                             !.updating = @ /\ ~req[r].updating,
                                             !.error = @ \/ error])
      BY <1>2, <2>1 DEF FreeCache
    <3>2. n = [node[s] EXCEPT !.count = @ - 1, !.updating = @ /\ ~req[r].updating,
                              !.error = @ \/ error]
      BY <2>2, <2>6, <2>7, <2>8, <2>9
    <3> QED
      BY <3>1, <3>2
  <2>12. CASE n.count = 0 /\ Freed(s)
    <3>1. u = 1 /\ d = 0
      <4>1. k = 0
        BY <2>10, <2>12
      <4>2. u + d + l = 1
        BY <2>4, <2>5, <2>6, <4>1
      <4> QED
        BY <2>4, <2>5, <4>2
    <3>2. Users(s)' = {} /\ Deleters(s) = {}
      <4>1. IsFiniteSet(Users(s)')
        BY <2>3, Counts, FS_Subset
      <4>2. Cardinality(Users(s)') = 0
        BY <2>3, <2>4, <3>1
      <4> QED
        BY <2>4, <3>1, <4>1, <4>2, Counts, FS_EmptySet
    <3>3. \A x \in Requests : req'[x].node # s
      BY <3>2 DEF Users
    <3>4. \A a \in Actors : del'[a].node # s
      BY <3>2 DEF Deleters
    <3>5. /\ req' \in [Requests -> RequestType]
          /\ \A x \in Requests : GoesOn(x, s)
          /\ \A a \in Actors : Remains(a, s)
          /\ \A a \in Requests : del'[a].node # None => req'[a].pc = "forced"
      <4>1. del' = del /\ (req[r].node = None \/ req[r].node = s)
        BY <2>1
      <4> QED
        BY <4>1, GaveUpType
    <3>6. Typed'
      <4>1. del' \in [Actors -> [node : Slots \cup {None}, gone : BOOLEAN]]
        BY DEF IInv, Typed
      <4> QED
        BY <2>2, <2>12, <3>5, <4>1, FreedType
    <3> QED
      BY <2>2, <2>12, <3>3, <3>4, <3>5, <3>6, FreedStep
  <2>13. CASE /\ node' = [node EXCEPT ![s] = n]
              /\ ghost' = IF req[r].updating
                          THEN [ghost EXCEPT ![s].orphan = FALSE,
                                             ![s].breach = Updaters(s) # {r}]
                          ELSE ghost
              /\ UNCHANGED queue
    <3>1. ghost \in [Slots -> Flags] /\ ghost[s] \in Flags /\ node'[s] = n
      BY <2>2, <2>13 DEF IInv, Typed
    <3>2. Updated(s) /\ (ghost[s].orphan => node[s].updating)
      BY <2>2 DEF IInv, Ghosts
    <3>3. CASE req[r].updating
      <4>1. PICK b \in BOOLEAN : b = (Updaters(s) # {r})
        OBVIOUS
      <4>2. PICK g : g = [ghost[s] EXCEPT !.orphan = FALSE, !.breach = b]
        OBVIOUS
      <4>3. /\ g \in Flags /\ g.leaked = ghost[s].leaked /\ g.orphan = FALSE /\ g.breach = b
        BY <3>1, <4>2 DEF Flags
      <4>4. ghost' = [ghost EXCEPT ![s] = g]
        BY <2>13, <3>1, <3>3, <4>1, <4>2 DEF Flags
      <4>5. ghost'[s] = g
        BY <2>2, <3>1, <4>4
      <4>6. ~n.updating
        BY <2>7, <2>10, <3>3
      <4>7. b \/ Updaters(s)' = {}
        BY <2>3, <4>1
      <4>8. Updated(s)'
        BY <3>1, <4>3, <4>5, <4>6, <4>7 DEF Updated
      <4> QED
        BY <1>2, <2>1, <2>2, <2>6, <2>10, <2>13, <4>3, <4>4, <4>8, GiveStep
    <3>4. CASE ~req[r].updating
      <4>1. Updaters(s)' = Updaters(s)
        BY <2>3, <3>4
      <4>2. n.updating = node[s].updating
        BY <2>2, <2>7, <2>10, <3>4 DEF Nodes
      <4>3. ghost' = [ghost EXCEPT ![s] = ghost[s]] /\ ghost' = ghost
        BY <2>13, <3>1, <3>4
      <4>4. Updated(s)'
        BY <3>1, <3>2, <4>1, <4>2, <4>3 DEF Updated
      <4> QED
        BY <1>2, <2>1, <2>2, <2>6, <2>10, <2>13, <3>1, <3>2, <4>2, <4>3, <4>4, GiveStep
    <3> QED
      BY <3>3, <3>4
  <2>14. \/ n.count = 0 /\ Freed(s)
         \/ /\ node' = [node EXCEPT ![s] = n]
            /\ ghost' = IF req[r].updating
                        THEN [ghost EXCEPT ![s].orphan = FALSE,
                                           ![s].breach = Updaters(s) # {r}]
                        ELSE ghost
            /\ UNCHANGED queue
    BY <2>1, <2>11 DEF GivenBack
  <2> QED
    BY <2>12, <2>13, <2>14
<1> QED
  BY <1>1, <1>2

LEMMA FinishStep ==
  ASSUME IInv, NEW r \in Requests, Finish(r)
  PROVE  IInv'
<1>1. req[r].error \in BOOLEAN /\ file' \in [Keys -> BOOLEAN]
  BY DEF Finish, IInv, Typed, RequestType
<1> QED
  BY <1>1, FreeCacheStep DEF Finish

LEMMA FetchStep ==
  ASSUME IInv, NEW r \in Requests, Fetch(r)
  PROVE  IInv'
<1>1. req[r].pc = "fetch" /\ UNCHANGED <<conf, file, del, loader, crashes>>
  BY DEF Fetch
<1>2. req[r] \in RequestType /\ RequestOK(req[r]) /\ file' \in [Keys -> BOOLEAN]
  BY <1>1 DEF IInv, Typed, Held
<1>3. CASE /\ \E error \in {FALSE, conf.errors} : FreeCache(r, error \/ req[r].error)
           /\ req' = [req EXCEPT ![r] = Idle]
  <2>1. PICK error \in {FALSE, conf.errors} : FreeCache(r, error \/ req[r].error)
    BY <1>3
  <2>2. PICK e \in BOOLEAN : e = (error \/ req[r].error)
    BY <1>2, ConfOK DEF RequestType
  <2>3. FreeCache(r, e)
    BY <2>1, <2>2
  <2> QED
    BY <1>1, <1>2, <1>3, <2>3, FreeCacheStep
<1>4. CASE /\ req[r].cacheable
           /\ Goto(r, IF req[r].bypass /\ req[r].node = None THEN "exists" ELSE "respond")
           /\ UNCHANGED <<node, queue, ghost>>
  <2>1. PICK p \in {"exists", "respond"} :
          /\ p = IF req[r].bypass /\ req[r].node = None THEN "exists" ELSE "respond"
    OBVIOUS
  <2>2. PICK c : c = [req[r] EXCEPT !.pc = p]
    OBVIOUS
  <2>3. /\ c \in RequestType /\ c.pc = p /\ c.key = req[r].key /\ c.node = req[r].node
        /\ c.updating = req[r].updating /\ c.lock = req[r].lock /\ c.left = req[r].left
        /\ c.bypass = req[r].bypass
    BY <1>2, <2>2 DEF RequestType
  <2>4. p = "exists" => c.node = None
    BY <2>1, <2>3
  <2>5. p = "respond" => c.node # None
    BY <1>1, <1>2, <2>1, <2>3 DEF RequestOK
  <2>6. RequestOK(c)
    BY <1>1, <1>2, <2>3, <2>4, <2>5 DEF RequestOK
  <2>7. req' = [req EXCEPT ![r] = c]
    BY <1>4, <2>1, <2>2 DEF Goto
  <2> QED
    BY <1>1, <1>2, <1>4, <2>3, <2>6, <2>7, QuietRequest
<1> QED
  BY <1>3, <1>4 DEF Fetch

LEMMA RenameStep ==
  ASSUME IInv, NEW r \in Requests, Rename(r)
  PROVE  IInv'
<1>1. req[r].pc = "respond" /\ UNCHANGED <<conf, del, loader, crashes>>
  BY DEF Rename
<1>2. req[r] \in RequestType /\ RequestOK(req[r]) /\ file' \in [Keys -> BOOLEAN]
      /\ req[r].error \in BOOLEAN
  BY <1>1 DEF IInv, Typed, Held, Rename, RequestType
<1>3. ASSUME NEW b \in BOOLEAN, req' = [req EXCEPT ![r].pc = "update", ![r].renamed = b],
             UNCHANGED <<node, queue, ghost>>
      PROVE  IInv'
  <2>1. PICK c : c = [req[r] EXCEPT !.pc = "update", !.renamed = b]
    OBVIOUS
  <2>2. /\ c \in RequestType /\ c.pc = "update" /\ c.key = req[r].key /\ c.node = req[r].node
        /\ c.updating = req[r].updating /\ c.lock = req[r].lock /\ c.left = req[r].left
        /\ c.bypass = req[r].bypass
    BY <1>2, <2>1 DEF RequestType
  <2>3. RequestOK(c)
    BY <1>1, <1>2, <2>2 DEF RequestOK
  <2>4. req' = [req EXCEPT ![r] = c]
    BY <1>2, <1>3, <2>1 DEF IInv, Typed
  <2> QED
    BY <1>1, <1>2, <1>3, <2>2, <2>3, <2>4, QuietRequest
<1>4. CASE /\ req' = [req EXCEPT ![r].pc = "update", ![r].renamed = TRUE]
           /\ UNCHANGED <<node, queue, ghost>>
  BY <1>3, <1>4
<1>5. CASE Goto(r, "update") /\ UNCHANGED <<node, queue, file, ghost>>
  <2>1. PICK b \in BOOLEAN : b = req[r].renamed
    BY <1>2 DEF RequestType
  <2>2. req' = [req EXCEPT ![r].pc = "update", ![r].renamed = b]
    BY <1>2, <1>5, <2>1 DEF Goto, RequestType, IInv, Typed
  <2> QED
    BY <1>3, <1>5, <2>2
<1>6. CASE FreeCache(r, req[r].error) /\ req' = [req EXCEPT ![r] = Idle] /\ UNCHANGED file
  BY <1>1, <1>2, <1>6, FreeCacheStep
<1> QED
  BY <1>4, <1>5, <1>6 DEF Rename

LEMMA UpdateStep ==
  ASSUME IInv, NEW r \in Requests, Update(r)
  PROVE  IInv'
<1>1. req[r].pc = "update" /\ UNCHANGED <<conf, queue, file, del, loader, crashes>>
      /\ req' = [req EXCEPT ![r] = Idle]
  BY DEF Update
<1>2. PICK s : s = req[r].node
  OBVIOUS
<1>3. s # None
  BY <1>1, <1>2 DEF IInv, Held, RequestOK
<1>4. /\ s \in Used /\ s \in Slots /\ node[s] \in Nodes /\ node[s].uses <= conf.min
      /\ req[r] \in RequestType
  BY <1>2, <1>3, HasNode
<1>5. /\ Updaters(s)' = Updaters(s) \ {r}
      /\ Cardinality(Users(s)) > 0
  BY <1>1, <1>2, <1>3, GaveUp
<1>6. PICK k \in Nat : k = node[s].count - 1
  <2>1. PICK u \in Nat, d \in Nat, l \in Nat :
          u = Cardinality(Users(s)) /\ d = Cardinality(Deleters(s)) /\ l = ghost[s].leaked
    BY <1>4, Counts, SumType DEF IInv
  <2>2. node[s].count = u + d + l /\ u > 0
    BY <1>4, <1>5, <2>1 DEF IInv, Counted, Sum
  <2> QED
    BY <2>1, <2>2
<1>7. PICK ex \in BOOLEAN : ex = (node[s].exists \/ req[r].renamed)
  BY <1>4 DEF Nodes, RequestType
<1>8. PICK n : n = [node[s] EXCEPT !.count = k, !.exists = ex, !.updating = FALSE]
  OBVIOUS
<1>9. /\ n \in Nodes /\ n.count = k /\ n.updating = FALSE /\ n.key = node[s].key
      /\ n.uses = node[s].uses
  BY <1>4, <1>8 DEF Nodes
<1>10. node' = [node EXCEPT ![s] = n]
  BY <1>2, <1>4, <1>6, <1>7, <1>8 DEF Update, IInv, Typed
<1>11. PICK b \in BOOLEAN : b = (Updaters(s) \ {r} # {})
  OBVIOUS
<1>12. ghost \in [Slots -> Flags] /\ ghost[s] \in Flags
  BY <1>4 DEF IInv, Typed
<1>13. PICK g : g = [ghost[s] EXCEPT !.orphan = FALSE, !.breach = b]
  OBVIOUS
<1>14. /\ g \in Flags /\ g.leaked = ghost[s].leaked /\ g.orphan = FALSE /\ g.breach = b
  BY <1>12, <1>13 DEF Flags
<1>15. ghost' = [ghost EXCEPT ![s] = g]
  BY <1>2, <1>11, <1>12, <1>13 DEF Update, Flags
<1>16. node'[s] = n /\ ghost'[s] = g
  BY <1>4, <1>10, <1>12, <1>15 DEF IInv, Typed
<1>17. Updated(s)'
  BY <1>5, <1>9, <1>11, <1>14, <1>16 DEF Updated
<1>18. file' \in [Keys -> BOOLEAN]
  BY <1>1 DEF IInv, Typed
<1> QED
  BY <1>1, <1>2, <1>3, <1>4, <1>6, <1>9, <1>10, <1>14, <1>15, <1>17, <1>18, GiveStep

-----------------------------------------------------------------------------
(* Nodes are deleted. *)

LEMMA NobodyCounted ==
  ASSUME IInv, NEW s \in Used, node[s].count = 0
  PROVE  Users(s) = {} /\ Deleters(s) = {} /\ Sum(s) = 0
<1>1. s \in Slots
  BY DEF Used
<1>2. PICK u \in Nat, d \in Nat, l \in Nat :
        u = Cardinality(Users(s)) /\ d = Cardinality(Deleters(s)) /\ l = ghost[s].leaked
  BY <1>1, Counts, SumType DEF IInv
<1>3. u + d + l = 0 /\ Sum(s) = 0
  BY <1>2 DEF IInv, Counted, Sum
<1>4. u = 0 /\ d = 0
  BY <1>2, <1>3
<1> QED
  BY <1>2, <1>3, <1>4, Counts, FS_EmptySet

\* nobody goes on but a worker whose forced expiry has ended
LEMMA Expired ==
  ASSUME IInv, NEW a \in Actors, a \in Requests => req[a].pc = "forced", NEW s,
         \/ req' = req
         \/ a \in Requests /\ req' = [req EXCEPT ![a].pc = "alloc"]
  PROVE  /\ req' \in [Requests -> RequestType]
         /\ \A x \in Requests : /\ GoesOn(x, s) /\ req'[x].node = req[x].node
                                /\ req'[x].key = req[x].key /\ req'[x].updating = req[x].updating
         /\ \A x \in Requests : x # a => req'[x] = req[x]
<1>1. \A x \in Requests : RequestOK(req[x])
  BY DEF IInv, Held
<1>2. CASE req' = req
  <2>1. \A x \in Requests : GoesOn(x, s)
    BY <1>1, <1>2 DEF GoesOn, Stays
  <2> QED
    BY <1>2, <2>1 DEF IInv, Typed
<1>3. CASE a \in Requests /\ req' = [req EXCEPT ![a].pc = "alloc"]
  <2>1. /\ req[a] \in RequestType /\ RequestOK(req[a]) /\ req[a].node = None
        /\ ~req[a].updating /\ req[a].pc # "idle"
    BY <1>3 DEF IInv, Typed, Held, RequestOK
  <2>2. PICK c : c = [req[a] EXCEPT !.pc = "alloc"]
    OBVIOUS
  <2>3. c \in RequestType /\ RequestOK(c) /\ c.node = req[a].node /\ c.key = req[a].key
        /\ c.updating = req[a].updating
    BY <2>1, <2>2, MovedOK
  <2>4. /\ req' \in [Requests -> RequestType] /\ req'[a] = c
        /\ \A x \in Requests : x # a => req'[x] = req[x]
    BY <1>3, <2>2, <2>3 DEF IInv, Typed
  <2>5. ASSUME NEW x \in Requests
        PROVE  /\ GoesOn(x, s) /\ req'[x].node = req[x].node
               /\ req'[x].key = req[x].key /\ req'[x].updating = req[x].updating
    <3>1. CASE x = a
      BY <2>3, <2>4, <3>1 DEF GoesOn, Stays
    <3>2. CASE x # a
      BY <1>1, <2>4, <3>2 DEF GoesOn, Stays
    <3> QED
      BY <3>1, <3>2
  <2> QED
    BY <2>4, <2>5
<1> QED
  BY <1>2, <1>3

LEMMA DeleteBeginStep ==
  ASSUME IInv, NEW a \in Actors, a \in Requests => req[a].pc = "forced", del[a].node = None,
         NEW s \in Used, node[s].count = 0, DeleteBegin(a, s),
         \/ req' = req
         \/ ~node[s].exists /\ a \in Requests /\ req' = [req EXCEPT ![a].pc = "alloc"],
         UNCHANGED <<conf, file, loader, crashes>>
  PROVE  IInv'
<1>1. s \in Slots /\ s # None /\ node[s] \in Nodes /\ node[s].uses <= conf.min
  BY NoneIsNothing DEF IInv, Typed, Queued, Used
<1>2. Users(s) = {} /\ Deleters(s) = {} /\ Sum(s) = 0
  BY NobodyCounted
<1>3. /\ req' \in [Requests -> RequestType]
      /\ \A x \in Requests : /\ GoesOn(x, s) /\ req'[x].node = req[x].node
                             /\ req'[x].key = req[x].key /\ req'[x].updating = req[x].updating
      /\ \A x \in Requests : x # a => req'[x] = req[x]
  BY Expired
<1>4. file' \in [Keys -> BOOLEAN]
  BY DEF IInv, Typed
<1>5. CASE ~node[s].exists
  <2>1. Freed(s) /\ del' = del
    BY <1>5 DEF DeleteBegin
  <2>2. Typed'
    <3>1. del' \in [Actors -> [node : Slots \cup {None}, gone : BOOLEAN]]
      BY <2>1 DEF IInv, Typed
    <3> QED
      BY <1>1, <1>3, <1>4, <2>1, <3>1, FreedType
  <2>3. \A x \in Requests : GoesOn(x, s) /\ req'[x].node # s
    BY <1>2, <1>3 DEF Users
  <2>4. \A x \in Actors : Remains(x, s) /\ del'[x].node # s
    BY <1>2, <2>1 DEF Deleters, Remains
  <2>5. \A x \in Requests : del'[x].node # None => req'[x].pc = "forced"
    BY <1>3, <2>1, NoneIsNothing DEF IInv, Deleted
  <2> QED
    BY <1>1, <2>1, <2>2, <2>3, <2>4, <2>5, FreedStep
<1>6. CASE node[s].exists
  <2>1. /\ node' = [node EXCEPT ![s].count = @ + 1, ![s].deleting = TRUE]
        /\ del' = [del EXCEPT ![a] = [node |-> s, gone |-> FALSE]] /\ UNCHANGED <<queue, ghost>>
        /\ req' = req
    BY <1>6 DEF DeleteBegin
  <2>2. PICK n : n = [node[s] EXCEPT !.count = 1, !.deleting = TRUE]
    OBVIOUS
  <2>3. /\ n \in Nodes /\ n.count = 1 /\ n.key = node[s].key /\ n.uses = node[s].uses
        /\ n.updating = node[s].updating
    BY <1>1, <2>2 DEF Nodes
  <2>4. node' = [node EXCEPT ![s] = n]
    <3>1. PICK k : k = node[s].count + 1 /\ k = 1
      OBVIOUS
    <3>2. n = [node[s] EXCEPT !.count = @ + 1, !.deleting = TRUE]
      BY <1>1, <2>2, <3>1 DEF Nodes
    <3> QED
      BY <1>1, <2>1, <3>2 DEF IInv, Typed
  <2>5. PICK d : d = [node |-> s, gone |-> FALSE]
    OBVIOUS
  <2>6. d \in [node : Slots \cup {None}, gone : BOOLEAN] /\ d.node = s
    BY <1>1, <2>5
  <2>7. /\ del' \in [Actors -> [node : Slots \cup {None}, gone : BOOLEAN]]
        /\ del'[a] = d /\ \A x \in Actors : x # a => del'[x] = del[x]
    BY <2>1, <2>5, <2>6 DEF IInv, Typed
  <2>8. node' \in [Slots -> Nodes \cup {None}] /\ node'[s] = n
    BY <1>1, <2>3, <2>4 DEF IInv, Typed
  <2>9. Typed'
    BY <1>3, <2>1, <2>7, <2>8 DEF IInv, Typed
  <2>10. \A x \in Requests : RequestOK(req'[x]) /\ Stays(x, s) /\ Holds(x, s, n.key)
    BY <1>3 DEF GoesOn, Holds
  <2>11. \A x \in Actors : Remains(x, s)
    <3> TAKE x \in Actors
    <3>1. CASE x = a
      BY <2>6, <2>7, <3>1 DEF Remains
    <3>2. CASE x # a
      BY <2>7, <3>2 DEF Remains
    <3> QED
      BY <3>1, <3>2
  <2>12. \A x \in Requests : del'[x].node # None => req'[x].pc = "forced"
    BY <2>1, <2>7, NoneIsNothing DEF IInv, Deleted
  <2>13. Users(s)' = {}
    BY <1>2, <1>3 DEF Users
  <2>14. Deleters(s)' = {a}
    <3>1. \A x \in Actors : del'[x].node = s <=> x = a
      BY <1>2, <2>6, <2>7 DEF Deleters
    <3> QED
      BY <3>1 DEF Deleters
  <2>15. n.count = Sum(s)'
    <3>1. ghost[s].leaked = 0
      <4>1. Cardinality({}) = 0 /\ ghost[s].leaked \in Nat
        BY <1>1, FS_EmptySet, SumType DEF IInv
      <4> QED
        BY <1>2, <4>1 DEF Sum
    <3>2. Cardinality(Users(s)') = 0 /\ Cardinality(Deleters(s)') = 1
      BY <2>13, <2>14, FS_EmptySet, FS_Singleton
    <3> QED
      BY <2>1, <2>3, <3>1, <3>2 DEF Sum
  <2>16. Updated(s)' /\ (ghost'[s].orphan => n.updating)
    <3>1. Updated(s) /\ (ghost[s].orphan => node[s].updating)
      BY <1>1 DEF IInv, Ghosts
    <3>2. Updaters(s)' = Updaters(s)
      BY <1>2, <2>13 DEF Updaters
    <3> QED
      BY <2>1, <2>3, <2>8, <3>1, <3>2 DEF Updated
  <2> QED
    BY <1>1, <2>1, <2>3, <2>4, <2>9, <2>10, <2>11, <2>12, <2>15, <2>16, KeptStep
<1> QED
  BY <1>5, <1>6

LEMMA UnlinkStep ==
  ASSUME IInv, NEW a \in Actors, Unlink(a)
  PROVE  IInv'
<1>1. /\ file' \in [Keys -> BOOLEAN]
      /\ UNCHANGED <<conf, node, queue, req, loader, ghost, crashes>>
  BY DEF Unlink, IInv, Typed
<1>2. /\ del' \in [Actors -> [node : Slots \cup {None}, gone : BOOLEAN]]
      /\ \A x \in Actors : del'[x].node = del[x].node
  BY DEF Unlink, IInv, Typed
<1>3. Typed'
  BY <1>1, <1>2 DEF IInv, Typed
<1>4. \A x \in Requests : /\ RequestOK(req'[x]) /\ req'[x].node = req[x].node
                          /\ req[x].node # None => /\ req'[x].key = req[x].key
                                                   /\ req'[x].updating = req[x].updating
  BY <1>1 DEF IInv, Held
<1>5. \A x \in Requests : del'[x].node # None => req'[x].pc = "forced"
  BY <1>1, <1>2, NoneIsNothing DEF IInv, Deleted
<1> QED
  BY <1>1, <1>2, <1>3, <1>4, <1>5, QuietStep

LEMMA DeleteEndStep ==
  ASSUME IInv, NEW a \in Actors, DeleteEnd(a)
  PROVE  IInv'
<1>1. PICK s : s = del[a].node
  OBVIOUS
<1>2. /\ s # None /\ del' = [del EXCEPT ![a] = NoDel] /\ UNCHANGED <<conf, file, loader, crashes>>
      /\ req' = IF a = Manager THEN req ELSE [req EXCEPT ![a].pc = "alloc"]
  BY <1>1 DEF DeleteEnd
<1>3. s \in Used /\ (a \in Requests => req[a].pc = "forced")
  BY <1>1, <1>2 DEF IInv, Deleted
<1>4. s \in Slots /\ node[s] \in Nodes /\ node[s].uses <= conf.min
  BY <1>3 DEF IInv, Typed, Queued, Used
<1>5. /\ req' \in [Requests -> RequestType]
      /\ \A x \in Requests : /\ GoesOn(x, s) /\ req'[x].node = req[x].node
                             /\ req'[x].key = req[x].key /\ req'[x].updating = req[x].updating
      /\ \A x \in Requests : x # a => req'[x] = req[x]
  <2>1. req' = req \/ (a \in Requests /\ req' = [req EXCEPT ![a].pc = "alloc"])
    BY <1>2 DEF Actors
  <2> QED
    BY <1>3, <2>1, Expired
<1>6. /\ del' \in [Actors -> [node : Slots \cup {None}, gone : BOOLEAN]]
      /\ del'[a].node = None /\ \A x \in Actors : x # a => del'[x] = del[x]
  <2>1. NoDel \in [node : Slots \cup {None}, gone : BOOLEAN] /\ NoDel.node = None
    BY DEF NoDel
  <2> QED
    BY <1>2, <2>1 DEF IInv, Typed
<1>7. file' \in [Keys -> BOOLEAN]
  BY <1>2 DEF IInv, Typed
<1>8. \A x \in Actors : Remains(x, s)
  <2> TAKE x \in Actors
  <2>1. CASE x = a
    BY <1>1, <1>6, <2>1 DEF Remains
  <2>2. CASE x # a
    BY <1>6, <2>2 DEF Remains
  <2> QED
    BY <2>1, <2>2
<1>9. \A x \in Requests : del'[x].node # None => req'[x].pc = "forced"
  BY <1>5, <1>6, NoneIsNothing DEF IInv, Deleted
<1>10. Users(s)' = Users(s) /\ Updaters(s)' = Updaters(s)
  <2>1. Users(s)' = Users(s)
    BY <1>5 DEF Users
  <2>2. \A x \in Users(s) : req'[x].updating = req[x].updating
    BY <1>5 DEF Users
  <2> QED
    BY <2>1, <2>2 DEF Updaters
<1>11. a \in Deleters(s) /\ Deleters(s)' = Deleters(s) \ {a}
  <2>1. \A x \in Actors : del'[x].node = s <=> del[x].node = s /\ x # a
    BY <1>2, <1>6
  <2> QED
    BY <1>1, <2>1 DEF Deleters
<1>12. PICK u \in Nat, d \in Nat, l \in Nat :
         u = Cardinality(Users(s)) /\ d = Cardinality(Deleters(s)) /\ l = ghost[s].leaked
  BY <1>4, Counts, SumType DEF IInv
<1>13. Cardinality(Deleters(s)') = d - 1 /\ d > 0
  BY <1>11, <1>12, Counts, Left
<1>14. node[s].count = u + d + l
  BY <1>3, <1>12 DEF IInv, Counted, Sum
<1>15. CASE node[s].count = 1 /\ Freed(s)
  <2>1. u = 0 /\ d = 1
    <3>1. u + d + l = 1
      BY <1>14, <1>15
    <3> QED
      BY <1>12, <1>13, <3>1
  <2>2. Users(s) = {}
    BY <1>12, <2>1, Counts, FS_EmptySet
  <2>3. Deleters(s)' = {}
    <3>1. IsFiniteSet(Deleters(s)')
      BY <1>11, Counts, FS_Subset
    <3>2. Cardinality(Deleters(s)') = 0
      BY <1>12, <1>13, <2>1
    <3> QED
      BY <3>1, <3>2, FS_EmptySet
  <2>4. \A x \in Requests : GoesOn(x, s) /\ req'[x].node # s
    BY <1>5, <2>2 DEF Users
  <2>5. \A x \in Actors : Remains(x, s) /\ del'[x].node # s
    BY <1>8, <2>3 DEF Deleters
  <2>6. Typed'
    BY <1>2, <1>4, <1>5, <1>6, <1>7, <1>15, FreedType
  <2> QED
    BY <1>2, <1>4, <1>9, <1>15, <2>4, <2>5, <2>6, FreedStep
<1>16. CASE /\ node' = [node EXCEPT ![s].count = @ - 1, ![s].deleting = FALSE]
            /\ UNCHANGED <<queue, ghost>>
  <2>1. PICK k \in Nat : k = node[s].count - 1
    BY <1>12, <1>13, <1>14
  <2>2. PICK n : n = [node[s] EXCEPT !.count = k, !.deleting = FALSE]
    OBVIOUS
  <2>3. /\ n \in Nodes /\ n.count = k /\ n.key = node[s].key /\ n.uses = node[s].uses
        /\ n.updating = node[s].updating
    BY <1>4, <2>2 DEF Nodes
  <2>4. node' = [node EXCEPT ![s] = n]
    BY <1>4, <1>16, <2>1, <2>2 DEF IInv, Typed
  <2>5. node' \in [Slots -> Nodes \cup {None}] /\ node'[s] = n
    BY <1>4, <2>3, <2>4 DEF IInv, Typed
  <2>6. Typed'
    BY <1>2, <1>5, <1>6, <1>7, <1>16, <2>5 DEF IInv, Typed
  <2>7. \A x \in Requests : RequestOK(req'[x]) /\ Stays(x, s) /\ Holds(x, s, n.key)
    BY <1>5 DEF GoesOn, Holds
  <2>8. n.count = Sum(s)'
    <3>1. Sum(s)' = u + (d - 1) + l
      BY <1>10, <1>12, <1>13, <1>16 DEF Sum
    <3> QED
      BY <1>12, <1>14, <2>1, <2>3, <3>1
  <2>9. Updated(s)' /\ (ghost'[s].orphan => n.updating)
    <3>1. Updated(s) /\ (ghost[s].orphan => node[s].updating)
      BY <1>3, <1>4 DEF IInv, Ghosts
    <3> QED
      BY <1>10, <1>16, <2>3, <2>5, <3>1 DEF Updated
  <2> QED
    BY <1>2, <1>3, <1>4, <1>8, <1>9, <1>16, <2>3, <2>4, <2>6, <2>7, <2>8, <2>9, KeptStep
<1>17. \/ node[s].count = 1 /\ Freed(s)
       \/ /\ node' = [node EXCEPT ![s].count = @ - 1, ![s].deleting = FALSE]
          /\ UNCHANGED <<queue, ghost>>
  BY <1>1 DEF DeleteEnd
<1> QED
  BY <1>15, <1>16, <1>17

LEMMA QueuedUsed ==
  ASSUME IInv, NEW i \in 1..Len(queue)
  PROVE  queue[i] \in Used
BY DEF IInv, Typed, Queued, ToSet

LEMMA ForcedWorkerStep ==
  ASSUME IInv, NEW r \in Requests, ForcedExpireWorker(r)
  PROVE  IInv'
<1>1. req[r].pc = "forced" /\ del[r].node = None /\ UNCHANGED <<conf, file, loader, crashes>>
      /\ r \in Actors
  BY DEF ForcedExpireWorker, Actors
<1>2. CASE \E i \in Victims : /\ DeleteBegin(r, queue[i])
                              /\ IF node[queue[i]].exists THEN UNCHANGED req ELSE Goto(r, "alloc")
  <2>1. PICK i \in Victims :
          /\ DeleteBegin(r, queue[i])
          /\ IF node[queue[i]].exists THEN UNCHANGED req ELSE Goto(r, "alloc")
    BY <1>2
  <2>2. queue[i] \in Used /\ node[queue[i]].count = 0
    BY QueuedUsed DEF Victims
  <2>3. \/ req' = req
        \/ ~node[queue[i]].exists /\ req' = [req EXCEPT ![r].pc = "alloc"]
    BY <2>1 DEF Goto
  <2> QED
    BY <1>1, <2>1, <2>2, <2>3, DeleteBeginStep
<1>3. CASE Goto(r, "alloc") /\ UNCHANGED <<node, queue, del, ghost>>
  <2>1. req[r].node = None /\ ~req[r].updating
    BY <1>1 DEF IInv, Held, RequestOK
  <2> QED
    BY <1>1, <1>3, <2>1, QuietMove
<1> QED
  BY <1>2, <1>3 DEF ForcedExpireWorker

LEMMA ForcedManagerStep ==
  ASSUME IInv, ForcedExpireManager
  PROVE  IInv'
<1>1. PICK i \in Victims : DeleteBegin(Manager, queue[i])
  BY DEF ForcedExpireManager
<1>2. queue[i] \in Used /\ node[queue[i]].count = 0
  BY QueuedUsed DEF Victims
<1>3. /\ del[Manager].node = None /\ UNCHANGED <<conf, file, req, loader, crashes>>
      /\ Manager \in Actors /\ Manager \notin Requests
  BY NoneIsNothing DEF ForcedExpireManager
<1> QED
  BY <1>1, <1>2, <1>3, DeleteBeginStep

LEMMA ExpireStep ==
  ASSUME IInv, Expire
  PROVE  IInv'
<1>1. /\ del[Manager].node = None /\ UNCHANGED <<conf, file, req, loader, crashes>>
      /\ Manager \in Actors /\ Manager \notin Requests
  BY NoneIsNothing DEF Expire
<1>2. PICK s : s = Last(queue)
  OBVIOUS
<1>3. s \in Used
  <2>1. queue # <<>> /\ queue \in Seq(Slots)
    BY DEF Expire, IInv, Typed
  <2>2. Len(queue) \in 1..Len(queue)
    BY <2>1
  <2> QED
    BY <1>2, <2>2, QueuedUsed DEF Last
<1>4. CASE node[s].count = 0 /\ DeleteBegin(Manager, s)
  BY <1>1, <1>3, <1>4, DeleteBeginStep
<1>5. CASE queue' = Touched(s) /\ UNCHANGED <<node, del, ghost>>
  <2>1. Typed'
    <3>1. queue' \in Seq(Slots)
      BY <1>3, <1>5, TouchedAdds DEF IInv, Used
    <3> QED
      BY <1>1, <1>5, <3>1 DEF IInv, Typed
  <2>2. \A x \in Requests : RequestOK(req'[x])
    BY <1>1 DEF IInv, Held
  <2>3. \A x \in Requests : del'[x].node # None => req'[x].pc = "forced"
    BY <1>1, <1>5, NoneIsNothing DEF IInv, Deleted
  <2> QED
    BY <1>1, <1>3, <1>5, <2>1, <2>2, <2>3, QuietStep
<1> QED
  BY <1>2, <1>4, <1>5 DEF Expire

-----------------------------------------------------------------------------
(* The cache loader. *)

\* the loader changes no node
LEMMA LoaderQuiet ==
  ASSUME IInv, loader' \in [cold : BOOLEAN, loading : BOOLEAN, key : Keys \cup {None}],
         file' \in [Keys -> BOOLEAN], queue' = queue \/ \E s \in Used : queue' = Touched(s),
         UNCHANGED <<conf, node, req, del, ghost, crashes>>
  PROVE  IInv'
<1>1. queue' \in Seq(Slots)
  BY TouchedAdds DEF IInv, Typed, Used
<1>2. Typed'
  BY <1>1 DEF IInv, Typed
<1>3. \A x \in Requests : RequestOK(req'[x])
  BY DEF IInv, Held
<1>4. \A x \in Requests : del'[x].node # None => req'[x].pc = "forced"
  BY NoneIsNothing DEF IInv, Deleted
<1> QED
  BY <1>2, <1>3, <1>4, QuietStep

LEMMA LoaderAddStep ==
  ASSUME IInv, LoaderAdd
  PROVE  IInv'
<1>1. /\ loader.key # None /\ loader.key \in Keys
      /\ loader' \in [cold : BOOLEAN, loading : BOOLEAN, key : Keys \cup {None}]
      /\ UNCHANGED <<conf, req, del, ghost, crashes>>
  BY DEF LoaderAdd, IInv, Typed
<1>2. CASE \E s \in Found(loader.key) : queue' = Touched(s) /\ UNCHANGED <<node, file>>
  <2>1. file' \in [Keys -> BOOLEAN]
    BY <1>2 DEF IInv, Typed
  <2> QED
    BY <1>1, <1>2, <2>1, LoaderQuiet DEF Found
<1>3. CASE /\ \E s \in FreeSlots : /\ node' = [node EXCEPT ![s] = NewNode(loader.key, TRUE, 0)]
                                   /\ queue' = Touched(s)
           /\ UNCHANGED file
  <2>1. PICK s \in FreeSlots : /\ node' = [node EXCEPT ![s] = NewNode(loader.key, TRUE, 0)]
                               /\ queue' = Touched(s)
    BY <1>3
  <2>2. s \in Slots /\ s \notin Used
    BY ConfOK, FileCacheAssumption DEF FreeSlots, Room, Slots
  <2>3. PICK n : n = NewNode(loader.key, TRUE, 0)
    OBVIOUS
  <2>4. n \in Nodes /\ n.uses = 1 /\ n.count = 0 /\ ~n.updating
    BY <1>1, <2>3 DEF NewNode, Nodes
  <2>5. node' = [node EXCEPT ![s] = n] /\ n.uses <= conf.min
    BY <2>1, <2>3, <2>4, ConfOK
  <2>6. node' \in [Slots -> Nodes \cup {None}] /\ node'[s] = n
    BY <2>2, <2>4, <2>5 DEF IInv, Typed
  <2>7. Typed'
    <3>1. queue' \in Seq(Slots)
      BY <2>1, <2>2, TouchedAdds DEF IInv
    <3> QED
      BY <1>1, <1>3, <2>6, <3>1 DEF IInv, Typed
  <2>8. \A x \in Requests : RequestOK(req'[x]) /\ Stays(x, s) /\ Holds(x, s, n.key)
    BY <1>1 DEF IInv, Held, Stays, Holds
  <2>9. \A a \in Actors : Remains(a, s)
    BY <1>1 DEF Remains
  <2>10. \A x \in Requests : del'[x].node # None => req'[x].pc = "forced"
    BY <1>1, NoneIsNothing DEF IInv, Deleted
  <2>11. Users(s)' = Users(s) /\ Deleters(s)' = Deleters(s) /\ Updaters(s)' = Updaters(s)
    BY <1>1 DEF Users, Deleters, Updaters
  <2>12. n.count = Sum(s)'
    <3>1. Sum(s)' = Sum(s)
      BY <1>1, <2>11 DEF Sum
    <3> QED
      BY <2>2, <2>4, <3>1, NobodyHas
  <2>13. Updated(s)' /\ (ghost'[s].orphan => n.updating)
    BY <1>1, <2>2, <2>4, <2>6, <2>11, NobodyHas DEF Updated
  <2> QED
    BY <1>1, <2>1, <2>2, <2>4, <2>5, <2>7, <2>8, <2>9, <2>10, <2>12, <2>13, KeptStep
<1>4. CASE file' = [file EXCEPT ![loader.key] = FALSE] /\ UNCHANGED <<node, queue>>
  <2>1. file' \in [Keys -> BOOLEAN]
    BY <1>4 DEF IInv, Typed
  <2> QED
    BY <1>1, <1>4, <2>1, LoaderQuiet
<1> QED
  BY <1>2, <1>3, <1>4 DEF LoaderAdd

LEMMA LoaderStep ==
  ASSUME IInv, LoaderStart \/ LoaderVisit \/ LoaderEnd
  PROVE  IInv'
<1>1. /\ loader' \in [cold : BOOLEAN, loading : BOOLEAN, key : Keys \cup {None}]
      /\ UNCHANGED <<conf, node, queue, file, req, del, ghost, crashes>>
  BY DEF LoaderStart, LoaderVisit, LoaderEnd, IInv, Typed
<1>2. file' \in [Keys -> BOOLEAN]
  BY <1>1 DEF IInv, Typed
<1> QED
  BY <1>1, <1>2, LoaderQuiet

-----------------------------------------------------------------------------
(* A worker dies. *)

Dead(r, s) == {x \in {"req", "del"} : s = IF x = "req" THEN req[r].node ELSE del[r].node}

LEMMA CrashStep ==
  ASSUME IInv, NEW r \in Requests, Crash(r)
  PROVE  IInv'
<1>1. /\ crashes' = crashes + 1 /\ crashes' \in Nat /\ crashes \in Nat
      /\ UNCHANGED <<conf, node, queue, file, loader>>
      /\ req' = [req EXCEPT ![r] = Idle] /\ del' = [del EXCEPT ![r] = NoDel]
  <2>1. crashes \in Nat
    BY DEF IInv, Typed
  <2>2. /\ crashes' = crashes + 1 /\ UNCHANGED <<conf, node, queue, file, loader>>
        /\ req' = [req EXCEPT ![r] = Idle] /\ del' = [del EXCEPT ![r] = NoDel]
    BY Zenon DEF Crash
  <2> QED
    BY <2>1, <2>2
<1>2. /\ req' \in [Requests -> RequestType] /\ req'[r] = Idle
      /\ \A x \in Requests : x # r => req'[x] = req[x]
  BY <1>1, IdleOK DEF IInv, Typed
<1>3. /\ del' \in [Actors -> [node : Slots \cup {None}, gone : BOOLEAN]]
      /\ del'[r].node = None /\ \A x \in Actors : x # r => del'[x] = del[x] /\ r \in Actors
  <2>1. NoDel \in [node : Slots \cup {None}, gone : BOOLEAN] /\ NoDel.node = None
    BY DEF NoDel
  <2> QED
    BY <1>1, <2>1, NoneIsNothing DEF IInv, Typed
<1>4. Idle.node = None /\ RequestOK(Idle)
  BY IdleOK
<1>5. Used' = Used /\ Used \subseteq Slots
  BY <1>1 DEF Used
<1>6. r \in Actors /\ (del[r].node # None => req[r].node = None)
  BY NoneIsNothing DEF IInv, Deleted, Held, RequestOK
<1>7. ASSUME NEW s \in Slots
      PROVE  /\ Users(s)' = Users(s) \ {r} /\ Deleters(s)' = Deleters(s) \ {r}
             /\ Updaters(s)' = Updaters(s) \ {r}
             /\ (r \in Users(s) <=> req[r].node = s) /\ (r \in Deleters(s) <=> del[r].node = s)
  <2>1. s # None
    BY NoneIsNothing
  <2>2. \A x \in Requests : req'[x].node = s <=> req[x].node = s /\ x # r
    BY <1>2, <1>4, <2>1
  <2>3. \A x \in Actors : del'[x].node = s <=> del[x].node = s /\ x # r
    BY <1>3, <2>1
  <2>4. Users(s)' = Users(s) \ {r}
    BY <2>2 DEF Users
  <2>5. Deleters(s)' = Deleters(s) \ {r}
    BY <2>3 DEF Deleters
  <2>6. \A x \in Users(s)' : req'[x].updating = req[x].updating
    BY <1>2, <2>4 DEF Users
  <2>7. Updaters(s)' = Updaters(s) \ {r}
    BY <2>4, <2>6 DEF Updaters
  <2> QED
    BY <1>6, <2>4, <2>5, <2>7 DEF Users, Deleters
<1>8. ASSUME NEW s \in Slots
      PROVE  \E k \in {0, 1} : /\ Cardinality(Dead(r, s)) = k
                               /\ Cardinality(Users(s)) + Cardinality(Deleters(s))
                                  = Cardinality(Users(s)') + Cardinality(Deleters(s)') + k
                               /\ s \notin Used => k = 0
  <2>1. s # None
    BY NoneIsNothing
  <2>2. PICK u \in Nat, d \in Nat : u = Cardinality(Users(s)) /\ d = Cardinality(Deleters(s))
    BY Counts
  <2>3. CASE req[r].node = s
    <3>1. Dead(r, s) = {"req"}
      BY <1>6, <2>1, <2>3 DEF Dead
    <3>2. Cardinality(Users(s)') = u - 1 /\ u > 0
      BY <1>7, <2>2, <2>3, Counts, Left
    <3>3. Deleters(s)' = Deleters(s)
      <4>1. del[r].node # s
        BY <1>6, <2>1, <2>3
      <4>2. r \notin Deleters(s) /\ Deleters(s)' = Deleters(s) \ {r}
        BY <1>7, <4>1
      <4> QED
        BY <4>2
    <3>4. s \in Used
      BY <2>1, <2>3, HasNode
    <3>5. Cardinality(Dead(r, s)) = 1
      BY <3>1, FS_Singleton
    <3> QED
      BY <2>2, <3>2, <3>3, <3>4, <3>5
  <2>4. CASE del[r].node = s
    <3>1. Dead(r, s) = {"del"}
      BY <1>6, <2>1, <2>4 DEF Dead
    <3>2. Cardinality(Deleters(s)') = d - 1 /\ d > 0
      BY <1>7, <2>2, <2>4, Counts, Left
    <3>3. Users(s)' = Users(s)
      BY ZenonT(60), <1>6, <1>7, <2>1, <2>4
    <3>4. s \in Used
      BY <1>6, <2>1, <2>4 DEF IInv, Deleted
    <3>5. Cardinality(Dead(r, s)) = 1
      BY <3>1, FS_Singleton
    <3> QED
      BY <2>2, <3>2, <3>3, <3>4, <3>5
  <2>5. CASE req[r].node # s /\ del[r].node # s
    <3>1. Dead(r, s) = {}
      BY <2>5 DEF Dead
    <3>2. Users(s)' = Users(s) /\ Deleters(s)' = Deleters(s)
      BY <1>7, <2>5
    <3>3. Cardinality(Dead(r, s)) = 0
      BY <3>1, FS_EmptySet
    <3> QED
      BY <2>2, <3>2, <3>3
  <2> QED
    BY <2>3, <2>4, <2>5
<1>9. ASSUME NEW s \in Slots
      PROVE  /\ ghost[s] \in Flags /\ ghost'[s] \in Flags
             /\ ghost'[s].leaked = ghost[s].leaked + Cardinality(Dead(r, s))
             /\ ghost'[s].orphan <=> ghost[s].orphan \/ (node[s] # None /\ node[s].updating
                                                         /\ Updaters(s) = {r})
             /\ ghost'[s].breach <=> ghost[s].breach /\ Updaters(s) # {r}
  <2>1. ghost[s] \in Flags
    BY DEF IInv, Typed
  <2>2. PICK l \in Nat : l = ghost[s].leaked + Cardinality(Dead(r, s))
    BY <1>8, <2>1 DEF Flags
  <2>3. PICK o \in BOOLEAN : o = (ghost[s].orphan \/ (node[s] # None /\ node[s].updating
                                                       /\ Updaters(s) = {r}))
    OBVIOUS
  <2>4. PICK b \in BOOLEAN : b = (ghost[s].breach /\ Updaters(s) # {r})
    OBVIOUS
  <2>5. ghost'[s] = [ghost[s] EXCEPT !.leaked = l, !.orphan = o, !.breach = b]
    BY <2>2, <2>3, <2>4 DEF Crash, Dead
  <2> QED
    BY <2>1, <2>2, <2>3, <2>4, <2>5 DEF Flags
<1>10. Typed'
  <2>1. ghost' \in [Slots -> Flags]
    <3>1. ghost' = [s \in Slots |-> ghost'[s]]
      BY DEF Crash
    <3> QED
      BY <1>9, <3>1
  <2> QED
    BY <1>1, <1>2, <1>3, <2>1 DEF IInv, Typed
<1>11. Queued'
  BY <1>1, <1>5 DEF IInv, Queued
<1>12. Held'
  <2> SUFFICES ASSUME NEW x \in Requests
               PROVE  /\ RequestOK(req'[x])
                      /\ req'[x].node # None => /\ req'[x].node \in Used'
                                                /\ node'[req'[x].node].key = req'[x].key
    BY DEF Held
  <2>1. CASE x = r
    BY <1>2, <1>4, <2>1
  <2>2. CASE x # r
    BY <1>1, <1>2, <1>5, <2>2 DEF IInv, Held
  <2> QED
    BY <2>1, <2>2
<1>13. Deleted'
  <2> SUFFICES ASSUME NEW a \in Actors, del'[a].node # None
               PROVE  del'[a].node \in Used' /\ (a \in Requests => req'[a].pc = "forced")
    BY DEF Deleted
  <2>1. a # r /\ del'[a] = del[a]
    BY <1>3
  <2> QED
    BY <1>2, <1>5, <2>1 DEF IInv, Deleted
<1>14. Counted'
  <2> SUFFICES ASSUME NEW s \in Used PROVE node[s].count = Sum(s)'
    BY <1>1, <1>5 DEF Counted
  <2>1. s \in Slots
    BY <1>5
  <2>2. PICK k \in {0, 1} :
          /\ Cardinality(Dead(r, s)) = k
          /\ Cardinality(Users(s)) + Cardinality(Deleters(s))
             = Cardinality(Users(s)') + Cardinality(Deleters(s)') + k
    BY <1>8, <2>1
  <2>3. IsFiniteSet(Users(s)') /\ IsFiniteSet(Deleters(s)')
    BY <1>7, <2>1, Counts, FS_Subset
  <2>4. PICK u \in Nat, d \in Nat, l \in Nat, v \in Nat, e \in Nat :
          /\ u = Cardinality(Users(s)) /\ d = Cardinality(Deleters(s)) /\ l = ghost[s].leaked
          /\ v = Cardinality(Users(s)') /\ e = Cardinality(Deleters(s)')
    BY <2>1, <2>3, Counts, SumType, FS_CardinalityType DEF IInv
  <2>5. node[s].count = u + d + l /\ Sum(s)' = v + e + (l + k) /\ u + d = v + e + k
    BY <1>9, <2>1, <2>2, <2>4 DEF IInv, Counted, Sum
  <2> QED
    BY <2>2, <2>4, <2>5
<1>15. Ghosts'
  <2> SUFFICES ASSUME NEW s \in Slots
               PROVE  /\ s \notin Used' => ghost'[s] = Clean
                      /\ ghost'[s].leaked <= 2 * crashes'
                      /\ s \in Used' /\ ghost'[s].orphan => node'[s].updating
    BY DEF Ghosts
  <2>1. PICK k \in {0, 1} : Cardinality(Dead(r, s)) = k /\ (s \notin Used => k = 0)
    BY <1>8
  <2>2. /\ s \notin Used => ghost[s] = Clean
        /\ ghost[s].leaked <= 2 * crashes
        /\ s \in Used /\ ghost[s].orphan => node[s].updating
    BY DEF IInv, Ghosts
  <2>3. ghost'[s].leaked <= 2 * crashes'
    <3>1. PICK l \in Nat, m \in Nat : l = ghost[s].leaked /\ m = ghost'[s].leaked /\ m = l + k
      BY <1>9, <2>1 DEF Flags
    <3> QED
      BY <1>1, <2>1, <2>2, <3>1
  <2>4. s \in Used' /\ ghost'[s].orphan => node'[s].updating
    BY <1>1, <1>5, <1>9, <2>2
  <2>5. s \notin Used' => ghost'[s] = Clean
    <3> SUFFICES ASSUME s \notin Used PROVE ghost'[s] = Clean
      BY <1>5
    <3>1. node[s] = None
      BY DEF Used
    <3>2. ghost[s].leaked = 0 /\ ghost[s].orphan = FALSE /\ ghost[s].breach = FALSE
      BY <2>2 DEF Clean
    <3>3. ghost'[s].leaked = 0 /\ ~ghost'[s].orphan /\ ~ghost'[s].breach
      BY <1>9, <2>1, <3>1, <3>2
    <3> QED
      BY <1>9, <3>3 DEF Flags, Clean
  <2> QED
    BY <2>3, <2>4, <2>5
<1>16. ASSUME NEW s \in Used' PROVE Updated(s)'
  <2>1. s \in Used /\ s \in Slots /\ Updated(s) /\ node[s] # None /\ node'[s] = node[s]
    BY <1>1, <1>5, <1>16 DEF IInv, Used
  <2>2. Updaters(s)' = Updaters(s) \ {r}
    BY <1>7, <2>1
  <2>3. /\ ghost'[s].orphan <=> ghost[s].orphan \/ (node[s].updating /\ Updaters(s) = {r})
        /\ ghost'[s].breach <=> ghost[s].breach /\ Updaters(s) # {r}
    BY <1>9, <2>1
  <2>4. CASE Updaters(s) = {r}
    <3>1. Updaters(s)' = {}
      BY <2>2, <2>4
    <3> QED
      BY <2>1, <2>3, <2>4, <3>1 DEF Updated
  <2>5. CASE ghost[s].breach /\ Updaters(s) # {r}
    BY <2>3, <2>5 DEF Updated
  <2>6. CASE node[s].updating /\ ghost[s].orphan /\ Updaters(s) = {}
    BY <2>1, <2>2, <2>3, <2>6 DEF Updated
  <2>7. CASE /\ node[s].updating /\ ~ghost[s].orphan /\ Updaters(s) # {r}
             /\ \E x : Updaters(s) = {x}
    <3>1. PICK x : Updaters(s) = {x}
      BY <2>7
    <3>2. Updaters(s)' = {x}
      BY <2>2, <2>7, <3>1
    <3> QED
      BY <2>1, <2>3, <2>7, <3>2 DEF Updated
  <2>8. CASE ~node[s].updating /\ Updaters(s) = {}
    BY <2>1, <2>2, <2>8 DEF Updated
  <2> QED
    BY <2>1, <2>4, <2>5, <2>6, <2>7, <2>8 DEF Updated
<1> QED
  BY <1>10, <1>11, <1>12, <1>13, <1>14, <1>15, <1>16 DEF IInv

-----------------------------------------------------------------------------
LEMMA InitOK ==
  ASSUME Init
  PROVE  IInv
<1>1. Used = {} /\ node \in [Slots -> Nodes \cup {None}]
  BY DEF Init, Used
<1>2. queue = <<>> /\ queue \in Seq(Slots) /\ DOMAIN queue = {}
  BY DEF Init
<1>3. Clean \in Flags /\ NoDel \in [node : Slots \cup {None}, gone : BOOLEAN]
      /\ NoDel.node = None /\ Clean.leaked = 0
  BY DEF Clean, Flags, NoDel
<1>4. Typed
  <2>1. conf \in Configs /\ conf.cold \in BOOLEAN
    BY FileCacheAssumption DEF Init
  <2>2. file \in [Keys -> BOOLEAN]
    BY DEF Init
  <2>3. loader \in [cold : BOOLEAN, loading : BOOLEAN, key : Keys \cup {None}]
    BY <2>1 DEF Init
  <2> QED
    BY <1>1, <1>2, <1>3, <2>1, <2>2, <2>3, IdleOK DEF Init, Typed
<1>5. Queued
  BY <1>1, <1>2 DEF Queued, ToSet, IsInjective
<1>6. \A r \in Requests : RequestOK(req[r]) /\ req[r].node = None
  BY IdleOK DEF Init
<1>7. \A a \in Actors : del[a].node = None
  BY <1>3 DEF Init
<1>8. Held /\ Deleted /\ Counted
  BY <1>1, <1>6, <1>7 DEF Held, Deleted, Counted
<1>9. Ghosts
  BY <1>1, <1>3 DEF Init, Ghosts
<1> QED
  BY <1>1, <1>4, <1>5, <1>8, <1>9 DEF IInv

LEMMA StutterOK ==
  ASSUME IInv, UNCHANGED vars
  PROVE  IInv'
<1>1. Typed' /\ \A x \in Requests : RequestOK(req'[x])
  BY DEF IInv, Typed, Held, vars
<1>2. \A x \in Requests : del'[x].node # None => req'[x].pc = "forced"
  BY NoneIsNothing DEF IInv, Deleted, vars
<1> QED
  BY <1>1, <1>2, QuietStep DEF vars

LEMMA NextOK ==
  ASSUME IInv, [Next]_vars
  PROVE  IInv'
<1>1. ASSUME NEW r \in Requests, Begin(r) PROVE IInv'
  BY <1>1, BeginStep
<1>2. ASSUME NEW r \in Requests, Crash(r) PROVE IInv'
  BY <1>2, CrashStep
<1>3. ASSUME NEW r \in Requests, Step(r) PROVE IInv'
  <2>1. r \in Actors
    BY NoneIsNothing
  <2>2. CASE ExistsNode(r) \/ ExistsNew(r) \/ AllocAgain(r)
    BY <2>2, ExistsNodeStep, ExistsNewStep, AllocAgainStep
  <2>3. CASE ForcedExpireWorker(r) \/ Unlink(r) \/ DeleteEnd(r)
    BY <2>1, <2>3, ForcedWorkerStep, UnlinkStep, DeleteEndStep
  <2>4. CASE Test(r) \/ Valid(r) \/ Lock(r) \/ LockWaitHandler(r)
    BY <2>4, TestStep, ValidStep, LockStep, LockWaitStep
  <2>5. CASE Fetch(r) \/ Rename(r) \/ Update(r) \/ Finish(r)
    BY <2>5, FetchStep, RenameStep, UpdateStep, FinishStep
  <2> QED
    BY <1>3, <2>2, <2>3, <2>4, <2>5 DEF Step
<1>4. CASE Unlink(Manager) \/ DeleteEnd(Manager) \/ ForcedExpireManager \/ Expire
  BY <1>4, NoneIsNothing, UnlinkStep, DeleteEndStep, ForcedManagerStep, ExpireStep
<1>5. CASE LoaderStart \/ LoaderVisit \/ LoaderAdd \/ LoaderEnd
  BY <1>5, LoaderStep, LoaderAddStep
<1>6. CASE UNCHANGED vars
  BY <1>6, StutterOK
<1> QED
  BY <1>1, <1>2, <1>3, <1>4, <1>5, <1>6 DEF Next

\* The inductive invariant: who has a node and who brings it up to date, at every place of the
\* code of a request, of the deletions and of what the dead left.
THEOREM FileCacheInvariant == SafetySpec => []IInv
BY InitOK, NextOK, PTL DEF SafetySpec

-----------------------------------------------------------------------------
(* The properties that the run file_cache checks. *)

LEMMA QueueLength ==
  ASSUME IInv
  PROVE  Len(queue) = Cardinality(Used)
<1>1. queue \in Seq(Slots) /\ Len(queue) \in Nat /\ DOMAIN queue = 1..Len(queue)
  BY DEF IInv, Typed
<1>2. ToSet(queue) = Used /\ IsInjective(queue)
  BY DEF IInv, Queued
<1>3. queue \in Bijection(1..Len(queue), Used)
  <2>1. queue \in [1..Len(queue) -> Used]
    BY <1>1, QueuedUsed
  <2>2. \A s \in Used : \E i \in 1..Len(queue) : queue[i] = s
    BY <1>1, <1>2 DEF ToSet
  <2> QED
    BY <1>2, <2>1, <2>2 DEF Bijection, Injection, Surjection
<1>4. Cardinality(Used) = Len(queue)
  <2>1. ExistsBijection(1..Len(queue), Used)
    BY <1>3 DEF ExistsBijection
  <2> QED
    BY <1>1, <2>1, FS_CountingElements
<1> QED
  BY <1>4

LEMMA CountBound ==
  ASSUME IInv, NEW s \in Used
  PROVE  node[s].count \in 0..Cardinality(Actors) + 2 * crashes
<1>1. s \in Slots /\ IsFiniteSet(Actors) /\ Cardinality(Actors) \in Nat
  BY FileCacheAssumption, FS_AddElement, FS_CardinalityType DEF Actors, Used
<1>2. Users(s) \cap Deleters(s) = {}
  <2>1. ASSUME NEW x \in Users(s), x \in Deleters(s) PROVE FALSE
    <3>1. x \in Requests /\ req[x].node = s /\ del[x].node = s /\ s # None /\ x \in Actors
      BY <1>1, <2>1, NoneIsNothing DEF Users, Deleters
    <3>2. req[x].pc = "forced" /\ RequestOK(req[x])
      BY <3>1 DEF IInv, Deleted, Held
    <3> QED
      BY <3>1, <3>2 DEF RequestOK
  <2> QED
    BY <2>1
<1>3. Users(s) \cup Deleters(s) \subseteq Actors
  BY NoneIsNothing DEF Users, Deleters
<1>4. PICK u \in Nat, d \in Nat, l \in Nat, m \in Nat :
        /\ u = Cardinality(Users(s)) /\ d = Cardinality(Deleters(s)) /\ l = ghost[s].leaked
        /\ m = Cardinality(Actors)
  BY <1>1, Counts, SumType DEF IInv
<1>5. u + d <= m
  <2>1. Cardinality(Users(s) \cup Deleters(s)) = u + d - Cardinality({})
    BY <1>2, <1>4, Counts, FS_Union
  <2>2. Cardinality({}) = 0
    BY FS_EmptySet
  <2>3. Cardinality(Users(s) \cup Deleters(s)) <= m
    BY <1>1, <1>3, <1>4, FS_Subset
  <2> QED
    BY <1>4, <2>1, <2>2, <2>3
<1>6. crashes \in Nat /\ l <= 2 * crashes
  BY <1>1, <1>4 DEF IInv, Typed, Ghosts
<1>7. node[s].count = u + d + l
  BY <1>4 DEF IInv, Counted, Sum
<1> QED
  BY <1>4, <1>5, <1>6, <1>7

LEMMA InvImpliesCount ==
  ASSUME IInv
  PROVE  CountExact
<1>1. \A s \in Used : /\ node[s].key \in Keys /\ node[s].uses \in 1..conf.min
                      /\ node[s].count \in 0..Cardinality(Actors) + 2 * crashes
  <2> TAKE s \in Used
  <2>1. node[s] \in Nodes /\ node[s].uses <= conf.min
    BY DEF IInv, Typed, Queued, Used
  <2>2. node[s].uses \in 1..conf.min
    BY <2>1, ConfOK DEF Nodes
  <2> QED
    BY <2>1, <2>2, CountBound DEF Nodes
<1>2. TypeOK
  <2>1. conf \in Configs /\ ToSet(queue) = Used
    BY DEF IInv, Typed, Queued
  <2>2. \A r \in Requests : req[r].left \in 0..LockTimeout
    BY DEF IInv, Typed, RequestType
  <2> QED
    BY <1>1, <2>1, <2>2, QueueLength DEF TypeOK
<1>3. \A s \in Used :
        node[s].count = Cardinality(Users(s)) + Cardinality(Deleters(s)) + ghost[s].leaked
  BY DEF IInv, Counted, Sum
<1>4. \A r \in Requests : req[r].node # None =>
        req[r].node \in Used /\ node[req[r].node].key = req[r].key
  BY DEF IInv, Held
<1>5. \A a \in Actors : del[a].node # None => del[a].node \in Used
  BY DEF IInv, Deleted
<1> QED
  BY <1>2, <1>3, <1>4, <1>5 DEF CountExact

LEMMA InvImpliesOne ==
  ASSUME IInv
  PROVE  OneUpdater
<1> SUFFICES ASSUME NEW s \in Used
             PROVE  \/ ghost[s].breach
                    \/ node[s].updating /\ ghost[s].orphan /\ Updaters(s) = {}
                    \/ node[s].updating /\ ~ghost[s].orphan /\ Cardinality(Updaters(s)) = 1
                    \/ ~node[s].updating /\ Updaters(s) = {}
  BY DEF OneUpdater
<1>1. Updated(s)
  BY DEF IInv
<1>2. (\E x : Updaters(s) = {x}) => Cardinality(Updaters(s)) = 1
  BY FS_Singleton
<1> QED
  BY <1>1, <1>2 DEF Updated

\* The count of a cache node is exactly the requests and deletions that have it and what dead
\* workers left, so that no process has a node that was freed or reused for another key
\* (ngx_http_file_cache_exists(), _free(), _update() and _delete()).
THEOREM CountExactHolds == SafetySpec => []CountExact
BY FileCacheInvariant, InvImpliesCount, PTL

\* The flag "updating" of a node is set exactly while one request brings it up to date, but for
\* dead workers and for responses stored without the lock (ngx_http_file_cache_lock(), _update()
\* and _free()).
THEOREM OneUpdaterHolds == SafetySpec => []OneUpdater
BY FileCacheInvariant, InvImpliesOne, PTL
=============================================================================
