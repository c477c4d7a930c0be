--------------------------- MODULE ConnectionsProofs ---------------------------
(***************************************************************************)
(* The lists of connection structures stay exact, whatever handlers do in   *)
(* the middle of a batch of events, and an event reaches a handler only if  *)
(* it belongs to the connection in the structure, or the structure was      *)
(* taken twice since: for any number of connections, of operations of a     *)
(* handler and of connections that ngx_drain_connections() closes.          *)
(*                                                                         *)
(* The operations are state functions on a record of the variables, the     *)
(* world.  The part of the invariant that is about the structures, Sound,   *)
(* is a predicate on such a record, so that one lemma per operation says    *)
(* that it keeps it, and the lemmas compose as the operations do.           *)
(***************************************************************************)
EXTENDS Connections, FiniteSetTheorems, SequenceTheorems, WellFoundedInduction,
        TLAPS

Worlds == [open : [Conns -> BOOLEAN], serial : [Conns -> 0..MaxSerial],
           instance : [Conns -> BOOLEAN], active : [Conns -> SUBSET Kinds],
           epoll : [Conns -> [events : SUBSET Kinds, bit : BOOLEAN]],
           free : Seq(Conns), reusable : Seq(Conns), posted : Seq(Posted)]

(* The free list holds the closed structures, each one once. *)
FreeExact(w) ==
  /\ \A i \in DOMAIN w.free : ~ w.open[w.free[i]]
  /\ \A c \in Conns : ~ w.open[c] => \E i \in DOMAIN w.free : w.free[i] = c
  /\ \A i, j \in DOMAIN w.free : w.free[i] = w.free[j] => i = j

(* The queue of reusable connections holds open ones, each one once. *)
ReusableExact(w) ==
  /\ \A i \in DOMAIN w.reusable : w.open[w.reusable[i]]
  /\ \A i, j \in DOMAIN w.reusable : w.reusable[i] = w.reusable[j] => i = j

(* A posted event is in the queue once and belongs to the open connection that it was
   posted for.  That there are never two of them is what makes it enough to unlink
   one entry of each kind when the connection is closed. *)
PostedExact(w) ==
  /\ \A i \in DOMAIN w.posted :
       /\ w.open[w.posted[i].c]
       /\ w.serial[w.posted[i].c] = w.posted[i].serial
  /\ \A i, j \in DOMAIN w.posted :
       w.posted[i].c = w.posted[j].c /\ w.posted[i].kind = w.posted[j].kind => i = j

(* The interest list agrees with the active flags; the data pointer has the present
   bit; a closed descriptor has no events. *)
InterestExact(w) ==
  \A c \in Conns :
    /\ w.epoll[c].events = w.active[c]
    /\ w.active[c] # {} => w.open[c] /\ w.epoll[c].bit = w.instance[c]

(* The bit is the parity of the number of times that the structure was taken. *)
Parity(w) == \A c \in Conns : w.instance[c] = (w.serial[c] % 2 = 0)

Sound(w) ==
  /\ w \in Worlds
  /\ FreeExact(w) /\ ReusableExact(w) /\ PostedExact(w)
  /\ InterestExact(w) /\ Parity(w)

Grows(w, u) == \A c \in Conns : w.serial[c] <= u.serial[c]

(* An event of the batch carries the bit of the connection that it was reported for,
   and the structure has not been used less often since. *)
BatchSound ==
  \A i \in DOMAIN batch :
    /\ batch[i].bit = (batch[i].serial % 2 = 0)
    /\ batch[i].serial <= serial[batch[i].c]

LoopType ==
  /\ batch \in Seq(Event)
  /\ post \in BOOLEAN
  /\ pc \in {"wait", "read", "write", "posted", "handler"}
  /\ after \in {"wait", "write", "next", "posted"}
  /\ ops \in 0..MaxOps

(* The event in hand is still in the batch while it is looked at, also while its read
   or its write handler runs. *)
InHand ==
  \/ pc \in {"read", "write"}
  \/ pc = "handler" /\ after \in {"write", "next"}
  => batch # <<>>

IInv == Sound(World) /\ LoopType /\ BatchSound /\ InHand

-----------------------------------------------------------------------------
(* Sequences. *)

(* One entry unlinked: the entries before it stay, those after it move up. *)
LEMMA RemovedOne ==
  ASSUME NEW S, NEW s \in Seq(S), NEW i \in 1..Len(s)
  PROVE  /\ RemoveAt(s, i) \in Seq(S)
         /\ Len(RemoveAt(s, i)) = Len(s) - 1
         /\ \A j \in 1..Len(s) - 1 :
              RemoveAt(s, i)[j] = IF j < i THEN s[j] ELSE s[j + 1]
<1> DEFINE a == SubSeq(s, 1, i - 1)
           b == SubSeq(s, i + 1, Len(s))
<1>1. Len(s) \in Nat /\ \A j \in 1..Len(s) : s[j] \in S
  BY LenProperties, ElementOfSeq
<1>2. /\ a \in Seq(S) /\ Len(a) = i - 1
      /\ \A j \in 1..i - 1 : a[j] = s[j]
  <2>1. 1 \in Int /\ i - 1 \in Int /\ \A j \in 1..i - 1 : s[j] \in S
    BY <1>1
  <2>2. /\ SubSeq(s, 1, i - 1) \in Seq(S)
        /\ Len(SubSeq(s, 1, i - 1)) = IF 1 <= i - 1 THEN i - 1 - 1 + 1 ELSE 0
        /\ \A j \in 1..i - 1 - 1 + 1 : SubSeq(s, 1, i - 1)[j] = s[1 + j - 1]
    BY <2>1, SubSeqProperties
  <2> QED BY <2>2, <1>1
<1>3. /\ b \in Seq(S) /\ Len(b) = Len(s) - i
      /\ \A j \in 1..Len(s) - i : b[j] = s[i + j]
  <2>1. i + 1 \in Int /\ Len(s) \in Int /\ \A j \in i + 1..Len(s) : s[j] \in S
    BY <1>1
  <2>2. /\ SubSeq(s, i + 1, Len(s)) \in Seq(S)
        /\ Len(SubSeq(s, i + 1, Len(s))) =
             IF i + 1 <= Len(s) THEN Len(s) - (i + 1) + 1 ELSE 0
        /\ \A j \in 1..Len(s) - (i + 1) + 1 :
             SubSeq(s, i + 1, Len(s))[j] = s[i + 1 + j - 1]
    BY <2>1, SubSeqProperties
  <2> QED BY <2>2, <1>1
<1>4. /\ a \o b \in Seq(S) /\ Len(a \o b) = Len(a) + Len(b)
      /\ \A j \in 1..Len(a) + Len(b) :
           (a \o b)[j] = IF j <= Len(a) THEN a[j] ELSE b[j - Len(a)]
  BY <1>2, <1>3, ConcatProperties
<1>5. RemoveAt(s, i) = a \o b
  BY DEF RemoveAt
<1> HIDE DEF a, b
<1>6. Len(a \o b) = Len(s) - 1
  BY <1>1, <1>2, <1>3, <1>4
<1>7. \A j \in 1..Len(s) - 1 : (a \o b)[j] = IF j < i THEN s[j] ELSE s[j + 1]
  <2> SUFFICES ASSUME NEW j \in 1..Len(s) - 1
               PROVE  (a \o b)[j] = IF j < i THEN s[j] ELSE s[j + 1]
    OBVIOUS
  <2>0. j \in Nat /\ i \in Nat /\ j \in 1..Len(a) + Len(b)
    BY <1>1, <1>2, <1>3
  <2>1. (a \o b)[j] = IF j <= Len(a) THEN a[j] ELSE b[j - Len(a)]
    BY <2>0, <1>4
  <2>2. CASE j < i
    BY <2>0, <2>1, <2>2, <1>1, <1>2
  <2>3. CASE ~ (j < i)
    <3>1. PICK k \in 1..Len(s) - i : k = j - Len(a) /\ i + k = j + 1
      BY <2>0, <2>3, <1>1, <1>2
    <3>2. ~ (j <= Len(a))
      BY <2>0, <2>3, <1>1, <1>2
    <3>3. (a \o b)[j] = b[k]
      BY <3>1, <3>2, <2>1
    <3>4. b[k] = s[i + k]
      BY <1>3
    <3> QED BY <3>1, <3>3, <3>4, <2>3
  <2> QED BY <2>2, <2>3
<1> QED BY <1>4, <1>5, <1>6, <1>7

(* What is left of a sequence of which the entries I, at most one, are unlinked. *)
LEMMA UnlinkedLeaves ==
  ASSUME NEW S, NEW s \in Seq(S), NEW I \in SUBSET DOMAIN s,
         \A i, j \in I : i = j
  PROVE  /\ Unlinked(s, I) \in Seq(S)
         /\ \A j \in DOMAIN Unlinked(s, I) :
              \E i \in DOMAIN s \ I : Unlinked(s, I)[j] = s[i]
         /\ \A j, k \in DOMAIN Unlinked(s, I) : \E i, m \in DOMAIN s \ I :
              /\ Unlinked(s, I)[j] = s[i] /\ Unlinked(s, I)[k] = s[m]
              /\ i = m => j = k
<1> DEFINE u == Unlinked(s, I)
<1>0. Len(s) \in Nat /\ DOMAIN s = 1..Len(s)
  BY LenProperties
<1>1. CASE I = {}
  BY <1>1 DEF Unlinked
<1>2. CASE I # {}
  <2>1. PICK i \in 1..Len(s) : I = {i}
    BY <1>0, <1>2
  <2> DEFINE v == RemoveAt(s, i)
  <2>0. /\ v \in Seq(S) /\ Len(v) = Len(s) - 1
        /\ \A j \in 1..Len(s) - 1 : v[j] = IF j < i THEN s[j] ELSE s[j + 1]
    BY RemovedOne
  <2>2. u = v
    BY <2>1 DEF Unlinked
  <2> HIDE DEF u, v
  <2>3. u \in Seq(S) /\ Len(u) = Len(s) - 1
    BY <2>2, <2>0
  <2>4. \A j \in 1..Len(s) - 1 : u[j] = IF j < i THEN s[j] ELSE s[j + 1]
    BY <2>2, <2>0
  <2>5. DOMAIN u = 1..Len(s) - 1
    BY <2>3, LenProperties
  <2> DEFINE old(j) == IF j < i THEN j ELSE j + 1
  <2>6. \A j \in DOMAIN u : old(j) \in DOMAIN s \ I /\ u[j] = s[old(j)]
    <3> HIDE DEF u
    <3>1. PICK n \in Nat : n = Len(s)
      BY <1>0
    <3>2. \A j \in 1..n - 1 : old(j) \in 1..n /\ old(j) # i
      BY <3>1
    <3>3. \A j \in 1..n - 1 : u[j] = s[old(j)]
      BY <3>1, <2>4
    <3> QED BY <3>1, <3>2, <3>3, <1>0, <2>1, <2>5
  <2>7. \A j, k \in DOMAIN u : old(j) = old(k) => j = k
    BY <1>0, <2>5
  <2> HIDE DEF old, u
  <2>8. \A j, k \in DOMAIN u : \E n, m \in DOMAIN s \ I :
          u[j] = s[n] /\ u[k] = s[m] /\ (n = m => j = k)
    BY <2>6, <2>7
  <2> QED BY <2>3, <2>6, <2>8 DEF u
<1> QED BY <1>1, <1>2

(* One entry put in front: <<e>> \o s. *)
LEMMA PutInFront ==
  ASSUME NEW S, NEW s \in Seq(S), NEW e \in S
  PROVE  /\ <<e>> \o s \in Seq(S)
         /\ DOMAIN (<<e>> \o s) = 1..Len(s) + 1
         /\ (<<e>> \o s)[1] = e
         /\ \A j \in 2..Len(s) + 1 : j - 1 \in DOMAIN s /\ (<<e>> \o s)[j] = s[j - 1]
         /\ \A i \in DOMAIN s : i + 1 \in 2..Len(s) + 1 /\ (<<e>> \o s)[i + 1] = s[i]
<1>1. Len(s) \in Nat /\ DOMAIN s = 1..Len(s)
  BY LenProperties
<1>2. <<e>> \in Seq(S) /\ Len(<<e>>) = 1 /\ <<e>>[1] = e
  OBVIOUS
<1>3. /\ <<e>> \o s \in Seq(S) /\ Len(<<e>> \o s) = Len(<<e>>) + Len(s)
      /\ \A i \in 1..Len(<<e>>) + Len(s) :
           (<<e>> \o s)[i] = IF i <= Len(<<e>>) THEN <<e>>[i] ELSE s[i - Len(<<e>>)]
  BY <1>2, ConcatProperties
<1>4. DOMAIN (<<e>> \o s) = 1..Len(s) + 1
  BY <1>1, <1>2, <1>3, LenProperties
<1>5. \A i \in 1..Len(s) + 1 : (<<e>> \o s)[i] = IF i = 1 THEN e ELSE s[i - 1]
  BY <1>1, <1>2, <1>3
<1> QED BY <1>1, <1>3, <1>4, <1>5

(* The head taken: the rest moves up. *)
LEMMA HeadTaken ==
  ASSUME NEW S, NEW s \in Seq(S), s # <<>>
  PROVE  /\ Head(s) = s[1] /\ s[1] \in S /\ 1 \in DOMAIN s
         /\ Tail(s) \in Seq(S)
         /\ \A j \in DOMAIN Tail(s) :
              j + 1 \in DOMAIN s /\ j + 1 # 1 /\ Tail(s)[j] = s[j + 1]
         /\ \A i \in DOMAIN s : i # 1 => i - 1 \in DOMAIN Tail(s) /\ Tail(s)[i - 1] = s[i]
<1>1. Len(s) \in Nat \ {0} /\ DOMAIN s = 1..Len(s)
  BY LenProperties, EmptySeq
<1>2. /\ Tail(s) \in Seq(S) /\ Len(Tail(s)) = Len(s) - 1
      /\ \A i \in 1..Len(Tail(s)) : Tail(s)[i] = s[i + 1]
  BY HeadTailProperties
<1>3. DOMAIN Tail(s) = 1..Len(s) - 1
  <2>1. DOMAIN Tail(s) = 1..Len(Tail(s))
    BY <1>2, LenProperties
  <2> QED BY <2>1, <1>2
<1>4. Head(s) = s[1] /\ s[1] \in S
  BY <1>1, ElementOfSeq
<1> QED BY <1>1, <1>2, <1>3, <1>4

(* A sequence without repetition that holds exactly the members of D has as many
   entries as D has members. *)
LEMMA LengthOfExact ==
  ASSUME NEW S, NEW s \in Seq(S), NEW D, IsFiniteSet(D),
         {s[i] : i \in DOMAIN s} = D,
         \A i, j \in DOMAIN s : s[i] = s[j] => i = j
  PROVE  Len(s) = Cardinality(D)
<1>1. Len(s) \in Nat /\ DOMAIN s = 1..Len(s) /\ s \in [1..Len(s) -> S]
  BY LenProperties
<1>2. s \in [1..Len(s) -> D]
  BY <1>1
<1>3. s \in Injection(1..Len(s), D) /\ s \in Surjection(1..Len(s), D)
  BY <1>1, <1>2 DEF Injection, Surjection, IsInjective
<1>4. IsFiniteSet(1..Len(s)) /\ Cardinality(1..Len(s)) = Len(s)
  BY <1>1, FS_Interval
<1> QED BY <1>3, <1>4, FS_Injection

(* A sequence of all the members of a finite set, each one once. *)
LEMMA AllInOrder ==
  ASSUME NEW S, IsFiniteSet(S), NEW f \in SetToSeqs(S)
  PROVE  /\ f \in Seq(S) /\ DOMAIN f = 1..Cardinality(S)
         /\ \A i, j \in DOMAIN f : f[i] = f[j] => i = j
         /\ \A x \in S : \E i \in DOMAIN f : f[i] = x
<1>1. Cardinality(S) \in Nat
  BY FS_CardinalityType
<1>2. f \in [1..Cardinality(S) -> S] /\ DOMAIN f = 1..Cardinality(S)
  BY DEF SetToSeqs
<1>3. \A i, j \in DOMAIN f : f[i] = f[j] => i = j
  BY <1>2 DEF SetToSeqs
<1>4. f \in Seq(S)
  BY <1>1, <1>2
<1>5. f \in Injection(1..Cardinality(S), S)
  BY <1>2, <1>3 DEF Injection, IsInjective
<1>6. IsFiniteSet(1..Cardinality(S)) /\ Cardinality(1..Cardinality(S)) = Cardinality(S)
  BY <1>1, FS_Interval
<1>7. f \in Surjection(1..Cardinality(S), S)
  BY <1>5, <1>6, FS_Injection
<1> QED BY <1>2, <1>3, <1>4, <1>7 DEF Surjection

(* The queue of reusable connections without one of them. *)
LEMMA WithoutLeaves ==
  ASSUME NEW s \in Seq(Conns), NEW c,
         \A i, j \in DOMAIN s : s[i] = s[j] => i = j
  PROVE  /\ Without(s, c) \in Seq(Conns)
         /\ \A j \in DOMAIN Without(s, c) :
              Without(s, c)[j] # c /\ \E i \in DOMAIN s : Without(s, c)[j] = s[i]
         /\ \A j, k \in DOMAIN Without(s, c) :
              Without(s, c)[j] = Without(s, c)[k] => j = k
<1> DEFINE I == {i \in DOMAIN s : s[i] = c}
<1>1. I \in SUBSET DOMAIN s /\ \A i, j \in I : i = j
  OBVIOUS
<1>2. \A i \in DOMAIN s \ I : s[i] # c
  OBVIOUS
<1>3. Without(s, c) = Unlinked(s, I)
  BY DEF Without
<1> HIDE DEF I
<1>4. /\ Unlinked(s, I) \in Seq(Conns)
      /\ \A j \in DOMAIN Unlinked(s, I) :
           \E i \in DOMAIN s \ I : Unlinked(s, I)[j] = s[i]
      /\ \A j, k \in DOMAIN Unlinked(s, I) : \E i, m \in DOMAIN s \ I :
           /\ Unlinked(s, I)[j] = s[i] /\ Unlinked(s, I)[k] = s[m]
           /\ i = m => j = k
  BY <1>1, UnlinkedLeaves
<1> QED BY <1>2, <1>3, <1>4

Once(q) ==
  \A i, j \in DOMAIN q : q[i].c = q[j].c /\ q[i].kind = q[j].kind => i = j

(* The posted events without one event of a connection. *)
LEMMA UnpostedLeaves ==
  ASSUME NEW q \in Seq(Posted), NEW c, NEW kind, Once(q)
  PROVE  /\ Unposted(q, c, kind) \in Seq(Posted)
         /\ Once(Unposted(q, c, kind))
         /\ \A j \in DOMAIN Unposted(q, c, kind) : \E i \in DOMAIN q :
              /\ Unposted(q, c, kind)[j] = q[i]
              /\ ~ (q[i].c = c /\ q[i].kind = kind)
<1> DEFINE I == {i \in DOMAIN q : q[i].c = c /\ q[i].kind = kind}
<1>1. I \in SUBSET DOMAIN q /\ \A i, j \in I : i = j
  BY DEF Once
<1>2. \A i \in DOMAIN q \ I : ~ (q[i].c = c /\ q[i].kind = kind)
  OBVIOUS
<1>3. Unposted(q, c, kind) = Unlinked(q, I)
  BY DEF Unposted
<1> HIDE DEF I
<1>4. /\ Unlinked(q, I) \in Seq(Posted)
      /\ \A j \in DOMAIN Unlinked(q, I) :
           \E i \in DOMAIN q \ I : Unlinked(q, I)[j] = q[i]
      /\ \A j, k \in DOMAIN Unlinked(q, I) : \E i, m \in DOMAIN q \ I :
           /\ Unlinked(q, I)[j] = q[i] /\ Unlinked(q, I)[k] = q[m]
           /\ i = m => j = k
  BY <1>1, UnlinkedLeaves
<1>5. Once(Unlinked(q, I))
  BY <1>4 DEF Once
<1>6. \A j \in DOMAIN Unlinked(q, I) : \E i \in DOMAIN q :
        Unlinked(q, I)[j] = q[i] /\ ~ (q[i].c = c /\ q[i].kind = kind)
  BY <1>2, <1>4
<1> QED BY <1>3, <1>4, <1>5, <1>6

-----------------------------------------------------------------------------
(* The operations. *)

(* Both of its posted events unlinked, none of a connection is left. *)
LEMMA BothUnposted ==
  ASSUME NEW q \in Seq(Posted), NEW c \in Conns, Once(q)
  PROVE  LET u == Unposted(Unposted(q, c, "r"), c, "w")
         IN  /\ u \in Seq(Posted) /\ Once(u)
             /\ \A j \in DOMAIN u : u[j].c # c /\ \E i \in DOMAIN q : u[j] = q[i]
<1> DEFINE p == Unposted(q, c, "r")
           u == Unposted(p, c, "w")
<1>1. /\ p \in Seq(Posted) /\ Once(p)
      /\ \A j \in DOMAIN p : \E i \in DOMAIN q :
           p[j] = q[i] /\ ~ (q[i].c = c /\ q[i].kind = "r")
  BY UnpostedLeaves
<1> HIDE DEF p
<1>2. /\ u \in Seq(Posted) /\ Once(u)
      /\ \A j \in DOMAIN u : \E i \in DOMAIN p :
           u[j] = p[i] /\ ~ (p[i].c = c /\ p[i].kind = "w")
  BY <1>1, UnpostedLeaves
<1> HIDE DEF u
<1>3. ASSUME NEW j \in DOMAIN u
      PROVE  u[j].c # c /\ \E i \in DOMAIN q : u[j] = q[i]
  <2>1. PICK i \in DOMAIN p : u[j] = p[i] /\ ~ (p[i].c = c /\ p[i].kind = "w")
    BY <1>2
  <2>2. PICK k \in DOMAIN q : p[i] = q[k] /\ ~ (q[k].c = c /\ q[k].kind = "r")
    BY <1>1
  <2>3. q[k] \in Posted
    BY LenProperties, ElementOfSeq
  <2>4. q[k].kind \in {"r", "w"}
    BY <2>3 DEF Posted, Kinds
  <2> QED BY <2>1, <2>2, <2>4
<1> QED BY <1>2, <1>3 DEF p, u

LEMMA ClosedFields ==
  ASSUME NEW w \in Worlds, NEW c \in Conns
  PROVE  LET u == Closed(w, c)
         IN  /\ u.open = [w.open EXCEPT ![c] = FALSE]
             /\ u.active = [w.active EXCEPT ![c] = {}]
             /\ u.epoll = [w.epoll EXCEPT ![c] = NoInterest]
             /\ u.posted = Unposted(Unposted(w.posted, c, "r"), c, "w")
             /\ u.reusable = Without(w.reusable, c)
             /\ u.free = <<c>> \o w.free
             /\ u.serial = w.serial /\ u.instance = w.instance
BY DEF Closed, Worlds

LEMMA ClosedType ==
  ASSUME NEW w \in Worlds, NEW c \in Conns,
         Unposted(Unposted(w.posted, c, "r"), c, "w") \in Seq(Posted),
         Without(w.reusable, c) \in Seq(Conns), <<c>> \o w.free \in Seq(Conns),
         NoInterest \in [events : SUBSET Kinds, bit : BOOLEAN]
  PROVE  Closed(w, c) \in Worlds
BY DEF Closed, Worlds

LEMMA ClosedSound ==
  ASSUME NEW w, Sound(w), NEW c \in Conns, w.open[c]
  PROVE  /\ Sound(Closed(w, c)) /\ Grows(w, Closed(w, c))
         /\ Closed(w, c).free # <<>>
<1> DEFINE u == Closed(w, c)
<1>1. /\ w \in Worlds /\ FreeExact(w) /\ ReusableExact(w) /\ PostedExact(w)
      /\ InterestExact(w) /\ Parity(w)
  BY DEF Sound
<1>2. /\ u.open = [w.open EXCEPT ![c] = FALSE]
      /\ u.active = [w.active EXCEPT ![c] = {}]
      /\ u.epoll = [w.epoll EXCEPT ![c] = NoInterest]
      /\ u.posted = Unposted(Unposted(w.posted, c, "r"), c, "w")
      /\ u.reusable = Without(w.reusable, c)
      /\ u.free = <<c>> \o w.free
      /\ u.serial = w.serial /\ u.instance = w.instance
  BY <1>1, ClosedFields
<1> HIDE DEF u
<1>3. /\ w.open \in [Conns -> BOOLEAN] /\ w.serial \in [Conns -> 0..MaxSerial]
      /\ w.instance \in [Conns -> BOOLEAN] /\ w.active \in [Conns -> SUBSET Kinds]
      /\ w.epoll \in [Conns -> [events : SUBSET Kinds, bit : BOOLEAN]]
      /\ w.free \in Seq(Conns) /\ w.reusable \in Seq(Conns)
      /\ w.posted \in Seq(Posted)
  BY <1>1 DEF Worlds
<1>4. /\ u.posted \in Seq(Posted) /\ Once(u.posted)
      /\ \A j \in DOMAIN u.posted :
           u.posted[j].c # c /\ \E i \in DOMAIN w.posted : u.posted[j] = w.posted[i]
  <2>1. Once(w.posted)
    BY <1>1 DEF PostedExact, Once
  <2> DEFINE q == Unposted(Unposted(w.posted, c, "r"), c, "w")
  <2>2. /\ q \in Seq(Posted) /\ Once(q)
        /\ \A j \in DOMAIN q : q[j].c # c /\ \E i \in DOMAIN w.posted : q[j] = w.posted[i]
    BY <1>3, <2>1, BothUnposted
  <2>3. u.posted = q
    BY <1>2
  <2> HIDE DEF q
  <2> QED BY <2>2, <2>3
<1>5. /\ u.reusable \in Seq(Conns)
      /\ \A j \in DOMAIN u.reusable :
           u.reusable[j] # c /\ \E i \in DOMAIN w.reusable : u.reusable[j] = w.reusable[i]
      /\ \A j, k \in DOMAIN u.reusable : u.reusable[j] = u.reusable[k] => j = k
  <2>1. \A i, j \in DOMAIN w.reusable : w.reusable[i] = w.reusable[j] => i = j
    BY <1>1 DEF ReusableExact
  <2> DEFINE r == Without(w.reusable, c)
  <2>2. /\ r \in Seq(Conns)
        /\ \A j \in DOMAIN r : r[j] # c /\ \E i \in DOMAIN w.reusable : r[j] = w.reusable[i]
        /\ \A j, k \in DOMAIN r : r[j] = r[k] => j = k
    BY <1>3, <2>1, WithoutLeaves
  <2>3. u.reusable = r
    BY <1>2
  <2> HIDE DEF r
  <2> QED BY <2>2, <2>3
<1>6. /\ u.free \in Seq(Conns) /\ DOMAIN u.free = 1..Len(w.free) + 1
      /\ u.free[1] = c
      /\ \A j \in 2..Len(w.free) + 1 :
           j - 1 \in DOMAIN w.free /\ u.free[j] = w.free[j - 1]
      /\ \A i \in DOMAIN w.free : i + 1 \in 2..Len(w.free) + 1 /\ u.free[i + 1] = w.free[i]
  <2> DEFINE f == <<c>> \o w.free
  <2>1. /\ f \in Seq(Conns) /\ DOMAIN f = 1..Len(w.free) + 1 /\ f[1] = c
        /\ \A j \in 2..Len(w.free) + 1 : j - 1 \in DOMAIN w.free /\ f[j] = w.free[j - 1]
        /\ \A i \in DOMAIN w.free : i + 1 \in 2..Len(w.free) + 1 /\ f[i + 1] = w.free[i]
    <3>1. w.free \in Seq(Conns)
      BY <1>3
    <3> QED BY <3>1, PutInFront
  <2>2. u.free = f
    BY <1>2
  <2> HIDE DEF f
  <2> QED BY <2>1, <2>2
<1>7. \A d \in Conns \ {c} : u.open[d] = w.open[d]
  BY <1>2, <1>3
<1>8. u.open[c] = FALSE /\ u.active[c] = {} /\ u.epoll[c] = NoInterest
  BY <1>2, <1>3
<1>9. u \in Worlds
  <2>1. NoInterest \in [events : SUBSET Kinds, bit : BOOLEAN]
    BY DEF NoInterest
  <2>2. /\ Unposted(Unposted(w.posted, c, "r"), c, "w") \in Seq(Posted)
        /\ Without(w.reusable, c) \in Seq(Conns) /\ <<c>> \o w.free \in Seq(Conns)
    BY <1>2, <1>4, <1>5, <1>6
  <2> QED BY <1>1, <2>1, <2>2, ClosedType DEF u
<1>10. FreeExact(u)
  <2>1. \A i \in DOMAIN w.free : w.free[i] \in Conns /\ w.free[i] # c
    BY <1>1, <1>3, LenProperties, ElementOfSeq DEF FreeExact
  <2>2. Len(w.free) \in Nat /\ DOMAIN w.free = 1..Len(w.free)
    BY <1>3, LenProperties
  <2>3. \A j \in DOMAIN u.free : j = 1 \/ j \in 2..Len(w.free) + 1
    BY <1>6, <2>2
  <2>4. ASSUME NEW i \in DOMAIN u.free
        PROVE  ~ u.open[u.free[i]]
    <3>1. CASE i = 1
      BY <3>1, <1>6, <1>8
    <3>2. CASE i \in 2..Len(w.free) + 1
      <4>1. PICK k \in DOMAIN w.free : u.free[i] = w.free[k]
        BY <3>2, <1>6
      <4>2. ~ w.open[w.free[k]]
        BY <1>1 DEF FreeExact
      <4> QED BY <4>1, <4>2, <2>1, <1>7
    <3> QED BY <3>1, <3>2, <2>3
  <2>5. ASSUME NEW d \in Conns, ~ u.open[d]
        PROVE  \E i \in DOMAIN u.free : u.free[i] = d
    <3>1. CASE d = c
      BY <3>1, <1>6, <2>2
    <3>2. CASE d # c
      <4>1. PICK i \in DOMAIN w.free : w.free[i] = d
        BY <3>2, <2>5, <1>1, <1>7 DEF FreeExact
      <4>2. i + 1 \in DOMAIN u.free /\ u.free[i + 1] = d
        BY <4>1, <1>6, <2>2
      <4> QED BY <4>2
    <3> QED BY <3>1, <3>2
  <2>6. \A i, j \in DOMAIN u.free : u.free[i] = u.free[j] => i = j
    <3>1. \A i, j \in DOMAIN w.free : w.free[i] = w.free[j] => i = j
      BY <1>1 DEF FreeExact
    <3>2. \A j \in 2..Len(w.free) + 1 : u.free[j] # c
      BY <1>6, <2>1
    <3>3. \A i, j \in 2..Len(w.free) + 1 : u.free[i] = u.free[j] => i = j
      <4>1. \A i, j \in 2..Len(w.free) + 1 : u.free[i] = u.free[j] => i - 1 = j - 1
        BY <1>6, <3>1
      <4> QED BY <4>1, <2>2
    <3> SUFFICES ASSUME NEW i \in DOMAIN u.free, NEW j \in DOMAIN u.free,
                        u.free[i] = u.free[j]
                 PROVE  i = j
      OBVIOUS
    <3>4. CASE i = 1 /\ j = 1
      BY <3>4
    <3>5. CASE i = 1 /\ j \in 2..Len(w.free) + 1
      BY <3>5, <3>2, <1>6
    <3>6. CASE i \in 2..Len(w.free) + 1 /\ j = 1
      BY <3>6, <3>2, <1>6
    <3>7. CASE i \in 2..Len(w.free) + 1 /\ j \in 2..Len(w.free) + 1
      BY <3>7, <3>3
    <3>8. /\ i = 1 \/ i \in 2..Len(w.free) + 1
          /\ j = 1 \/ j \in 2..Len(w.free) + 1
      BY <2>3
    <3> QED BY <3>4, <3>5, <3>6, <3>7, <3>8
  <2> QED BY <2>4, <2>5, <2>6 DEF FreeExact
<1>11. ReusableExact(u)
  <2>1. \A i \in DOMAIN w.reusable : w.reusable[i] \in Conns
    BY <1>3, LenProperties, ElementOfSeq
  <2>2. ASSUME NEW j \in DOMAIN u.reusable
        PROVE  u.open[u.reusable[j]]
    <3>1. PICK i \in DOMAIN w.reusable : u.reusable[j] = w.reusable[i]
      BY <1>5
    <3>2. u.reusable[j] # c /\ w.open[w.reusable[i]]
      BY <1>1, <1>5 DEF ReusableExact
    <3> QED BY <3>1, <3>2, <2>1, <1>7
  <2>3. \A j \in DOMAIN u.reusable : u.open[u.reusable[j]]
    BY <2>2
  <2> QED BY <1>5, <2>3 DEF ReusableExact
<1>12. PostedExact(u)
  <2>0. \A i \in DOMAIN w.posted : w.posted[i] \in Posted
    BY <1>3, LenProperties, ElementOfSeq
  <2>1. \A i \in DOMAIN w.posted : w.posted[i].c \in Conns
    BY <2>0 DEF Posted
  <2>2. \A j \in DOMAIN u.posted :
          u.open[u.posted[j].c] /\ u.serial[u.posted[j].c] = u.posted[j].serial
    <3> SUFFICES ASSUME NEW j \in DOMAIN u.posted
                 PROVE  /\ u.open[u.posted[j].c]
                        /\ u.serial[u.posted[j].c] = u.posted[j].serial
      OBVIOUS
    <3>1. PICK i \in DOMAIN w.posted : u.posted[j] = w.posted[i]
      BY <1>4
    <3>2. /\ u.posted[j].c # c /\ w.open[w.posted[i].c]
          /\ w.serial[w.posted[i].c] = w.posted[i].serial
      BY <1>1, <1>4 DEF PostedExact
    <3> QED BY <3>1, <3>2, <2>1, <1>2, <1>7
  <2> QED BY <1>4, <2>2 DEF PostedExact, Once
<1>13. InterestExact(u)
  <2>1. \A d \in Conns \ {c} : u.active[d] = w.active[d] /\ u.epoll[d] = w.epoll[d]
    BY <1>2, <1>3
  <2>2. ASSUME NEW d \in Conns
        PROVE  /\ u.epoll[d].events = u.active[d]
               /\ u.active[d] # {} => u.open[d] /\ u.epoll[d].bit = u.instance[d]
    <3>1. CASE d = c
      BY <3>1, <1>8 DEF NoInterest
    <3>2. CASE d # c
      BY <3>2, <1>1, <1>2, <1>7, <2>1 DEF InterestExact
    <3> QED BY <3>1, <3>2
  <2> QED BY <2>2 DEF InterestExact
<1>14. Parity(u)
  BY <1>1, <1>2 DEF Parity
<1>15. Grows(w, u)
  BY <1>2, <1>3 DEF Grows
<1>16. u.free # <<>>
  BY <1>3, <1>6, LenProperties, EmptySeq
<1> QED BY <1>9, <1>10, <1>11, <1>12, <1>13, <1>14, <1>15, <1>16 DEF Sound, u

LEMMA SoundTypes ==
  ASSUME NEW w, Sound(w)
  PROVE  /\ w.open \in [Conns -> BOOLEAN] /\ w.serial \in [Conns -> 0..MaxSerial]
         /\ w.instance \in [Conns -> BOOLEAN] /\ w.active \in [Conns -> SUBSET Kinds]
         /\ w.epoll \in [Conns -> [events : SUBSET Kinds, bit : BOOLEAN]]
         /\ w.free \in Seq(Conns) /\ w.reusable \in Seq(Conns)
         /\ w.posted \in Seq(Posted)
         /\ \A i \in DOMAIN w.free : w.free[i] \in Conns
         /\ \A i \in DOMAIN w.reusable : w.reusable[i] \in Conns
         /\ \A i \in DOMAIN w.posted : w.posted[i].c \in Conns
<1>1. w \in Worlds
  BY DEF Sound
<1>2. /\ w.open \in [Conns -> BOOLEAN] /\ w.serial \in [Conns -> 0..MaxSerial]
      /\ w.instance \in [Conns -> BOOLEAN] /\ w.active \in [Conns -> SUBSET Kinds]
      /\ w.epoll \in [Conns -> [events : SUBSET Kinds, bit : BOOLEAN]]
      /\ w.free \in Seq(Conns) /\ w.reusable \in Seq(Conns)
      /\ w.posted \in Seq(Posted)
  BY <1>1 DEF Worlds
<1>3. /\ \A i \in DOMAIN w.free : w.free[i] \in Conns
      /\ \A i \in DOMAIN w.reusable : w.reusable[i] \in Conns
      /\ \A i \in DOMAIN w.posted : w.posted[i] \in Posted
  BY <1>2, LenProperties, ElementOfSeq
<1>4. \A i \in DOMAIN w.posted : w.posted[i].c \in Conns
  BY <1>3 DEF Posted
<1> QED BY <1>2, <1>3, <1>4

LEMMA TakenFields ==
  ASSUME NEW w \in Worlds, NEW c \in Conns
  PROVE  LET u == Taken(w, c)
         IN  /\ u.open = [w.open EXCEPT ![c] = TRUE]
             /\ u.serial = [w.serial EXCEPT ![c] = w.serial[c] + 1]
             /\ u.instance = [w.instance EXCEPT ![c] = ~ w.instance[c]]
             /\ u.free = Tail(w.free)
             /\ u.active = w.active /\ u.epoll = w.epoll
             /\ u.reusable = w.reusable /\ u.posted = w.posted
BY DEF Taken, Worlds

LEMMA TakenType ==
  ASSUME NEW w \in Worlds, NEW c \in Conns, w.serial[c] + 1 \in 0..MaxSerial,
         Tail(w.free) \in Seq(Conns)
  PROVE  Taken(w, c) \in Worlds
BY DEF Taken, Worlds

(* ngx_get_connection() with the head of the free list. *)
LEMMA TakenSound ==
  ASSUME NEW w, Sound(w), w.free # <<>>, w.serial[Head(w.free)] < MaxSerial
  PROVE  LET c == Head(w.free)
         IN  /\ Sound(Taken(w, c)) /\ Grows(w, Taken(w, c))
             /\ c \in Conns /\ Taken(w, c).open[c]
<1> DEFINE c == Head(w.free)
           u == Taken(w, c)
<1>1. /\ w \in Worlds /\ FreeExact(w) /\ ReusableExact(w) /\ PostedExact(w)
      /\ InterestExact(w) /\ Parity(w)
  BY DEF Sound
<1>2. /\ w.open \in [Conns -> BOOLEAN] /\ w.serial \in [Conns -> 0..MaxSerial]
      /\ w.instance \in [Conns -> BOOLEAN] /\ w.active \in [Conns -> SUBSET Kinds]
      /\ w.free \in Seq(Conns)
  BY SoundTypes
<1>3. /\ c = w.free[1] /\ c \in Conns /\ 1 \in DOMAIN w.free
      /\ Tail(w.free) \in Seq(Conns)
      /\ \A j \in DOMAIN Tail(w.free) :
           j + 1 \in DOMAIN w.free /\ j + 1 # 1 /\ Tail(w.free)[j] = w.free[j + 1]
      /\ \A i \in DOMAIN w.free :
           i # 1 => i - 1 \in DOMAIN Tail(w.free) /\ Tail(w.free)[i - 1] = w.free[i]
  BY <1>2, HeadTaken
<1>4. w.serial[c] < MaxSerial
  OBVIOUS
<1> HIDE DEF c
<1>5. /\ u.open = [w.open EXCEPT ![c] = TRUE]
      /\ u.serial = [w.serial EXCEPT ![c] = w.serial[c] + 1]
      /\ u.instance = [w.instance EXCEPT ![c] = ~ w.instance[c]]
      /\ u.free = Tail(w.free)
      /\ u.active = w.active /\ u.epoll = w.epoll
      /\ u.reusable = w.reusable /\ u.posted = w.posted
  <2>1. c \in Conns
    BY <1>3
  <2> QED BY <1>1, <2>1, TakenFields
<1>6. MaxSerial \in Nat /\ w.serial[c] \in Nat
  BY <1>2, <1>3, ConnectionsAssumption
<1>7. u \in Worlds
  BY <1>1, <1>3, <1>4, <1>6, TakenType
<1> HIDE DEF u
<1>8. ~ w.open[c] /\ u.open[c]
  BY <1>1, <1>2, <1>3, <1>5 DEF FreeExact
<1>9. \A d \in Conns \ {c} :
        u.open[d] = w.open[d] /\ u.serial[d] = w.serial[d] /\ u.instance[d] = w.instance[d]
  BY <1>2, <1>5
<1>10. FreeExact(u)
  <2>1. \A i \in DOMAIN w.free : w.free[i] \in Conns /\ ~ w.open[w.free[i]]
    BY <1>1, SoundTypes DEF FreeExact
  <2>2. \A i, j \in DOMAIN w.free : w.free[i] = w.free[j] => i = j
    BY <1>1 DEF FreeExact
  <2>3. ASSUME NEW j \in DOMAIN u.free
        PROVE  ~ u.open[u.free[j]]
    <3>1. /\ j + 1 \in DOMAIN w.free /\ u.free[j] = w.free[j + 1] /\ j + 1 # 1
      BY <1>3, <1>5
    <3>2. w.free[j + 1] # c
      BY <3>1, <2>2, <1>3
    <3> QED BY <3>1, <3>2, <2>1, <1>9
  <2>4. ASSUME NEW d \in Conns, ~ u.open[d]
        PROVE  \E i \in DOMAIN u.free : u.free[i] = d
    <3>1. d # c /\ ~ w.open[d]
      BY <2>4, <1>8, <1>9
    <3>2. PICK i \in DOMAIN w.free : w.free[i] = d
      BY <3>1, <1>1 DEF FreeExact
    <3>3. i # 1
      BY <3>1, <3>2, <1>3
    <3>4. i - 1 \in DOMAIN u.free /\ u.free[i - 1] = d
      BY <3>2, <3>3, <1>3, <1>5
    <3> QED BY <3>4
  <2>5. ASSUME NEW i \in DOMAIN u.free, NEW j \in DOMAIN u.free, u.free[i] = u.free[j]
        PROVE  i = j
    <3>1. i + 1 \in DOMAIN w.free /\ j + 1 \in DOMAIN w.free
      BY <1>3, <1>5
    <3>2. i + 1 = j + 1
      BY <3>1, <2>2, <2>5, <1>3, <1>5
    <3>3. i \in Nat /\ j \in Nat
      BY <1>3, <1>5, LenProperties
    <3> QED BY <3>2, <3>3
  <2> QED BY <2>3, <2>4, <2>5 DEF FreeExact
<1>11. ReusableExact(u)
  <2>1. \A i \in DOMAIN w.reusable : w.reusable[i] \in Conns /\ w.open[w.reusable[i]]
    BY <1>1, SoundTypes DEF ReusableExact
  <2>2. \A i \in DOMAIN w.reusable : u.open[w.reusable[i]]
    BY <2>1, <1>8, <1>9
  <2> QED BY <2>2, <1>1, <1>5 DEF ReusableExact
<1>12. PostedExact(u)
  <2>1. \A i \in DOMAIN w.posted : w.posted[i].c \in Conns /\ w.open[w.posted[i].c]
    BY <1>1, SoundTypes DEF PostedExact
  <2>2. \A i \in DOMAIN w.posted : w.posted[i].c \in Conns \ {c}
    BY <2>1, <1>8
  <2>3. \A i \in DOMAIN w.posted :
          u.open[w.posted[i].c] /\ u.serial[w.posted[i].c] = w.posted[i].serial
    BY <2>2, <1>1, <1>9 DEF PostedExact
  <2> QED BY <2>3, <1>1, <1>5 DEF PostedExact
<1>13. InterestExact(u)
  <2>1. w.active[c] = {}
    BY <1>1, <1>3, <1>8 DEF InterestExact
  <2>2. ASSUME NEW d \in Conns
        PROVE  /\ u.epoll[d].events = u.active[d]
               /\ u.active[d] # {} => u.open[d] /\ u.epoll[d].bit = u.instance[d]
    <3>1. CASE d = c
      BY <3>1, <2>1, <1>1, <1>5 DEF InterestExact
    <3>2. CASE d # c
      BY <3>2, <1>1, <1>5, <1>9 DEF InterestExact
    <3> QED BY <3>1, <3>2
  <2> QED BY <2>2 DEF InterestExact
<1>14. Parity(u)
  <2>1. w.instance[c] = (w.serial[c] % 2 = 0)
    BY <1>1, <1>3 DEF Parity
  <2>2. u.instance[c] = ~ w.instance[c] /\ u.serial[c] = w.serial[c] + 1
    BY <1>2, <1>3, <1>5
  <2>3. (w.serial[c] % 2 = 0) = ~ ((w.serial[c] + 1) % 2 = 0)
    BY <1>6
  <2>4. u.instance[c] = (u.serial[c] % 2 = 0)
    BY <2>1, <2>2, <2>3
  <2> QED BY <2>4, <1>1, <1>9 DEF Parity
<1>15. Grows(w, u)
  <2>1. \A d \in Conns : w.serial[d] \in Nat
    BY <1>2
  <2>2. \A d \in Conns : u.serial[d] = w.serial[d] \/ u.serial[d] = w.serial[d] + 1
    BY <1>2, <1>5
  <2> QED BY <2>1, <2>2 DEF Grows
<1> QED BY <1>3, <1>7, <1>8, <1>10, <1>11, <1>12, <1>13, <1>14, <1>15
        DEF Sound, u, c

(* Adding or deleting an event changes the active flags and the interest list of one
   connection, in step. *)
LEMMA InterestChanged ==
  ASSUME NEW w, Sound(w), NEW c \in Conns, w.open[c], NEW S \in SUBSET Kinds,
         NEW bit \in BOOLEAN, S # {} => bit = w.instance[c],
         NEW u, u \in Worlds,
         u.active = [w.active EXCEPT ![c] = S],
         u.epoll = [w.epoll EXCEPT ![c] = [events |-> S, bit |-> bit]],
         u.open = w.open, u.serial = w.serial, u.instance = w.instance,
         u.free = w.free, u.reusable = w.reusable, u.posted = w.posted
  PROVE  Sound(u) /\ Grows(w, u)
<1>1. /\ FreeExact(w) /\ ReusableExact(w) /\ PostedExact(w)
      /\ InterestExact(w) /\ Parity(w)
  BY DEF Sound
<1>2. /\ w.active \in [Conns -> SUBSET Kinds]
      /\ w.epoll \in [Conns -> [events : SUBSET Kinds, bit : BOOLEAN]]
      /\ w.serial \in [Conns -> 0..MaxSerial]
  BY SoundTypes
<1>3. FreeExact(u)
  BY <1>1 DEF FreeExact
<1>4. ReusableExact(u)
  BY <1>1 DEF ReusableExact
<1>5. PostedExact(u)
  BY <1>1 DEF PostedExact
<1>6. Parity(u)
  BY <1>1 DEF Parity
<1>7. InterestExact(u)
  <2>1. ASSUME NEW d \in Conns
        PROVE  /\ u.epoll[d].events = u.active[d]
               /\ u.active[d] # {} => u.open[d] /\ u.epoll[d].bit = u.instance[d]
    <3>1. CASE d = c
      <4>1. u.active[d] = S /\ u.epoll[d] = [events |-> S, bit |-> bit]
        BY <3>1, <1>2
      <4> QED BY <3>1, <4>1
    <3>2. CASE d # c
      <4>1. u.active[d] = w.active[d] /\ u.epoll[d] = w.epoll[d]
        BY <3>2, <1>2
      <4> QED BY <4>1, <1>1 DEF InterestExact
    <3> QED BY <3>1, <3>2
  <2> QED BY <2>1 DEF InterestExact
<1>8. Grows(w, u)
  BY <1>2 DEF Grows
<1> QED BY <1>3, <1>4, <1>5, <1>6, <1>7, <1>8 DEF Sound

LEMMA RegisteredSound ==
  ASSUME NEW w, Sound(w), NEW c \in Conns, w.open[c], NEW kinds \in SUBSET Kinds
  PROVE  Sound(Registered(w, c, kinds)) /\ Grows(w, Registered(w, c, kinds))
<1> DEFINE u == Registered(w, c, kinds)
           S == w.active[c] \cup kinds
<1>1. w \in Worlds
  BY DEF Sound
<1>2. S \in SUBSET Kinds /\ w.instance[c] \in BOOLEAN
  BY SoundTypes
<1>3. [events |-> S, bit |-> w.instance[c]] \in [events : SUBSET Kinds, bit : BOOLEAN]
  BY <1>2
<1>4. u \in Worlds
  BY <1>1, <1>2, <1>3 DEF Registered, Worlds
<1>5. /\ u.active = [w.active EXCEPT ![c] = S]
      /\ u.epoll = [w.epoll EXCEPT ![c] = [events |-> S, bit |-> w.instance[c]]]
      /\ u.open = w.open /\ u.serial = w.serial /\ u.instance = w.instance
      /\ u.free = w.free /\ u.reusable = w.reusable /\ u.posted = w.posted
  BY <1>1 DEF Registered, Worlds
<1> HIDE DEF u, S
<1>6. Sound(u) /\ Grows(w, u)
  BY <1>2, <1>4, <1>5, InterestChanged
<1> QED BY <1>6 DEF u

LEMMA DeletedSound ==
  ASSUME NEW w, Sound(w), NEW c \in Conns, w.open[c], NEW kind \in Kinds
  PROVE  Sound(Deleted(w, c, kind)) /\ Grows(w, Deleted(w, c, kind))
<1> DEFINE u == Deleted(w, c, kind)
           S == w.active[c] \ {kind}
           b == IF S = {} THEN FALSE ELSE w.instance[c]
<1>1. w \in Worlds
  BY DEF Sound
<1>2. S \in SUBSET Kinds /\ w.instance[c] \in BOOLEAN
  BY SoundTypes
<1>3. [events |-> S, bit |-> b] \in [events : SUBSET Kinds, bit : BOOLEAN]
  BY <1>2
<1>4. (IF S = {} THEN NoInterest ELSE [events |-> S, bit |-> w.instance[c]])
        = [events |-> S, bit |-> b]
  BY DEF NoInterest
<1>5. u = [w EXCEPT !.active[c] = S, !.epoll[c] = [events |-> S, bit |-> b]]
  BY <1>4 DEF Deleted
<1> HIDE DEF u, S, b
<1>6. u \in Worlds
  BY <1>1, <1>2, <1>3, <1>5 DEF Worlds
<1>7. /\ u.active = [w.active EXCEPT ![c] = S]
      /\ u.epoll = [w.epoll EXCEPT ![c] = [events |-> S, bit |-> b]]
      /\ u.open = w.open /\ u.serial = w.serial /\ u.instance = w.instance
      /\ u.free = w.free /\ u.reusable = w.reusable /\ u.posted = w.posted
  BY <1>1, <1>5 DEF Worlds
<1>8. b \in BOOLEAN /\ (S # {} => b = w.instance[c])
  BY <1>2 DEF b
<1>9. Sound(u) /\ Grows(w, u)
  BY <1>2, <1>6, <1>7, <1>8, InterestChanged
<1> QED BY <1>9 DEF u

(* ngx_reusable_connection() changes the queue of reusable connections only. *)
LEMMA RequeuedSound ==
  ASSUME NEW w, Sound(w), NEW q \in Seq(Conns),
         \A i \in DOMAIN q : w.open[q[i]],
         \A i, j \in DOMAIN q : q[i] = q[j] => i = j
  PROVE  Sound([w EXCEPT !.reusable = q]) /\ Grows(w, [w EXCEPT !.reusable = q])
<1> DEFINE u == [w EXCEPT !.reusable = q]
<1>1. w \in Worlds
  BY DEF Sound
<1>2. u \in Worlds
  BY <1>1 DEF Worlds
<1>3. /\ u.reusable = q /\ u.open = w.open /\ u.serial = w.serial
      /\ u.instance = w.instance /\ u.active = w.active /\ u.epoll = w.epoll
      /\ u.free = w.free /\ u.posted = w.posted
  BY <1>1 DEF Worlds
<1> HIDE DEF u
<1>4. /\ FreeExact(w) /\ PostedExact(w) /\ InterestExact(w) /\ Parity(w)
  BY DEF Sound
<1>5. FreeExact(u) /\ InterestExact(u) /\ Parity(u)
  BY <1>3, <1>4 DEF FreeExact, InterestExact, Parity
<1>6. PostedExact(u) /\ ReusableExact(u)
  BY <1>3, <1>4 DEF PostedExact, ReusableExact
<1>7. Grows(w, u)
  BY <1>3, SoundTypes DEF Grows
<1> QED BY <1>2, <1>5, <1>6, <1>7 DEF Sound, u

(* ngx_post_event() and ngx_event_process_posted() change the posted events only. *)
LEMMA RepostedSound ==
  ASSUME NEW w, Sound(w), NEW q \in Seq(Posted), Once(q),
         \A i \in DOMAIN q : w.open[q[i].c] /\ w.serial[q[i].c] = q[i].serial
  PROVE  Sound([w EXCEPT !.posted = q]) /\ Grows(w, [w EXCEPT !.posted = q])
<1> DEFINE u == [w EXCEPT !.posted = q]
<1>1. w \in Worlds
  BY DEF Sound
<1>2. u \in Worlds
  BY <1>1 DEF Worlds
<1>3. /\ u.posted = q /\ u.open = w.open /\ u.serial = w.serial
      /\ u.instance = w.instance /\ u.active = w.active /\ u.epoll = w.epoll
      /\ u.free = w.free /\ u.reusable = w.reusable
  BY <1>1 DEF Worlds
<1> HIDE DEF u
<1>4. /\ FreeExact(w) /\ ReusableExact(w) /\ InterestExact(w) /\ Parity(w)
  BY DEF Sound
<1>5. FreeExact(u) /\ InterestExact(u) /\ Parity(u) /\ ReusableExact(u)
  BY <1>3, <1>4 DEF FreeExact, InterestExact, Parity, ReusableExact
<1>6. PostedExact(u)
  BY <1>3 DEF PostedExact, Once
<1>7. Grows(w, u)
  BY <1>3, SoundTypes DEF Grows
<1> QED BY <1>2, <1>5, <1>6, <1>7 DEF Sound, u

LEMMA PostedBySound ==
  ASSUME NEW w, Sound(w), NEW c \in Conns, w.open[c], NEW kind \in Kinds
  PROVE  Sound(PostedBy(w, c, kind)) /\ Grows(w, PostedBy(w, c, kind))
<1> DEFINE p == w.posted
           e == [c |-> c, kind |-> kind, serial |-> w.serial[c]]
           q == <<e>> \o p
<1>1. /\ p \in Seq(Posted) /\ Once(p)
      /\ \A i \in DOMAIN p : w.open[p[i].c] /\ w.serial[p[i].c] = p[i].serial
  BY SoundTypes DEF Sound, PostedExact, Once
<1>2. CASE \E i \in DOMAIN p : p[i].c = c /\ p[i].kind = kind
  <2>1. PostedBy(w, c, kind) = w
    BY <1>2 DEF PostedBy
  <2>2. Grows(w, w)
    BY SoundTypes DEF Grows
  <2> QED BY <2>1, <2>2
<1>3. CASE ~ \E i \in DOMAIN p : p[i].c = c /\ p[i].kind = kind
  <2>1. PostedBy(w, c, kind) = [w EXCEPT !.posted = q]
    BY <1>3 DEF PostedBy
  <2>2. e \in Posted
    <3>1. w.serial[c] \in 0..MaxSerial
      BY SoundTypes
    <3> QED BY <3>1 DEF Posted
  <2>3. /\ e.c = c /\ e.kind = kind /\ e.serial = w.serial[c]
    OBVIOUS
  <2> HIDE DEF e
  <2>4. /\ q \in Seq(Posted) /\ DOMAIN q = 1..Len(p) + 1 /\ q[1] = e
        /\ \A j \in 2..Len(p) + 1 : j - 1 \in DOMAIN p /\ q[j] = p[j - 1]
    BY <1>1, <2>2, PutInFront
  <2> HIDE DEF p, q
  <2>5. \A j \in DOMAIN q : j = 1 \/ j \in 2..Len(p) + 1
    BY <1>1, <2>4, LenProperties
  <2>6. \A j \in 2..Len(p) + 1 : ~ (q[j].c = c /\ q[j].kind = kind)
    BY <1>3, <2>4
  <2>7. Once(q)
    <3> SUFFICES ASSUME NEW i \in DOMAIN q, NEW j \in DOMAIN q,
                        q[i].c = q[j].c, q[i].kind = q[j].kind
                 PROVE  i = j
      BY DEF Once
    <3>1. CASE i = 1 \/ j = 1
      BY <3>1, <2>3, <2>4, <2>5, <2>6
    <3>2. CASE i # 1 /\ j # 1
      <4>1. i \in 2..Len(p) + 1 /\ j \in 2..Len(p) + 1
        BY <3>2, <2>5
      <4>2. i - 1 = j - 1
        BY <4>1, <2>4, <1>1 DEF Once
      <4> QED BY <4>1, <4>2, <1>1, LenProperties
    <3> QED BY <3>1, <3>2
  <2>8. \A i \in DOMAIN q : w.open[q[i].c] /\ w.serial[q[i].c] = q[i].serial
    <3> SUFFICES ASSUME NEW i \in DOMAIN q
                 PROVE  w.open[q[i].c] /\ w.serial[q[i].c] = q[i].serial
      OBVIOUS
    <3>1. CASE i = 1
      BY <3>1, <2>3, <2>4
    <3>2. CASE i \in 2..Len(p) + 1
      <4>1. PICK k \in DOMAIN p : q[i] = p[k]
        BY <3>2, <2>4
      <4> QED BY <4>1, <1>1
    <3> QED BY <3>1, <3>2, <2>5
  <2>9. Sound([w EXCEPT !.posted = q]) /\ Grows(w, [w EXCEPT !.posted = q])
    BY <2>4, <2>7, <2>8, RepostedSound
  <2> QED BY <2>1, <2>9
<1> QED BY <1>2, <1>3

-----------------------------------------------------------------------------
(* ngx_drain_connections(). *)

LEMMA GrowsTransitive ==
  ASSUME NEW w, NEW u, NEW v, Sound(w), Sound(u), Sound(v), Grows(w, u), Grows(u, v)
  PROVE  Grows(w, v)
<1>1. \A c \in Conns : w.serial[c] \in Nat /\ u.serial[c] \in Nat /\ v.serial[c] \in Nat
  <2>1. \A x : Sound(x) => \A c \in Conns : x.serial[c] \in 0..MaxSerial
    BY SoundTypes
  <2> QED BY <2>1
<1> QED BY <1>1 DEF Grows

LEMMA OldestClosedSound ==
  ASSUME NEW w, Sound(w)
  PROVE  Sound(OldestClosed(w)) /\ Grows(w, OldestClosed(w))
<1>1. CASE w.reusable = <<>>
  <2>1. OldestClosed(w) = w
    BY <1>1 DEF OldestClosed
  <2>2. Grows(w, w)
    BY SoundTypes DEF Grows
  <2> QED BY <2>1, <2>2
<1>2. CASE w.reusable # <<>>
  <2>1. w.reusable \in Seq(Conns)
    BY SoundTypes
  <2>2. Len(w.reusable) \in Nat \ {0} /\ DOMAIN w.reusable = 1..Len(w.reusable)
    BY <1>2, <2>1, LenProperties, EmptySeq
  <2>3. Len(w.reusable) \in DOMAIN w.reusable
    BY <2>2
  <2>4. Last(w.reusable) \in Conns /\ w.open[Last(w.reusable)]
    BY <2>3, SoundTypes DEF Last, Sound, ReusableExact
  <2>5. OldestClosed(w) = Closed(w, Last(w.reusable))
    BY <1>2 DEF OldestClosed
  <2> QED BY <2>4, <2>5, ClosedSound
<1> QED BY <1>1, <1>2

(* The worlds after 0, 1, .. k rounds of the loop of ngx_drain_connections(). *)
Rounds(d, w, k) ==
  d = [n \in 0..k |-> IF n = 0 THEN w ELSE OldestClosed(d[n - 1])]

(* A recursive function on the numbers up to k exists. *)
LEMMA RoundsExist ==
  ASSUME NEW w
  PROVE  \A k \in Nat : \E d : Rounds(d, w, k)
<1> DEFINE B == {k \in Nat : ~ \E d : Rounds(d, w, k)}
<1> SUFFICES ASSUME B # {} PROVE FALSE
  OBVIOUS
<1>1. PICK m \in B : \A k \in B : ~ (<<k, m>> \in OpToRel(<, Nat))
  BY WFMin, NatLessThanWellFounded
<1>2. m \in Nat /\ ~ \E d : Rounds(d, w, m)
  BY <1>1
<1>3. \A k \in Nat : k < m => \E d : Rounds(d, w, k)
  BY <1>1 DEF OpToRel
<1> HIDE DEF B
<1>4. CASE m = 0
  <2> DEFINE d == [n \in 0..0 |-> w]
  <2>1. d = [n \in 0..0 |-> IF n = 0 THEN w ELSE OldestClosed(d[n - 1])]
    OBVIOUS
  <2>2. Rounds(d, w, 0)
    BY <2>1 DEF Rounds
  <2> QED BY <2>2, <1>2, <1>4
<1>5. CASE m # 0
  <2>1. m - 1 \in Nat /\ m - 1 < m
    BY <1>2, <1>5
  <2>2. PICK d : Rounds(d, w, m - 1)
    BY <2>1, <1>3
  <2> DEFINE e == [n \in 0..m |-> IF n < m THEN d[n] ELSE OldestClosed(d[m - 1])]
  <2>3. \A n \in 0..m - 1 : d[n] = IF n = 0 THEN w ELSE OldestClosed(d[n - 1])
    BY <2>2 DEF Rounds
  <2>4. ASSUME NEW n \in 0..m
        PROVE  e[n] = IF n = 0 THEN w ELSE OldestClosed(e[n - 1])
    <3>1. CASE n = m
      <4>1. e[n] = OldestClosed(d[m - 1]) /\ e[n - 1] = d[m - 1]
        BY <3>1, <2>1, <1>2
      <4> QED BY <4>1, <3>1, <1>5
    <3>2. CASE n < m
      <4>1. n \in 0..m - 1 /\ e[n] = d[n]
        BY <3>2, <1>2
      <4>2. n # 0 => e[n - 1] = d[n - 1]
        BY <3>2, <1>2
      <4> QED BY <4>1, <4>2, <2>3
    <3> QED BY <3>1, <3>2, <1>2
  <2>5. e = [n \in 0..m |-> IF n = 0 THEN w ELSE OldestClosed(e[n - 1])]
    <3>1. DOMAIN e = 0..m /\ e = [n \in 0..m |-> e[n]]
      OBVIOUS
    <3> HIDE DEF e
    <3> QED BY <3>1, <2>4
  <2> HIDE DEF e
  <2>6. Rounds(e, w, m)
    BY <2>5 DEF Rounds
  <2> QED BY <2>6, <1>2
<1> QED BY <1>4, <1>5

LEMMA DrainedSound ==
  ASSUME NEW w, Sound(w)
  PROVE  Sound(Drained(w)) /\ Grows(w, Drained(w))
<1> DEFINE d == CHOOSE f : Rounds(f, w, Drain)
<1>0. Drain \in Nat
  BY ConnectionsAssumption
<1>1. Rounds(d, w, Drain)
  BY <1>0, RoundsExist
<1>2. Drained(w) = d[Drain]
  BY DEF Drained, Rounds
<1> HIDE DEF d
<1>3. \A n \in 0..Drain : d[n] = IF n = 0 THEN w ELSE OldestClosed(d[n - 1])
  BY <1>1 DEF Rounds
<1> DEFINE B == {n \in 0..Drain : ~ (Sound(d[n]) /\ Grows(w, d[n]))}
<1>4. ASSUME B # {} PROVE FALSE
  <2>1. B \subseteq Nat
    BY <1>0
  <2>2. PICK m \in B : \A k \in B : ~ (<<k, m>> \in OpToRel(<, Nat))
    BY <2>1, <1>4, WFMin, NatLessThanWellFounded
  <2>3. m \in 0..Drain /\ ~ (Sound(d[m]) /\ Grows(w, d[m]))
    BY <2>2
  <2>4. \A k \in 0..Drain : k < m => Sound(d[k]) /\ Grows(w, d[k])
    BY <2>1, <2>2 DEF OpToRel
  <2> HIDE DEF B
  <2>5. CASE m = 0
    <3>1. d[m] = w
      BY <2>3, <2>5, <1>3
    <3>2. Grows(w, w)
      BY SoundTypes DEF Grows
    <3> QED BY <3>1, <3>2, <2>3
  <2>6. CASE m # 0
    <3>1. m - 1 \in 0..Drain /\ m - 1 < m
      BY <1>0, <2>3, <2>6
    <3>2. d[m] = OldestClosed(d[m - 1])
      BY <1>3, <2>3, <2>6
    <3>3. Sound(d[m - 1]) /\ Grows(w, d[m - 1])
      BY <3>1, <2>4
    <3>4. Sound(d[m]) /\ Grows(d[m - 1], d[m])
      BY <3>2, <3>3, OldestClosedSound
    <3>5. Grows(w, d[m])
      BY <3>3, <3>4, GrowsTransitive
    <3> QED BY <3>4, <3>5, <2>3
  <2> QED BY <2>5, <2>6
<1>5. Sound(d[Drain]) /\ Grows(w, d[Drain])
  <2>1. Drain \in 0..Drain
    BY <1>0
  <2> QED BY <2>1, <1>4
<1> QED BY <1>2, <1>5

-----------------------------------------------------------------------------
(* The actions. *)

LEMMA WorldFields ==
  /\ World.open = open /\ World.serial = serial /\ World.instance = instance
  /\ World.active = active /\ World.epoll = epoll /\ World.free = free
  /\ World.reusable = reusable /\ World.posted = posted
BY DEF World

LEMMA WorldBecomes ==
  ASSUME NEW w, w \in Worlds, Becomes(w)
  PROVE  World' = w
<1>1. w = [open |-> w.open, serial |-> w.serial, instance |-> w.instance,
           active |-> w.active, epoll |-> w.epoll, free |-> w.free,
           reusable |-> w.reusable, posted |-> w.posted]
  BY DEF Worlds
<1> QED BY <1>1 DEF Becomes, World

LEMMA WorldStays ==
  ASSUME UNCHANGED <<open, serial, instance, active, epoll, free, reusable, posted>>
  PROVE  World' = World
BY DEF World

(* The batch stays sound as long as structures are only taken again. *)
LEMMA BatchKept ==
  ASSUME LoopType, BatchSound, Sound(World), Sound(World)',
         batch' = batch, \A c \in Conns : serial[c] <= serial'[c]
  PROVE  BatchSound'
<1>1. \A i \in DOMAIN batch : batch[i] \in Event
  BY LenProperties, ElementOfSeq DEF LoopType
<1>2. \A i \in DOMAIN batch : batch[i].c \in Conns /\ batch[i].serial \in Nat
  BY <1>1 DEF Event
<1>3. World.serial \in [Conns -> 0..MaxSerial] /\ World'.serial \in [Conns -> 0..MaxSerial]
  BY SoundTypes
<1>4. \A c \in Conns : serial[c] \in Nat /\ serial'[c] \in Nat
  BY <1>3 DEF World
<1>5. ASSUME NEW i \in DOMAIN batch
      PROVE  batch[i].serial <= serial'[batch[i].c]
  BY <1>2, <1>4 DEF BatchSound
<1> QED BY <1>5 DEF BatchSound

(* An operation of a handler: the structures change soundly, the loop waits. *)
LEMMA OpKeeps ==
  ASSUME IInv, Op, NEW w, Becomes(w), Sound(w), Grows(World, w)
  PROVE  IInv'
<1>1. World' = w
  BY WorldBecomes DEF Sound
<1>2. Sound(World')
  BY <1>1
<1>3. \A c \in Conns : serial[c] <= serial'[c]
  BY <1>1 DEF Grows, World
<1>4. LoopType' /\ batch' = batch /\ InHand'
  <2>1. ops' \in 0..MaxOps
    BY ConnectionsAssumption DEF Op, IInv, LoopType
  <2> QED BY <2>1 DEF Op, IInv, LoopType, InHand
<1>5. BatchSound'
  BY <1>2, <1>3, <1>4, BatchKept DEF IInv
<1> QED BY <1>2, <1>4, <1>5 DEF IInv

LEMMA CloseKeeps ==
  ASSUME IInv, NEW c \in Conns, Close(c)
  PROVE  IInv'
<1>1. Sound(World) /\ World.open[c]
  BY WorldFields DEF IInv, Close
<1>2. Sound(Closed(World, c)) /\ Grows(World, Closed(World, c))
  BY <1>1, ClosedSound
<1> QED BY <1>2, OpKeeps DEF Close

LEMMA OpenKeeps ==
  ASSUME IInv, NEW kinds \in SUBSET Kinds, Open(kinds)
  PROVE  IInv'
<1> DEFINE w == IF free = <<>> THEN Drained(World) ELSE World
           c == Head(w.free)
<1>1. Sound(World) /\ Grows(World, World)
  BY SoundTypes DEF IInv, Grows
<1>2. Sound(w) /\ Grows(World, w)
  BY <1>1, DrainedSound
<1>3. /\ Op
      /\ \/ w.free = <<>> /\ Becomes(w)
         \/ /\ w.free # <<>>
            /\ w.serial[c] < MaxSerial
            /\ Becomes(Registered(Taken(w, c), c, kinds))
  BY DEF Open
<1> HIDE DEF w
<1>4. CASE w.free = <<>> /\ Becomes(w)
  BY <1>2, <1>3, <1>4, OpKeeps
<1>5. CASE /\ w.free # <<>>
           /\ w.serial[c] < MaxSerial
           /\ Becomes(Registered(Taken(w, c), c, kinds))
  <2> DEFINE u == Taken(w, c)
             v == Registered(u, c, kinds)
  <2>1. Sound(u) /\ Grows(w, u) /\ c \in Conns /\ u.open[c]
    BY <1>2, <1>5, TakenSound
  <2>2. Becomes(v)
    BY <1>5
  <2> HIDE DEF u, c
  <2>3. Sound(v) /\ Grows(u, v)
    BY <2>1, RegisteredSound
  <2> HIDE DEF v
  <2>4. Grows(World, u)
    BY <1>1, <1>2, <2>1, GrowsTransitive
  <2>5. Grows(World, v)
    BY <1>1, <2>1, <2>3, <2>4, GrowsTransitive
  <2> QED BY <1>3, <2>2, <2>3, <2>5, OpKeeps
<1> QED BY <1>3, <1>4, <1>5

LEMMA AddEventKeeps ==
  ASSUME IInv, NEW c \in Conns, NEW kind \in Kinds, AddEvent(c, kind)
  PROVE  IInv'
<1>1. Sound(World) /\ World.open[c]
  BY WorldFields DEF IInv, AddEvent
<1>2. Sound(Registered(World, c, {kind})) /\ Grows(World, Registered(World, c, {kind}))
  BY <1>1, RegisteredSound
<1> QED BY <1>2, OpKeeps DEF AddEvent

LEMMA DelEventKeeps ==
  ASSUME IInv, NEW c \in Conns, NEW kind \in Kinds, DelEvent(c, kind)
  PROVE  IInv'
<1>1. Sound(World) /\ World.open[c]
  BY WorldFields DEF IInv, DelEvent
<1>2. Sound(Deleted(World, c, kind)) /\ Grows(World, Deleted(World, c, kind))
  BY <1>1, DeletedSound
<1> QED BY <1>2, OpKeeps DEF DelEvent

LEMMA PostEventKeeps ==
  ASSUME IInv, NEW c \in Conns, NEW kind \in Kinds, PostEvent(c, kind)
  PROVE  IInv'
<1>1. Sound(World) /\ World.open[c]
  BY WorldFields DEF IInv, PostEvent
<1>2. Sound(PostedBy(World, c, kind)) /\ Grows(World, PostedBy(World, c, kind))
  BY <1>1, PostedBySound
<1> QED BY <1>2, OpKeeps DEF PostEvent

LEMMA SetReusableKeeps ==
  ASSUME IInv, NEW c \in Conns, NEW value \in BOOLEAN, SetReusable(c, value)
  PROVE  IInv'
<1> DEFINE r == Without(World.reusable, c)
           q == (IF value THEN <<c>> ELSE <<>>) \o r
<1>1. Sound(World) /\ World.open[c] /\ ReusableExact(World)
  BY WorldFields DEF IInv, SetReusable, Sound
<1>2. World.reusable \in Seq(Conns)
  BY <1>1, SoundTypes
<1>3. /\ r \in Seq(Conns)
      /\ \A j \in DOMAIN r : r[j] # c /\ \E i \in DOMAIN World.reusable : r[j] = World.reusable[i]
      /\ \A j, k \in DOMAIN r : r[j] = r[k] => j = k
  BY <1>1, <1>2, WithoutLeaves DEF ReusableExact
<1>4. Op /\ Becomes([World EXCEPT !.reusable = q])
  BY DEF SetReusable
<1> HIDE DEF r
<1>5. \A j \in DOMAIN r : World.open[r[j]]
  BY <1>1, <1>3 DEF ReusableExact
<1>6. /\ q \in Seq(Conns)
      /\ \A i \in DOMAIN q : World.open[q[i]]
      /\ \A i, j \in DOMAIN q : q[i] = q[j] => i = j
  <2>1. CASE value
    <3>1. q = <<c>> \o r
      BY <2>1
    <3>2. /\ q \in Seq(Conns) /\ DOMAIN q = 1..Len(r) + 1 /\ q[1] = c
          /\ \A j \in 2..Len(r) + 1 : j - 1 \in DOMAIN r /\ q[j] = r[j - 1]
      BY <3>1, <1>3, PutInFront
    <3> HIDE DEF q
    <3>3. \A j \in DOMAIN q : j = 1 \/ j \in 2..Len(r) + 1
      BY <3>2, <1>3, LenProperties
    <3>4. \A j \in 2..Len(r) + 1 : q[j] # c /\ World.open[q[j]]
      BY <3>2, <1>3, <1>5
    <3>5. \A i, j \in 2..Len(r) + 1 : q[i] = q[j] => i = j
      <4>1. \A i, j \in 2..Len(r) + 1 : q[i] = q[j] => i - 1 = j - 1
        BY <3>2, <1>3
      <4> QED BY <4>1, <1>3, LenProperties
    <3> QED BY <3>2, <3>3, <3>4, <3>5, <1>1
  <2>2. CASE ~ value
    <3>1. q = r
      BY <2>2, <1>3, ConcatEmptySeq
    <3> HIDE DEF q
    <3> QED BY <3>1, <1>3, <1>5
  <2> QED BY <2>1, <2>2
<1> HIDE DEF q
<1>7. /\ Sound([World EXCEPT !.reusable = q])
      /\ Grows(World, [World EXCEPT !.reusable = q])
  BY <1>1, <1>6, RequeuedSound
<1> QED BY <1>4, <1>7, OpKeeps

(* The event in hand is one of a connection structure. *)
LEMMA EventInHand ==
  ASSUME IInv, batch # <<>>
  PROVE  /\ First = batch[1] /\ 1 \in DOMAIN batch /\ First \in Event
         /\ First.c \in Conns /\ First.serial \in Nat
         /\ First.bit = (First.serial % 2 = 0) /\ First.serial <= serial[First.c]
<1>1. batch \in Seq(Event) /\ BatchSound
  BY DEF IInv, LoopType
<1>2. First = batch[1] /\ First \in Event /\ 1 \in DOMAIN batch
  BY <1>1, HeadTaken DEF First
<1>3. First.c \in Conns /\ First.serial \in Nat
  BY <1>2 DEF Event
<1> QED BY <1>1, <1>2, <1>3 DEF BatchSound

(* The next event of the batch is looked at, or the batch has been dealt with. *)
LEMMA BatchMovesOn ==
  ASSUME IInv, batch # <<>>, SkipEvent, serial' = serial
  PROVE  /\ batch' \in Seq(Event) /\ BatchSound'
         /\ pc' \in {"posted", "read"}
         /\ pc' = "read" => batch' # <<>>
<1>1. batch \in Seq(Event) /\ BatchSound
  BY DEF IInv, LoopType
<1>2. /\ Tail(batch) \in Seq(Event)
      /\ \A j \in DOMAIN Tail(batch) : j + 1 \in DOMAIN batch /\ Tail(batch)[j] = batch[j + 1]
  BY <1>1, HeadTaken
<1>3. Len(batch) \in Nat \ {0} /\ Len(Tail(batch)) = Len(batch) - 1
  BY <1>1, EmptySeq, HeadTailProperties
<1>4. Len(batch) # 1 => Tail(batch) # <<>>
  <2>1. Len(<<>>) = 0
    OBVIOUS
  <2>2. Len(batch) # 1 => Len(Tail(batch)) # 0
    BY <1>3
  <2> QED BY <2>1, <2>2
<1>5. BatchSound'
  <2>1. batch' = Tail(batch)
    BY DEF SkipEvent
  <2>2. ASSUME NEW j \in DOMAIN batch'
        PROVE  /\ batch'[j].bit = (batch'[j].serial % 2 = 0)
               /\ batch'[j].serial <= serial'[batch'[j].c]
    <3>1. PICK i \in DOMAIN batch : batch'[j] = batch[i]
      BY <2>1, <1>2
    <3> QED BY <3>1, <1>1 DEF BatchSound
  <2> QED BY <2>2 DEF BatchSound
<1> QED BY <1>2, <1>4, <1>5 DEF SkipEvent

LEMMA LoopKeeps ==
  ASSUME IInv,
         UNCHANGED <<open, serial, instance, active, epoll, free, reusable, posted>>,
         LoopType', BatchSound', InHand'
  PROVE  IInv'
<1>1. Sound(World')
  BY WorldStays DEF IInv
<1> QED BY <1>1 DEF IInv

(* The loop does not touch the structures, and not the batch. *)
LEMMA BatchStays ==
  ASSUME IInv, batch' = batch, serial' = serial
  PROVE  BatchSound'
BY DEF IInv, BatchSound

LEMMA ReturnKeeps ==
  ASSUME IInv, Return
  PROVE  IInv'
<1>1. /\ UNCHANGED <<open, serial, instance, active, epoll, free, reusable, posted, post>>
      /\ after' = "wait" /\ ops' = 0
  BY DEF Return
<1>2. LoopType /\ 0 \in 0..MaxOps
  BY ConnectionsAssumption DEF IInv
<1>3. CASE after = "next"
  <2>1. batch # <<>> /\ SkipEvent
    BY <1>3 DEF Return, SkipEvent, IInv, InHand
  <2>2. /\ batch' \in Seq(Event) /\ BatchSound' /\ pc' \in {"posted", "read"}
        /\ pc' = "read" => batch' # <<>>
    BY <1>1, <2>1, BatchMovesOn
  <2>3. LoopType' /\ InHand'
    BY <1>1, <1>2, <2>2 DEF LoopType, InHand
  <2> QED BY <1>1, <2>2, <2>3, LoopKeeps
<1>4. CASE after # "next"
  <2>1. pc' = after /\ batch' = batch
    BY <1>4 DEF Return
  <2>2. after = "write" => batch # <<>>
    BY DEF IInv, InHand, Return
  <2>3. LoopType' /\ InHand'
    BY <1>1, <1>2, <1>4, <2>1, <2>2 DEF LoopType, InHand
  <2> QED BY <1>1, <2>1, <2>3, LoopKeeps, BatchStays
<1> QED BY <1>3, <1>4

(* epoll_wait(): the data pointer carries the present bit, which is the parity. *)
LEMMA WaitKeeps ==
  ASSUME IInv, Wait
  PROVE  IInv'
<1>1. /\ UNCHANGED <<open, serial, instance, active, epoll, free, reusable, posted>>
      /\ UNCHANGED <<after, ops>>
      /\ post' \in BOOLEAN /\ pc' = "read"
  BY DEF Wait
<1>2. PICK S \in SUBSET {c \in Conns : epoll[c].events # {}} :
        /\ S # {}
        /\ \E order \in SetToSeqs(S), ev \in [S -> SUBSET Kinds \ {{}}] :
             /\ \A c \in S : ev[c] \subseteq epoll[c].events \/ ev[c] = Kinds
             /\ batch' = [i \in DOMAIN order |->
                            [c |-> order[i], bit |-> epoll[order[i]].bit,
                             events |-> ev[order[i]], serial |-> serial[order[i]]]]
  BY DEF Wait
<1>3. PICK order \in SetToSeqs(S), ev \in [S -> SUBSET Kinds \ {{}}] :
        batch' = [i \in DOMAIN order |->
                    [c |-> order[i], bit |-> epoll[order[i]].bit,
                     events |-> ev[order[i]], serial |-> serial[order[i]]]]
  BY <1>2
<1>4. IsFiniteSet(S) /\ Cardinality(S) \in Nat
  BY ConnectionsAssumption, FS_Subset, FS_CardinalityType
<1>5. order \in Seq(S) /\ DOMAIN order = 1..Cardinality(S)
  BY <1>4, AllInOrder
<1>6. \A i \in DOMAIN order : order[i] \in S
  BY <1>5, LenProperties, ElementOfSeq
<1>7. /\ World.serial \in [Conns -> 0..MaxSerial]
      /\ World.epoll \in [Conns -> [events : SUBSET Kinds, bit : BOOLEAN]]
      /\ InterestExact(World) /\ Parity(World)
  BY SoundTypes DEF IInv, Sound
<1>8. ASSUME NEW c \in S
      PROVE  /\ c \in Conns /\ serial[c] \in 0..MaxSerial
             /\ epoll[c].bit \in BOOLEAN /\ epoll[c].bit = (serial[c] % 2 = 0)
  <2>1. c \in Conns /\ epoll[c].events # {}
    BY <1>2
  <2>2. epoll[c].events = active[c] /\ (active[c] # {} => epoll[c].bit = instance[c])
    BY <2>1, <1>7 DEF InterestExact, World
  <2>3. instance[c] = (serial[c] % 2 = 0)
    BY <2>1, <1>7 DEF Parity, World
  <2>4. serial[c] \in 0..MaxSerial /\ epoll[c] \in [events : SUBSET Kinds, bit : BOOLEAN]
    BY <2>1, <1>7 DEF World
  <2> QED BY <2>1, <2>2, <2>3, <2>4
<1>9. ASSUME NEW i \in DOMAIN order
      PROVE  /\ batch'[i] \in Event
             /\ batch'[i].bit = (batch'[i].serial % 2 = 0)
             /\ batch'[i].serial <= serial'[batch'[i].c]
  <2>1. PICK c \in S : c = order[i]
    BY <1>6
  <2>2. batch'[i] = [c |-> c, bit |-> epoll[c].bit, events |-> ev[c], serial |-> serial[c]]
    BY <1>3, <2>1
  <2>3. ev[c] \in SUBSET Kinds
    OBVIOUS
  <2>4. batch'[i] \in Event
    BY <2>2, <2>3, <1>8 DEF Event
  <2>5. serial'[c] = serial[c] /\ serial[c] \in Nat
    BY <1>1, <1>8
  <2> QED BY <2>2, <2>4, <2>5, <1>8
<1>10. DOMAIN batch' = 1..Cardinality(S) /\ batch' = [i \in 1..Cardinality(S) |-> batch'[i]]
  BY <1>3, <1>5
<1>11. batch' \in Seq(Event)
  BY <1>4, <1>5, <1>9, <1>10
<1>12. batch' # <<>>
  <2>1. Cardinality(S) # 0
    BY <1>2, <1>4, FS_EmptySet
  <2>2. 1 \in DOMAIN batch'
    BY <1>4, <1>10, <2>1
  <2> QED BY <2>2
<1>13. BatchSound'
  BY <1>5, <1>9, <1>10 DEF BatchSound
<1>14. LoopType' /\ InHand'
  BY <1>1, <1>11, <1>12 DEF IInv, LoopType, InHand
<1> QED BY <1>1, <1>13, <1>14, LoopKeeps

LEMMA TimerKeeps ==
  ASSUME IInv, Timer
  PROVE  IInv'
<1>1. LoopType' /\ InHand'
  BY ConnectionsAssumption DEF IInv, Timer, Enter, LoopType, InHand
<1>2. BatchSound'
  BY BatchStays DEF Timer
<1> QED BY <1>1, <1>2, LoopKeeps DEF Timer

(* An event is posted by the loop: nothing else changes. *)
LEMMA PostedKeeps ==
  ASSUME IInv, NEW c \in Conns, open[c], NEW kind \in Kinds,
         posted' = PostedBy(World, c, kind).posted,
         UNCHANGED <<open, serial, instance, active, epoll, free, reusable>>
  PROVE  Sound(World')
<1> DEFINE w == PostedBy(World, c, kind)
<1>1. Sound(World) /\ World \in Worlds /\ World.open[c]
  BY WorldFields DEF IInv, Sound
<1>2. Sound(w) /\ w \in Worlds
  BY <1>1, PostedBySound DEF Sound
<1>3. /\ w.open = World.open /\ w.serial = World.serial /\ w.instance = World.instance
      /\ w.active = World.active /\ w.epoll = World.epoll /\ w.free = World.free
      /\ w.reusable = World.reusable
  BY <1>1 DEF PostedBy, Worlds
<1> HIDE DEF w
<1>4. posted' = w.posted
  BY DEF w
<1>5. Becomes(w)
  BY <1>3, <1>4, WorldFields DEF Becomes
<1> QED BY <1>2, <1>5, WorldBecomes

LEMMA DispatchReadKeeps ==
  ASSUME IInv, DispatchRead
  PROVE  IInv'
<1>1. /\ pc = "read" /\ ~ Stale(First)
      /\ UNCHANGED <<open, serial, instance, active, epoll, free, reusable, post>>
  BY DEF DispatchRead
<1>2. batch # <<>>
  BY <1>1 DEF IInv, InHand
<1>3. First.c \in Conns /\ open[First.c]
  BY <1>1, <1>2, EventInHand DEF Stale
<1>4. CASE ~ post /\ Enter("write") /\ UNCHANGED <<batch, posted>>
  <2>1. LoopType' /\ InHand'
    BY <1>1, <1>2, <1>4, ConnectionsAssumption DEF IInv, LoopType, InHand, Enter
  <2> QED BY <1>1, <1>4, <2>1, LoopKeeps, BatchStays
<1>5. CASE /\ post /\ posted' = PostedBy(World, First.c, "r").posted
           /\ pc' = "write" /\ UNCHANGED <<batch, after, ops>>
  <2>1. LoopType' /\ InHand'
    BY <1>1, <1>2, <1>5 DEF IInv, LoopType, InHand
  <2>2. Sound(World')
    BY <1>1, <1>3, <1>5, PostedKeeps DEF Kinds
  <2>3. BatchSound'
    BY <1>1, <1>5, BatchStays
  <2> QED BY <2>1, <2>2, <2>3 DEF IInv
<1> QED BY <1>4, <1>5 DEF DispatchRead

LEMMA NoReadKeeps ==
  ASSUME IInv, NoRead
  PROVE  IInv'
<1>1. /\ UNCHANGED <<open, serial, instance, active, epoll, free, reusable, posted>>
      /\ UNCHANGED <<post, after, ops>>
      /\ batch # <<>>
  BY DEF NoRead, IInv, InHand
<1>2. CASE SkipEvent
  <2>1. /\ batch' \in Seq(Event) /\ BatchSound' /\ pc' \in {"posted", "read"}
        /\ pc' = "read" => batch' # <<>>
    BY <1>1, <1>2, BatchMovesOn
  <2>2. LoopType' /\ InHand'
    BY <1>1, <2>1 DEF IInv, LoopType, InHand
  <2> QED BY <1>1, <2>1, <2>2, LoopKeeps
<1>3. CASE pc' = "write" /\ UNCHANGED batch
  <2>1. LoopType' /\ InHand'
    BY <1>1, <1>3 DEF IInv, LoopType, InHand
  <2> QED BY <1>1, <1>3, <2>1, LoopKeeps, BatchStays
<1> QED BY <1>2, <1>3 DEF NoRead

LEMMA DispatchWriteKeeps ==
  ASSUME IInv, DispatchWrite
  PROVE  IInv'
<1>1. /\ pc = "write" /\ ~ Stale(First)
      /\ UNCHANGED <<open, serial, instance, active, epoll, free, reusable, post>>
  BY DEF DispatchWrite
<1>2. batch # <<>>
  BY <1>1 DEF IInv, InHand
<1>3. First.c \in Conns /\ open[First.c]
  BY <1>1, <1>2, EventInHand DEF Stale
<1>4. CASE ~ post /\ Enter("next") /\ UNCHANGED <<batch, posted>>
  <2>1. LoopType' /\ InHand'
    BY <1>1, <1>2, <1>4, ConnectionsAssumption DEF IInv, LoopType, InHand, Enter
  <2> QED BY <1>1, <1>4, <2>1, LoopKeeps, BatchStays
<1>5. CASE /\ post /\ posted' = PostedBy(World, First.c, "w").posted
           /\ SkipEvent /\ UNCHANGED <<after, ops>>
  <2>1. /\ batch' \in Seq(Event) /\ BatchSound' /\ pc' \in {"posted", "read"}
        /\ pc' = "read" => batch' # <<>>
    BY <1>1, <1>2, <1>5, BatchMovesOn
  <2>2. LoopType' /\ InHand'
    BY <1>1, <1>5, <2>1 DEF IInv, LoopType, InHand
  <2>3. Sound(World')
    BY <1>1, <1>3, <1>5, PostedKeeps DEF Kinds
  <2> QED BY <2>1, <2>2, <2>3 DEF IInv
<1> QED BY <1>4, <1>5 DEF DispatchWrite

LEMMA NoWriteKeeps ==
  ASSUME IInv, NoWrite
  PROVE  IInv'
<1>1. /\ UNCHANGED <<open, serial, instance, active, epoll, free, reusable, posted>>
      /\ UNCHANGED <<post, after, ops>>
      /\ batch # <<>> /\ SkipEvent
  BY DEF NoWrite, IInv, InHand
<1>2. /\ batch' \in Seq(Event) /\ BatchSound' /\ pc' \in {"posted", "read"}
      /\ pc' = "read" => batch' # <<>>
  BY <1>1, BatchMovesOn
<1>3. LoopType' /\ InHand'
  BY <1>1, <1>2 DEF IInv, LoopType, InHand
<1> QED BY <1>1, <1>2, <1>3, LoopKeeps

LEMMA ProcessPostedKeeps ==
  ASSUME IInv, ProcessPosted
  PROVE  IInv'
<1>1. /\ UNCHANGED <<open, serial, instance, active, epoll, free, reusable, batch, post>>
      /\ Sound(World) /\ posted \in Seq(Posted)
  BY SoundTypes, WorldFields DEF ProcessPosted, IInv
<1>2. BatchSound'
  BY <1>1, BatchStays
<1>3. CASE posted # <<>> /\ posted' = Tail(posted) /\ Enter("posted")
  <2> DEFINE q == Tail(posted)
  <2>1. /\ q \in Seq(Posted)
        /\ \A j \in DOMAIN q : j + 1 \in DOMAIN posted /\ q[j] = posted[j + 1]
    BY <1>1, <1>3, HeadTaken
  <2>2. /\ \A i \in DOMAIN posted :
             open[posted[i].c] /\ serial[posted[i].c] = posted[i].serial
        /\ \A i, j \in DOMAIN posted :
             posted[i].c = posted[j].c /\ posted[i].kind = posted[j].kind => i = j
    BY <1>1, WorldFields DEF Sound, PostedExact
  <2> HIDE DEF q
  <2>3. Once(q)
    <3> SUFFICES ASSUME NEW i \in DOMAIN q, NEW j \in DOMAIN q,
                        q[i].c = q[j].c, q[i].kind = q[j].kind
                 PROVE  i = j
      BY DEF Once
    <3>1. i + 1 = j + 1
      BY <2>1, <2>2
    <3>2. i \in Nat /\ j \in Nat
      BY <2>1, LenProperties
    <3> QED BY <3>1, <3>2
  <2>4. \A i \in DOMAIN q : World.open[q[i].c] /\ World.serial[q[i].c] = q[i].serial
    BY <2>1, <2>2, WorldFields
  <2>5. Sound([World EXCEPT !.posted = q])
    BY <1>1, <2>1, <2>3, <2>4, RepostedSound
  <2> DEFINE w == [World EXCEPT !.posted = q]
  <2>6. World' = w
    <3>1. w \in Worlds /\ World \in Worlds
      BY <1>1, <2>5 DEF Sound
    <3>2. /\ w.posted = q /\ w.open = World.open /\ w.serial = World.serial
          /\ w.instance = World.instance /\ w.active = World.active
          /\ w.epoll = World.epoll /\ w.free = World.free
          /\ w.reusable = World.reusable
      BY <3>1 DEF Worlds
    <3>3. posted' = q
      BY <1>3 DEF q
    <3> HIDE DEF w
    <3>4. Becomes(w)
      BY <1>1, <3>2, <3>3, WorldFields DEF Becomes
    <3> QED BY <3>1, <3>4, WorldBecomes
  <2>7. LoopType' /\ InHand'
    BY <1>1, <1>3, ConnectionsAssumption DEF IInv, LoopType, InHand, Enter
  <2> QED BY <1>2, <2>5, <2>6, <2>7 DEF IInv
<1>4. CASE posted = <<>> /\ pc' = "wait" /\ UNCHANGED <<posted, after, ops>>
  <2>1. LoopType' /\ InHand'
    BY <1>1, <1>4 DEF IInv, LoopType, InHand
  <2> QED BY <1>1, <1>2, <1>4, <2>1, LoopKeeps
<1> QED BY <1>3, <1>4 DEF ProcessPosted

-----------------------------------------------------------------------------

LEMMA InitSound ==
  ASSUME Init
  PROVE  IInv
<1>1. /\ free \in Seq(Conns)
      /\ \A i, j \in DOMAIN free : free[i] = free[j] => i = j
      /\ \A x \in Conns : \E i \in DOMAIN free : free[i] = x
  BY ConnectionsAssumption, AllInOrder DEF Init
<1>2. \A i \in DOMAIN free : free[i] \in Conns
  BY <1>1, LenProperties, ElementOfSeq
<1>3. 0 \in 0..MaxSerial /\ 0 \in 0..MaxOps
  BY ConnectionsAssumption
<1>4. NoInterest \in [events : SUBSET Kinds, bit : BOOLEAN]
  BY DEF NoInterest
<1>5. World \in Worlds
  <2>1. /\ open \in [Conns -> BOOLEAN] /\ serial \in [Conns -> 0..MaxSerial]
        /\ instance \in [Conns -> BOOLEAN] /\ active \in [Conns -> SUBSET Kinds]
        /\ epoll \in [Conns -> [events : SUBSET Kinds, bit : BOOLEAN]]
    BY <1>3, <1>4 DEF Init
  <2>2. reusable \in Seq(Conns) /\ posted \in Seq(Posted)
    BY DEF Init
  <2> QED BY <1>1, <2>1, <2>2 DEF World, Worlds
<1>6. FreeExact(World)
  BY <1>1, <1>2 DEF Init, FreeExact, World
<1>7. ReusableExact(World) /\ PostedExact(World)
  BY DEF Init, ReusableExact, PostedExact, World
<1>8. InterestExact(World)
  BY DEF Init, InterestExact, World, NoInterest
<1>9. Parity(World)
  <2>1. 0 % 2 = 0
    OBVIOUS
  <2> QED BY <2>1 DEF Init, Parity, World
<1>10. LoopType /\ BatchSound /\ InHand
  <2>1. batch = <<>> /\ post = FALSE /\ pc = "wait" /\ after = "wait" /\ ops = 0
    BY DEF Init
  <2>2. LoopType
    <3>1. batch \in Seq(Event)
      BY <2>1, EmptySeq
    <3>2. pc \in {"wait", "read", "write", "posted", "handler"} /\ post \in BOOLEAN
      BY <2>1
    <3>3. after \in {"wait", "write", "next", "posted"} /\ ops \in 0..MaxOps
      BY <2>1, <1>3
    <3> QED BY <3>1, <3>2, <3>3 DEF LoopType
  <2>3. BatchSound
    BY <2>1 DEF BatchSound
  <2>4. InHand
    BY <2>1 DEF InHand
  <2> QED BY <2>2, <2>3, <2>4
<1> QED BY <1>5, <1>6, <1>7, <1>8, <1>9, <1>10 DEF Sound, IInv

LEMMA NextKeeps ==
  ASSUME IInv, [Next]_vars
  PROVE  IInv'
<1>1. ASSUME NEW c \in Conns, Close(c) PROVE IInv'
  BY <1>1, CloseKeeps
<1>2. ASSUME NEW kinds \in SUBSET Kinds \ {{}}, Open(kinds) PROVE IInv'
  BY <1>2, OpenKeeps
<1>3. ASSUME NEW c \in Conns, NEW kind \in Kinds,
             AddEvent(c, kind) \/ DelEvent(c, kind) \/ PostEvent(c, kind)
      PROVE  IInv'
  BY <1>3, AddEventKeeps, DelEventKeeps, PostEventKeeps
<1>4. ASSUME NEW c \in Conns, NEW value \in BOOLEAN, SetReusable(c, value) PROVE IInv'
  BY <1>4, SetReusableKeeps
<1>5. CASE Return
  BY <1>5, ReturnKeeps
<1>6. CASE Wait
  BY <1>6, WaitKeeps
<1>7. CASE Timer
  BY <1>7, TimerKeeps
<1>8. CASE DispatchRead
  BY <1>8, DispatchReadKeeps
<1>9. CASE NoRead
  BY <1>9, NoReadKeeps
<1>10. CASE DispatchWrite
  BY <1>10, DispatchWriteKeeps
<1>11. CASE NoWrite
  BY <1>11, NoWriteKeeps
<1>12. CASE ProcessPosted
  BY <1>12, ProcessPostedKeeps
<1>13. CASE UNCHANGED vars
  <2>1. /\ UNCHANGED <<open, serial, instance, active, epoll, free, reusable, posted>>
        /\ UNCHANGED <<batch, post, pc, after, ops>>
    BY <1>13 DEF vars
  <2>2. LoopType' /\ InHand'
    BY <2>1 DEF IInv, LoopType, InHand
  <2> QED BY <2>1, <2>2, LoopKeeps, BatchStays
<1> QED BY <1>1, <1>2, <1>3, <1>4, <1>5, <1>6, <1>7, <1>8, <1>9, <1>10, <1>11, <1>12,
           <1>13 DEF Next

(* The inductive invariant of the connection structures and of the loop over the
   events that epoll_wait() returned. *)
THEOREM ConnectionsInvariant == Spec => []IInv
<1>1. Init => IInv
  BY InitSound
<1>2. IInv /\ [Next]_vars => IInv'
  BY NextKeeps
<1> QED BY <1>1, <1>2, PTL DEF Spec

LEMMA ListsExactInvariant ==
  ASSUME IInv
  PROVE  ListsExact
<1> DEFINE D == {c \in Conns : ~ open[c]}
<1>1. /\ open \in [Conns -> BOOLEAN] /\ serial \in [Conns -> 0..MaxSerial]
      /\ instance \in [Conns -> BOOLEAN] /\ active \in [Conns -> SUBSET Kinds]
      /\ epoll \in [Conns -> [events : SUBSET Kinds, bit : BOOLEAN]]
      /\ free \in Seq(Conns) /\ reusable \in Seq(Conns) /\ posted \in Seq(Posted)
      /\ \A i \in DOMAIN free : free[i] \in Conns
  <2>1. Sound(World)
    BY DEF IInv
  <2> QED BY <2>1, SoundTypes, WorldFields
<1>2. /\ \A i \in DOMAIN free : ~ open[free[i]]
      /\ \A c \in Conns : ~ open[c] => \E i \in DOMAIN free : free[i] = c
      /\ \A i, j \in DOMAIN free : free[i] = free[j] => i = j
  BY WorldFields DEF IInv, Sound, FreeExact
<1>3. {free[i] : i \in DOMAIN free} = D
  BY <1>1, <1>2
<1>4. IsFiniteSet(D) /\ Cardinality(D) <= Cardinality(Conns)
  <2>1. D \in SUBSET Conns
    OBVIOUS
  <2> HIDE DEF D
  <2> QED BY <2>1, ConnectionsAssumption, FS_Subset
<1>5. Len(free) = Cardinality(D)
  <2> HIDE DEF D
  <2> QED BY <1>1, <1>2, <1>3, <1>4, LengthOfExact
<1>6. TypeOK
  BY <1>1, <1>4, <1>5 DEF TypeOK, IInv, LoopType
<1>7. /\ \A i \in DOMAIN reusable : open[reusable[i]]
      /\ \A i, j \in DOMAIN reusable : reusable[i] = reusable[j] => i = j
  BY WorldFields DEF IInv, Sound, ReusableExact
<1>8. \A i \in DOMAIN posted :
        open[posted[i].c] /\ serial[posted[i].c] = posted[i].serial
  BY WorldFields DEF IInv, Sound, PostedExact
<1>9. \A c \in Conns :
        /\ epoll[c].events = active[c]
        /\ open[c] /\ active[c] # {} => epoll[c].bit = instance[c]
  BY WorldFields DEF IInv, Sound, InterestExact
<1> QED BY <1>3, <1>5, <1>6, <1>7, <1>8, <1>9 DEF ListsExact

(* No structure leaks, none is given out twice, and a posted event and the interest
   list belong to the connection that is in the structure: ngx_get_connection(),
   ngx_close_connection() and ngx_drain_connections(), called by handlers in any
   order. *)
THEOREM ListsExactHolds == Spec => []ListsExact
<1>1. IInv => ListsExact
  BY ListsExactInvariant
<1> QED BY <1>1, ConnectionsInvariant, PTL

(* Two numbers of the same parity are equal or differ by two at least. *)
LEMMA SameParity ==
  ASSUME NEW m \in Nat, NEW n \in Nat, m <= n, (m % 2 = 0) = (n % 2 = 0)
  PROVE  n = m \/ n >= m + 2
OBVIOUS

LEMMA DispatchDetects ==
  ASSUME IInv, Dispatch
  PROVE  serial[First.c] \in {First.serial} \cup (First.serial + 2)..MaxSerial
<1>1. pc \in {"read", "write"} /\ ~ Stale(First)
  BY DEF Dispatch, DispatchRead, DispatchWrite
<1>2. batch # <<>>
  BY <1>1 DEF IInv, InHand
<1>3. /\ First.c \in Conns /\ First.serial \in Nat
      /\ First.bit = (First.serial % 2 = 0) /\ First.serial <= serial[First.c]
  BY <1>2, EventInHand
<1>4. /\ serial[First.c] \in 0..MaxSerial
      /\ instance[First.c] = (serial[First.c] % 2 = 0)
  <2>1. Sound(World)
    BY DEF IInv
  <2>2. World.serial[First.c] \in 0..MaxSerial
    BY <1>3, <2>1, SoundTypes
  <2>3. World.instance[First.c] = (World.serial[First.c] % 2 = 0)
    BY <1>3, <2>1 DEF Sound, Parity
  <2> QED BY <2>2, <2>3, WorldFields
<1>5. instance[First.c] = First.bit
  BY <1>1 DEF Stale
<1>6. MaxSerial \in Nat /\ serial[First.c] \in Nat /\ serial[First.c] <= MaxSerial
  BY <1>4, ConnectionsAssumption
<1>7. (First.serial % 2 = 0) = (serial[First.c] % 2 = 0)
  BY <1>3, <1>4, <1>5
<1>8. serial[First.c] = First.serial \/ serial[First.c] >= First.serial + 2
  BY <1>3, <1>6, <1>7, SameParity
<1> QED BY <1>3, <1>6, <1>8

(* The instance bit and the test fd == -1 in ngx_epoll_process_events() tell a stale
   event, except from a structure that was taken twice since it was reported. *)
THEOREM StaleDetectedHolds == Spec => StaleDetected
<1>1. IInv /\ [Next]_vars =>
        [Dispatch => serial[First.c] \in {First.serial} \cup (First.serial + 2)..MaxSerial]_vars
  BY DispatchDetects
<1> QED BY <1>1, ConnectionsInvariant, PTL DEF Spec, StaleDetected

================================================================================
