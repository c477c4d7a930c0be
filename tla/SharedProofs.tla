----------------------------- MODULE SharedProofs -----------------------------
(* What the processes share: the connections of a zone are counted exactly; the nodes of
   a request rate limit are held as long as they are needed, and the burst is exceeded by
   no more than the other workers' requests; for any number of workers, requests, zones
   and values, any lists of limits, and workers that die; and the shared-memory mutex, for
   any number of processes. *)
EXTENDS MCShared, SequencesExt, FiniteSetTheorems, SequenceTheorems, TLAPS

(* The library's operators are the same in the instance. *)
LEMMA SameFinite == ASSUME NEW T PROVE C!IsFiniteSet(T) <=> IsFiniteSet(T)
BY DEF C!IsFiniteSet, IsFiniteSet

LEMMA SameCardinality == ASSUME NEW T PROVE C!Cardinality(T) = Cardinality(T)
BY DEF C!Cardinality, Cardinality

LEMMA SameToSet == ASSUME NEW s PROVE C!ToSet(s) = ToSet(s)
BY DEF C!ToSet, ToSet

LEMMA SameInjective == ASSUME NEW s PROVE C!IsInjective(s) <=> IsInjective(s)
BY DEF C!IsInjective, IsInjective

Pairs ==
  {<<z, k>> : z \in DOMAIN ConnZones,
              k \in UNION {ConnZones[x].keys : x \in DOMAIN ConnZones}}

Counters(z) == UNION {[D -> Nat] : D \in SUBSET ConnZones[z].keys}

RequestType ==
  [pc : {"none", "handler", "active", "refused", "ending"}, limits : ConnLocations \cup {<<>>},
   n : Nat, set : BOOLEAN, refused : BOOLEAN, held : Seq(Pairs)]

ConnTypeOK ==
  /\ req \in [C!All -> RequestType]
  /\ DOMAIN conn = DOMAIN ConnZones /\ DOMAIN conn_leaked = DOMAIN ConnZones
  /\ \A z \in DOMAIN ConnZones :
       conn[z] \in Counters(z) /\ conn_leaked[z] \in [ConnZones[z].keys -> Nat]

(* What a request holds while its handler walks through the list: references in zones
   that it has passed, at most one in each. *)
Walked ==
  \A r \in C!All :
    /\ IsInjective(req[r].held)
    /\ req[r].held # <<>> => req[r].set
    /\ req[r].pc = "handler" =>
         /\ req[r].limits \in ConnLocations /\ req[r].n > 0
         /\ \A p \in ToSet(req[r].held) :
              \E i \in DOMAIN req[r].limits : i < req[r].n /\ req[r].limits[i].zone = p[1]

(* A request that was refused, and is not giving its references back, holds nothing. *)
Refused(q) ==
  q.refused => /\ q.set /\ q.pc \in {"refused", "active", "ending"}
               /\ q.pc # "refused" => q.held = <<>>

Rejected == \A r \in C!All : Refused(req[r])

Total(z, k) == C!References(C!All, z, k) + conn_leaked[z][k]

Exact ==
  \A z \in DOMAIN ConnZones : \A k \in ConnZones[z].keys :
    /\ k \in DOMAIN conn[z] <=> Total(z, k) > 0
    /\ Total(z, k) > 0 => conn[z][k] = Total(z, k)

Limited ==
  \A z \in DOMAIN ConnZones : \A k \in DOMAIN conn[z] :
    \E l \in ConnLocations : \E i \in DOMAIN l : l[i].zone = z /\ conn[z][k] <= l[i].conn

ConnInv == ConnTypeOK /\ Walked /\ Rejected /\ Exact /\ Limited

-----------------------------------------------------------------------------
(* The list of the cleanup handlers of a pool. *)

LEMMA ElementOf ==
  ASSUME NEW T, NEW s \in Seq(T), NEW i \in 1..Len(s)
  PROVE  s[i] \in T
OBVIOUS

LEMMA Pushed ==
  ASSUME NEW T, NEW s \in Seq(T), NEW e \in T
  PROVE  /\ <<e>> \o s \in Seq(T)
         /\ ToSet(<<e>> \o s) = {e} \cup ToSet(s)
         /\ IsInjective(s) /\ e \notin ToSet(s) => IsInjective(<<e>> \o s)
<1> DEFINE t == <<e>> \o s
<1>1. /\ t \in Seq(T) /\ DOMAIN t = 1..Len(s) + 1 /\ t[1] = e
      /\ \A i \in 1..Len(s) : t[i + 1] = s[i]
      /\ DOMAIN s = 1..Len(s) /\ Len(s) \in Nat
  OBVIOUS
<1>2. \A i \in DOMAIN t : i = 1 \/ (i - 1 \in 1..Len(s) /\ t[i] = s[i - 1])
  <2>1. \A i \in DOMAIN t : i = 1 \/ (i - 1 \in 1..Len(s) /\ (i - 1) + 1 = i)
    BY <1>1
  <2> QED
    BY <1>1, <2>1
<1>3. \A i \in 1..Len(s) : i + 1 \in DOMAIN t
  BY <1>1
<1> HIDE DEF t
<1>4. ToSet(t) = {e} \cup ToSet(s)
  <2>1. ASSUME NEW x \in ToSet(t) PROVE x \in {e} \cup ToSet(s)
    BY <1>1, <1>2 DEF ToSet
  <2>2. ASSUME NEW x \in {e} \cup ToSet(s) PROVE x \in ToSet(t)
    BY <1>1, <1>3 DEF ToSet
  <2> QED
    BY <2>1, <2>2
<1>5. ASSUME IsInjective(s), e \notin ToSet(s) PROVE IsInjective(t)
  <2> SUFFICES ASSUME NEW i \in DOMAIN t, NEW j \in DOMAIN t, t[i] = t[j] PROVE i = j
    BY DEF IsInjective
  <2>1. CASE i = 1 \/ j = 1
    BY <1>1, <1>2, <1>5, <2>1 DEF ToSet
  <2>2. CASE i # 1 /\ j # 1
    BY <1>1, <1>2, <1>5, <2>2 DEF IsInjective
  <2> QED
    BY <2>1, <2>2
<1> QED
  BY <1>1, <1>4, <1>5 DEF t

LEMMA Popped ==
  ASSUME NEW T, NEW s \in Seq(T), s # <<>>
  PROVE  /\ Tail(s) \in Seq(T) /\ Head(s) \in T
         /\ ToSet(s) = {Head(s)} \cup ToSet(Tail(s))
         /\ IsInjective(s) => IsInjective(Tail(s)) /\ Head(s) \notin ToSet(Tail(s))
<1>1. /\ Tail(s) \in Seq(T) /\ Head(s) \in T /\ s = <<Head(s)>> \o Tail(s)
  OBVIOUS
<1> DEFINE t == Tail(s)
<1>2. /\ DOMAIN s = 1..Len(t) + 1 /\ s[1] = Head(s) /\ DOMAIN t = 1..Len(t)
      /\ Len(t) \in Nat /\ \A i \in 1..Len(t) : s[i + 1] = t[i] /\ i + 1 \in DOMAIN s
  OBVIOUS
<1>3. ToSet(s) = {Head(s)} \cup ToSet(t)
  BY <1>1, Pushed
<1> HIDE DEF t
<1>4. ASSUME IsInjective(s) PROVE IsInjective(t) /\ Head(s) \notin ToSet(t)
  <2>1. ASSUME NEW i \in DOMAIN t, NEW j \in DOMAIN t, t[i] = t[j] PROVE i = j
    <3>1. i + 1 = j + 1
      BY <1>2, <1>4, <2>1 DEF IsInjective
    <3> QED
      BY <1>2, <3>1
  <2>2. ASSUME NEW i \in DOMAIN t, t[i] = Head(s) PROVE FALSE
    <3>1. i + 1 = 1
      BY <1>2, <1>4, <2>2 DEF IsInjective
    <3> QED
      BY <1>2, <3>1
  <2> QED
    BY <2>1, <2>2 DEF IsInjective, ToSet
<1> QED
  BY <1>1, <1>3, <1>4 DEF t

-----------------------------------------------------------------------------
(* Who holds a reference. *)
Holders(z, k) == {r \in C!All : <<z, k>> \in ToSet(req[r].held)}

LEMMA HoldersFinite ==
  ASSUME C!LimitConnAssumption, NEW z, NEW k
  PROVE  /\ IsFiniteSet(Holders(z, k)) /\ Cardinality(Holders(z, k)) \in Nat
         /\ C!References(C!All, z, k) = Cardinality(Holders(z, k))
<1>1. C!References(C!All, z, k) = Cardinality(Holders(z, k))
  BY SameCardinality, SameToSet DEF Holders, C!References
<1> QED
  BY <1>1, SameFinite, FS_Subset, FS_CardinalityType DEF C!LimitConnAssumption, Holders

(* One request of which the references change, by one. *)
LEMMA HolderAdded ==
  ASSUME C!LimitConnAssumption, NEW r \in C!All, NEW p,
         p \notin ToSet(req[r].held), ToSet(req'[r].held) = {p} \cup ToSet(req[r].held),
         \A x \in C!All \ {r} : req'[x].held = req[x].held,
         NEW z, NEW k
  PROVE  C!References(C!All, z, k)' = C!References(C!All, z, k) + IF <<z, k>> = p THEN 1 ELSE 0
<1>1. <<z, k>> # p => Holders(z, k)' = Holders(z, k)
  BY DEF Holders
<1>2. <<z, k>> = p => Holders(z, k)' = Holders(z, k) \cup {r} /\ r \notin Holders(z, k)
  BY DEF Holders
<1>3. C!References(C!All, z, k)' = Cardinality(Holders(z, k)')
  BY SameCardinality, SameToSet DEF C!References, Holders
<1>4. <<z, k>> = p => Cardinality(Holders(z, k)') = Cardinality(Holders(z, k)) + 1
  BY <1>2, HoldersFinite, FS_AddElement
<1> QED
  BY <1>1, <1>3, <1>4, HoldersFinite

LEMMA HolderRemoved ==
  ASSUME C!LimitConnAssumption, NEW r \in C!All, NEW p,
         p \notin ToSet(req'[r].held), ToSet(req[r].held) = {p} \cup ToSet(req'[r].held),
         \A x \in C!All \ {r} : req'[x].held = req[x].held,
         NEW z, NEW k
  PROVE  C!References(C!All, z, k)' = C!References(C!All, z, k) - IF <<z, k>> = p THEN 1 ELSE 0
<1>1. <<z, k>> # p => Holders(z, k)' = Holders(z, k)
  BY DEF Holders
<1>2. <<z, k>> = p => Holders(z, k)' = Holders(z, k) \ {r} /\ r \in Holders(z, k)
  BY DEF Holders
<1>3. C!References(C!All, z, k)' = Cardinality(Holders(z, k)')
  BY SameCardinality, SameToSet DEF C!References, Holders
<1>4. <<z, k>> = p => Cardinality(Holders(z, k)') = Cardinality(Holders(z, k)) - 1
  BY <1>2, HoldersFinite, FS_RemoveElement
<1> QED
  BY <1>1, <1>3, <1>4, HoldersFinite

(* A step that takes and gives back nothing. *)
LEMMA SameReferences ==
  ASSUME \A x \in C!All : req'[x].held = req[x].held, UNCHANGED <<conn, conn_leaked>>,
         Exact, Limited
  PROVE  Exact' /\ Limited'
<1>1. \A z, k : C!References(C!All, z, k)' = C!References(C!All, z, k)
  BY DEF C!References
<1> QED
  BY <1>1 DEF Exact, Limited, Total

-----------------------------------------------------------------------------
LEMMA InitConnInv == ASSUME C!LimitConnAssumption, C!Init PROVE ConnInv
<1>1. /\ \A r \in C!All : req[r] = C!NoRequest
      /\ req = [r \in C!All |-> C!NoRequest]
      /\ conn = [z \in DOMAIN ConnZones |-> [k \in {} |-> 0]]
      /\ conn_leaked = [z \in DOMAIN ConnZones |-> [k \in ConnZones[z].keys |-> 0]]
  BY DEF C!Init
<1>2. ConnTypeOK
  <2>1. C!NoRequest \in RequestType
    BY DEF C!NoRequest, RequestType
  <2>2. \A z \in DOMAIN ConnZones : [k \in {} |-> 0] \in Counters(z)
    <3>1. \A z \in DOMAIN ConnZones : [k \in {} |-> 0] \in [{} -> Nat]
      OBVIOUS
    <3> QED
      BY <3>1 DEF Counters
  <2> QED
    BY <1>1, <2>1, <2>2 DEF ConnTypeOK
<1>3. Walked
  BY <1>1 DEF Walked, C!NoRequest, IsInjective
<1>6. Rejected
  BY <1>1 DEF Rejected, Refused, C!NoRequest
<1>4. \A z, k : C!References(C!All, z, k) = 0
  <2> TAKE z, k
  <2>1. Holders(z, k) = {}
    BY <1>1 DEF Holders, C!NoRequest, ToSet
  <2> QED
    BY <2>1, HoldersFinite, FS_EmptySet
<1>5. Exact /\ Limited
  BY <1>1, <1>4 DEF Exact, Limited, Total
<1> QED
  BY <1>2, <1>3, <1>5, <1>6 DEF ConnInv

(* The handler of a request takes a reference in a zone that it has none in. *)
LEMMA TakeIInv ==
  ASSUME C!LimitConnAssumption, ConnInv, NEW r \in C!All, C!InHandler(r),
         NEW k \in ConnZones[C!Zone(r)].keys, C!Take(r, k)
  PROVE  ConnInv'
<1> DEFINE z0 == C!Zone(r)
           n0 == req[r].n
           limits0 == req[r].limits
           p0 == <<z0, k>>
           held0 == req[r].held
           held1 == <<p0>> \o held0
<1>1. /\ req[r].pc = "handler" /\ n0 \in 1..Len(limits0) /\ limits0 \in ConnLocations
      /\ limits0 \in Seq([zone : DOMAIN ConnZones, conn : Nat \ {0}])
      /\ \A i, j \in DOMAIN limits0 : limits0[i].zone = limits0[j].zone => i = j
  <2>1. /\ req[r].pc = "handler" /\ limits0 \in ConnLocations
        /\ n0 \in Nat /\ n0 > 0 /\ n0 <= Len(limits0)
    BY DEF C!InHandler, ConnInv, ConnTypeOK, RequestType, Walked
  <2>2. /\ limits0 \in Seq([zone : DOMAIN ConnZones, conn : Nat \ {0}])
        /\ \A i, j \in DOMAIN limits0 : limits0[i].zone = limits0[j].zone => i = j
    BY <2>1 DEF C!LimitConnAssumption
  <2> QED
    BY <2>1, <2>2
<1>2. z0 = limits0[n0].zone /\ z0 \in DOMAIN ConnZones /\ limits0[n0].conn \in Nat \ {0}
  <2>1. limits0[n0] \in [zone : DOMAIN ConnZones, conn : Nat \ {0}]
    <3> HIDE DEF limits0, n0
    <3> QED
      BY <1>1, ElementOf, Zenon
  <2>2. z0 = limits0[n0].zone
    BY DEF C!Zone, C!Limit
  <2> QED
    BY <2>1, <2>2
<1>3. p0 \in Pairs
  BY <1>2 DEF Pairs
<1>4. held0 \in Seq(Pairs) /\ IsInjective(held0) /\ r \in DOMAIN req
  BY DEF ConnInv, ConnTypeOK, RequestType, Walked
<1>5. p0 \notin ToSet(held0)
  <2> SUFFICES ASSUME p0 \in ToSet(held0) PROVE FALSE
    OBVIOUS
  <2>1. PICK i \in DOMAIN limits0 : i < n0 /\ limits0[i].zone = p0[1]
    BY <1>1 DEF ConnInv, Walked
  <2>2. n0 \in DOMAIN limits0 /\ limits0[i].zone = limits0[n0].zone
    BY <1>1, <1>2, <2>1
  <2> QED
    BY SMTT(30), <1>1, <2>1, <2>2
<1>6. /\ held1 \in Seq(Pairs)
      /\ ToSet(held1) = {p0} \cup ToSet(held0)
      /\ IsInjective(held1)
  BY <1>3, <1>4, <1>5, Pushed
<1>7. /\ req'[r] = [req[r] EXCEPT !.set = TRUE, !.n = @ + 1, !.held = <<p0>> \o @]
      /\ \A x \in C!All \ {r} : req'[x] = req[x]
      /\ req' = [x \in C!All |-> req'[x]]
      /\ UNCHANGED conn_leaked
  BY <1>4 DEF C!Take, ConnInv, ConnTypeOK
<1>8. /\ req'[r] = [pc |-> "handler", limits |-> limits0, n |-> n0 + 1, set |-> TRUE,
                    refused |-> req[r].refused, held |-> held1]
      /\ req'[r] \in RequestType
  <2>1. req[r] \in RequestType
    BY DEF ConnInv, ConnTypeOK
  <2>2. req'[r] = [pc |-> "handler", limits |-> limits0, n |-> n0 + 1, set |-> TRUE,
                   refused |-> req[r].refused, held |-> held1]
    BY <1>1, <1>7, <2>1 DEF RequestType
  <2>3. n0 + 1 \in Nat /\ limits0 \in ConnLocations \cup {<<>>} /\ req[r].refused \in BOOLEAN
    BY <1>1, <2>1 DEF RequestType
  <2> HIDE DEF held1, limits0, n0
  <2> QED
    BY <1>6, <2>2, <2>3 DEF RequestType
<1> HIDE DEF held1
<1>9. \A z, k1 : C!References(C!All, z, k1)' =
                   C!References(C!All, z, k1) + IF <<z, k1>> = p0 THEN 1 ELSE 0
  <2>1. /\ p0 \notin ToSet(req[r].held) /\ ToSet(req'[r].held) = {p0} \cup ToSet(req[r].held)
        /\ \A x \in C!All \ {r} : req'[x].held = req[x].held
    <3>1. req'[r].held = held1
      BY <1>8
    <3> HIDE DEF p0, held0
    <3> QED
      BY <1>5, <1>6, <1>7, <3>1 DEF held0
  <2> HIDE DEF p0
  <2> QED
    BY <2>1, HolderAdded
<1> DEFINE d == DOMAIN conn[z0] \cup {k}
           f == [x \in d |-> IF x # k THEN conn[z0][x]
                            ELSE IF k \in DOMAIN conn[z0] THEN conn[z0][k] + 1 ELSE 1]
<1>10. /\ conn' = [conn EXCEPT ![z0] = f]
       /\ ~C!Reached(z0, k, limits0[n0])
  BY DEF C!Take, C!Limit
<1>11. /\ conn'[z0] = f /\ \A z \in DOMAIN ConnZones \ {z0} : conn'[z] = conn[z]
       /\ DOMAIN conn' = DOMAIN ConnZones
       /\ conn[z0] \in Counters(z0)
  <2>1. DOMAIN conn = DOMAIN ConnZones /\ conn[z0] \in Counters(z0)
    BY <1>2 DEF ConnInv, ConnTypeOK
  <2> HIDE DEF f, z0
  <2> QED
    BY <1>2, <1>10, <2>1
<1>12. f \in Counters(z0) /\ DOMAIN conn[z0] \subseteq ConnZones[z0].keys
  <2>1. PICK D \in SUBSET ConnZones[z0].keys : conn[z0] \in [D -> Nat]
    BY <1>11 DEF Counters
  <2>2. D = DOMAIN conn[z0] /\ d \in SUBSET ConnZones[z0].keys /\ f \in [d -> Nat]
    BY <2>1
  <2> QED
    BY <2>1, <2>2 DEF Counters
<1>13. ConnTypeOK'
  <2>1. req' \in [C!All -> RequestType]
    <3>1. \A x \in C!All : req'[x] \in RequestType
      BY <1>7, <1>8 DEF ConnInv, ConnTypeOK
    <3> QED
      BY <1>7, <3>1
  <2>2. \A z \in DOMAIN ConnZones : conn'[z] \in Counters(z)
    BY <1>11, <1>12 DEF ConnInv, ConnTypeOK
  <2> QED
    BY <1>7, <1>11, <2>1, <2>2 DEF ConnInv, ConnTypeOK
<1>14. Walked'
  <2> SUFFICES ASSUME NEW x \in C!All
               PROVE  /\ IsInjective(req'[x].held)
                      /\ req'[x].held # <<>> => req'[x].set
                      /\ req'[x].pc = "handler" =>
                           /\ req'[x].limits \in ConnLocations /\ req'[x].n > 0
                           /\ \A p \in ToSet(req'[x].held) :
                                \E i \in DOMAIN req'[x].limits :
                                  i < req'[x].n /\ req'[x].limits[i].zone = p[1]
    BY DEF Walked
  <2>1. CASE x # r
    BY <1>7, <2>1 DEF ConnInv, Walked
  <2>2. CASE x = r
    <3>1. ASSUME NEW p \in ToSet(held1)
          PROVE  \E i \in DOMAIN limits0 : i < n0 + 1 /\ limits0[i].zone = p[1]
      <4>1. CASE p = p0
        <5>1. n0 \in DOMAIN limits0 /\ n0 < n0 + 1 /\ limits0[n0].zone = p[1]
          BY <1>1, <1>2, <4>1
        <5> QED
          BY <5>1
      <4>2. CASE p \in ToSet(held0)
        <5>1. PICK i \in DOMAIN limits0 : i < n0 /\ limits0[i].zone = p[1]
          BY <1>1, <4>2 DEF ConnInv, Walked
        <5> QED
          BY <1>1, <5>1
      <4> QED
        BY <1>6, <4>1, <4>2
    <3>2. n0 + 1 > 0 /\ limits0 \in ConnLocations
      BY <1>1
    <3>3. /\ req'[r].held = held1 /\ req'[r].set = TRUE /\ req'[r].n = n0 + 1
          /\ req'[r].limits = limits0
      BY <1>8
    <3>4. \A p \in ToSet(held1) : \E i \in DOMAIN limits0 : i < n0 + 1 /\ limits0[i].zone = p[1]
      BY <3>1
    <3> HIDE DEF n0, limits0
    <3> QED
      BY <1>6, <2>2, <3>2, <3>3, <3>4
  <2> QED
    BY <2>1, <2>2
<1> HIDE DEF z0, n0, limits0, held0
<1>15. \A z \in DOMAIN ConnZones : \A k1 \in ConnZones[z].keys : C!References(C!All, z, k1) \in Nat
  BY HoldersFinite
<1>16. ASSUME NEW z \in DOMAIN ConnZones, NEW k1 \in ConnZones[z].keys
       PROVE  /\ k1 \in DOMAIN conn'[z] <=> Total(z, k1)' > 0
              /\ Total(z, k1)' > 0 => conn'[z][k1] = Total(z, k1)'
  <2>1. /\ k1 \in DOMAIN conn[z] <=> Total(z, k1) > 0
        /\ Total(z, k1) > 0 => conn[z][k1] = Total(z, k1)
        /\ Total(z, k1) \in Nat
    BY <1>15 DEF ConnInv, Exact, Total, ConnTypeOK
  <2>2. Total(z, k1)' = Total(z, k1) + IF z = z0 /\ k1 = k THEN 1 ELSE 0
    <3>1. conn_leaked[z][k1] \in Nat /\ conn_leaked'[z][k1] = conn_leaked[z][k1]
      BY <1>7 DEF ConnInv, ConnTypeOK
    <3>2. C!References(C!All, z, k1)' = C!References(C!All, z, k1) + IF z = z0 /\ k1 = k THEN 1 ELSE 0
      BY <1>9
    <3> QED
      BY <1>15, <3>1, <3>2 DEF Total
  <2>3. CASE z = z0 /\ k1 = k
    <3>1. conn'[z] = f /\ k1 \in DOMAIN f
      BY <1>11, <2>3
    <3>2. f[k1] = IF k \in DOMAIN conn[z0] THEN conn[z0][k] + 1 ELSE 1
      BY <2>3
    <3> QED
      BY <2>1, <2>2, <2>3, <3>1, <3>2
  <2>4. CASE ~(z = z0 /\ k1 = k)
    <3>1. CASE z # z0
      BY <1>11, <2>1, <2>2, <3>1
    <3>2. CASE z = z0
      <4>1. k1 \in DOMAIN f <=> k1 \in DOMAIN conn[z]
        BY <2>4, <3>2
      <4>2. k1 \in DOMAIN f => f[k1] = conn[z][k1]
        BY <2>4, <3>2
      <4> QED
        BY <1>11, <2>1, <2>2, <2>4, <3>2, <4>1, <4>2
    <3> QED
      BY <3>1, <3>2
  <2> QED
    BY <2>3, <2>4
<1>17. Exact'
  BY <1>16 DEF Exact
<1>19. Rejected'
  <2>1. Refused(req'[r])
    BY <1>1, <1>8 DEF ConnInv, Rejected, Refused
  <2> QED
    BY <1>7, <2>1 DEF ConnInv, Rejected
<1>18. Limited'
  <2> SUFFICES ASSUME NEW z \in DOMAIN ConnZones, NEW k1 \in DOMAIN conn'[z]
               PROVE  \E l \in ConnLocations : \E i \in DOMAIN l :
                        l[i].zone = z /\ conn'[z][k1] <= l[i].conn
    BY DEF Limited
  <2>1. CASE z = z0 /\ k1 = k
    <3>1. conn'[z][k1] = IF k \in DOMAIN conn[z0] THEN conn[z0][k] + 1 ELSE 1
      BY <1>11, <2>1
    <3>2. k \in DOMAIN conn[z0] => conn[z0][k] < limits0[n0].conn /\ conn[z0][k] \in Nat
      BY <1>2, <1>10, <1>11 DEF C!Reached, Counters
    <3>3. conn'[z][k1] <= limits0[n0].conn
      BY <1>2, <3>1, <3>2
    <3>4. limits0 \in ConnLocations /\ n0 \in DOMAIN limits0 /\ limits0[n0].zone = z
      BY <1>1, <1>2, <2>1
    <3> QED
      BY <3>3, <3>4
  <2>2. CASE ~(z = z0 /\ k1 = k)
    <3>1. k1 \in DOMAIN conn[z] /\ conn'[z][k1] = conn[z][k1]
      BY <1>11, <2>2
    <3> QED
      BY <3>1 DEF ConnInv, Limited
  <2> QED
    BY <2>1, <2>2
<1> QED
  BY <1>13, <1>14, <1>17, <1>18, <1>19 DEF ConnInv

(* A cleanup handler gives its reference back. *)
LEMMA CleanupIInv ==
  ASSUME C!LimitConnAssumption, ConnInv, NEW r \in C!All, C!Cleanup(r)
  PROVE  ConnInv'
<1> DEFINE held0 == req[r].held
           p0 == Head(held0)
           held1 == Tail(held0)
           z0 == p0[1]
           k0 == p0[2]
<1>1. /\ held0 \in Seq(Pairs) /\ held0 # <<>> /\ IsInjective(held0) /\ r \in DOMAIN req
      /\ req[r].pc \in {"refused", "ending"} /\ req[r].set
  BY DEF C!Cleanup, ConnInv, ConnTypeOK, RequestType, Walked
<1>2. /\ held1 \in Seq(Pairs) /\ p0 \in Pairs
      /\ ToSet(held0) = {p0} \cup ToSet(held1) /\ p0 \notin ToSet(held1)
      /\ IsInjective(held1)
  BY <1>1, Popped
<1>3. z0 \in DOMAIN ConnZones /\ p0 = <<z0, k0>>
  <2> HIDE DEF p0
  <2> QED
    BY <1>2 DEF Pairs
<1>4. /\ req' = [req EXCEPT ![r].held = held1]
      /\ conn' = [conn EXCEPT ![z0] =
                    [x \in {y \in DOMAIN @ : y = k0 => @[y] > 1} |->
                       IF x = k0 THEN @[x] - 1 ELSE @[x]]]
      /\ UNCHANGED conn_leaked
  BY DEF C!Cleanup
<1> HIDE DEF held1, p0, z0, k0
<1>5. /\ req'[r].held = held1 /\ req'[r].set = req[r].set /\ req'[r].pc = req[r].pc
      /\ req'[r].refused = req[r].refused /\ req'[r] \in RequestType
      /\ \A x \in C!All \ {r} : req'[x] = req[x]
      /\ req' = [x \in C!All |-> req'[x]]
  <2>1. req \in [C!All -> RequestType] /\ req[r] \in RequestType
    BY DEF ConnInv, ConnTypeOK
  <2>2. req'[r] = [req[r] EXCEPT !.held = held1] /\ \A x \in C!All \ {r} : req'[x] = req[x]
    BY <1>4, <2>1
  <2>3. /\ req'[r].held = held1 /\ req'[r].set = req[r].set /\ req'[r].pc = req[r].pc
        /\ req'[r].refused = req[r].refused /\ req'[r] \in RequestType
    BY <1>2, <2>1, <2>2 DEF RequestType
  <2>4. req' = [x \in C!All |-> req'[x]]
    BY <1>4, <2>1
  <2> QED
    BY <2>2, <2>3, <2>4
<1>6. \A z, k : C!References(C!All, z, k)' =
                  C!References(C!All, z, k) - IF <<z, k>> = p0 THEN 1 ELSE 0
  <2>1. /\ p0 \notin ToSet(req'[r].held) /\ ToSet(req[r].held) = {p0} \cup ToSet(req'[r].held)
        /\ \A x \in C!All \ {r} : req'[x].held = req[x].held
    BY <1>2, <1>5
  <2> QED
    BY <2>1, HolderRemoved
<1> DEFINE d == {y \in DOMAIN conn[z0] : y = k0 => conn[z0][y] > 1}
           f == [x \in d |-> IF x = k0 THEN conn[z0][x] - 1 ELSE conn[z0][x]]
<1>7. /\ conn'[z0] = f /\ \A z \in DOMAIN ConnZones \ {z0} : conn'[z] = conn[z]
      /\ DOMAIN conn' = DOMAIN ConnZones
      /\ conn[z0] \in Counters(z0)
  BY <1>3, <1>4 DEF ConnInv, ConnTypeOK
<1>8. /\ f \in Counters(z0) /\ DOMAIN conn[z0] \subseteq ConnZones[z0].keys
      /\ \A x \in DOMAIN conn[z0] : conn[z0][x] \in Nat
  <2>1. PICK D \in SUBSET ConnZones[z0].keys : conn[z0] \in [D -> Nat]
    BY <1>7 DEF Counters
  <2>2. D = DOMAIN conn[z0] /\ d \in SUBSET ConnZones[z0].keys /\ f \in [d -> Nat]
    BY <2>1
  <2> QED
    BY <2>1, <2>2 DEF Counters
<1>9. ConnTypeOK'
  <2>1. req' \in [C!All -> RequestType]
    <3>1. \A x \in C!All : req'[x] \in RequestType
      BY <1>5 DEF ConnInv, ConnTypeOK
    <3> QED
      BY <1>5, <3>1
  <2>2. \A z \in DOMAIN ConnZones : conn'[z] \in Counters(z)
    BY <1>7, <1>8 DEF ConnInv, ConnTypeOK
  <2> QED
    BY <1>4, <1>7, <2>1, <2>2 DEF ConnInv, ConnTypeOK
<1>10. Walked'
  <2>1. ASSUME NEW x \in C!All \ {r}
        PROVE  /\ IsInjective(req'[x].held)
               /\ req'[x].held # <<>> => req'[x].set
               /\ req'[x].pc = "handler" =>
                    /\ req'[x].limits \in ConnLocations /\ req'[x].n > 0
                    /\ \A p \in ToSet(req'[x].held) :
                         \E i \in DOMAIN req'[x].limits :
                           i < req'[x].n /\ req'[x].limits[i].zone = p[1]
    BY <1>5 DEF ConnInv, Walked
  <2>2. IsInjective(req'[r].held) /\ req'[r].set /\ req'[r].pc # "handler"
    BY <1>1, <1>2, <1>5
  <2> QED
    BY <2>1, <2>2 DEF Walked
<1>11. \A z \in DOMAIN ConnZones : \A k \in ConnZones[z].keys : C!References(C!All, z, k) \in Nat
  BY HoldersFinite
<1>12. ASSUME NEW z \in DOMAIN ConnZones, NEW k \in ConnZones[z].keys
       PROVE  /\ k \in DOMAIN conn'[z] <=> Total(z, k)' > 0
              /\ Total(z, k)' > 0 => conn'[z][k] = Total(z, k)'
  <2>1. /\ k \in DOMAIN conn[z] <=> Total(z, k) > 0
        /\ Total(z, k) > 0 => conn[z][k] = Total(z, k)
        /\ Total(z, k) \in Nat
    BY <1>11 DEF ConnInv, Exact, Total, ConnTypeOK
  <2>2. Total(z, k)' = Total(z, k) - IF z = z0 /\ k = k0 THEN 1 ELSE 0
    <3>1. conn_leaked[z][k] \in Nat /\ conn_leaked'[z][k] = conn_leaked[z][k]
      BY <1>4 DEF ConnInv, ConnTypeOK
    <3>2. C!References(C!All, z, k)' = C!References(C!All, z, k) - IF z = z0 /\ k = k0 THEN 1 ELSE 0
      BY <1>3, <1>6
    <3> QED
      BY <1>11, <3>1, <3>2 DEF Total
  <2>3. CASE z = z0 /\ k = k0
    <3>1. k \in DOMAIN f <=> (k \in DOMAIN conn[z] /\ conn[z][k] > 1)
      BY <2>3
    <3>2. k \in DOMAIN f => f[k] = conn[z][k] - 1
      BY <2>3
    <3> QED
      BY <1>7, <2>1, <2>2, <2>3, <3>1, <3>2
  <2>4. CASE ~(z = z0 /\ k = k0)
    <3>1. CASE z # z0
      BY <1>7, <2>1, <2>2, <3>1
    <3>2. CASE z = z0
      <4>1. k \in DOMAIN f <=> k \in DOMAIN conn[z]
        BY <2>4, <3>2
      <4>2. k \in DOMAIN f => f[k] = conn[z][k]
        BY <2>4, <3>2
      <4> QED
        BY <1>7, <2>1, <2>2, <2>4, <3>2, <4>1, <4>2
    <3> QED
      BY <3>1, <3>2
  <2> QED
    BY <2>3, <2>4
<1>13. Exact'
  BY <1>12 DEF Exact
<1>15. Rejected'
  <2>1. Refused(req[r]) /\ req[r].held # <<>>
    BY <1>1 DEF ConnInv, Rejected
  <2>2. Refused(req'[r])
    BY <1>5, <2>1 DEF Refused
  <2> QED
    BY <1>5, <2>2 DEF ConnInv, Rejected
<1>14. Limited'
  <2> SUFFICES ASSUME NEW z \in DOMAIN ConnZones, NEW k \in DOMAIN conn'[z]
               PROVE  \E l \in ConnLocations : \E i \in DOMAIN l :
                        l[i].zone = z /\ conn'[z][k] <= l[i].conn
    BY DEF Limited
  <2>1. k \in DOMAIN conn[z] /\ conn[z][k] \in Nat
        /\ (conn'[z][k] = conn[z][k] \/ conn'[z][k] = conn[z][k] - 1)
    <3>1. CASE z = z0
      BY <1>7, <1>8, <3>1
    <3>2. CASE z # z0
      BY <1>7, <3>2 DEF ConnInv, ConnTypeOK, Counters
    <3> QED
      BY <3>1, <3>2
  <2>2. PICK l \in ConnLocations : \E i \in DOMAIN l : l[i].zone = z /\ conn[z][k] <= l[i].conn
    BY <2>1 DEF ConnInv, Limited
  <2>3. PICK i \in DOMAIN l : l[i].zone = z /\ conn[z][k] <= l[i].conn
    BY <2>2
  <2>4. l[i].conn \in Nat
    <3>0. l \in Seq([zone : DOMAIN ConnZones, conn : Nat \ {0}])
      BY DEF C!LimitConnAssumption
    <3>1. i \in 1..Len(l)
      BY <3>0
    <3>2. l[i] \in [zone : DOMAIN ConnZones, conn : Nat \ {0}]
      BY <3>0, <3>1, ElementOf, Zenon
    <3> QED
      BY <3>2
  <2>5. conn'[z][k] <= l[i].conn
    BY <2>1, <2>3, <2>4
  <2> QED
    BY <2>3, <2>5
<1> QED
  BY <1>9, <1>10, <1>13, <1>14, <1>15 DEF ConnInv

(* A worker dies: its references become those of nobody. *)
LEMMA CrashIInv ==
  ASSUME C!LimitConnAssumption, ConnInv, NEW w \in Workers, C!Crash(w)
  PROVE  ConnInv'
<1>1. /\ conn_leaked' = [z \in DOMAIN ConnZones |-> [k \in ConnZones[z].keys |->
                           conn_leaked[z][k] + C!References(C!Of(w), z, k)]]
      /\ req' = [r \in C!All |-> IF r \in C!Of(w) THEN C!NoRequest ELSE req[r]]
      /\ UNCHANGED conn
  BY DEF C!Crash
<1>2. C!Of(w) \subseteq C!All
  BY DEF C!All
<1>3. ASSUME NEW z, NEW k
      PROVE  /\ C!References(C!All, z, k)' + C!References(C!Of(w), z, k) = C!References(C!All, z, k)
             /\ C!References(C!All, z, k)' \in Nat /\ C!References(C!Of(w), z, k) \in Nat
  <2> DEFINE A == {r \in C!All \ C!Of(w) : <<z, k>> \in ToSet(req[r].held)}
             B == {r \in C!Of(w) : <<z, k>> \in ToSet(req[r].held)}
  <2>1. Holders(z, k)' = A
    <3>1. ToSet(C!NoRequest.held) = {}
      BY DEF C!NoRequest, ToSet
    <3> QED
      BY <1>1, <3>1 DEF Holders
  <2>2. Holders(z, k) = A \cup B /\ A \cap B = {}
    BY <1>2 DEF Holders
  <2>3. IsFiniteSet(A) /\ IsFiniteSet(B)
    BY <2>2, HoldersFinite, FS_Subset
  <2>4. /\ C!References(C!All, z, k) = Cardinality(A \cup B)
        /\ C!References(C!All, z, k)' = Cardinality(A)
        /\ C!References(C!Of(w), z, k) = Cardinality(B)
    BY <2>1, <2>2, SameCardinality, SameToSet DEF C!References, Holders
  <2> HIDE DEF A, B
  <2>5. Cardinality(A \cup B) = Cardinality(A) + Cardinality(B) - Cardinality(A \cap B)
    BY <2>3, FS_Union
  <2>6. Cardinality(A) \in Nat /\ Cardinality(B) \in Nat /\ Cardinality(A \cap B) = 0
    BY <2>2, <2>3, FS_CardinalityType, FS_EmptySet
  <2> QED
    BY <2>4, <2>5, <2>6
<1>4. \A z \in DOMAIN ConnZones : \A k \in ConnZones[z].keys : Total(z, k)' = Total(z, k)
  <2> SUFFICES ASSUME NEW z \in DOMAIN ConnZones, NEW k \in ConnZones[z].keys
               PROVE  Total(z, k)' = Total(z, k)
    OBVIOUS
  <2>1. conn_leaked'[z][k] = conn_leaked[z][k] + C!References(C!Of(w), z, k) /\
          conn_leaked[z][k] \in Nat
    BY <1>1 DEF ConnInv, ConnTypeOK
  <2> QED
    BY <1>3, <2>1 DEF Total
<1>5. ConnTypeOK'
  <2>1. C!NoRequest \in RequestType
    BY DEF C!NoRequest, RequestType
  <2>2. req' \in [C!All -> RequestType]
    BY <1>1, <2>1 DEF ConnInv, ConnTypeOK
  <2>3. \A z \in DOMAIN ConnZones : conn_leaked'[z] \in [ConnZones[z].keys -> Nat]
    BY <1>1, <1>3 DEF ConnInv, ConnTypeOK
  <2> QED
    BY <1>1, <2>2, <2>3 DEF ConnInv, ConnTypeOK
<1>6. Walked'
  <2>1. \A r \in C!All : req'[r] = C!NoRequest \/ req'[r] = req[r]
    BY <1>1
  <2>2. IsInjective(C!NoRequest.held) /\ C!NoRequest.held = <<>> /\ C!NoRequest.pc = "none"
    BY DEF C!NoRequest, IsInjective
  <2> QED
    BY <2>1, <2>2 DEF ConnInv, Walked
<1>7. Exact' /\ Limited'
  BY <1>1, <1>4 DEF ConnInv, Exact, Limited
<1>8. Rejected'
  BY <1>1 DEF ConnInv, Rejected, Refused, C!NoRequest
<1> QED
  BY <1>5, <1>6, <1>7, <1>8 DEF ConnInv

(* The other steps of a request, in which its references stay as they are. *)
LEMMA RequestIInv ==
  ASSUME C!LimitConnAssumption, ConnInv, NEW r \in C!All,
         \/ C!Enter(r) \/ C!Skip(r) \/ C!Passed(r) \/ C!End(r) \/ C!CleanedUp(r)
         \/ \E k \in ConnZones[C!Zone(r)].keys : C!Refuse(r, k)
  PROVE  ConnInv'
<1>1. /\ req \in [C!All -> RequestType] /\ req[r] \in RequestType /\ C!NoRequest \in RequestType
      /\ UNCHANGED <<conn, conn_leaked>>
  <2>1. req \in [C!All -> RequestType]
    BY DEF ConnInv, ConnTypeOK
  <2>2. C!NoRequest \in RequestType
    BY DEF C!NoRequest, RequestType
  <2>3. UNCHANGED <<conn, conn_leaked>>
    BY DEF C!Enter, C!Skip, C!Passed, C!End, C!CleanedUp, C!Refuse
  <2> QED
    BY <2>1, <2>2, <2>3
<1>2. \A x \in C!All \ {r} : req'[x] = req[x]
  BY <1>1 DEF C!Enter, C!Skip, C!Passed, C!End, C!CleanedUp, C!Refuse, C!Return
<1>3. req' = [x \in C!All |-> req'[x]]
  BY <1>1 DEF C!Enter, C!Skip, C!Passed, C!End, C!CleanedUp, C!Refuse, C!Return
<1>4. /\ req'[r] \in RequestType /\ req'[r].held = req[r].held
      /\ req'[r].held # <<>> => req'[r].set
      /\ Refused(req'[r])
      /\ req'[r].pc = "handler" =>
           \/ req[r].held = <<>> /\ req'[r].limits \in ConnLocations /\ req'[r].n = 1
           \/ /\ req[r].pc = "handler" /\ req'[r].limits = req[r].limits
              /\ req'[r].n \in {req[r].n, req[r].n + 1}
  <2>0. Refused(req[r])
    BY DEF ConnInv, Rejected
  <2>1. CASE C!Enter(r)
    <3>1. CASE req' = req
      BY <1>1, <2>0, <3>1, <2>1 DEF ConnInv, Walked, C!Enter
    <3>2. CASE ~req[r].set /\ \E limits \in ConnLocations :
                 req' = [req EXCEPT ![r].pc = "handler", ![r].limits = limits, ![r].n = 1]
      <4>1. PICK limits \in ConnLocations :
              req' = [req EXCEPT ![r].pc = "handler", ![r].limits = limits, ![r].n = 1]
        BY <3>2
      <4>2. req'[r] = [req[r] EXCEPT !.pc = "handler", !.limits = limits, !.n = 1]
        BY <1>1, <4>1
      <4>3. req[r].held = <<>>
        BY <3>2 DEF ConnInv, Walked
      <4>4. req'[r] = [pc |-> "handler", limits |-> limits, n |-> 1, set |-> req[r].set,
                       refused |-> req[r].refused, held |-> req[r].held]
        BY <1>1, <4>2 DEF RequestType
      <4>5. req'[r] \in RequestType
        BY <1>1, <4>4 DEF RequestType
      <4>6. Refused(req'[r])
        BY <2>0, <3>2, <4>4 DEF Refused
      <4> QED
        BY <4>3, <4>4, <4>5, <4>6
    <3> QED
      BY <2>1, <3>1, <3>2 DEF C!Enter
  <2>2. CASE C!Skip(r)
    <3>1. req'[r] = [req[r] EXCEPT !.n = @ + 1]
      BY <1>1, <2>2 DEF C!Skip
    <3>2. req'[r] = [pc |-> req[r].pc, limits |-> req[r].limits, n |-> req[r].n + 1, set |-> req[r].set,
                     refused |-> req[r].refused, held |-> req[r].held]
      BY <1>1, <3>1 DEF RequestType
    <3>3. req'[r] \in RequestType
      BY <1>1, <3>2 DEF RequestType
    <3>4. req[r].held # <<>> => req[r].set
      BY DEF ConnInv, Walked
    <3>5. Refused(req'[r])
      BY <2>0, <2>2, <3>2 DEF Refused, C!Skip, C!InHandler
    <3> QED
      BY <3>2, <3>3, <3>4, <3>5
  <2>3. CASE C!Passed(r) \/ (C!CleanedUp(r) /\ req[r].pc = "refused")
    <3>1. req'[r] = [req[r] EXCEPT !.pc = "active", !.limits = <<>>, !.n = 0]
      BY <1>1, <2>3 DEF C!Passed, C!CleanedUp, C!Return
    <3>2. req'[r] = [pc |-> "active", limits |-> <<>>, n |-> 0, set |-> req[r].set,
                     refused |-> req[r].refused, held |-> req[r].held]
      BY <1>1, <3>1 DEF RequestType
    <3>3. req'[r] \in RequestType
      BY <1>1, <3>2 DEF RequestType
    <3>4. req[r].held # <<>> => req[r].set
      BY DEF ConnInv, Walked
    <3>5. Refused(req'[r])
      BY <2>0, <2>3, <3>2 DEF Refused, C!Passed, C!CleanedUp
    <3> QED
      BY <3>2, <3>3, <3>4, <3>5
  <2>4. CASE C!End(r)
    <3>1. req'[r] = [req[r] EXCEPT !.pc = "ending"]
      BY <1>1, <2>4 DEF C!End
    <3>2. Refused(req'[r])
      BY <1>1, <2>0, <2>4, <3>1 DEF RequestType, Refused, C!End
    <3> QED
      BY <1>1, <3>1, <3>2 DEF RequestType, ConnInv, Walked
  <2>5. CASE C!CleanedUp(r) /\ req[r].pc # "refused"
    <3>1. req'[r] = C!NoRequest /\ req[r].held = <<>>
      BY <1>1, <2>5 DEF C!CleanedUp
    <3> QED
      BY <1>1, <3>1 DEF C!NoRequest, Refused
  <2>6. CASE \E k \in ConnZones[C!Zone(r)].keys : C!Refuse(r, k)
    <3>1. req'[r] = [req[r] EXCEPT !.set = TRUE, !.refused = TRUE, !.pc = "refused"]
      BY <1>1, <2>6 DEF C!Refuse
    <3> QED
      BY <1>1, <3>1 DEF RequestType, Refused
  <2> QED
    BY <2>1, <2>2, <2>3, <2>4, <2>5, <2>6
<1>5. ConnTypeOK'
  <2>1. req' \in [C!All -> RequestType]
    <3>1. \A x \in C!All : req'[x] \in RequestType
      BY <1>1, <1>2, <1>4
    <3> QED
      BY <1>3, <3>1
  <2> QED
    BY <1>1, <2>1 DEF ConnInv, ConnTypeOK
<1>6. Walked'
  <2>1. ASSUME NEW x \in C!All \ {r}
        PROVE  /\ IsInjective(req'[x].held)
               /\ req'[x].held # <<>> => req'[x].set
               /\ req'[x].pc = "handler" =>
                    /\ req'[x].limits \in ConnLocations /\ req'[x].n > 0
                    /\ \A p \in ToSet(req'[x].held) :
                         \E i \in DOMAIN req'[x].limits :
                           i < req'[x].n /\ req'[x].limits[i].zone = p[1]
    BY <1>2 DEF ConnInv, Walked
  <2>2. ASSUME req'[r].pc = "handler"
        PROVE  /\ req'[r].limits \in ConnLocations /\ req'[r].n > 0
               /\ \A p \in ToSet(req'[r].held) :
                    \E i \in DOMAIN req'[r].limits :
                      i < req'[r].n /\ req'[r].limits[i].zone = p[1]
    <3>1. CASE req[r].held = <<>> /\ req'[r].limits \in ConnLocations /\ req'[r].n = 1
      <4>1. ToSet(req'[r].held) = {}
        BY <1>4, <3>1 DEF ToSet
      <4> QED
        BY <3>1, <4>1
    <3>2. CASE /\ req[r].pc = "handler" /\ req'[r].limits = req[r].limits
               /\ req'[r].n \in {req[r].n, req[r].n + 1}
      <4>1. /\ req[r].limits \in ConnLocations /\ req[r].n > 0 /\ req[r].n \in Nat
            /\ \A p \in ToSet(req[r].held) :
                 \E i \in DOMAIN req[r].limits :
                   i < req[r].n /\ req[r].limits[i].zone = p[1]
        BY <1>1, <3>2 DEF ConnInv, Walked, RequestType
      <4>2. req[r].limits \in Seq([zone : DOMAIN ConnZones, conn : Nat \ {0}])
        BY <4>1 DEF C!LimitConnAssumption
      <4>3. \A i \in DOMAIN req[r].limits : i < req[r].n => i < req'[r].n
        BY <3>2, <4>1, <4>2
      <4> QED
        BY <1>4, <3>2, <4>1, <4>3
    <3> QED
      BY <1>4, <2>2, <3>1, <3>2
  <2>3. IsInjective(req'[r].held)
    BY <1>4 DEF ConnInv, Walked
  <2> QED
    BY <1>4, <2>1, <2>2, <2>3 DEF Walked
<1>7. Exact' /\ Limited'
  <2>1. \A x \in C!All : req'[x].held = req[x].held
    BY <1>2, <1>4
  <2> QED
    BY <1>1, <2>1, SameReferences DEF ConnInv
<1>8. Rejected'
  BY <1>2, <1>4 DEF ConnInv, Rejected
<1> QED
  BY <1>5, <1>6, <1>7, <1>8 DEF ConnInv

-----------------------------------------------------------------------------
LEMMA NextConnInv ==
  ASSUME C!LimitConnAssumption, ConnInv, [C!Next]_(C!vars)
  PROVE  ConnInv'
<1>1. CASE C!Next
  BY <1>1, TakeIInv, CleanupIInv, RequestIInv, CrashIInv DEF C!Next
<1>2. CASE UNCHANGED C!vars
  BY <1>2 DEF C!vars, ConnInv, ConnTypeOK, Walked, Rejected, Exact, Limited, Total, C!References
<1> QED
  BY <1>1, <1>2

LEMMA ConnCounted == ConnInv => C!Counted
<1> SUFFICES ASSUME ConnInv PROVE C!Counted
  OBVIOUS
<1>1. ASSUME NEW z \in DOMAIN ConnZones, NEW k \in ConnZones[z].keys,
             C!References(C!All, z, k) + conn_leaked[z][k] > 0
      PROVE  \E l \in ConnLocations : \E i \in DOMAIN l :
               l[i].zone = z /\ C!References(C!All, z, k) + conn_leaked[z][k] <= l[i].conn
  <2>1. k \in DOMAIN conn[z] /\ conn[z][k] = C!References(C!All, z, k) + conn_leaked[z][k]
    BY <1>1 DEF ConnInv, Exact, Total
  <2> QED
    BY <2>1 DEF ConnInv, Limited
<1> QED
  BY <1>1, SameInjective DEF ConnInv, Walked, Rejected, Refused, Exact, Total, C!Counted

MCvars == <<part, vars, svars, qvars, cvars, rvars>>

(* For any number of workers, requests, zones and values, and any lists of limits without
   a zone twice: the counter of a value is the number of requests that hold a reference to
   it, over all workers, and what dead workers left; its node is there exactly as long as
   that is not 0; no request gives back what it has not, or twice; and no more than the
   limit of some location is ever counted (ngx_http_limit_conn_handler(),
   ngx_http_limit_conn_cleanup()). *)
THEOREM CountedHolds == MCSpec => []Counted
<1> DEFINE Inv == part = "limit_conn" => ConnInv
<1>1. MCInit => Inv
  BY InitConnInv, LimitConnAssumption DEF MCInit
<1>2. ASSUME Inv, [MCNext]_MCvars PROVE Inv'
  <2> SUFFICES ASSUME part' = "limit_conn" PROVE ConnInv'
    OBVIOUS
  <2>1. part = "limit_conn" /\ ConnInv
    BY <1>2 DEF MCNext, MCvars
  <2>2. [C!Next]_(C!vars)
    BY <1>2, <2>1 DEF MCNext, MCvars, cvars, C!vars
  <2> QED
    BY <2>1, <2>2, NextConnInv, LimitConnAssumption
<1>3. Inv => Counted
  BY ConnCounted DEF Counted
<1> HIDE DEF Inv
<1> QED
  BY <1>1, <1>2, <1>3, PTL DEF MCSpec, MCvars

-----------------------------------------------------------------------------
(* The rate of requests.  The library's operators in its instance. *)
LEMMA RateFinite == ASSUME NEW T PROVE Q!IsFiniteSet(T) <=> IsFiniteSet(T)
BY DEF Q!IsFiniteSet, IsFiniteSet

LEMMA RateCardinality == ASSUME NEW T PROVE Q!Cardinality(T) = Cardinality(T)
BY DEF Q!Cardinality, Cardinality

Keys(z) == Q!Names(z)
NodeRec == [age : Nat, excess : Nat, count : Nat]
Nodes(z) == UNION {[D -> NodeRec] : D \in SUBSET Keys(z)}
ZoneRec(z) == [queue : Seq(Keys(z)), node : Nodes(z)]
RunRec ==
  [pc : {"idle", "lookup", "account", "drop"}, limits : Q!Locations \cup {<<>>}, n : Nat,
   lag : 0..Q!MaxLag]

(* A zone is as it should be: the queue has every node once. *)
ZoneOK(z, s) ==
  s \in ZoneRec(z) /\ Q!IsInjective(s.queue) /\ Q!ToSet(s.queue) = DOMAIN s.node

ReqTypeOK ==
  /\ setup \in ReqSetups
  /\ DOMAIN zone = DOMAIN Q!Zones /\ zone = [z \in DOMAIN Q!Zones |-> zone[z]]
  /\ \A z \in DOMAIN Q!Zones : ZoneOK(z, zone[z])
  /\ node \in [Workers -> [DOMAIN Q!Zones -> (UNION {Keys(z) : z \in DOMAIN Q!Zones}) \cup {None}]]
  /\ \A w \in Workers : \A z \in DOMAIN Q!Zones : node[w][z] \in Keys(z) \cup {None}
  /\ run \in [Workers -> RunRec]
  /\ DOMAIN req_leaked = DOMAIN Q!Zones
  /\ \A z \in DOMAIN Q!Zones : req_leaked[z] \in [Keys(z) -> Nat]

(* Where a handler is in its list, and in which zones it may hold a node. *)
RunOK(q) ==
  /\ q.pc # "idle" => q.limits \in Q!Locations /\ q.n > 0
  /\ q.pc = "lookup" => q.n <= Len(q.limits) + 1
  /\ q.pc \in {"account", "drop"} => q.n <= Len(q.limits)

Passed(q, z) ==
  \E i \in DOMAIN q.limits : /\ q.limits[i].zone = z
                             /\ \/ q.pc = "lookup" /\ i < q.n
                                \/ q.pc \in {"account", "drop"} /\ i <= q.n

Walks ==
  \A w \in Workers :
    RunOK(run[w]) /\ \A z \in DOMAIN Q!Zones : node[w][z] # None => Passed(run[w], z)

ReqTotal(z, k) == Cardinality(Q!Holders(z, k)) + req_leaked[z][k]

Counts ==
  \A z \in DOMAIN Q!Zones : \A k \in Keys(z) :
    /\ k \in DOMAIN zone[z].node => zone[z].node[k].count = ReqTotal(z, k)
    /\ k \notin DOMAIN zone[z].node => ReqTotal(z, k) = 0

ReqInv == ReqTypeOK /\ Walks /\ Counts

-----------------------------------------------------------------------------
(* One entry unlinked: the entries before it stay, those after it move up. *)
LEMMA RemovedOne ==
  ASSUME NEW T, NEW s \in Seq(T), NEW i \in 1..Len(s)
  PROVE  /\ Q!RemoveAt(s, i) \in Seq(T)
         /\ Len(Q!RemoveAt(s, i)) = Len(s) - 1
         /\ \A j \in 1..Len(s) - 1 :
              Q!RemoveAt(s, i)[j] = IF j < i THEN s[j] ELSE s[j + 1]
<1> DEFINE a == SubSeq(s, 1, i - 1)
           b == SubSeq(s, i + 1, Len(s))
<1>1. Len(s) \in Nat /\ \A j \in 1..Len(s) : s[j] \in T
  BY LenProperties, ElementOfSeq
<1>2. /\ a \in Seq(T) /\ Len(a) = i - 1
      /\ \A j \in 1..i - 1 : a[j] = s[j]
  <2>1. 1 \in Int /\ i - 1 \in Int /\ \A j \in 1..i - 1 : s[j] \in T
    BY <1>1
  <2>2. /\ SubSeq(s, 1, i - 1) \in Seq(T)
        /\ Len(SubSeq(s, 1, i - 1)) = IF 1 <= i - 1 THEN i - 1 - 1 + 1 ELSE 0
        /\ \A j \in 1..i - 1 - 1 + 1 : SubSeq(s, 1, i - 1)[j] = s[1 + j - 1]
    BY <2>1, SubSeqProperties
  <2> QED BY <2>2, <1>1
<1>3. /\ b \in Seq(T) /\ Len(b) = Len(s) - i
      /\ \A j \in 1..Len(s) - i : b[j] = s[i + j]
  <2>1. i + 1 \in Int /\ Len(s) \in Int /\ \A j \in i + 1..Len(s) : s[j] \in T
    BY <1>1
  <2>2. /\ SubSeq(s, i + 1, Len(s)) \in Seq(T)
        /\ Len(SubSeq(s, i + 1, Len(s))) =
             IF i + 1 <= Len(s) THEN Len(s) - (i + 1) + 1 ELSE 0
        /\ \A j \in 1..Len(s) - (i + 1) + 1 :
             SubSeq(s, i + 1, Len(s))[j] = s[i + 1 + j - 1]
    BY <2>1, SubSeqProperties
  <2> QED BY <2>2, <1>1
<1>4. /\ a \o b \in Seq(T) /\ Len(a \o b) = Len(a) + Len(b)
      /\ \A j \in 1..Len(a) + Len(b) :
           (a \o b)[j] = IF j <= Len(a) THEN a[j] ELSE b[j - Len(a)]
  BY <1>2, <1>3, ConcatProperties
<1>5. Q!RemoveAt(s, i) = a \o b
  BY DEF Q!RemoveAt
<1> HIDE DEF a, b
<1>6. Len(a \o b) = Len(s) - 1
  BY <1>1, <1>2, <1>3, <1>4
<1>7. \A j \in 1..Len(s) - 1 : (a \o b)[j] = IF j < i THEN s[j] ELSE s[j + 1]
  <2> SUFFICES ASSUME NEW j \in 1..Len(s) - 1
               PROVE  (a \o b)[j] = IF j < i THEN s[j] ELSE s[j + 1]
    OBVIOUS
  <2>0. j \in Nat /\ i \in Nat /\ j \in 1..Len(a) + Len(b)
    BY <1>1, <1>2, <1>3
  <2>1. (a \o b)[j] = IF j <= Len(a) THEN a[j] ELSE b[j - Len(a)]
    BY <2>0, <1>4
  <2>2. CASE j < i
    BY <2>0, <2>1, <2>2, <1>1, <1>2
  <2>3. CASE ~ (j < i)
    <3>1. PICK k \in 1..Len(s) - i : k = j - Len(a) /\ i + k = j + 1
      BY <2>0, <2>3, <1>1, <1>2
    <3>2. ~ (j <= Len(a))
      BY <2>0, <2>3, <1>1, <1>2
    <3>3. (a \o b)[j] = b[k]
      BY <3>1, <3>2, <2>1
    <3>4. b[k] = s[i + k]
      BY <1>3
    <3> QED BY <3>1, <3>3, <3>4, <2>3
  <2> QED BY <2>2, <2>3
<1> QED BY <1>4, <1>5, <1>6, <1>7

LEMMA ReqPushed ==
  ASSUME NEW T, NEW s \in Seq(T), NEW e \in T
  PROVE  /\ <<e>> \o s \in Seq(T)
         /\ Q!ToSet(<<e>> \o s) = {e} \cup Q!ToSet(s)
         /\ Q!IsInjective(s) /\ e \notin Q!ToSet(s) => Q!IsInjective(<<e>> \o s)
<1> DEFINE t == <<e>> \o s
<1>1. /\ t \in Seq(T) /\ DOMAIN t = 1..Len(s) + 1 /\ t[1] = e
      /\ \A i \in 1..Len(s) : t[i + 1] = s[i]
      /\ DOMAIN s = 1..Len(s) /\ Len(s) \in Nat
  OBVIOUS
<1>2. \A i \in DOMAIN t : i = 1 \/ (i - 1 \in 1..Len(s) /\ t[i] = s[i - 1])
  <2>1. \A i \in DOMAIN t : i = 1 \/ (i - 1 \in 1..Len(s) /\ (i - 1) + 1 = i)
    BY <1>1
  <2> QED
    BY <1>1, <2>1
<1>3. \A i \in 1..Len(s) : i + 1 \in DOMAIN t
  BY <1>1
<1> HIDE DEF t
<1>4. Q!ToSet(t) = {e} \cup Q!ToSet(s)
  <2>1. ASSUME NEW x \in Q!ToSet(t) PROVE x \in {e} \cup Q!ToSet(s)
    BY <1>1, <1>2 DEF Q!ToSet
  <2>2. ASSUME NEW x \in {e} \cup Q!ToSet(s) PROVE x \in Q!ToSet(t)
    BY <1>1, <1>3 DEF Q!ToSet
  <2> QED
    BY <2>1, <2>2
<1>5. ASSUME Q!IsInjective(s), e \notin Q!ToSet(s) PROVE Q!IsInjective(t)
  <2> SUFFICES ASSUME NEW i \in DOMAIN t, NEW j \in DOMAIN t, t[i] = t[j] PROVE i = j
    BY DEF Q!IsInjective
  <2>1. CASE i = 1 \/ j = 1
    BY <1>1, <1>2, <1>5, <2>1 DEF Q!ToSet
  <2>2. CASE i # 1 /\ j # 1
    BY <1>1, <1>2, <1>5, <2>2 DEF Q!IsInjective
  <2> QED
    BY <2>1, <2>2
<1> QED
  BY <1>1, <1>4, <1>5 DEF t


(* The queue of the nodes. *)
LEMMA UnlinkedIs ==
  ASSUME NEW T, NEW q \in Seq(T), Q!IsInjective(q), NEW k \in Q!ToSet(q)
  PROVE  /\ Q!Unlinked(q, k) \in Seq(T)
         /\ Q!IsInjective(Q!Unlinked(q, k))
         /\ Q!ToSet(Q!Unlinked(q, k)) = Q!ToSet(q) \ {k}
<1>0. Len(q) \in Nat /\ DOMAIN q = 1..Len(q)
  BY LenProperties
<1>1. PICK i \in 1..Len(q) : q[i] = k /\ i = CHOOSE x \in DOMAIN q : q[x] = k
  BY <1>0 DEF Q!ToSet
<1> DEFINE u == Q!Unlinked(q, k)
<1>2. u = Q!RemoveAt(q, i)
  BY <1>1 DEF Q!Unlinked
<1> HIDE DEF u
<1>3. /\ u \in Seq(T) /\ Len(u) = Len(q) - 1
      /\ \A j \in 1..Len(q) - 1 : u[j] = IF j < i THEN q[j] ELSE q[j + 1]
  BY <1>2, RemovedOne
<1>4. DOMAIN u = 1..Len(q) - 1
  BY <1>3, LenProperties
<1> DEFINE old(j) == IF j < i THEN j ELSE j + 1
<1>5. \A j \in DOMAIN u : old(j) \in DOMAIN q /\ old(j) # i /\ u[j] = q[old(j)]
  BY <1>0, <1>3, <1>4
<1>6. \A j, m \in DOMAIN u : old(j) = old(m) => j = m
  BY <1>0, <1>4
<1>7. \A x \in DOMAIN q : x # i => \E j \in DOMAIN u : old(j) = x
  <2> SUFFICES ASSUME NEW x \in DOMAIN q, x # i PROVE \E j \in DOMAIN u : old(j) = x
    OBVIOUS
  <2>1. CASE x < i
    BY <1>0, <1>4, <2>1
  <2>2. CASE ~(x < i)
    <3>1. x - 1 \in DOMAIN u /\ old(x - 1) = x
      BY <1>0, <1>4, <2>2
    <3> QED
      BY <3>1
  <2> QED
    BY <2>1, <2>2
<1> HIDE DEF old
<1>8. Q!IsInjective(u)
  BY <1>5, <1>6 DEF Q!IsInjective
<1>9. Q!ToSet(u) = Q!ToSet(q) \ {k}
  <2>1. ASSUME NEW e \in Q!ToSet(u) PROVE e \in Q!ToSet(q) \ {k}
    <3>1. PICK j \in DOMAIN u : e = u[j]
      BY DEF Q!ToSet
    <3>2. e = q[old(j)] /\ old(j) \in DOMAIN q /\ old(j) # i
      BY <1>5, <3>1
    <3>3. e # k
      BY <1>0, <1>1, <3>2 DEF Q!IsInjective
    <3> QED
      BY <3>2, <3>3 DEF Q!ToSet
  <2>2. ASSUME NEW e \in Q!ToSet(q) \ {k} PROVE e \in Q!ToSet(u)
    <3>1. PICK x \in DOMAIN q : e = q[x] /\ x # i
      BY <1>1 DEF Q!ToSet
    <3>2. PICK j \in DOMAIN u : old(j) = x
      BY <1>7, <3>1
    <3> QED
      BY <1>5, <3>1, <3>2 DEF Q!ToSet
  <2> QED
    BY <2>1, <2>2
<1> QED
  BY <1>3, <1>8, <1>9 DEF u

LEMMA FrontIs ==
  ASSUME NEW T, NEW q \in Seq(T), Q!IsInjective(q), q # <<>>
  PROVE  /\ Q!Front(q) \in Seq(T) /\ Q!IsInjective(Q!Front(q))
         /\ Q!Last(q) \in Q!ToSet(q) /\ Q!ToSet(Q!Front(q)) = Q!ToSet(q) \ {Q!Last(q)}
<1>0. Len(q) \in Nat \ {0} /\ DOMAIN q = 1..Len(q)
  BY LenProperties, EmptySeq
<1> DEFINE f == Q!Front(q)
<1>1. /\ f \in Seq(T) /\ DOMAIN f = 1..Len(q) - 1
      /\ \A j \in 1..Len(q) - 1 : f[j] = q[j]
  BY <1>0 DEF Q!Front
<1>2. Q!Last(q) = q[Len(q)]
  BY DEF Q!Last
<1> HIDE DEF f
<1>3. Q!IsInjective(f)
  BY <1>0, <1>1 DEF Q!IsInjective
<1>4. Q!Last(q) \in Q!ToSet(q)
  BY <1>0, <1>2 DEF Q!ToSet
<1>5. Q!ToSet(f) = Q!ToSet(q) \ {Q!Last(q)}
  <2>1. ASSUME NEW e \in Q!ToSet(f) PROVE e \in Q!ToSet(q) \ {Q!Last(q)}
    <3>1. PICK j \in DOMAIN f : e = f[j]
      BY DEF Q!ToSet
    <3>2. j \in DOMAIN q /\ e = q[j] /\ j # Len(q) /\ Len(q) \in DOMAIN q
      BY <1>0, <1>1, <3>1
    <3> QED
      BY <1>2, <3>2 DEF Q!ToSet, Q!IsInjective
  <2>2. ASSUME NEW e \in Q!ToSet(q) \ {Q!Last(q)} PROVE e \in Q!ToSet(f)
    <3>1. PICK j \in DOMAIN q : e = q[j] /\ j # Len(q)
      BY <1>2 DEF Q!ToSet
    <3>2. j \in DOMAIN f /\ f[j] = e
      BY <1>0, <1>1, <3>1
    <3> QED
      BY <3>2 DEF Q!ToSet
  <2> QED
    BY <2>1, <2>2
<1> QED
  BY <1>1, <1>3, <1>4, <1>5 DEF f
-----------------------------------------------------------------------------
(* The operations on a zone. *)
LEMMA ToHeadOK ==
  ASSUME NEW z, NEW s, ZoneOK(z, s), NEW k \in DOMAIN s.node
  PROVE  ZoneOK(z, Q!ToHead(s, k)) /\ Q!ToHead(s, k).node = s.node
<1>1. s \in ZoneRec(z) /\ s.queue \in Seq(Keys(z)) /\ Q!IsInjective(s.queue)
      /\ Q!ToSet(s.queue) = DOMAIN s.node /\ s.node \in Nodes(z)
  BY DEF ZoneOK, ZoneRec
<1>2. k \in Keys(z)
  BY <1>1 DEF Nodes
<1> DEFINE u == Q!Unlinked(s.queue, k)
<1>3. u \in Seq(Keys(z)) /\ Q!IsInjective(u) /\ Q!ToSet(u) = DOMAIN s.node \ {k}
  BY <1>1, UnlinkedIs
<1> DEFINE q == <<k>> \o u
<1>4. Q!ToHead(s, k) = [s EXCEPT !.queue = q]
  BY DEF Q!ToHead
<1> HIDE DEF u
<1>5. q \in Seq(Keys(z)) /\ Q!IsInjective(q) /\ Q!ToSet(q) = {k} \cup Q!ToSet(u)
  BY <1>2, <1>3, ReqPushed
<1> HIDE DEF q
<1>6. /\ Q!ToHead(s, k) \in ZoneRec(z)
      /\ Q!ToHead(s, k).queue = q /\ Q!ToHead(s, k).node = s.node
  BY <1>1, <1>4, <1>5 DEF ZoneRec
<1> QED
  BY <1>3, <1>5, <1>6 DEF ZoneOK

LEMMA PutIs ==
  ASSUME NEW z, NEW s \in ZoneRec(z), NEW k \in Keys(z), NEW nd \in NodeRec
  PROVE  LET t == Q!Put(s, k, nd)
         IN  /\ t \in ZoneRec(z) /\ t.queue = s.queue /\ DOMAIN t.node = DOMAIN s.node \cup {k}
             /\ t.node[k] = nd /\ \A x \in DOMAIN s.node \ {k} : t.node[x] = s.node[x]
<1> DEFINE m == [x \in DOMAIN s.node \cup {k} |-> IF x = k THEN nd ELSE s.node[x]]
           t == Q!Put(s, k, nd)
<1>1. PICK D \in SUBSET Keys(z) : s.node \in [D -> NodeRec]
  BY DEF ZoneRec, Nodes
<1>2. m \in [D \cup {k} -> NodeRec] /\ D \cup {k} \in SUBSET Keys(z)
  BY <1>1
<1>3. m \in Nodes(z)
  BY <1>2 DEF Nodes
<1>4. /\ DOMAIN m = DOMAIN s.node \cup {k} /\ m[k] = nd
      /\ \A x \in DOMAIN s.node \ {k} : m[x] = s.node[x]
  OBVIOUS
<1>5. t = [s EXCEPT !.node = m]
  BY DEF Q!Put
<1> HIDE DEF m, t
<1>6. t \in ZoneRec(z) /\ t.queue = s.queue /\ t.node = m
  BY <1>3, <1>5 DEF ZoneRec
<1> QED
  BY <1>4, <1>6 DEF t

LEMMA PutOK ==
  ASSUME NEW z, NEW s, ZoneOK(z, s), NEW k \in DOMAIN s.node, NEW nd \in NodeRec
  PROVE  LET t == Q!Put(s, k, nd)
         IN  /\ ZoneOK(z, t) /\ DOMAIN t.node = DOMAIN s.node /\ t.node[k] = nd
             /\ \A x \in DOMAIN s.node \ {k} : t.node[x] = s.node[x]
<1>1. s \in ZoneRec(z) /\ s.node \in Nodes(z)
  BY DEF ZoneOK, ZoneRec
<1>2. k \in Keys(z) /\ DOMAIN s.node \cup {k} = DOMAIN s.node
  BY <1>1 DEF Nodes
<1> DEFINE t == Q!Put(s, k, nd)
<1>a. /\ t \in ZoneRec(z) /\ t.queue = s.queue /\ DOMAIN t.node = DOMAIN s.node \cup {k}
      /\ t.node[k] = nd /\ \A x \in DOMAIN s.node \ {k} : t.node[x] = s.node[x]
  BY <1>1, <1>2, PutIs
<1>3. /\ t \in ZoneRec(z) /\ t.queue = s.queue /\ DOMAIN t.node = DOMAIN s.node
      /\ t.node[k] = nd /\ \A x \in DOMAIN s.node \ {k} : t.node[x] = s.node[x]
  BY <1>2, <1>a
<1> HIDE DEF t
<1>4. ZoneOK(z, t)
  BY <1>3 DEF ZoneOK
<1> QED
  BY <1>3, <1>4 DEF t

LEMMA AddedOK ==
  ASSUME NEW z, NEW s, ZoneOK(z, s), NEW k \in Keys(z) \ DOMAIN s.node, NEW nd \in NodeRec
  PROVE  LET t == Q!Added(s, k, nd)
         IN  /\ ZoneOK(z, t) /\ DOMAIN t.node = DOMAIN s.node \cup {k} /\ t.node[k] = nd
             /\ \A x \in DOMAIN s.node : t.node[x] = s.node[x]
<1> DEFINE p == Q!Put(s, k, nd)
           t == Q!Added(s, k, nd)
           q == <<k>> \o p.queue
<1>1. /\ s \in ZoneRec(z) /\ s.queue \in Seq(Keys(z)) /\ Q!IsInjective(s.queue)
      /\ Q!ToSet(s.queue) = DOMAIN s.node
  BY DEF ZoneOK, ZoneRec
<1>2. /\ p \in ZoneRec(z) /\ p.queue = s.queue /\ DOMAIN p.node = DOMAIN s.node \cup {k}
      /\ p.node[k] = nd /\ \A x \in DOMAIN s.node \ {k} : p.node[x] = s.node[x]
  BY <1>1, PutIs
<1>3. q \in Seq(Keys(z)) /\ Q!IsInjective(q) /\ Q!ToSet(q) = {k} \cup DOMAIN s.node
  BY <1>1, <1>2, ReqPushed
<1>4. t = [p EXCEPT !.queue = q]
  BY DEF Q!Added
<1> HIDE DEF p, q, t
<1>5. t \in ZoneRec(z) /\ t.queue = q /\ t.node = p.node
  BY <1>2, <1>3, <1>4 DEF ZoneRec
<1>6. ZoneOK(z, t)
  BY <1>2, <1>3, <1>5 DEF ZoneOK
<1> QED
  BY <1>2, <1>5, <1>6 DEF t

(* What nodes that nobody holds leave behind. *)
Kept(z, s, t) ==
  /\ ZoneOK(z, t) /\ DOMAIN t.node \subseteq DOMAIN s.node
  /\ \A k \in DOMAIN t.node : t.node[k] = s.node[k]
  /\ \A k \in DOMAIN s.node \ DOMAIN t.node : s.node[k].count = 0

LEMMA KeptKept ==
  ASSUME NEW z, NEW s, NEW t, NEW u, Kept(z, s, t), Kept(z, t, u)
  PROVE  Kept(z, s, u)
BY DEF Kept

LEMMA DeleteKept ==
  ASSUME NEW z, NEW s, ZoneOK(z, s), NEW lag, NEW forced, Q!Expirable(z, s, lag, forced)
  PROVE  Kept(z, s, Q!Delete(s))
<1> DEFINE l == Q!Last(s.queue)
           f == Q!Front(s.queue)
           m == [k \in DOMAIN s.node \ {l} |-> s.node[k]]
           t == Q!Delete(s)
<1>1. /\ s \in ZoneRec(z) /\ s.queue \in Seq(Keys(z)) /\ Q!IsInjective(s.queue)
      /\ Q!ToSet(s.queue) = DOMAIN s.node /\ s.queue # <<>> /\ s.node[l].count = 0
  BY DEF ZoneOK, ZoneRec, Q!Expirable
<1>2. f \in Seq(Keys(z)) /\ Q!IsInjective(f) /\ l \in DOMAIN s.node /\
        Q!ToSet(f) = DOMAIN s.node \ {l}
  BY <1>1, FrontIs
<1>3. t = [queue |-> f, node |-> m]
  BY DEF Q!Delete
<1>4. PICK D \in SUBSET Keys(z) : s.node \in [D -> NodeRec]
  BY <1>1 DEF ZoneRec, Nodes
<1>5. m \in [D \ {l} -> NodeRec] /\ D \ {l} \in SUBSET Keys(z) /\ DOMAIN m = DOMAIN s.node \ {l}
      /\ \A k \in DOMAIN m : m[k] = s.node[k]
  BY <1>4
<1>6. m \in Nodes(z)
  BY <1>5 DEF Nodes
<1> HIDE DEF f, m, t, l
<1>7. t \in ZoneRec(z) /\ t.queue = f /\ t.node = m
  BY <1>2, <1>3, <1>6 DEF ZoneRec
<1>8. ZoneOK(z, t)
  BY <1>2, <1>5, <1>7 DEF ZoneOK
<1>9. Kept(z, s, t)
  BY <1>1, <1>2, <1>5, <1>7, <1>8 DEF Kept
<1> QED
  BY <1>9 DEF t

LEMMA ExpireIdleKept ==
  ASSUME NEW z, NEW s, ZoneOK(z, s), NEW lag
  PROVE  Kept(z, s, Q!ExpireIdle(z, s, lag))
<1> DEFINE one(t) == IF Q!Expirable(z, t, lag, FALSE) THEN Q!Delete(t) ELSE t
<1>1. \A t : ZoneOK(z, t) => Kept(z, t, one(t))
  <2> SUFFICES ASSUME NEW t, ZoneOK(z, t) PROVE Kept(z, t, one(t))
    OBVIOUS
  <2>1. CASE Q!Expirable(z, t, lag, FALSE)
    BY <2>1, DeleteKept
  <2>2. CASE ~Q!Expirable(z, t, lag, FALSE)
    BY <2>2 DEF Kept
  <2> QED
    BY <2>1, <2>2
<1>2. Q!ExpireIdle(z, s, lag) = one(one(s))
  BY DEF Q!ExpireIdle
<1> HIDE DEF one
<1>3. Kept(z, s, one(s)) /\ Kept(z, one(s), one(one(s)))
  BY <1>1 DEF Kept
<1> QED
  BY <1>2, <1>3, KeptKept

LEMMA MakeRoomKept ==
  ASSUME NEW z, ZoneOK(z, zone[z]), NEW lag
  PROVE  Kept(z, zone[z], Q!MakeRoom(z, lag))
<1> DEFINE s == Q!ExpireIdle(z, zone[z], lag)
           t == Q!ExpireForced(z, s, lag)
<1>1. Kept(z, zone[z], s) /\ ZoneOK(z, s)
  BY ExpireIdleKept DEF Kept
<1>2. Q!MakeRoom(z, lag) = IF Q!Full(z, s) THEN t ELSE s
  BY DEF Q!MakeRoom
<1>3. t = IF Q!Expirable(z, s, lag, TRUE) THEN Q!ExpireIdle(z, Q!Delete(s), lag) ELSE s
  BY DEF Q!ExpireForced
<1> HIDE DEF s, t
<1>4. CASE Q!Full(z, s) /\ Q!Expirable(z, s, lag, TRUE)
  <2>a. Kept(z, s, Q!Delete(s))
    BY <1>1, <1>4, DeleteKept
  <2>1. Kept(z, s, Q!Delete(s)) /\ ZoneOK(z, Q!Delete(s))
    BY <2>a DEF Kept
  <2>2. Kept(z, Q!Delete(s), t)
    BY <1>3, <1>4, <2>1, ExpireIdleKept
  <2>3. Kept(z, s, t)
    BY <2>1, <2>2, KeptKept
  <2>4. Kept(z, zone[z], t)
    BY <1>1, <2>3, KeptKept
  <2> QED
    BY <1>2, <1>4, <2>4
<1>5. CASE ~(Q!Full(z, s) /\ Q!Expirable(z, s, lag, TRUE))
  BY <1>1, <1>2, <1>3, <1>5
<1> QED
  BY <1>4, <1>5
-----------------------------------------------------------------------------
(* What the directives in force are. *)
LEMMA SetupSound ==
  ASSUME Q!LimitReqAssumption, setup \in ReqSetups
  PROVE  /\ Q!MaxLag \in Nat /\ Q!MaxAge \in Nat
         /\ \A l \in Q!Locations :
              /\ l \in Seq([zone : DOMAIN Q!Zones, burst : Nat])
              /\ Len(l) \in Nat /\ DOMAIN l = 1..Len(l)
              /\ \A i, j \in DOMAIN l : l[i].zone = l[j].zone => i = j
<1>1. Q!MaxLag \in Nat /\ Q!MaxAge \in Nat
  BY DEF Q!LimitReqAssumption, Q!MaxLag, Q!MaxAge
<1>2. Q!Locations \subseteq Seq([zone : DOMAIN Q!Zones, burst : Nat])
  BY DEF Q!LimitReqAssumption, Q!Locations, Q!Zones
<1>3. \A l \in Q!Locations : \A i, j \in DOMAIN l : l[i].zone = l[j].zone => i = j
  BY DEF Q!LimitReqAssumption, Q!Locations
<1>4. \A l \in Q!Locations : Len(l) \in Nat /\ DOMAIN l = 1..Len(l)
  BY <1>2, LenProperties
<1> QED
  BY <1>1, <1>2, <1>3, <1>4

(* Who holds a node. *)
LEMMA HoldersOK ==
  ASSUME Q!LimitReqAssumption, NEW z, NEW k
  PROVE  IsFiniteSet(Q!Holders(z, k)) /\ Cardinality(Q!Holders(z, k)) \in Nat
<1>1. Q!Holders(z, k) \subseteq Workers /\ IsFiniteSet(Workers)
  BY RateFinite DEF Q!Holders, Q!LimitReqAssumption
<1> QED
  BY <1>1, FS_Subset, FS_CardinalityType

LEMMA NoneIsNoKey ==
  ASSUME Q!LimitReqAssumption, ReqTypeOK, NEW z \in DOMAIN Q!Zones
  PROVE  None \notin Keys(z) /\ Q!Zones[z].rate \in Nat
BY DEF Q!LimitReqAssumption, ReqTypeOK, Q!Zones, Keys, Q!Names

LEMMA Taken ==
  ASSUME Q!LimitReqAssumption, ReqTypeOK, NEW w \in Workers, NEW y \in DOMAIN Q!Zones,
           NEW j \in Keys(y),
         node[w][y] = None, node' = [node EXCEPT ![w][y] = j], UNCHANGED req_leaked
  PROVE  \A z \in DOMAIN Q!Zones : \A k \in Keys(z) :
           ReqTotal(z, k)' = ReqTotal(z, k) + IF z = y /\ k = j THEN 1 ELSE 0
<1> SUFFICES ASSUME NEW z \in DOMAIN Q!Zones, NEW k \in Keys(z)
             PROVE  ReqTotal(z, k)' = ReqTotal(z, k) + IF z = y /\ k = j THEN 1 ELSE 0
  OBVIOUS
<1>1. \A v \in Workers : node'[v][z] = IF v = w /\ z = y THEN j ELSE node[v][z]
  BY DEF ReqTypeOK
<1>2. Cardinality(Q!Holders(z, k)) \in Nat /\ IsFiniteSet(Q!Holders(z, k)) /\ req_leaked[z][k] \in Nat
  BY HoldersOK DEF ReqTypeOK
<1>b. PICK A : A = {v \in Workers : node'[v][z] = k}
  OBVIOUS
<1>3. ReqTotal(z, k)' = Cardinality(A) + req_leaked[z][k]
  BY <1>b DEF Q!Holders, ReqTotal
<1>a. ReqTotal(z, k) = Cardinality(Q!Holders(z, k)) + req_leaked[z][k]
  BY DEF ReqTotal
<1>4. CASE z = y /\ k = j
  <2>1. w \notin Q!Holders(z, k) /\ A = Q!Holders(z, k) \cup {w}
    BY <1>1, <1>b, <1>4, NoneIsNoKey DEF Q!Holders
  <2>2. Cardinality(Q!Holders(z, k) \cup {w}) = Cardinality(Q!Holders(z, k)) + 1
    BY <1>2, <2>1, FS_AddElement
  <2> QED
    BY <1>2, <1>3, <1>a, <1>4, <2>1, <2>2
<1>5. CASE ~(z = y /\ k = j)
  <2>1. A = Q!Holders(z, k)
    BY <1>1, <1>b, <1>5, NoneIsNoKey DEF Q!Holders
  <2> QED
    BY <1>2, <1>3, <1>a, <1>5, <2>1
<1> QED
  BY <1>4, <1>5

LEMMA GivenBack ==
  ASSUME Q!LimitReqAssumption, ReqTypeOK, NEW w \in Workers, NEW y \in DOMAIN Q!Zones,
           NEW j \in Keys(y),
         node[w][y] = j, node' = [node EXCEPT ![w][y] = None], UNCHANGED req_leaked
  PROVE  \A z \in DOMAIN Q!Zones : \A k \in Keys(z) :
           ReqTotal(z, k)' = ReqTotal(z, k) - IF z = y /\ k = j THEN 1 ELSE 0
<1> SUFFICES ASSUME NEW z \in DOMAIN Q!Zones, NEW k \in Keys(z)
             PROVE  ReqTotal(z, k)' = ReqTotal(z, k) - IF z = y /\ k = j THEN 1 ELSE 0
  OBVIOUS
<1>1. \A v \in Workers : node'[v][z] = IF v = w /\ z = y THEN None ELSE node[v][z]
  BY DEF ReqTypeOK
<1>2. Cardinality(Q!Holders(z, k)) \in Nat /\ IsFiniteSet(Q!Holders(z, k)) /\ req_leaked[z][k] \in Nat
  BY HoldersOK DEF ReqTypeOK
<1>b. PICK A : A = {v \in Workers : node'[v][z] = k}
  OBVIOUS
<1>3. ReqTotal(z, k)' = Cardinality(A) + req_leaked[z][k]
  BY <1>b DEF Q!Holders, ReqTotal
<1>a. ReqTotal(z, k) = Cardinality(Q!Holders(z, k)) + req_leaked[z][k]
  BY DEF ReqTotal
<1>4. CASE z = y /\ k = j
  <2>1. w \in Q!Holders(z, k) /\ A = Q!Holders(z, k) \ {w}
    BY <1>1, <1>b, <1>4, NoneIsNoKey DEF Q!Holders
  <2>2. Cardinality(Q!Holders(z, k) \ {w}) = Cardinality(Q!Holders(z, k)) - 1
    BY <1>2, <2>1, FS_RemoveElement
  <2> QED
    BY <1>2, <1>3, <1>a, <1>4, <2>1, <2>2
<1>5. CASE ~(z = y /\ k = j)
  <2>1. A = Q!Holders(z, k)
    BY <1>1, <1>b, <1>5, NoneIsNoKey DEF Q!Holders
  <2> QED
    BY <1>2, <1>3, <1>a, <1>5, <2>1
<1> QED
  BY <1>4, <1>5

(* A step of the handler of w in zone y. *)
LEMMA ZoneStep ==
  ASSUME Q!LimitReqAssumption, ReqInv, NEW w \in Workers, NEW y \in DOMAIN Q!Zones,
         NEW t, ZoneOK(y, t), NEW q \in RunRec, RunOK(q), NEW x \in Keys(y) \cup {None},
         zone' = [zone EXCEPT ![y] = t], node' = [node EXCEPT ![w][y] = x],
         run' = [run EXCEPT ![w] = q], UNCHANGED <<req_leaked, setup>>,
         \A z \in DOMAIN Q!Zones \ {y} : node[w][z] # None => Passed(q, z),
         x # None => Passed(q, y),
         \A z \in DOMAIN Q!Zones \ {y} : \A k \in Keys(z) : ReqTotal(z, k)' = ReqTotal(z, k),
         \A k \in Keys(y) : /\ k \in DOMAIN t.node => t.node[k].count = ReqTotal(y, k)'
                            /\ k \notin DOMAIN t.node => ReqTotal(y, k)' = 0
  PROVE  ReqInv'
<1> USE DEF ReqInv
<1>1. Q!Zones' = Q!Zones /\ Q!Locations' = Q!Locations /\ Q!MaxLag' = Q!MaxLag
  BY DEF Q!Zones, Q!Locations, Q!MaxLag
<1>2. \A z \in DOMAIN Q!Zones : zone'[z] = IF z = y THEN t ELSE zone[z]
  BY DEF ReqTypeOK
<1>3. \A v \in Workers : /\ run'[v] = IF v = w THEN q ELSE run[v]
                         /\ \A z \in DOMAIN Q!Zones :
                              node'[v][z] = IF v = w /\ z = y THEN x ELSE node[v][z]
  BY DEF ReqTypeOK
<1>4. ReqTypeOK'
  <2>1. /\ setup' \in ReqSetups /\ DOMAIN zone' = DOMAIN Q!Zones
        /\ zone' = [z \in DOMAIN Q!Zones |-> zone'[z]]
    BY DEF ReqTypeOK
  <2>2. \A z \in DOMAIN Q!Zones : /\ zone'[z] \in ZoneRec(z) /\ Q!IsInjective(zone'[z].queue)
                                  /\ Q!ToSet(zone'[z].queue) = DOMAIN zone'[z].node
    BY <1>2 DEF ReqTypeOK, ZoneOK
  <2>3. /\ node' \in [Workers -> [DOMAIN Q!Zones -> (UNION {Keys(z) : z \in DOMAIN Q!Zones}) \cup {None}]]
        /\ \A v \in Workers : \A z \in DOMAIN Q!Zones : node'[v][z] \in Keys(z) \cup {None}
    <3> DEFINE Values == (UNION {Keys(z) : z \in DOMAIN Q!Zones}) \cup {None}
    <3>1. x \in Values
      OBVIOUS
    <3> HIDE DEF Values
    <3>2. node \in [Workers -> [DOMAIN Q!Zones -> Values]]
      BY DEF ReqTypeOK, Values
    <3>3. node' \in [Workers -> [DOMAIN Q!Zones -> Values]]
      BY <3>1, <3>2
    <3>4. \A v \in Workers : \A z \in DOMAIN Q!Zones : node'[v][z] \in Keys(z) \cup {None}
      BY <1>3 DEF ReqTypeOK
    <3> QED
      BY <3>3, <3>4 DEF Values
  <2>4. run' \in [Workers -> RunRec]
    <3>1. run \in [Workers -> RunRec]
      BY DEF ReqTypeOK
    <3> HIDE DEF ReqInv
    <3> QED
      BY <3>1
  <2>5. \A z : Keys(z)' = Keys(z)
    BY <1>1 DEF Keys, Q!Names
  <2>6. \A z : ZoneRec(z)' = ZoneRec(z)
    BY <2>5 DEF ZoneRec, Nodes
  <2>7. RunRec' = RunRec
    BY <1>1 DEF RunRec
  <2>8. DOMAIN req_leaked' = DOMAIN Q!Zones /\
          \A z \in DOMAIN Q!Zones : req_leaked'[z] \in [Keys(z) -> Nat]
    BY DEF ReqTypeOK
  <2> HIDE DEF ReqInv
  <2> QED
    BY <1>1, <2>1, <2>2, <2>3, <2>4, <2>5, <2>6, <2>7, <2>8 DEF ReqTypeOK, ZoneOK
<1>5. Walks'
  <2>1. \A v \in Workers : RunOK(run'[v]) /\ \A z \in DOMAIN Q!Zones : node'[v][z] # None =>
          Passed(run'[v], z)
    BY <1>3 DEF Walks
  <2> QED
    BY <1>1, <2>1 DEF Walks, RunOK, Passed
<1>6. Counts'
  <2>1. \A z \in DOMAIN Q!Zones : \A k \in Keys(z) :
          /\ k \in DOMAIN zone'[z].node => zone'[z].node[k].count = ReqTotal(z, k)'
          /\ k \notin DOMAIN zone'[z].node => ReqTotal(z, k)' = 0
    BY <1>2 DEF Counts
  <2> QED
    BY <1>1, <2>1 DEF Counts, Keys, Q!Names
<1> QED
  BY <1>4, <1>5, <1>6
(* Only the handler of w moves. *)
LEMMA RunStep ==
  ASSUME ReqInv, NEW w \in Workers, NEW q \in RunRec, RunOK(q),
         \A z \in DOMAIN Q!Zones : node[w][z] # None => Passed(q, z),
         run' = [run EXCEPT ![w] = q], UNCHANGED <<zone, node, req_leaked, setup>>
  PROVE  ReqInv'
<1>1. Q!Zones' = Q!Zones /\ Q!Locations' = Q!Locations /\ Q!MaxLag' = Q!MaxLag
  BY DEF Q!Zones, Q!Locations, Q!MaxLag
<1>2. run \in [Workers -> RunRec]
  BY DEF ReqInv, ReqTypeOK
<1>3. run' \in [Workers -> RunRec] /\ \A v \in Workers : run'[v] = IF v = w THEN q ELSE run[v]
  BY <1>2
<1>4. ReqTypeOK'
  <2>1. \A z : Keys(z)' = Keys(z)
    BY <1>1 DEF Keys, Q!Names
  <2>2. \A z : ZoneRec(z)' = ZoneRec(z)
    BY <2>1 DEF ZoneRec, Nodes
  <2>3. RunRec' = RunRec
    BY <1>1 DEF RunRec
  <2> QED
    BY <1>1, <1>3, <2>1, <2>2, <2>3 DEF ReqInv, ReqTypeOK, ZoneOK
<1>5. Walks'
  BY <1>1, <1>3 DEF ReqInv, Walks, RunOK, Passed
<1>6. Counts'
  BY <1>1 DEF ReqInv, Counts, Keys, Q!Names, ReqTotal, Q!Holders
<1> QED
  BY <1>4, <1>5, <1>6 DEF ReqInv

LEMMA GotoIs ==
  ASSUME Q!LimitReqAssumption, ReqInv, NEW w \in Workers, run[w].pc # "idle",
         NEW at \in {"lookup", "account", "drop"}, NEW n \in Nat,
         n <= Len(run[w].limits) \/ (at = "lookup" /\ n = Len(run[w].limits) + 1),
         Q!Goto(w, at, n)
  PROVE  \E q \in RunRec :
           /\ run' = [run EXCEPT ![w] = q] /\ RunOK(q)
           /\ n # 0 => q.pc = at /\ q.n = n /\ q.limits = run[w].limits /\ q.lag = run[w].lag
           /\ n = 0 => q = Q!IdleRun
<1>1. run \in [Workers -> RunRec] /\ run[w] \in RunRec /\ RunOK(run[w])
  BY DEF ReqInv, ReqTypeOK, Walks
<1>2. run[w].limits \in Q!Locations /\ run[w].lag \in 0..Q!MaxLag
  BY <1>1 DEF RunOK, RunRec
<1>3. CASE n = 0
  <2>1. Q!IdleRun \in RunRec
    <3>1. Q!MaxLag \in Nat
      BY SetupSound DEF ReqInv, ReqTypeOK
    <3> QED
      BY <3>1 DEF Q!IdleRun, RunRec
  <2>2. RunOK(Q!IdleRun)
    BY DEF RunOK, Q!IdleRun
  <2>3. run' = [run EXCEPT ![w] = Q!IdleRun]
    BY <1>3 DEF Q!Goto
  <2> QED
    BY <1>3, <2>1, <2>2, <2>3
<1>4. CASE n # 0
  <2>1. PICK q : q = [run[w] EXCEPT !.pc = at, !.n = n]
    OBVIOUS
  <2>2. q \in RunRec /\ q.pc = at /\ q.n = n /\ q.limits = run[w].limits /\ q.lag = run[w].lag
    BY <1>1, <2>1 DEF RunRec
  <2>3. run' = [run EXCEPT ![w] = q]
    BY <1>1, <1>4, <2>1 DEF Q!Goto
  <2>4. Len(run[w].limits) \in Nat
    BY <1>2, SetupSound
  <2>5. RunOK(q)
    BY <1>2, <1>4, <2>2, <2>4 DEF RunOK
  <2> QED
    BY <1>4, <2>2, <2>3, <2>5
<1> QED
  BY <1>3, <1>4

LEMMA ZoneAt ==
  ASSUME Q!LimitReqAssumption, ReqInv, NEW w \in Workers, run[w].pc # "idle",
         run[w].n <= Len(run[w].limits)
  PROVE  /\ run[w].limits \in Q!Locations /\ run[w].n \in 1..Len(run[w].limits)
         /\ Q!Zone(w) \in DOMAIN Q!Zones /\ Q!Zone(w) = run[w].limits[run[w].n].zone
         /\ run[w].limits[run[w].n].burst \in Nat
         /\ run[w].lag \in Nat /\ Len(run[w].limits) \in Nat
         /\ \A i \in 1..Len(run[w].limits) :
              run[w].limits[i].zone = Q!Zone(w) => i = run[w].n
<1>1. run[w] \in RunRec /\ RunOK(run[w])
  BY DEF ReqInv, ReqTypeOK, Walks
<1>2. run[w].limits \in Q!Locations /\ run[w].n \in Nat \ {0} /\ run[w].lag \in 0..Q!MaxLag
  BY <1>1 DEF RunOK, RunRec
<1>3. /\ run[w].limits \in Seq([zone : DOMAIN Q!Zones, burst : Nat]) /\ Q!MaxLag \in Nat
      /\ \A i, j \in DOMAIN run[w].limits :
           run[w].limits[i].zone = run[w].limits[j].zone => i = j
  BY <1>2, SetupSound DEF ReqInv, ReqTypeOK
<1>4. /\ Len(run[w].limits) \in Nat /\ DOMAIN run[w].limits = 1..Len(run[w].limits)
      /\ run[w].n \in 1..Len(run[w].limits)
  BY <1>2, SetupSound DEF ReqInv, ReqTypeOK
<1>5. run[w].limits[run[w].n] \in [zone : DOMAIN Q!Zones, burst : Nat]
  BY <1>3, <1>4, ElementOfSeq
<1>6. Q!Zone(w) = run[w].limits[run[w].n].zone
  BY DEF Q!Zone, Q!Limit
<1>7. run[w].lag \in Nat
  BY <1>2, <1>3
<1>8. \A i \in 1..Len(run[w].limits) : run[w].limits[i].zone = Q!Zone(w) => i = run[w].n
  BY <1>3, <1>4, <1>6
<1>9. Q!Zone(w) \in DOMAIN Q!Zones /\ run[w].limits[run[w].n].burst \in Nat
  BY <1>5, <1>6
<1> QED
  BY <1>2, <1>4, <1>6, <1>7, <1>8, <1>9

(* The zones that were passed stay so when the handler goes on, or turns back. *)
LEMMA PassedOn ==
  ASSUME Q!LimitReqAssumption, ReqInv, NEW w \in Workers, Q!At(w), NEW q \in RunRec,
         \/ /\ q.pc = "lookup" /\ q.n = run[w].n + 1 /\ q.limits = run[w].limits
         \/ /\ run[w].n - 1 # 0 /\ q.n = run[w].n - 1
            /\ q.pc \in {"account", "drop"} /\ q.limits = run[w].limits
         \/ run[w].n - 1 = 0 /\ q = Q!IdleRun
  PROVE  /\ \A z \in DOMAIN Q!Zones \ {Q!Zone(w)} : node[w][z] # None => Passed(q, z)
         /\ q.pc = "lookup" => Passed(q, Q!Zone(w))
         /\ node[w][Q!Zone(w)] = None
<1>1. /\ run[w].n \in 1..Len(run[w].limits) /\ Q!Zone(w) = run[w].limits[run[w].n].zone
      /\ run[w].limits \in Q!Locations /\ Q!Zone(w) \in DOMAIN Q!Zones /\ Len(run[w].limits) \in Nat
      /\ \A i \in 1..Len(run[w].limits) : run[w].limits[i].zone = Q!Zone(w) => i = run[w].n
      /\ run[w].pc = "lookup"
  BY ZoneAt DEF Q!At
<1>2. DOMAIN run[w].limits = 1..Len(run[w].limits)
  BY <1>1, SetupSound DEF ReqInv, ReqTypeOK
<1>3. \A z \in DOMAIN Q!Zones : node[w][z] # None =>
        \E i \in DOMAIN run[w].limits : run[w].limits[i].zone = z /\ i < run[w].n
  BY <1>1 DEF ReqInv, Walks, Passed
<1>4. node[w][Q!Zone(w)] = None
  BY <1>1, <1>2, <1>3
<1>5. ASSUME q.pc = "lookup" PROVE Passed(q, Q!Zone(w))
  <2>1. q.n = run[w].n + 1 /\ q.limits = run[w].limits
    BY <1>5 DEF Q!IdleRun
  <2>2. run[w].n \in DOMAIN q.limits /\ q.limits[run[w].n].zone = Q!Zone(w)
    BY <1>1, <1>2, <2>1
  <2>3. run[w].n < q.n
    BY <1>1, <2>1
  <2> QED
    BY <1>5, <2>2, <2>3 DEF Passed
<1>6. ASSUME NEW z \in DOMAIN Q!Zones \ {Q!Zone(w)}, node[w][z] # None PROVE Passed(q, z)
  <2>1. PICK i \in 1..Len(run[w].limits) : run[w].limits[i].zone = z /\ i < run[w].n
    BY <1>2, <1>3, <1>6
  <2>2. i \in Nat /\ i >= 1 /\ i <= run[w].n - 1 /\ run[w].n - 1 # 0 /\ i < run[w].n + 1
    BY <1>1, <2>1
  <2> QED
    BY <1>2, <2>1, <2>2 DEF Passed
<1> QED
  BY <1>4, <1>5, <1>6
(* What is computed with is a number. *)
LEMMA ExcessNat ==
  ASSUME Q!LimitReqAssumption, ReqInv, NEW z \in DOMAIN Q!Zones, NEW nd \in NodeRec, NEW lag \in Nat
  PROVE  Q!Excess(z, nd, lag) \in Nat
<1>1. Q!Zones[z].rate \in Nat /\ nd.age \in Nat /\ nd.excess \in Nat /\ Unit \in Nat
  BY NoneIsNoKey DEF ReqInv, NodeRec, Q!LimitReqAssumption
<1>2. Q!Abs(nd.age - lag) \in Nat
  BY <1>1 DEF Q!Abs
<1>3. Q!Left(z, nd, lag) \in Int
  BY <1>1, <1>2 DEF Q!Left
<1> QED
  BY <1>1, <1>3 DEF Q!Excess

LEMMA SameHolders ==
  ASSUME UNCHANGED <<node, req_leaked>>
  PROVE  \A z, k : ReqTotal(z, k)' = ReqTotal(z, k)
BY DEF ReqTotal, Q!Holders

LEMMA StartStep ==
  ASSUME Q!LimitReqAssumption, ReqInv, NEW w \in Workers, Q!Start(w), UNCHANGED setup
  PROVE  ReqInv'
<1>1. PICK limits \in Q!Locations, lag \in 0..Q!MaxLag :
        run' = [run EXCEPT ![w] = [pc |-> "lookup", limits |-> limits, n |-> 1, lag |-> lag]]
  BY DEF Q!Start
<1>2. PICK q : q = [pc |-> "lookup", limits |-> limits, n |-> 1, lag |-> lag]
  OBVIOUS
<1>3. q \in RunRec
  BY <1>2 DEF RunRec
<1>4. RunOK(q)
  BY <1>2, SetupSound DEF RunOK, ReqInv, ReqTypeOK
<1>5. \A z \in DOMAIN Q!Zones : node[w][z] = None
  BY DEF ReqInv, Walks, Passed, Q!Start
<1> QED
  BY <1>1, <1>2, <1>3, <1>4, <1>5, RunStep DEF Q!Start

LEMMA SkipStep ==
  ASSUME Q!LimitReqAssumption, ReqInv, NEW w \in Workers, Q!Skip(w), UNCHANGED setup
  PROVE  ReqInv'
<1>1. /\ run[w].pc = "lookup" /\ run[w] \in RunRec /\ RunOK(run[w]) /\ run[w].limits \in Q!Locations
      /\ run[w].n \in Nat \ {0}
  BY DEF ReqInv, ReqTypeOK, Walks, Q!Skip, RunOK, RunRec
<1>2. /\ Len(run[w].limits) \in Nat /\ DOMAIN run[w].limits = 1..Len(run[w].limits)
      /\ run[w].n <= Len(run[w].limits) + 1
  BY <1>1, SetupSound DEF ReqInv, ReqTypeOK, RunOK
<1>3. \A z \in DOMAIN Q!Zones : node[w][z] # None =>
        \E i \in DOMAIN run[w].limits : run[w].limits[i].zone = z /\ i < run[w].n
  BY <1>1 DEF ReqInv, Walks, Passed
<1>4. CASE run[w].n > Len(run[w].limits) /\ Q!Goto(w, "account", Len(run[w].limits))
  <2>1. PICK q \in RunRec :
          /\ run' = [run EXCEPT ![w] = q] /\ RunOK(q)
          /\ Len(run[w].limits) # 0 =>
               q.pc = "account" /\ q.n = Len(run[w].limits) /\ q.limits = run[w].limits
    BY <1>1, <1>2, <1>4, GotoIs
  <2>2. ASSUME NEW z \in DOMAIN Q!Zones, node[w][z] # None PROVE Passed(q, z)
    BY <1>2, <1>3, <2>1, <2>2 DEF Passed
  <2> QED
    BY <2>1, <2>2, RunStep DEF Q!Skip
<1>5. CASE run[w].n <= Len(run[w].limits) /\ Q!Goto(w, "lookup", run[w].n + 1)
  <2>1. run[w].n + 1 \in Nat /\ run[w].n + 1 # 0
        /\ (run[w].n + 1 <= Len(run[w].limits) \/ run[w].n + 1 = Len(run[w].limits) + 1)
    BY <1>1, <1>2, <1>5
  <2>2. PICK q \in RunRec :
          /\ run' = [run EXCEPT ![w] = q] /\ RunOK(q)
          /\ q.pc = "lookup" /\ q.n = run[w].n + 1 /\ q.limits = run[w].limits
    BY <1>1, <1>5, <2>1, GotoIs
  <2>3. ASSUME NEW z \in DOMAIN Q!Zones, node[w][z] # None PROVE Passed(q, z)
    BY <1>1, <1>2, <1>3, <2>2, <2>3 DEF Passed
  <2> QED
    BY <2>2, <2>3, RunStep DEF Q!Skip
<1> QED
  BY <1>4, <1>5 DEF Q!Skip

(* The handler goes on behind a zone, or turns back: where it is then. *)
LEMMA Forward ==
  ASSUME Q!LimitReqAssumption, ReqInv, NEW w \in Workers, Q!At(w), Q!Goto(w, "lookup", run[w].n + 1)
  PROVE  \E q \in RunRec :
           /\ run' = [run EXCEPT ![w] = q] /\ RunOK(q) /\ q.pc = "lookup"
           /\ \A z \in DOMAIN Q!Zones \ {Q!Zone(w)} : node[w][z] # None => Passed(q, z)
           /\ Passed(q, Q!Zone(w))
<1>1. /\ run[w].pc = "lookup" /\ run[w].n \in 1..Len(run[w].limits) /\ Len(run[w].limits) \in Nat
  BY ZoneAt DEF Q!At
<1>2. run[w].n + 1 \in Nat /\ run[w].n + 1 # 0
      /\ (run[w].n + 1 <= Len(run[w].limits) \/ run[w].n + 1 = Len(run[w].limits) + 1)
  BY <1>1
<1>3. PICK q \in RunRec :
        /\ run' = [run EXCEPT ![w] = q] /\ RunOK(q)
        /\ q.pc = "lookup" /\ q.n = run[w].n + 1 /\ q.limits = run[w].limits
  BY <1>1, <1>2, GotoIs
<1> QED
  BY <1>3, PassedOn

LEMMA Backward ==
  ASSUME Q!LimitReqAssumption, ReqInv, NEW w \in Workers, Q!At(w), NEW at \in {"account", "drop"},
         Q!Goto(w, at, run[w].n - 1)
  PROVE  \E q \in RunRec :
           /\ run' = [run EXCEPT ![w] = q] /\ RunOK(q)
           /\ \A z \in DOMAIN Q!Zones \ {Q!Zone(w)} : node[w][z] # None => Passed(q, z)
<1>1. /\ run[w].pc = "lookup" /\ run[w].n \in 1..Len(run[w].limits) /\ Len(run[w].limits) \in Nat
  BY ZoneAt DEF Q!At
<1>2. run[w].n - 1 \in Nat /\ run[w].n - 1 <= Len(run[w].limits)
  BY <1>1
<1>3. PICK q \in RunRec :
        /\ run' = [run EXCEPT ![w] = q] /\ RunOK(q)
        /\ run[w].n - 1 # 0 => q.pc = at /\ q.n = run[w].n - 1 /\ q.limits = run[w].limits
        /\ run[w].n - 1 = 0 => q = Q!IdleRun
  BY <1>1, <1>2, GotoIs
<1> QED
  BY <1>3, PassedOn
(* A zone of which the nodes keep their counts, and w does not hold any in it. *)
LEMMA SameCounts ==
  ASSUME Q!LimitReqAssumption, ReqInv, NEW w \in Workers, NEW y \in DOMAIN Q!Zones, node[w][y] = None,
         NEW t, ZoneOK(y, t), DOMAIN t.node = DOMAIN zone[y].node,
         \A k \in DOMAIN t.node : t.node[k].count = zone[y].node[k].count,
         NEW q \in RunRec, RunOK(q),
         \A z \in DOMAIN Q!Zones \ {y} : node[w][z] # None => Passed(q, z),
         zone' = [zone EXCEPT ![y] = t], run' = [run EXCEPT ![w] = q],
         UNCHANGED <<node, req_leaked, setup>>
  PROVE  ReqInv'
<1>1. node' = [node EXCEPT ![w][y] = None]
  BY DEF ReqInv, ReqTypeOK
<1>2. \A z, k : ReqTotal(z, k)' = ReqTotal(z, k)
  BY SameHolders
<1>3. \A k \in Keys(y) : /\ k \in DOMAIN t.node => t.node[k].count = ReqTotal(y, k)'
                         /\ k \notin DOMAIN t.node => ReqTotal(y, k)' = 0
  BY <1>2 DEF ReqInv, Counts
<1> QED
  BY <1>1, <1>2, <1>3, ZoneStep

LEMMA NodeAt ==
  ASSUME Q!LimitReqAssumption, ReqInv, NEW y \in DOMAIN Q!Zones, NEW k \in DOMAIN zone[y].node
  PROVE  /\ ZoneOK(y, zone[y]) /\ zone[y].node[k] \in NodeRec /\ k \in Keys(y)
         /\ zone[y].node[k].count = ReqTotal(y, k)
<1>1. ZoneOK(y, zone[y])
  BY DEF ReqInv, ReqTypeOK
<1>2. PICK D \in SUBSET Keys(y) : zone[y].node \in [D -> NodeRec]
  BY <1>1 DEF ZoneOK, ZoneRec, Nodes
<1>3. zone[y].node[k] \in NodeRec /\ k \in Keys(y)
  BY <1>2
<1> QED
  BY <1>1, <1>3 DEF ReqInv, Counts

(* A zone that the handler of w held no node of: with the counts as they were, and with one
   node more that it holds. *)
LEMMA SettledStep ==
  ASSUME Q!LimitReqAssumption, ReqInv, NEW w \in Workers, NEW y \in DOMAIN Q!Zones, node[w][y] = None,
         NEW t, ZoneOK(y, t), NEW q \in RunRec, RunOK(q),
         \A x \in Keys(y) : /\ x \in DOMAIN t.node => t.node[x].count = ReqTotal(y, x)
                            /\ x \notin DOMAIN t.node => ReqTotal(y, x) = 0,
         \A z \in DOMAIN Q!Zones \ {y} : node[w][z] # None => Passed(q, z),
         zone' = [zone EXCEPT ![y] = t], run' = [run EXCEPT ![w] = q],
         UNCHANGED <<node, req_leaked, setup>>
  PROVE  ReqInv'
<1>1. node' = [node EXCEPT ![w][y] = None]
  BY DEF ReqInv, ReqTypeOK
<1>2. \A z, k : ReqTotal(z, k)' = ReqTotal(z, k)
  BY SameHolders
<1>3. \A k \in Keys(y) : /\ k \in DOMAIN t.node => t.node[k].count = ReqTotal(y, k)'
                         /\ k \notin DOMAIN t.node => ReqTotal(y, k)' = 0
  BY <1>2
<1> QED
  BY <1>1, <1>2, <1>3, ZoneStep

LEMMA HeldStep ==
  ASSUME Q!LimitReqAssumption, ReqInv, NEW w \in Workers, NEW y \in DOMAIN Q!Zones, node[w][y] = None,
         NEW k \in Keys(y), NEW t, ZoneOK(y, t), NEW q \in RunRec, RunOK(q),
         \A x \in Keys(y) \ {k} : /\ x \in DOMAIN t.node => t.node[x].count = ReqTotal(y, x)
                                  /\ x \notin DOMAIN t.node => ReqTotal(y, x) = 0,
         k \in DOMAIN t.node, t.node[k].count = ReqTotal(y, k) + 1,
         \A z \in DOMAIN Q!Zones \ {y} : node[w][z] # None => Passed(q, z),
         Passed(q, y),
         zone' = [zone EXCEPT ![y] = t], node' = [node EXCEPT ![w][y] = k],
         run' = [run EXCEPT ![w] = q], UNCHANGED <<req_leaked, setup>>
  PROVE  ReqInv'
<1>1. \A z \in DOMAIN Q!Zones : \A j \in Keys(z) :
        ReqTotal(z, j)' = ReqTotal(z, j) + IF z = y /\ j = k THEN 1 ELSE 0
  <2>1. /\ ReqTypeOK /\ Q!LimitReqAssumption /\ w \in Workers /\ y \in DOMAIN Q!Zones /\ k \in Keys(y)
        /\ node[w][y] = None /\ node' = [node EXCEPT ![w][y] = k] /\ UNCHANGED req_leaked
    BY DEF ReqInv
  <2> QED
    BY ONLY <2>1, Taken, ZenonT(60)
<1>2. \A z \in DOMAIN Q!Zones : \A j \in Keys(z) : ReqTotal(z, j) \in Nat
  BY HoldersOK DEF ReqTotal, ReqInv, ReqTypeOK
<1>3. \A z \in DOMAIN Q!Zones \ {y} : \A j \in Keys(z) : ReqTotal(z, j)' = ReqTotal(z, j)
  BY <1>1, <1>2
<1>4. \A j \in Keys(y) : /\ j \in DOMAIN t.node => t.node[j].count = ReqTotal(y, j)'
                         /\ j \notin DOMAIN t.node => ReqTotal(y, j)' = 0
  <2>1. \A j \in Keys(y) \ {k} : ReqTotal(y, j)' = ReqTotal(y, j)
    BY <1>1, <1>2
  <2>2. ReqTotal(y, k)' = ReqTotal(y, k) + 1
    BY <1>1
  <2> QED
    BY <2>1, <2>2
<1> QED
  BY <1>3, <1>4, ZoneStep

(* The zone that a look-up is at is not held yet. *)
LEMMA NoneHeldAt ==
  ASSUME Q!LimitReqAssumption, ReqInv, NEW w \in Workers, Q!At(w)
  PROVE  node[w][Q!Zone(w)] = None
<1>0. PICK y : y = Q!Zone(w)
  OBVIOUS
<1>1. y \in DOMAIN Q!Zones /\ run[w].pc = "lookup"
  BY <1>0, ZoneAt DEF Q!At
<1>2. ASSUME node[w][y] # None PROVE FALSE
  <2>1. PICK i \in DOMAIN run[w].limits : run[w].limits[i].zone = y /\ i < run[w].n
    BY <1>1, <1>2 DEF ReqInv, Walks, Passed
  <2>2. run[w].limits \in Q!Locations /\ i \in 1..Len(run[w].limits) /\ run[w].n \in Nat
    BY <1>1, <2>1, ZoneAt, SetupSound DEF Q!At, ReqInv, ReqTypeOK
  <2>3. i = run[w].n
    BY <1>0, <1>1, <2>1, <2>2, ZoneAt DEF Q!At
  <2> QED
    BY <2>1, <2>2, <2>3
<1> QED
  BY <1>0, <1>2

LEMMA FoundStep ==
  ASSUME Q!LimitReqAssumption, ReqInv, NEW w \in Workers, Q!At(w),
         NEW k \in Keys(Q!Zone(w)), Q!Found(w, k), UNCHANGED setup
  PROVE  ReqInv'
<1>0. PICK y : y = Q!Zone(w)
  OBVIOUS
<1> DEFINE s  == Q!ToHead(zone[y], k)
           nd == s.node[k]
<1>1. y \in DOMAIN Q!Zones /\ run[w].lag \in Nat /\ run[w].pc = "lookup" /\ node[w][y] = None
  <2>1. y \in DOMAIN Q!Zones /\ run[w].lag \in Nat /\ run[w].pc = "lookup"
    BY <1>0, ZoneAt DEF Q!At
  <2>2. node[w][y] = None
    BY <1>0, NoneHeldAt
  <2> QED
    BY <2>1, <2>2
<1>2. k \in DOMAIN zone[y].node
  BY <1>0 DEF Q!Found
<1>3. /\ ZoneOK(y, s) /\ s.node = zone[y].node /\ nd \in NodeRec
      /\ nd.count = ReqTotal(y, k) /\ k \in Keys(y) /\ ZoneOK(y, zone[y])
  BY <1>1, <1>2, NodeAt, ToHeadOK
<1>4. CASE /\ zone' = [zone EXCEPT ![y] = s]
           /\ Q!Goto(w, "drop", run[w].n - 1) /\ UNCHANGED <<node, req_leaked>>
  <2>1. PICK q \in RunRec :
           /\ run' = [run EXCEPT ![w] = q] /\ RunOK(q)
           /\ \A z \in DOMAIN Q!Zones \ {y} : node[w][z] # None => Passed(q, z)
    BY <1>4, Backward, <1>0
  <2> HIDE DEF s
  <2> QED
    BY <1>1, <1>3, <1>4, <2>1, SameCounts
<1>5. CASE /\ zone' = [zone EXCEPT ![y] =
                         Q!Put(s, k, [nd EXCEPT !.excess = Q!Excess(y, nd, run[w].lag),
                                                !.age = run[w].lag])]
           /\ Q!Goto(w, "account", run[w].n - 1) /\ UNCHANGED <<node, req_leaked>>
  <2>1. PICK q \in RunRec :
           /\ run' = [run EXCEPT ![w] = q] /\ RunOK(q)
           /\ \A z \in DOMAIN Q!Zones \ {y} : node[w][z] # None => Passed(q, z)
    BY <1>5, Backward, <1>0
  <2>2. PICK e : e = [nd EXCEPT !.excess = Q!Excess(y, nd, run[w].lag), !.age = run[w].lag]
    OBVIOUS
  <2>3. e \in NodeRec /\ e.count = nd.count
    BY <1>1, <1>3, <2>2, ExcessNat DEF NodeRec
  <2>4. PICK t : t = Q!Put(s, k, e)
    OBVIOUS
  <2>5. /\ ZoneOK(y, t) /\ DOMAIN t.node = DOMAIN s.node /\ t.node[k] = e
        /\ \A x \in DOMAIN s.node \ {k} : t.node[x] = s.node[x]
    BY <1>2, <1>3, <2>3, <2>4, PutOK
  <2>6. zone' = [zone EXCEPT ![y] = t]
    BY <1>5, <2>2, <2>4
  <2>7. DOMAIN t.node = DOMAIN zone[y].node /\
          \A x \in DOMAIN t.node : t.node[x].count = zone[y].node[x].count
    BY <1>2, <1>3, <2>3, <2>5
  <2> HIDE DEF s, nd
  <2> QED
    BY <1>1, <1>5, <2>1, <2>5, <2>6, <2>7, SameCounts
<1>6. CASE /\ zone' = [zone EXCEPT ![y] = Q!Put(s, k, [nd EXCEPT !.count = @ + 1])]
           /\ node' = [node EXCEPT ![w][y] = k]
           /\ Q!Goto(w, "lookup", run[w].n + 1) /\ UNCHANGED req_leaked
  <2>1. PICK q \in RunRec :
           /\ run' = [run EXCEPT ![w] = q] /\ RunOK(q)
           /\ \A z \in DOMAIN Q!Zones \ {y} : node[w][z] # None => Passed(q, z)
           /\ Passed(q, y)
    BY <1>6, Forward, <1>0
  <2>2. PICK e : e = [nd EXCEPT !.count = @ + 1]
    OBVIOUS
  <2>3. e \in NodeRec /\ e.count = nd.count + 1
    BY <1>3, <2>2 DEF NodeRec
  <2>4. PICK t : t = Q!Put(s, k, e)
    OBVIOUS
  <2>5. /\ ZoneOK(y, t) /\ DOMAIN t.node = DOMAIN s.node /\ t.node[k] = e
        /\ \A x \in DOMAIN s.node \ {k} : t.node[x] = s.node[x]
    BY <1>2, <1>3, <2>3, <2>4, PutOK
  <2>6. zone' = [zone EXCEPT ![y] = t]
    BY <1>6, <2>2, <2>4
  <2>7. \A x \in Keys(y) \ {k} : /\ x \in DOMAIN t.node => t.node[x].count = ReqTotal(y, x)
                                 /\ x \notin DOMAIN t.node => ReqTotal(y, x) = 0
    BY <1>1, <1>3, <2>5 DEF ReqInv, Counts
  <2>8. k \in DOMAIN t.node /\ t.node[k].count = ReqTotal(y, k) + 1
    BY <1>2, <1>3, <2>3, <2>5
  <2> HIDE DEF s, nd
  <2> QED
    BY <1>1, <1>3, <1>6, <2>1, <2>5, <2>6, <2>7, <2>8, HeldStep
<1> QED
  BY <1>0, <1>4, <1>5, <1>6 DEF Q!Found

(* What is in a zone after room was made, for a key that has no node. *)
LEMMA RoomCounts ==
  ASSUME Q!LimitReqAssumption, ReqInv, NEW y \in DOMAIN Q!Zones, NEW s, Kept(y, zone[y], s)
  PROVE  /\ ZoneOK(y, s)
         /\ \A x \in Keys(y) : /\ x \in DOMAIN s.node => s.node[x].count = ReqTotal(y, x)
                               /\ x \notin DOMAIN s.node => ReqTotal(y, x) = 0
<1>1. ZoneOK(y, zone[y]) /\ ZoneOK(y, s)
  BY DEF ReqInv, ReqTypeOK, Kept
<1>2. ASSUME NEW x \in Keys(y), x \in DOMAIN s.node PROVE s.node[x].count = ReqTotal(y, x)
  BY <1>2 DEF Kept, ReqInv, Counts
<1>3. ASSUME NEW x \in Keys(y), x \notin DOMAIN s.node PROVE ReqTotal(y, x) = 0
  <2>1. CASE x \in DOMAIN zone[y].node
    BY <1>3, <2>1 DEF Kept, ReqInv, Counts
  <2>2. CASE x \notin DOMAIN zone[y].node
    BY <2>2 DEF ReqInv, Counts
  <2> QED
    BY <2>1, <2>2
<1> QED
  BY <1>1, <1>2, <1>3

LEMMA NewStep ==
  ASSUME Q!LimitReqAssumption, ReqInv, NEW w \in Workers, Q!At(w),
         NEW k \in Keys(Q!Zone(w)), Q!New(w, k), UNCHANGED setup
  PROVE  ReqInv'
<1>0. PICK y : y = Q!Zone(w)
  OBVIOUS
<1>1. y \in DOMAIN Q!Zones /\ run[w].lag \in Nat /\ run[w].pc = "lookup" /\ node[w][y] = None
  <2>1. y \in DOMAIN Q!Zones /\ run[w].lag \in Nat /\ run[w].pc = "lookup"
    BY <1>0, ZoneAt DEF Q!At
  <2>2. node[w][y] = None
    BY <1>0, NoneHeldAt
  <2> QED
    BY <2>1, <2>2
<1>2. k \notin DOMAIN zone[y].node /\ k \in Keys(y)
  BY <1>0 DEF Q!New
<1>3. PICK s : s = Q!MakeRoom(y, run[w].lag)
  OBVIOUS
<1>4. Kept(y, zone[y], s)
  <2>1. ZoneOK(y, zone[y])
    BY <1>1 DEF ReqInv, ReqTypeOK
  <2> QED
    BY <1>3, <2>1, MakeRoomKept
<1>5. /\ ZoneOK(y, s)
      /\ \A x \in Keys(y) : /\ x \in DOMAIN s.node => s.node[x].count = ReqTotal(y, x)
                            /\ x \notin DOMAIN s.node => ReqTotal(y, x) = 0
  BY <1>1, <1>4, RoomCounts
<1>6. k \in Keys(y) \ DOMAIN s.node
  BY <1>2, <1>4 DEF Kept
<1>7. CASE /\ zone' = [zone EXCEPT ![y] = s]
           /\ Q!Goto(w, "drop", run[w].n - 1) /\ UNCHANGED <<node, req_leaked>>
  <2>1. PICK q \in RunRec :
           /\ run' = [run EXCEPT ![w] = q] /\ RunOK(q)
           /\ \A z \in DOMAIN Q!Zones \ {y} : node[w][z] # None => Passed(q, z)
    BY <1>7, Backward, <1>0
  <2> QED
    BY <1>1, <1>5, <1>7, <2>1, SettledStep
<1>8. CASE /\ zone' = [zone EXCEPT ![y] =
                         Q!Added(s, k, [age |-> run[w].lag, excess |-> 0, count |-> 0])]
           /\ Q!Goto(w, "account", run[w].n - 1) /\ UNCHANGED <<node, req_leaked>>
  <2>1. PICK q \in RunRec :
           /\ run' = [run EXCEPT ![w] = q] /\ RunOK(q)
           /\ \A z \in DOMAIN Q!Zones \ {y} : node[w][z] # None => Passed(q, z)
    BY <1>8, Backward, <1>0
  <2>2. PICK e : e = [age |-> run[w].lag, excess |-> 0, count |-> 0]
    OBVIOUS
  <2>3. e \in NodeRec /\ e.count = 0
    BY <1>1, <2>2 DEF NodeRec
  <2>4. PICK t : t = Q!Added(s, k, e)
    OBVIOUS
  <2>5. /\ ZoneOK(y, t) /\ DOMAIN t.node = DOMAIN s.node \cup {k} /\ t.node[k] = e
        /\ \A x \in DOMAIN s.node : t.node[x] = s.node[x]
    BY <1>5, <1>6, <2>3, <2>4, AddedOK
  <2>6. zone' = [zone EXCEPT ![y] = t]
    BY <1>8, <2>2, <2>4
  <2>7. \A x \in Keys(y) : /\ x \in DOMAIN t.node => t.node[x].count = ReqTotal(y, x)
                           /\ x \notin DOMAIN t.node => ReqTotal(y, x) = 0
    BY <1>5, <1>6, <2>3, <2>5
  <2> QED
    BY <1>1, <1>8, <2>1, <2>5, <2>6, <2>7, SettledStep
<1>9. CASE /\ zone' = [zone EXCEPT ![y] =
                         Q!Added(s, k, [age |-> Q!MaxAge, excess |-> 0, count |-> 1])]
           /\ node' = [node EXCEPT ![w][y] = k]
           /\ Q!Goto(w, "lookup", run[w].n + 1) /\ UNCHANGED req_leaked
  <2>1. PICK q \in RunRec :
           /\ run' = [run EXCEPT ![w] = q] /\ RunOK(q)
           /\ \A z \in DOMAIN Q!Zones \ {y} : node[w][z] # None => Passed(q, z)
           /\ Passed(q, y)
    BY <1>9, Forward, <1>0
  <2>2. PICK e : e = [age |-> Q!MaxAge, excess |-> 0, count |-> 1]
    OBVIOUS
  <2>3. e \in NodeRec /\ e.count = 1
    <3>1. Q!MaxAge \in Nat
      BY SetupSound DEF ReqInv, ReqTypeOK
    <3> QED
      BY <3>1, <2>2 DEF NodeRec
  <2>4. PICK t : t = Q!Added(s, k, e)
    OBVIOUS
  <2>5. /\ ZoneOK(y, t) /\ DOMAIN t.node = DOMAIN s.node \cup {k} /\ t.node[k] = e
        /\ \A x \in DOMAIN s.node : t.node[x] = s.node[x]
    BY <1>5, <1>6, <2>3, <2>4, AddedOK
  <2>6. zone' = [zone EXCEPT ![y] = t]
    BY <1>9, <2>2, <2>4
  <2>7. \A x \in Keys(y) \ {k} : /\ x \in DOMAIN t.node => t.node[x].count = ReqTotal(y, x)
                                 /\ x \notin DOMAIN t.node => ReqTotal(y, x) = 0
    BY <1>5, <1>6, <2>5
  <2>8. k \in DOMAIN t.node /\ t.node[k].count = ReqTotal(y, k) + 1
    BY <1>5, <1>6, <2>3, <2>5
  <2> QED
    BY <1>1, <1>2, <1>9, <2>1, <2>5, <2>6, <2>7, <2>8, HeldStep
<1> HIDE DEF Q!MakeRoom
<1> QED
  BY <1>0, <1>3, <1>7, <1>8, <1>9 DEF Q!New

LEMMA BackStep ==
  ASSUME Q!LimitReqAssumption, ReqInv, NEW w \in Workers, Q!Back(w), UNCHANGED setup
  PROVE  ReqInv'
<1>0. PICK y : y = Q!Zone(w)
  OBVIOUS
<1>a. /\ run[w].pc \in {"account", "drop"} /\ run[w] \in RunRec /\ RunOK(run[w])
      /\ Q!Goto(w, run[w].pc, run[w].n - 1)
  BY DEF Q!Back, ReqInv, ReqTypeOK, Walks
<1>b. run[w].pc # "idle" /\ run[w].n <= Len(run[w].limits)
  BY <1>a DEF RunOK
<1>1. /\ y \in DOMAIN Q!Zones /\ run[w].lag \in Nat /\ run[w].n \in 1..Len(run[w].limits)
      /\ run[w].limits \in Q!Locations /\ Len(run[w].limits) \in Nat
      /\ \A i \in 1..Len(run[w].limits) : run[w].limits[i].zone = y => i = run[w].n
  BY <1>0, <1>b, ZoneAt
<1>2. run[w].n - 1 \in Nat /\ run[w].n - 1 <= Len(run[w].limits)
  BY <1>1
<1>3. PICK q \in RunRec :
        /\ run' = [run EXCEPT ![w] = q] /\ RunOK(q)
        /\ run[w].n - 1 # 0 =>
             q.pc = run[w].pc /\ q.n = run[w].n - 1 /\ q.limits = run[w].limits
  <2>1. PICK at \in {"lookup", "account", "drop"}, n \in Nat : at = run[w].pc /\ n = run[w].n - 1
    BY <1>a, <1>2
  <2>2. Q!Goto(w, at, n) /\ n <= Len(run[w].limits)
    BY <1>a, <1>2, <2>1
  <2>3. PICK q \in RunRec :
          /\ run' = [run EXCEPT ![w] = q] /\ RunOK(q)
          /\ n # 0 => q.pc = at /\ q.n = n /\ q.limits = run[w].limits
    BY <1>b, <2>2, GotoIs
  <2> QED
    BY <2>1, <2>3
<1>4. \A z \in DOMAIN Q!Zones \ {y} : node[w][z] # None => Passed(q, z)
  <2>1. DOMAIN run[w].limits = 1..Len(run[w].limits)
    BY <1>1, SetupSound DEF ReqInv, ReqTypeOK
  <2> SUFFICES ASSUME NEW z \in DOMAIN Q!Zones \ {y}, node[w][z] # None PROVE Passed(q, z)
    OBVIOUS
  <2>2. PICK i \in 1..Len(run[w].limits) : run[w].limits[i].zone = z /\ i <= run[w].n
    BY <1>a, <2>1 DEF ReqInv, Walks, Passed
  <2>3. i # run[w].n
    BY <1>0, <1>b, <2>2, ZoneAt
  <2>4. i <= run[w].n - 1 /\ run[w].n - 1 # 0
    BY <1>1, <2>2, <2>3
  <2> QED
    BY <1>a, <1>3, <2>1, <2>2, <2>4 DEF Passed
<1>5. CASE node[w][y] = None /\ UNCHANGED <<zone, node, req_leaked>>
  <2>1. \A z \in DOMAIN Q!Zones : node[w][z] # None => Passed(q, z)
    BY <1>4, <1>5
  <2> QED
    BY <1>3, <1>5, <2>1, RunStep
<1>6. CASE node[w][y] # None
  <2>1. PICK k : k = node[w][y]
    OBVIOUS
  <2>2. k \in Keys(y)
    BY <1>1, <1>6, <2>1 DEF ReqInv, ReqTypeOK
  <2>3. \A z \in DOMAIN Q!Zones : \A j \in Keys(z) :
          ReqTotal(z, j)' = ReqTotal(z, j) - IF z = y /\ j = k THEN 1 ELSE 0
    <3>1. /\ ReqTypeOK /\ Q!LimitReqAssumption /\ w \in Workers /\ y \in DOMAIN Q!Zones
          /\ k \in Keys(y) /\ node[w][y] = k
          /\ node' = [node EXCEPT ![w][y] = None] /\ UNCHANGED req_leaked
      BY <1>0, <1>1, <1>6, <2>1, <2>2 DEF Q!Back, ReqInv
    <3> QED
      BY ONLY <3>1, GivenBack, ZenonT(60)
  <2>4. \A z \in DOMAIN Q!Zones : \A j \in Keys(z) : ReqTotal(z, j) \in Nat
    BY HoldersOK DEF ReqTotal, ReqInv, ReqTypeOK
  <2>5. \A z \in DOMAIN Q!Zones \ {y} : \A j \in Keys(z) : ReqTotal(z, j)' = ReqTotal(z, j)
    BY <2>3, <2>4
  <2>6. \A j \in Keys(y) \ {k} : ReqTotal(y, j)' = ReqTotal(y, j)
    BY <1>1, <2>3, <2>4
  <2>7. ReqTotal(y, k)' = ReqTotal(y, k) - 1
    BY <1>1, <2>2, <2>3
  <2>8. ReqTotal(y, k) # 0
    <3>1. w \in Q!Holders(y, k)
      BY <2>1 DEF Q!Holders
    <3>2. IsFiniteSet(Q!Holders(y, k)) /\ Cardinality(Q!Holders(y, k)) \in Nat
      BY HoldersOK
    <3>3. Cardinality(Q!Holders(y, k)) # 0
      BY <3>1, <3>2, FS_EmptySet
    <3>4. req_leaked[y][k] \in Nat
      BY <1>1, <2>2 DEF ReqInv, ReqTypeOK
    <3> QED
      BY <3>2, <3>3, <3>4 DEF ReqTotal
  <2>9. k \in DOMAIN zone[y].node
    BY <1>1, <2>2, <2>8 DEF ReqInv, Counts
  <2>10. /\ ZoneOK(y, zone[y]) /\ zone[y].node[k] \in NodeRec
         /\ zone[y].node[k].count = ReqTotal(y, k)
    BY <1>1, <2>9, NodeAt
  <2>11. PICK nd : nd = zone[y].node[k]
    OBVIOUS
  <2>12. PICK e : e = IF run[w].pc = "drop" THEN [nd EXCEPT !.count = @ - 1]
                      ELSE [excess |-> Q!Excess(y, nd, run[w].lag), age |-> run[w].lag,
                            count |-> nd.count - 1]
    OBVIOUS
  <2>13. e \in NodeRec /\ e.count = ReqTotal(y, k) - 1
    <3>1. nd \in NodeRec /\ nd.count = ReqTotal(y, k) /\ nd.count - 1 \in Nat
      BY <1>1, <2>2, <2>4, <2>8, <2>10, <2>11
    <3>2. Q!Excess(y, nd, run[w].lag) \in Nat
      BY <1>1, <3>1, ExcessNat
    <3> QED
      BY <1>1, <2>12, <3>1, <3>2 DEF NodeRec
  <2>14. PICK t : t = [zone[y] EXCEPT !.node = [@ EXCEPT ![k] = e]]
    OBVIOUS
  <2>15. zone' = [zone EXCEPT ![y] = t]
    BY <1>0, <1>6, <2>1, <2>11, <2>12, <2>14 DEF Q!Back
  <2>16. ZoneOK(y, t) /\ DOMAIN t.node = DOMAIN zone[y].node /\ t.node[k] = e
         /\ \A x \in DOMAIN zone[y].node \ {k} : t.node[x] = zone[y].node[x]
    <3>1. zone[y] \in ZoneRec(y) /\ Q!IsInjective(zone[y].queue)
          /\ Q!ToSet(zone[y].queue) = DOMAIN zone[y].node
      BY <2>10 DEF ZoneOK
    <3>2. PICK D \in SUBSET Keys(y) : zone[y].node \in [D -> NodeRec]
      BY <3>1 DEF ZoneRec, Nodes
    <3>3. PICK m : m = [zone[y].node EXCEPT ![k] = e]
      OBVIOUS
    <3>4. m \in [D -> NodeRec] /\ DOMAIN m = DOMAIN zone[y].node /\ m[k] = e
          /\ \A x \in DOMAIN zone[y].node \ {k} : m[x] = zone[y].node[x]
      BY <2>9, <2>13, <3>2, <3>3
    <3>5. m \in Nodes(y)
      BY <3>4 DEF Nodes
    <3>6. t \in ZoneRec(y) /\ t.queue = zone[y].queue /\ t.node = m
      BY <2>14, <3>1, <3>3, <3>5 DEF ZoneRec
    <3> QED
      BY <3>1, <3>4, <3>6 DEF ZoneOK
  <2>17. \A j \in Keys(y) : /\ j \in DOMAIN t.node => t.node[j].count = ReqTotal(y, j)'
                            /\ j \notin DOMAIN t.node => ReqTotal(y, j)' = 0
    BY <1>1, <2>6, <2>7, <2>9, <2>13, <2>16 DEF ReqInv, Counts
  <2>18. node' = [node EXCEPT ![w][y] = None] /\ UNCHANGED req_leaked
    BY <1>0, <1>6 DEF Q!Back
  <2> QED
    BY <1>1, <1>3, <1>4, <2>5, <2>15, <2>16, <2>17, <2>18, ZoneStep
<1> QED
  BY <1>0, <1>5, <1>6 DEF Q!Back

LEMMA CrashStep ==
  ASSUME Q!LimitReqAssumption, ReqInv, NEW w \in Workers, Q!Crash(w), UNCHANGED setup
  PROVE  ReqInv'
<1>1. Q!Zones' = Q!Zones /\ Q!Locations' = Q!Locations /\ Q!MaxLag' = Q!MaxLag
  BY DEF Q!Zones, Q!Locations, Q!MaxLag
<1>2. /\ req_leaked' = [z \in DOMAIN Q!Zones |-> [k \in Keys(z) |->
                          req_leaked[z][k] + IF node[w][z] = k THEN 1 ELSE 0]]
      /\ node' = [node EXCEPT ![w] = [z \in DOMAIN Q!Zones |-> None]]
      /\ run' = [run EXCEPT ![w] = Q!IdleRun]
      /\ UNCHANGED <<zone, setup>>
  BY DEF Q!Crash, Keys, Q!Names
<1>3. /\ ReqTypeOK /\ Walks /\ Counts
      /\ \A z \in DOMAIN Q!Zones : req_leaked[z] \in [Keys(z) -> Nat]
  BY DEF ReqInv, ReqTypeOK
<1>4. \A v \in Workers : \A z \in DOMAIN Q!Zones :
        node'[v][z] = IF v = w THEN None ELSE node[v][z]
  BY <1>2, <1>3 DEF ReqTypeOK
<1>5. Q!IdleRun \in RunRec
  <2>1. Q!MaxLag \in Nat
    BY <1>3, SetupSound DEF ReqTypeOK
  <2> QED
    BY <2>1 DEF Q!IdleRun, RunRec
<1>6. run' \in [Workers -> RunRec] /\ \A v \in Workers : run'[v] = IF v = w THEN Q!IdleRun ELSE run[v]
  BY <1>2, <1>3, <1>5 DEF ReqTypeOK
<1>7. \A z \in DOMAIN Q!Zones : \A k \in Keys(z) : ReqTotal(z, k)' = ReqTotal(z, k)
  <2> SUFFICES ASSUME NEW z \in DOMAIN Q!Zones, NEW k \in Keys(z)
               PROVE  ReqTotal(z, k)' = ReqTotal(z, k)
    OBVIOUS
  <2>1. Cardinality(Q!Holders(z, k)) \in Nat /\ IsFiniteSet(Q!Holders(z, k)) /\
          req_leaked[z][k] \in Nat
    BY <1>3, HoldersOK
  <2>2. req_leaked'[z][k] = req_leaked[z][k] + IF node[w][z] = k THEN 1 ELSE 0
    BY <1>2
  <2>3. k # None
    BY <1>3, NoneIsNoKey
  <2>4. PICK A : A = {v \in Workers : node'[v][z] = k}
    OBVIOUS
  <2>5. ReqTotal(z, k)' = Cardinality(A) + req_leaked'[z][k]
    BY <2>4 DEF ReqTotal, Q!Holders
  <2>6. A = Q!Holders(z, k) \ {w}
    BY <1>4, <2>3, <2>4 DEF Q!Holders
  <2>7. CASE node[w][z] = k
    <3>1. w \in Q!Holders(z, k)
      BY <2>7 DEF Q!Holders
    <3>2. Cardinality(Q!Holders(z, k) \ {w}) = Cardinality(Q!Holders(z, k)) - 1
      BY <2>1, <3>1, FS_RemoveElement
    <3>3. Cardinality(A) = Cardinality(Q!Holders(z, k)) - 1
      BY <2>6, <3>2
    <3> QED
      BY <2>1, <2>2, <2>5, <2>7, <3>3 DEF ReqTotal
  <2>8. CASE node[w][z] # k
    <3>1. A = Q!Holders(z, k)
      BY <2>6, <2>8 DEF Q!Holders
    <3> QED
      BY <2>1, <2>2, <2>5, <2>8, <3>1 DEF ReqTotal
  <2> QED
    BY <2>7, <2>8
<1>8. ReqTypeOK'
  <2>1. DOMAIN req_leaked' = DOMAIN Q!Zones /\
          \A z \in DOMAIN Q!Zones : req_leaked'[z] \in [Keys(z) -> Nat]
    BY <1>2, <1>3
  <2>2. node' \in [Workers -> [DOMAIN Q!Zones -> (UNION {Keys(z) : z \in DOMAIN Q!Zones}) \cup {None}]]
    <3> DEFINE Values == (UNION {Keys(z) : z \in DOMAIN Q!Zones}) \cup {None}
    <3>1. [z \in DOMAIN Q!Zones |-> None] \in [DOMAIN Q!Zones -> Values]
      OBVIOUS
    <3> HIDE DEF Values
    <3>2. node \in [Workers -> [DOMAIN Q!Zones -> Values]]
      BY <1>3 DEF ReqTypeOK, Values
    <3>3. node' \in [Workers -> [DOMAIN Q!Zones -> Values]]
      BY <1>2, <3>1, <3>2
    <3> QED
      BY <3>3 DEF Values
  <2>3. \A v \in Workers : \A z \in DOMAIN Q!Zones : node'[v][z] \in Keys(z) \cup {None}
    BY <1>3, <1>4 DEF ReqTypeOK
  <2>4. \A z : Keys(z)' = Keys(z)
    BY <1>1 DEF Keys, Q!Names
  <2>5. \A z : ZoneRec(z)' = ZoneRec(z)
    BY <2>4 DEF ZoneRec, Nodes
  <2>6. RunRec' = RunRec
    BY <1>1 DEF RunRec
  <2> QED
    BY <1>1, <1>2, <1>3, <1>6, <2>1, <2>2, <2>3, <2>4, <2>5, <2>6 DEF ReqTypeOK, ZoneOK
<1>9. Walks'
  <2>1. RunOK(Q!IdleRun)
    BY DEF RunOK, Q!IdleRun
  <2>2. \A v \in Workers : /\ RunOK(run'[v])
                           /\ \A z \in DOMAIN Q!Zones : node'[v][z] # None => Passed(run'[v], z)
    BY <1>3, <1>4, <1>6, <2>1 DEF Walks
  <2> QED
    BY <1>1, <2>2 DEF Walks, RunOK, Passed
<1>10. Counts'
  <2>1. \A z \in DOMAIN Q!Zones : \A k \in Keys(z) :
          /\ k \in DOMAIN zone'[z].node => zone'[z].node[k].count = ReqTotal(z, k)'
          /\ k \notin DOMAIN zone'[z].node => ReqTotal(z, k)' = 0
    BY <1>2, <1>3, <1>7 DEF Counts
  <2> QED
    BY <1>1, <2>1 DEF Counts, Keys, Q!Names
<1> QED
  BY <1>8, <1>9, <1>10 DEF ReqInv

LEMMA TickStep ==
  ASSUME Q!LimitReqAssumption, ReqInv, Q!Tick, UNCHANGED setup
  PROVE  ReqInv'
<1>1. Q!Zones' = Q!Zones /\ Q!Locations' = Q!Locations /\ Q!MaxLag' = Q!MaxLag
  BY DEF Q!Zones, Q!Locations, Q!MaxLag
<1>2. /\ zone' = [z \in DOMAIN Q!Zones |->
                    [zone[z] EXCEPT !.node =
                      [k \in DOMAIN zone[z].node |-> Q!Older(zone[z].node[k])]]]
      /\ run' = [w \in Workers |-> IF run[w].pc = "idle" THEN run[w]
                                   ELSE [run[w] EXCEPT !.lag = @ + 1]]
      /\ UNCHANGED <<node, req_leaked, setup>>
      /\ \A w \in Workers : run[w].pc # "idle" => run[w].lag < Q!MaxLag
  BY DEF Q!Tick
<1>3. ReqTypeOK /\ Walks /\ Counts /\ Q!MaxLag \in Nat /\ Q!MaxAge \in Nat
  BY SetupSound DEF ReqInv, ReqTypeOK
<1>4. \A z \in DOMAIN Q!Zones :
        /\ zone'[z] \in ZoneRec(z) /\ zone'[z].queue = zone[z].queue
        /\ DOMAIN zone'[z].node = DOMAIN zone[z].node
        /\ \A k \in DOMAIN zone[z].node : zone'[z].node[k].count = zone[z].node[k].count
  <2> SUFFICES ASSUME NEW z \in DOMAIN Q!Zones
               PROVE  /\ zone'[z] \in ZoneRec(z) /\ zone'[z].queue = zone[z].queue
                      /\ DOMAIN zone'[z].node = DOMAIN zone[z].node
                      /\ \A k \in DOMAIN zone[z].node :
                           zone'[z].node[k].count = zone[z].node[k].count
    OBVIOUS
  <2>1. zone[z] \in ZoneRec(z)
    BY <1>3 DEF ReqTypeOK, ZoneOK
  <2>2. PICK D \in SUBSET Keys(z) : zone[z].node \in [D -> NodeRec]
    BY <2>1 DEF ZoneRec, Nodes
  <2>3. PICK old : old = zone[z].node
    OBVIOUS
  <2>4. PICK m : m = [k \in DOMAIN old |-> Q!Older(old[k])]
    OBVIOUS
  <2>5. \A k \in D : m[k] \in NodeRec /\ m[k].count = old[k].count
    <3> SUFFICES ASSUME NEW k \in D PROVE m[k] \in NodeRec /\ m[k].count = old[k].count
      OBVIOUS
    <3>1. old[k] \in NodeRec /\ k \in DOMAIN old
      BY <2>2, <2>3
    <3>2. m[k] = Q!Older(old[k])
      BY <2>4, <3>1
    <3> QED
      BY <1>3, <3>1, <3>2 DEF NodeRec, Q!Older
  <2>6. m \in Nodes(z) /\ DOMAIN m = D
    BY <2>2, <2>3, <2>4, <2>5 DEF Nodes
  <2>7. zone'[z] = [zone[z] EXCEPT !.node = m]
    BY <1>2, <2>3, <2>4
  <2> QED
    BY <2>1, <2>2, <2>3, <2>5, <2>6, <2>7 DEF ZoneRec
<1>5. \A w \in Workers : /\ run'[w] \in RunRec /\ run'[w].pc = run[w].pc
                         /\ run'[w].n = run[w].n /\ run'[w].limits = run[w].limits
  <2> SUFFICES ASSUME NEW w \in Workers
               PROVE  /\ run'[w] \in RunRec /\ run'[w].pc = run[w].pc
                      /\ run'[w].n = run[w].n /\ run'[w].limits = run[w].limits
    OBVIOUS
  <2>1. run[w] \in RunRec
    BY <1>3 DEF ReqTypeOK
  <2>2. CASE run[w].pc = "idle"
    BY <1>2, <2>1, <2>2
  <2>3. CASE run[w].pc # "idle"
    <3>1. run'[w] = [run[w] EXCEPT !.lag = @ + 1] /\ run[w].lag + 1 \in 0..Q!MaxLag
      BY <1>2, <1>3, <2>1, <2>3 DEF RunRec
    <3> QED
      BY <2>1, <3>1 DEF RunRec
  <2> QED
    BY <2>2, <2>3
<1>6. run' \in [Workers -> RunRec]
  BY <1>2, <1>5
<1>7. ReqTypeOK'
  <2>1. DOMAIN zone' = DOMAIN Q!Zones /\ zone' = [z \in DOMAIN Q!Zones |-> zone'[z]]
    BY <1>2
  <2>2. \A z \in DOMAIN Q!Zones : /\ Q!IsInjective(zone'[z].queue)
                                  /\ Q!ToSet(zone'[z].queue) = DOMAIN zone'[z].node
    BY <1>3, <1>4 DEF ReqTypeOK, ZoneOK
  <2>3. \A z : Keys(z)' = Keys(z)
    BY <1>1 DEF Keys, Q!Names
  <2>4. \A z : ZoneRec(z)' = ZoneRec(z)
    BY <2>3 DEF ZoneRec, Nodes
  <2>5. RunRec' = RunRec
    BY <1>1 DEF RunRec
  <2>6. /\ node' \in [Workers -> [DOMAIN Q!Zones -> (UNION {Keys(z) : z \in DOMAIN Q!Zones}) \cup {None}]]
        /\ \A w \in Workers : \A z \in DOMAIN Q!Zones : node'[w][z] \in Keys(z) \cup {None}
    BY <1>2, <1>3 DEF ReqTypeOK
  <2>7. /\ setup' \in ReqSetups /\ DOMAIN req_leaked' = DOMAIN Q!Zones
        /\ \A z \in DOMAIN Q!Zones : req_leaked'[z] \in [Keys(z) -> Nat]
    BY <1>2, <1>3 DEF ReqTypeOK
  <2>8. \A z \in DOMAIN Q!Zones : zone'[z] \in ZoneRec(z)
    BY <1>4
  <2> QED
    BY <1>1, <1>6, <2>1, <2>2, <2>3, <2>4, <2>5, <2>6, <2>7, <2>8 DEF ReqTypeOK, ZoneOK
<1>8. Walks'
  <2>1. \A w \in Workers : /\ RunOK(run'[w])
                           /\ \A z \in DOMAIN Q!Zones : node'[w][z] # None => Passed(run'[w], z)
    BY <1>2, <1>3, <1>5 DEF Walks, RunOK, Passed
  <2> QED
    BY <1>1, <2>1 DEF Walks, RunOK, Passed
<1>9. Counts'
  <2>1. \A z, k : ReqTotal(z, k)' = ReqTotal(z, k)
    BY <1>2, SameHolders
  <2>2. \A z \in DOMAIN Q!Zones : \A k \in Keys(z) :
          /\ k \in DOMAIN zone'[z].node => zone'[z].node[k].count = ReqTotal(z, k)'
          /\ k \notin DOMAIN zone'[z].node => ReqTotal(z, k)' = 0
    BY <1>3, <1>4, <2>1 DEF Counts
  <2> QED
    BY <1>1, <2>2 DEF Counts, Keys, Q!Names
<1> QED
  BY <1>7, <1>8, <1>9 DEF ReqInv

LEMMA InitReqInv ==
  ASSUME Q!LimitReqAssumption, Q!Init
  PROVE  ReqInv
<1>1. /\ setup \in ReqSetups
      /\ zone = [z \in DOMAIN Q!Zones |-> [queue |-> <<>>, node |-> [k \in {} |-> None]]]
      /\ node = [w \in Workers |-> [z \in DOMAIN Q!Zones |-> None]]
      /\ run = [w \in Workers |-> Q!IdleRun]
      /\ req_leaked = [z \in DOMAIN Q!Zones |-> [k \in Keys(z) |-> 0]]
  BY DEF Q!Init, Keys, Q!Names
<1>2. \A z \in DOMAIN Q!Zones : ZoneOK(z, zone[z]) /\ DOMAIN zone[z].node = {}
  <2> SUFFICES ASSUME NEW z \in DOMAIN Q!Zones
               PROVE  ZoneOK(z, zone[z]) /\ DOMAIN zone[z].node = {}
    OBVIOUS
  <2>1. PICK m : m = [k \in {} |-> None]
    OBVIOUS
  <2>2. m \in [{} -> NodeRec] /\ DOMAIN m = {}
    BY <2>1
  <2>3. m \in Nodes(z)
    BY <2>2 DEF Nodes
  <2>4. zone[z] = [queue |-> <<>>, node |-> m]
    BY <1>1, <2>1
  <2>5. << >> \in Seq(Keys(z)) /\ Q!IsInjective(<< >>) /\ Q!ToSet(<< >>) = {}
    BY EmptySeq DEF Q!IsInjective, Q!ToSet
  <2> QED
    BY <2>2, <2>3, <2>4, <2>5 DEF ZoneOK, ZoneRec
<1>3. Q!IdleRun \in RunRec /\ RunOK(Q!IdleRun)
  <2>1. Q!MaxLag \in Nat
    BY <1>1, SetupSound
  <2> QED
    BY <2>1 DEF Q!IdleRun, RunRec, RunOK
<1>4. ReqTypeOK
  BY <1>1, <1>2, <1>3 DEF ReqTypeOK
<1>5. Walks
  BY <1>1, <1>3 DEF Walks
<1>6. \A z \in DOMAIN Q!Zones : \A k \in Keys(z) : ReqTotal(z, k) = 0
  <2> SUFFICES ASSUME NEW z \in DOMAIN Q!Zones, NEW k \in Keys(z) PROVE ReqTotal(z, k) = 0
    OBVIOUS
  <2>1. Q!Holders(z, k) = {}
    BY <1>1, <1>4, NoneIsNoKey DEF Q!Holders
  <2>2. Cardinality({}) = 0
    BY FS_EmptySet
  <2>3. req_leaked[z][k] = 0
    BY <1>1
  <2> QED
    BY <2>1, <2>2, <2>3 DEF ReqTotal
<1>7. Counts
  BY <1>2, <1>6 DEF Counts
<1> QED
  BY <1>4, <1>5, <1>7 DEF ReqInv

LEMMA NextReqInv ==
  ASSUME Q!LimitReqAssumption, ReqInv, [Q!Next]_(Q!vars)
  PROVE  ReqInv'
<1>1. CASE Q!Next
  <2>0. UNCHANGED setup
    BY <1>1 DEF Q!Next
  <2>1. CASE Q!Tick
    BY <2>0, <2>1, TickStep
  <2>2. ASSUME NEW w \in Workers, Q!Step(w) PROVE ReqInv'
    <3>1. CASE Q!Start(w)
      BY <2>0, <3>1, StartStep
    <3>2. CASE Q!Skip(w)
      BY <2>0, <3>2, SkipStep
    <3>3. CASE Q!Back(w)
      BY <2>0, <3>3, BackStep
    <3>4. CASE Q!Crash(w)
      BY <2>0, <3>4, CrashStep
    <3>5. ASSUME Q!At(w), NEW k \in Keys(Q!Zone(w)), Q!Found(w, k) \/ Q!New(w, k) PROVE ReqInv'
      BY <2>0, <3>5, FoundStep, NewStep
    <3> QED
      BY <2>2, <3>1, <3>2, <3>3, <3>4, <3>5 DEF Q!Step, Keys, Q!Names
  <2> QED
    BY <1>1, <2>1, <2>2 DEF Q!Next
<1>2. CASE UNCHANGED Q!vars
  <2>1. UNCHANGED <<setup, zone, node, run, req_leaked>>
    BY <1>2 DEF Q!vars
  <2>2. Q!Zones' = Q!Zones /\ Q!Locations' = Q!Locations /\ Q!MaxLag' = Q!MaxLag
    BY <2>1 DEF Q!Zones, Q!Locations, Q!MaxLag
  <2>3. ReqTypeOK'
    <3>1. \A z : Keys(z)' = Keys(z)
      BY <2>2 DEF Keys, Q!Names
    <3>2. \A z : ZoneRec(z)' = ZoneRec(z)
      BY <3>1 DEF ZoneRec, Nodes
    <3>3. RunRec' = RunRec
      BY <2>2 DEF RunRec
    <3> QED
      BY <2>1, <2>2, <3>1, <3>2, <3>3 DEF ReqInv, ReqTypeOK, ZoneOK
  <2>4. Walks'
    BY <2>1, <2>2 DEF ReqInv, Walks, RunOK, Passed
  <2>5. Counts'
    BY <2>1, <2>2 DEF ReqInv, Counts, Keys, Q!Names, ReqTotal, Q!Holders
  <2> QED
    BY <2>3, <2>4, <2>5 DEF ReqInv
<1> QED
  BY <1>1, <1>2

LEMMA ReqCounted ==
  ASSUME Q!LimitReqAssumption, ReqInv
  PROVE  Q!Held
<1> SUFFICES ASSUME NEW z \in DOMAIN Q!Zones
             PROVE  /\ Q!IsInjective(zone[z].queue)
                    /\ Q!ToSet(zone[z].queue) = DOMAIN zone[z].node
                    /\ \A k \in Q!Names(z) :
                         /\ Q!Holders(z, k) # {} => k \in DOMAIN zone[z].node
                         /\ k \in DOMAIN zone[z].node =>
                              zone[z].node[k].count = Cardinality(Q!Holders(z, k)) + req_leaked[z][k]
  BY RateCardinality DEF Q!Held
<1>1. Q!IsInjective(zone[z].queue) /\ Q!ToSet(zone[z].queue) = DOMAIN zone[z].node
  BY DEF ReqInv, ReqTypeOK, ZoneOK
<1>2. ASSUME NEW k \in Keys(z), Q!Holders(z, k) # {} PROVE k \in DOMAIN zone[z].node
  <2>1. IsFiniteSet(Q!Holders(z, k)) /\ Cardinality(Q!Holders(z, k)) \in Nat
    BY HoldersOK
  <2>2. Cardinality(Q!Holders(z, k)) # 0
    BY <1>2, <2>1, FS_EmptySet
  <2>3. req_leaked[z][k] \in Nat
    BY DEF ReqInv, ReqTypeOK
  <2>4. ReqTotal(z, k) # 0
    BY <2>1, <2>2, <2>3 DEF ReqTotal
  <2> QED
    BY <2>4 DEF ReqInv, Counts
<1>3. ASSUME NEW k \in Keys(z), k \in DOMAIN zone[z].node
      PROVE  zone[z].node[k].count = Cardinality(Q!Holders(z, k)) + req_leaked[z][k]
  BY <1>3 DEF ReqInv, Counts, ReqTotal
<1> QED
  BY <1>1, <1>2, <1>3 DEF Keys, Q!Names

-----------------------------------------------------------------------------
Uses(z) == {u \in UNION {{l} \X DOMAIN l : l \in Q!Locations} : u[1][u[2]].zone = z}
Bursts(z) == {u[1][u[2]].burst : u \in Uses(z)}
Loose(z) == \E u \in Uses(z) : u[2] < Len(u[1])
Spare == Unit * (Cardinality(Workers) - 1)
Over(z) == IF Loose(z) THEN Spare ELSE 0

(* The excess of a node is within a burst, and stays so whatever requests of those that
   hold the node are accounted, and in whatever order. *)
Under(z, nd) == \E b \in Bursts(z) : nd.excess <= b + Over(z)
Ahead(z, nd, H, q) ==
  \A T \in SUBSET H : T # {} =>
    \E w \in T, b \in Bursts(z) :
      Q!Left(z, nd, q[w].lag) + Unit * Cardinality(T) <= b + Spare
Fits(z, nd, H, q) == Under(z, nd) /\ Ahead(z, nd, H, q)

Refs(m, z, k) == {v \in Workers : m[v][z] = k}

HeldLoose == \A w \in Workers : \A z \in DOMAIN Q!Zones : node[w][z] # None => Loose(z)
Bursting ==
  \A z \in DOMAIN Q!Zones : \A k \in DOMAIN zone[z].node :
    Fits(z, zone[z].node[k], Q!Holders(z, k), run)

-----------------------------------------------------------------------------
LEMMA Drained ==
  ASSUME NEW r \in Nat, NEW x \in Nat, NEW y \in Nat, NEW u \in Nat, x <= y + u
  PROVE  /\ r * x \in Nat /\ r * y \in Nat /\ r * u \in Nat
         /\ r * x <= r * y + r * u
<1>1. r * x \in Nat /\ r * y \in Nat /\ r * u \in Nat
  OBVIOUS
<1>2. PICK d \in Nat : y + u = x + d
  <2>1. y + u - x \in Nat /\ y + u = x + (y + u - x)
    OBVIOUS
  <2> QED
    BY <2>1
<1>3. r * (y + u) = r * y + r * u /\ r * (x + d) = r * x + r * d /\ r * d \in Nat
  OBVIOUS
<1> QED
  BY <1>1, <1>2, <1>3

LEMMA Monotone ==
  ASSUME NEW r \in Nat, NEW x \in Nat, NEW y \in Nat, x <= y
  PROVE  r * x \in Nat /\ r * y \in Nat /\ r * x <= r * y
<1>1. r * 0 = 0 /\ 0 \in Nat /\ x <= y + 0
  OBVIOUS
<1> QED
  BY <1>1, Drained

LEMMA AbsNat ==
  ASSUME NEW a \in Int, NEW b \in Int, NEW c \in Int
  PROVE  /\ Q!Abs(a - b) \in Nat /\ Q!Abs(b - c) \in Nat /\ Q!Abs(a - c) \in Nat
         /\ Q!Abs(a - c) <= Q!Abs(a - b) + Q!Abs(b - c)
BY DEF Q!Abs

(* What is left is a number, and no more than the excess. *)
LEMMA LeftIs ==
  ASSUME NEW z, Q!Zones[z].rate \in Nat, NEW nd \in NodeRec, NEW lag \in Nat
  PROVE  /\ Q!Left(z, nd, lag) \in Int /\ Q!Left(z, nd, lag) <= nd.excess
         /\ Q!Left(z, nd, lag) = nd.excess - Q!Zones[z].rate * Q!Abs(nd.age - lag)
         /\ Q!Zones[z].rate * Q!Abs(nd.age - lag) \in Nat
<1>1. nd.age \in Nat /\ nd.excess \in Nat
  BY DEF NodeRec
<1>2. Q!Abs(nd.age - lag) \in Nat
  BY <1>1 DEF Q!Abs
<1>3. Q!Zones[z].rate * Q!Abs(nd.age - lag) \in Nat
  BY <1>2
<1> QED
  BY <1>1, <1>3 DEF Q!Left

(* A later time to drain the bucket at is no help for the one that comes before it. *)
LEMMA LeftLater ==
  ASSUME NEW z, Q!Zones[z].rate \in Nat, NEW nd \in NodeRec, NEW md \in NodeRec,
         NEW lag \in Nat, NEW l \in Nat, md.age = lag
  PROVE  Q!Left(z, md, l) <= Q!Left(z, nd, l) + md.excess - Q!Left(z, nd, lag)
<1>1. PICK r \in Nat : r = Q!Zones[z].rate
  OBVIOUS
<1>2. nd.age \in Nat /\ nd.excess \in Nat /\ md.excess \in Nat
  BY DEF NodeRec
<1>3. PICK x, y, u \in Nat : /\ x = Q!Abs(nd.age - l) /\ y = Q!Abs(nd.age - lag) /\ u = Q!Abs(lag - l)
                             /\ x <= y + u
  BY <1>2, AbsNat
<1>4. /\ Q!Left(z, md, l) = md.excess - r * u
      /\ Q!Left(z, nd, l) = nd.excess - r * x
      /\ Q!Left(z, nd, lag) = nd.excess - r * y
  BY <1>1, <1>3 DEF Q!Left
<1>5. /\ r * x \in Nat /\ r * y \in Nat /\ r * u \in Nat
      /\ r * x <= r * y + r * u
  BY <1>3, Drained
<1> QED
  BY <1>2, <1>4, <1>5

-----------------------------------------------------------------------------
(* The bursts of a zone; one that is not used any more is drained by far. *)
LEMMA UseIs ==
  ASSUME NEW z, NEW u
  PROVE  u \in Uses(z) <=> \E l \in Q!Locations : \E i \in DOMAIN l : u = <<l, i>> /\ l[i].zone = z
<1>1. ASSUME u \in Uses(z)
      PROVE  \E l \in Q!Locations : \E i \in DOMAIN l : u = <<l, i>> /\ l[i].zone = z
  <2>1. PICK l \in Q!Locations : u \in {l} \X DOMAIN l
    BY <1>1 DEF Uses
  <2>2. PICK i \in DOMAIN l : u = <<l, i>>
    BY <2>1
  <2>3. u[1][u[2]].zone = z
    BY <1>1 DEF Uses
  <2> QED
    BY <2>2, <2>3
<1>2. ASSUME NEW l \in Q!Locations, NEW i \in DOMAIN l, u = <<l, i>>, l[i].zone = z
      PROVE  u \in Uses(z)
  BY <1>2 DEF Uses
<1> QED
  BY <1>1, <1>2

LEMMA BurstsOf ==
  ASSUME Q!LimitReqAssumption, setup \in ReqSetups, NEW z
  PROVE  \A b \in Bursts(z) :
           /\ b \in Nat /\ z \in DOMAIN Q!Zones
           /\ Q!Zones[z].rate * (Q!MaxAge - Q!MaxLag) >= b + Unit * Cardinality(Workers)
<1> SUFFICES ASSUME NEW b \in Bursts(z)
             PROVE  /\ b \in Nat /\ z \in DOMAIN Q!Zones
                    /\ Q!Zones[z].rate * (Q!MaxAge - Q!MaxLag) >= b + Unit * Cardinality(Workers)
  OBVIOUS
<1>1. PICK u \in Uses(z) : b = u[1][u[2]].burst
  BY DEF Bursts
<1>2. PICK l \in Q!Locations : \E i \in DOMAIN l : u = <<l, i>> /\ l[i].zone = z
  BY UseIs
<1>3. PICK i \in DOMAIN l : u = <<l, i>> /\ l[i].zone = z
  BY <1>2
<1>4. b = l[i].burst
  BY <1>1, <1>3
<1>5. l \in Seq([zone : DOMAIN Q!Zones, burst : Nat]) /\ i \in 1..Len(l)
  BY SetupSound
<1>6. l[i] \in [zone : DOMAIN Q!Zones, burst : Nat]
  BY <1>5, ElementOfSeq
<1>7. Q!Zones[l[i].zone].rate * (Q!MaxAge - Q!MaxLag) >= l[i].burst + Unit * Cardinality(Workers)
  BY RateCardinality DEF Q!LimitReqAssumption, Q!Zones, Q!Locations, Q!MaxAge, Q!MaxLag
<1> QED
  BY <1>3, <1>4, <1>6, <1>7

LEMMA UseAt ==
  ASSUME NEW z, NEW l \in Q!Locations, NEW i \in DOMAIN l, l[i].zone = z
  PROVE  l[i].burst \in Bursts(z) /\ (i < Len(l) => Loose(z))
<1>1. <<l, i>> \in Uses(z)
  BY UseIs
<1>2. PICK u \in Uses(z) : u = <<l, i>>
  BY <1>1
<1>3. u[1] = l /\ u[2] = i
  BY <1>2
<1> QED
  BY <1>3 DEF Bursts, Loose

(* Some of the workers. *)
LEMMA SomeWorkers ==
  ASSUME Q!LimitReqAssumption, NEW T \in SUBSET Workers, T # {}
  PROVE  /\ IsFiniteSet(T) /\ Cardinality(T) \in Nat \ {0} /\ Cardinality(T) <= Cardinality(Workers)
         /\ Cardinality(Workers) \in Nat \ {0} /\ Spare \in Nat
         /\ Unit * Cardinality(T) \in Nat
         /\ Unit * Cardinality(T) <= Spare + Unit
         /\ T # Workers => Unit * Cardinality(T) <= Spare
         /\ Unit * Cardinality(Workers) = Spare + Unit /\ Unit \in Nat \ {0}
<1>1. IsFiniteSet(Workers) /\ Unit \in Nat \ {0}
  BY RateFinite DEF Q!LimitReqAssumption
<1>2. IsFiniteSet(T) /\ Cardinality(T) \in Nat /\ Cardinality(T) <= Cardinality(Workers)
      /\ Cardinality(Workers) \in Nat /\ (Cardinality(T) = Cardinality(Workers) => T = Workers)
  BY <1>1, FS_Subset, FS_CardinalityType
<1>3. Cardinality(T) # 0
  BY <1>2, FS_EmptySet
<1>4. PICK n \in Nat \ {0} : n = Cardinality(Workers)
  BY <1>2, <1>3
<1>5. PICK m \in Nat \ {0} : m = Cardinality(T)
  BY <1>2, <1>3
<1>6. Spare = Unit * (n - 1) /\ n - 1 \in Nat /\ m <= n
  BY <1>2, <1>4, <1>5 DEF Spare
<1>7. Unit * (n - 1) \in Nat /\ Unit * n = Unit * (n - 1) + Unit /\ Unit * m \in Nat
  BY <1>1, <1>6
<1>8. Unit * m <= Unit * n
  BY <1>1, <1>6, Monotone
<1>9. T # Workers => m <= n - 1
  BY <1>2, <1>4, <1>5
<1>10. T # Workers => Unit * m <= Unit * (n - 1)
  BY <1>1, <1>6, <1>9, Monotone
<1> QED
  BY <1>1, <1>2, <1>3, <1>4, <1>5, <1>6, <1>7, <1>8, <1>10

-----------------------------------------------------------------------------
(* Fewer requests hold the node, whose bucket is as it was. *)
LEMMA FitsFewer ==
  ASSUME NEW z, NEW nd, NEW md, NEW H, NEW G \in SUBSET H, NEW q, NEW p,
         Fits(z, nd, H, q), md.excess = nd.excess, md.age = nd.age,
         \A w \in G : p[w].lag = q[w].lag
  PROVE  Fits(z, md, G, p)
<1>1. Under(z, md)
  BY DEF Fits, Under
<1>2. \A w \in G : Q!Left(z, md, p[w].lag) = Q!Left(z, nd, q[w].lag)
  BY DEF Q!Left
<1>3. Ahead(z, md, G, p)
  <2> SUFFICES ASSUME NEW T \in SUBSET G, T # {}
               PROVE  \E w \in T, b \in Bursts(z) :
                        Q!Left(z, md, p[w].lag) + Unit * Cardinality(T) <= b + Spare
    BY DEF Ahead
  <2>1. PICK w \in T, b \in Bursts(z) :
          Q!Left(z, nd, q[w].lag) + Unit * Cardinality(T) <= b + Spare
    BY DEF Fits, Ahead
  <2>2. Q!Left(z, md, p[w].lag) = Q!Left(z, nd, q[w].lag)
    BY <1>2
  <2> QED
    BY <2>1, <2>2
<1> QED
  BY <1>1, <1>3 DEF Fits

(* A request of a worker that does not hold the node was accounted at once. *)
LEMMA FitsSettled ==
  ASSUME Q!LimitReqAssumption, setup \in ReqSetups, NEW z \in DOMAIN Q!Zones, Q!Zones[z].rate \in Nat,
         NEW v \in Workers, NEW H \in SUBSET (Workers \ {v}), NEW nd \in NodeRec,
         NEW b \in Bursts(z), nd.excess <= b, NEW q, \A w \in H : q[w].lag \in Nat
  PROVE  Fits(z, nd, H, q)
<1>1. b \in Nat /\ nd.excess \in Nat
  BY BurstsOf DEF NodeRec
<1>2. Spare \in Nat
  BY SomeWorkers
<1>3. Under(z, nd)
  BY <1>1, <1>2 DEF Under, Over
<1>4. Ahead(z, nd, H, q)
  <2> SUFFICES ASSUME NEW T \in SUBSET H, T # {}
               PROVE  \E w \in T, c \in Bursts(z) :
                        Q!Left(z, nd, q[w].lag) + Unit * Cardinality(T) <= c + Spare
    BY DEF Ahead
  <2>1. T \in SUBSET Workers /\ T # Workers
    OBVIOUS
  <2>2. Unit * Cardinality(T) \in Nat /\ Unit * Cardinality(T) <= Spare
    BY <2>1, SomeWorkers
  <2>3. PICK w \in T : q[w].lag \in Nat
    OBVIOUS
  <2>4. Q!Left(z, nd, q[w].lag) \in Int /\ Q!Left(z, nd, q[w].lag) <= nd.excess
    BY <2>3, LeftIs
  <2>5. Q!Left(z, nd, q[w].lag) + Unit * Cardinality(T) <= b + Spare
    BY <1>1, <1>2, <2>2, <2>4
  <2> QED
    BY <2>5
<1> QED
  BY <1>3, <1>4 DEF Fits

(* One more request holds the node, which was within the burst for it. *)
LEMMA FitsJoin ==
  ASSUME Q!LimitReqAssumption, setup \in ReqSetups, NEW z \in DOMAIN Q!Zones, Q!Zones[z].rate \in Nat,
         NEW H \in SUBSET Workers, NEW v \in Workers, NEW nd \in NodeRec, NEW q,
         q[v].lag \in Nat, Fits(z, nd, H, q), NEW b \in Bursts(z),
         Q!Left(z, nd, q[v].lag) + Unit <= b
  PROVE  Fits(z, nd, H \cup {v}, q)
<1>1. ASSUME NEW T \in SUBSET (H \cup {v}), T # {}
      PROVE  \E w \in T, c \in Bursts(z) :
               Q!Left(z, nd, q[w].lag) + Unit * Cardinality(T) <= c + Spare
  <2>1. CASE v \in T
    <3>0. T \in SUBSET Workers /\ T # {}
      BY <1>1
    <3>1. /\ Unit * Cardinality(T) \in Nat /\ Unit * Cardinality(T) <= Spare + Unit
          /\ Spare \in Nat /\ Unit \in Nat
      BY <3>0, SomeWorkers
    <3>2. b \in Nat
      BY BurstsOf
    <3>3. Q!Left(z, nd, q[v].lag) \in Int
      BY LeftIs
    <3>4. Q!Left(z, nd, q[v].lag) + Unit * Cardinality(T) <= b + Spare
      BY <3>1, <3>2, <3>3
    <3> QED
      BY <2>1, <3>4
  <2>2. CASE v \notin T
    <3>1. T \in SUBSET H
      BY <2>2
    <3> QED
      BY <1>1, <3>1 DEF Fits, Ahead
  <2> QED
    BY <2>1, <2>2
<1> QED
  BY <1>1 DEF Fits, Ahead

(* A request that held the node is accounted. *)
LEMMA FitsAccount ==
  ASSUME Q!LimitReqAssumption, setup \in ReqSetups, NEW z \in DOMAIN Q!Zones, Q!Zones[z].rate \in Nat,
         NEW H \in SUBSET Workers, NEW v \in H, NEW nd \in NodeRec, NEW md \in NodeRec, NEW q,
         \A w \in H : q[w].lag \in Nat, Loose(z), Fits(z, nd, H, q),
         md.excess = Q!Excess(z, nd, q[v].lag), md.age = q[v].lag
  PROVE  Fits(z, md, H \ {v}, q)
<1>0. /\ Spare \in Nat /\ Unit \in Nat \ {0} /\ Over(z) = Spare /\ IsFiniteSet(Workers)
      /\ q[v].lag \in Nat
  BY RateFinite, SomeWorkers DEF Over, Q!LimitReqAssumption
<1>1. PICK x \in Int : x = Q!Left(z, nd, q[v].lag)
  BY <1>0, LeftIs
<1>2. md.excess = IF x + Unit < 0 THEN 0 ELSE x + Unit
  BY <1>1 DEF Q!Excess
<1>3. Under(z, md)
  <2>1. {v} \in SUBSET H /\ {v} # {}
    OBVIOUS
  <2>2. PICK w \in {v}, b \in Bursts(z) :
          Q!Left(z, nd, q[w].lag) + Unit * Cardinality({v}) <= b + Spare
    BY <2>1 DEF Fits, Ahead
  <2>3. Cardinality({v}) = 1 /\ Unit * 1 = Unit /\ b \in Nat
    <3>1. Cardinality({v}) = 1
      BY FS_Singleton
    <3>2. Unit * 1 = Unit
      BY <1>0
    <3>3. b \in Nat
      BY BurstsOf
    <3> QED
      BY <3>1, <3>2, <3>3
  <2>4. x + Unit <= b + Spare
    BY <1>1, <2>2, <2>3
  <2> QED
    BY <1>0, <1>1, <1>2, <2>3, <2>4 DEF Under
<1>4. ASSUME NEW T \in SUBSET (H \ {v}), T # {}
      PROVE  \E w \in T, b \in Bursts(z) :
               Q!Left(z, md, q[w].lag) + Unit * Cardinality(T) <= b + Spare
  <2>1. T \in SUBSET Workers /\ T # {} /\ T # Workers
    BY <1>4
  <2>2. /\ IsFiniteSet(T) /\ Unit * Cardinality(T) \in Nat /\ Unit * Cardinality(T) <= Spare
        /\ Cardinality(T) \in Nat
    BY <2>1, SomeWorkers
  <2>3. PICK w \in T \cup {v}, b \in Bursts(z) :
          Q!Left(z, nd, q[w].lag) + Unit * Cardinality(T \cup {v}) <= b + Spare
    <3>1. T \cup {v} \in SUBSET H /\ T \cup {v} # {}
      OBVIOUS
    <3> QED
      BY <3>1 DEF Fits, Ahead
  <2>4. Unit * Cardinality(T \cup {v}) = Unit * Cardinality(T) + Unit
    <3>1. v \notin T
      OBVIOUS
    <3>2. Cardinality(T \cup {v}) = Cardinality(T) + 1
      BY <2>2, <3>1, FS_AddElement
    <3> QED
      BY <1>0, <2>2, <3>2
  <2>5. b \in Nat /\ q[w].lag \in Nat
    BY BurstsOf
  <2>6. PICK y \in T : y = w \/ w = v
    BY <1>4
  <2>7. q[y].lag \in Nat /\ Q!Left(z, md, q[y].lag) \in Int /\ Q!Left(z, md, q[y].lag) <= md.excess
        /\ md.excess \in Nat
    <3>1. q[y].lag \in Nat /\ md.excess \in Nat
      BY DEF NodeRec
    <3> QED
      BY <3>1, LeftIs
  <2>8. CASE x + Unit < 0
    <3>1. Q!Left(z, md, q[y].lag) <= 0
      BY <1>2, <2>7, <2>8
    <3>2. Q!Left(z, md, q[y].lag) + Unit * Cardinality(T) <= b + Spare
      BY <1>0, <2>2, <2>5, <2>7, <3>1
    <3> QED
      BY <3>2
  <2>9. CASE x + Unit >= 0 /\ w = v
    <3>1. Q!Left(z, md, q[y].lag) <= x + Unit
      BY <1>0, <1>2, <2>7, <2>9
    <3>2. Q!Left(z, md, q[y].lag) + Unit * Cardinality(T) <= b + Spare
      BY <1>0, <1>1, <2>2, <2>3, <2>4, <2>5, <2>7, <2>9, <3>1
    <3> QED
      BY <3>2
  <2>10. CASE x + Unit >= 0 /\ y = w
    <3>1. PICK n \in Int : n = Q!Left(z, nd, q[w].lag)
      BY <2>5, LeftIs
    <3>2. Q!Left(z, md, q[w].lag) <= n + md.excess - x
      BY <1>0, <1>1, <2>5, <3>1, LeftLater
    <3>3. md.excess = x + Unit
      BY <1>0, <1>2, <2>10
    <3>4. Q!Left(z, md, q[w].lag) <= n + Unit /\ Q!Left(z, md, q[w].lag) \in Int
      BY <1>0, <2>7, <2>10, <3>2, <3>3
    <3>5. Q!Left(z, md, q[y].lag) + Unit * Cardinality(T) <= b + Spare
      BY <1>0, <2>2, <2>3, <2>4, <2>5, <2>10, <3>1, <3>4
    <3> QED
      BY <3>5
  <2> QED
    BY <1>0, <2>6, <2>8, <2>9, <2>10
<1>5. Ahead(z, md, H \ {v}, q)
  BY <1>4 DEF Ahead
<1> QED
  BY <1>3, <1>5 DEF Fits

(* The bucket of a node that is as old as can be told has room for every worker. *)
LEMMA FitsOld ==
  ASSUME Q!LimitReqAssumption, setup \in ReqSetups, NEW z \in DOMAIN Q!Zones, Q!Zones[z].rate \in Nat,
         NEW H \in SUBSET Workers, NEW nd \in NodeRec, NEW q,
         \A w \in H : q[w].lag \in 0..Q!MaxLag, nd.age >= Q!MaxAge, Under(z, nd)
  PROVE  Fits(z, nd, H, q)
<1>1. ASSUME NEW T \in SUBSET H, T # {}
      PROVE  \E w \in T, b \in Bursts(z) :
               Q!Left(z, nd, q[w].lag) + Unit * Cardinality(T) <= b + Spare
  <2>1. T \in SUBSET Workers /\ T # {}
    BY <1>1
  <2>2. /\ Unit * Cardinality(T) \in Nat /\ Unit * Cardinality(T) <= Spare + Unit
        /\ Spare \in Nat /\ Unit * Cardinality(Workers) = Spare + Unit /\ Unit \in Nat
    BY <2>1, SomeWorkers
  <2>3. PICK b \in Bursts(z) : nd.excess <= b + Over(z)
    BY DEF Under
  <2>4. PICK w \in T : q[w].lag \in 0..Q!MaxLag
    BY <1>1
  <2>5. b \in Nat /\ Q!Zones[z].rate * (Q!MaxAge - Q!MaxLag) >= b + Unit * Cardinality(Workers)
    BY BurstsOf
  <2>6. /\ Q!MaxLag \in Nat /\ Q!MaxAge \in Nat /\ Q!MaxLag <= Q!MaxAge /\ q[w].lag \in Nat
        /\ nd.age \in Nat /\ nd.excess \in Nat
    <3>1. Q!MaxLag \in Nat /\ Q!MaxAge \in Nat
      BY SetupSound
    <3>2. Idle \in Nat /\ Idle + Q!MaxLag <= Q!MaxAge
      BY DEF Q!LimitReqAssumption, Q!MaxLag, Q!MaxAge
    <3> QED
      BY <2>4, <3>1, <3>2 DEF NodeRec
  <2>7. PICK x \in Nat, y \in Nat : x = Q!MaxAge - Q!MaxLag /\ y = Q!Abs(nd.age - q[w].lag) /\ x <= y
    <3>1. Q!MaxAge - Q!MaxLag \in Nat
      BY <2>6
    <3>2. Q!Abs(nd.age - q[w].lag) = nd.age - q[w].lag /\ nd.age - q[w].lag \in Nat
          /\ Q!MaxAge - Q!MaxLag <= nd.age - q[w].lag
      BY <2>4, <2>6 DEF Q!Abs
    <3> QED
      BY <3>1, <3>2
  <2>8. Q!Zones[z].rate * x \in Nat /\ Q!Zones[z].rate * y \in Nat /\
          Q!Zones[z].rate * x <= Q!Zones[z].rate * y
    BY <2>7, Monotone
  <2>9. Q!Left(z, nd, q[w].lag) = nd.excess - Q!Zones[z].rate * y
    BY <2>7 DEF Q!Left
  <2>10. nd.excess <= b + Spare
    BY <2>2, <2>3, <2>5, <2>6 DEF Over
  <2>11. Q!Left(z, nd, q[w].lag) <= 0 - Unit /\ Q!Left(z, nd, q[w].lag) \in Int
    BY <2>2, <2>5, <2>6, <2>7, <2>8, <2>9, <2>10
  <2>12. Q!Left(z, nd, q[w].lag) + Unit * Cardinality(T) <= b + Spare
    BY <2>2, <2>5, <2>11
  <2> QED
    BY <2>12
<1>2. Ahead(z, nd, H, q)
  BY <1>1 DEF Ahead
<1> QED
  BY <1>2 DEF Fits

(* Time passes. *)
LEMMA FitsOlder ==
  ASSUME Q!LimitReqAssumption, setup \in ReqSetups, NEW z \in DOMAIN Q!Zones, Q!Zones[z].rate \in Nat,
         NEW H \in SUBSET Workers, NEW nd \in NodeRec, NEW q, NEW p,
         \A w \in H : q[w].lag \in Nat /\ p[w].lag = q[w].lag + 1 /\ p[w].lag \in 0..Q!MaxLag,
         Fits(z, nd, H, q)
  PROVE  Fits(z, Q!Older(nd), H, p)
<1>0. Q!MaxAge \in Nat /\ nd.age \in Nat
  BY SetupSound DEF NodeRec
<1>1. PICK md : md = Q!Older(nd)
  OBVIOUS
<1>2. /\ md \in NodeRec /\ md.excess = nd.excess
      /\ md.age = IF nd.age < Q!MaxAge THEN nd.age + 1 ELSE nd.age
  BY <1>0, <1>1 DEF Q!Older, NodeRec
<1>3. Under(z, md)
  BY <1>2 DEF Fits, Under
<1>4. CASE ~(nd.age < Q!MaxAge)
  <2>1. md.age >= Q!MaxAge
    BY <1>0, <1>2, <1>4
  <2> QED
    BY <1>1, <1>2, <1>3, <2>1, FitsOld
<1>5. CASE nd.age < Q!MaxAge
  <2>1. \A w \in H : Q!Left(z, md, p[w].lag) = Q!Left(z, nd, q[w].lag)
    <3> SUFFICES ASSUME NEW w \in H PROVE Q!Left(z, md, p[w].lag) = Q!Left(z, nd, q[w].lag)
      OBVIOUS
    <3>1. md.age - p[w].lag = nd.age - q[w].lag
      BY <1>0, <1>2, <1>5
    <3> QED
      BY <1>2, <3>1 DEF Q!Left
  <2>2. Ahead(z, md, H, p)
    <3> SUFFICES ASSUME NEW T \in SUBSET H, T # {}
                 PROVE  \E w \in T, b \in Bursts(z) :
                          Q!Left(z, md, p[w].lag) + Unit * Cardinality(T) <= b + Spare
      BY DEF Ahead
    <3>1. PICK w \in T, b \in Bursts(z) :
            Q!Left(z, nd, q[w].lag) + Unit * Cardinality(T) <= b + Spare
      BY DEF Fits, Ahead
    <3>2. Q!Left(z, md, p[w].lag) = Q!Left(z, nd, q[w].lag)
      BY <2>1
    <3> QED
      BY <3>1, <3>2
  <2> QED
    BY <1>1, <1>3, <2>2 DEF Fits
<1> QED
  BY <1>4, <1>5

-----------------------------------------------------------------------------
BurstInv == ReqInv /\ HeldLoose /\ Bursting

LEMMA FitsFrame ==
  ASSUME UNCHANGED setup,
         \A z \in DOMAIN Q!Zones : \A k \in DOMAIN zone'[z].node :
           Fits(z, zone'[z].node[k], Refs(node', z, k), run')
  PROVE  Bursting'
<1>1. Q!Zones' = Q!Zones /\ Q!Locations' = Q!Locations
  BY DEF Q!Zones, Q!Locations
<1>2. \A z : Uses(z)' = Uses(z)
  BY <1>1 DEF Uses
<1>3. \A z : Bursts(z)' = Bursts(z) /\ (Loose(z)' <=> Loose(z))
  BY <1>2 DEF Bursts, Loose
<1>4. \A z : Over(z)' = Over(z)
  BY <1>3 DEF Over, Spare
<1>5. \A z, nd, lag : Q!Left(z, nd, lag)' = Q!Left(z, nd, lag)
  BY <1>1 DEF Q!Left
<1> QED
  BY <1>1, <1>3, <1>4, <1>5 DEF Bursting, Fits, Under, Ahead, Q!Holders, Refs, Spare, Q!Left

(* All nodes but one are as they were, and nobody else holds them; those that hold the
   one were considered. *)
LEMMA NodeAlone ==
  ASSUME BurstInv, UNCHANGED setup, NEW y, NEW j,
         \A v \in Workers : \A z \in DOMAIN Q!Zones :
           node'[v][z] # None => run'[v].lag = run[v].lag,
         \A z \in DOMAIN Q!Zones : \A k \in DOMAIN zone'[z].node :
           \/ z = y /\ k = j
           \/ /\ k \in DOMAIN zone[z].node /\ k # None
              /\ zone'[z].node[k].excess = zone[z].node[k].excess
              /\ zone'[z].node[k].age = zone[z].node[k].age
              /\ \A v \in Workers : node'[v][z] = k => node[v][z] = k,
         y \in DOMAIN Q!Zones /\ j \in DOMAIN zone'[y].node =>
           Fits(y, zone'[y].node[j], Refs(node', y, j), run')
  PROVE  Bursting'
<1>1. ASSUME NEW z \in DOMAIN Q!Zones, NEW k \in DOMAIN zone'[z].node, ~(z = y /\ k = j)
      PROVE  Fits(z, zone'[z].node[k], Refs(node', z, k), run')
  <2>1. /\ k \in DOMAIN zone[z].node /\ k # None
        /\ zone'[z].node[k].excess = zone[z].node[k].excess
        /\ zone'[z].node[k].age = zone[z].node[k].age
        /\ \A v \in Workers : node'[v][z] = k => node[v][z] = k
    BY <1>1
  <2>2. PICK G : G = Refs(node', z, k)
    OBVIOUS
  <2>3. G \in SUBSET Q!Holders(z, k)
    BY <2>1, <2>2 DEF Q!Holders, Refs
  <2>4. \A v \in G : run'[v].lag = run[v].lag
    BY <2>1, <2>2 DEF Refs
  <2>5. Fits(z, zone[z].node[k], Q!Holders(z, k), run)
    BY <2>1 DEF BurstInv, Bursting
  <2>6. PICK nd, md, p : nd = zone[z].node[k] /\ md = zone'[z].node[k] /\ p = run'
    OBVIOUS
  <2>7. md.excess = nd.excess /\ md.age = nd.age /\ \A v \in G : p[v].lag = run[v].lag
    BY <2>1, <2>4, <2>6
  <2>8. Fits(z, md, G, p)
    BY <2>3, <2>5, <2>6, <2>7, FitsFewer
  <2> QED
    BY <2>2, <2>6, <2>8
<1>2. \A z \in DOMAIN Q!Zones : \A k \in DOMAIN zone'[z].node :
        Fits(z, zone'[z].node[k], Refs(node', z, k), run')
  <2> SUFFICES ASSUME NEW z \in DOMAIN Q!Zones, NEW k \in DOMAIN zone'[z].node
               PROVE  Fits(z, zone'[z].node[k], Refs(node', z, k), run')
    OBVIOUS
  <2>1. CASE z = y /\ k = j
    BY <2>1
  <2>2. CASE ~(z = y /\ k = j)
    BY <1>1, <2>2
  <2> QED
    BY <2>1, <2>2
<1> QED
  BY <1>2, FitsFrame

(* A worker that holds a node keeps its clock. *)
LEMMA GotoLags ==
  ASSUME ReqInv, ReqInv', UNCHANGED setup, NEW w \in Workers, NEW at, NEW n, Q!Goto(w, at, n)
  PROVE  \A v \in Workers : \A z \in DOMAIN Q!Zones : node'[v][z] # None => run'[v].lag = run[v].lag
<1>1. Q!Zones' = Q!Zones
  BY DEF Q!Zones
<1>2. \A v \in Workers : \A z \in DOMAIN Q!Zones : node'[v][z] # None => run'[v].pc # "idle"
  BY <1>1 DEF ReqInv, Walks, Passed
<1>3. run \in [Workers -> RunRec]
  BY DEF ReqInv, ReqTypeOK
<1>4. PICK q : q = IF n = 0 THEN Q!IdleRun ELSE [run[w] EXCEPT !.pc = at, !.n = n]
  OBVIOUS
<1>5. run' = [run EXCEPT ![w] = q]
  BY <1>4 DEF Q!Goto
<1>6. \A v \in Workers : run'[v] = IF v = w THEN q ELSE run[v]
  BY <1>3, <1>5
<1>7. q.pc # "idle" => q.lag = run[w].lag
  <2>1. run[w] \in RunRec
    BY <1>3
  <2> QED
    BY <1>4, <2>1 DEF Q!IdleRun, RunRec
<1> QED
  BY <1>2, <1>6, <1>7

LEMMA LooseFrame ==
  ASSUME BurstInv, UNCHANGED setup,
         \A v \in Workers : \A z \in DOMAIN Q!Zones :
           node'[v][z] = node[v][z] \/ node'[v][z] = None \/ Loose(z)
  PROVE  HeldLoose'
<1>1. Q!Zones' = Q!Zones /\ Q!Locations' = Q!Locations
  BY DEF Q!Zones, Q!Locations
<1>2. \A z : Uses(z)' = Uses(z)
  BY <1>1 DEF Uses
<1>3. \A z : Loose(z)' <=> Loose(z)
  BY <1>2 DEF Loose
<1>4. \A v \in Workers : \A z \in DOMAIN Q!Zones : node'[v][z] # None => Loose(z)
  BY DEF BurstInv, HeldLoose
<1> QED
  BY <1>1, <1>3, <1>4 DEF HeldLoose

(* The limit that a look-up is at. *)
LEMMA LimitAt ==
  ASSUME Q!LimitReqAssumption, ReqInv, NEW w \in Workers, Q!At(w)
  PROVE  /\ Q!Zone(w) \in DOMAIN Q!Zones /\ run[w].lag \in Nat /\ Q!Zones[Q!Zone(w)].rate \in Nat
         /\ Q!Limit(w).burst \in Bursts(Q!Zone(w)) /\ Q!Limit(w).burst \in Nat
         /\ ~Q!IsLast(w) => Loose(Q!Zone(w))
<1>1. /\ run[w].limits \in Q!Locations /\ run[w].n \in 1..Len(run[w].limits)
      /\ Q!Zone(w) \in DOMAIN Q!Zones /\ Q!Zone(w) = run[w].limits[run[w].n].zone
      /\ run[w].limits[run[w].n].burst \in Nat
      /\ run[w].lag \in Nat /\ Len(run[w].limits) \in Nat
  BY ZoneAt DEF Q!At
<1>2. run[w].n \in DOMAIN run[w].limits
  BY <1>1, SetupSound DEF ReqInv, ReqTypeOK
<1>3. Q!Limit(w) = run[w].limits[run[w].n]
  BY DEF Q!Limit
<1>4. Q!Limit(w).burst \in Bursts(Q!Zone(w)) /\ (run[w].n < Len(run[w].limits) => Loose(Q!Zone(w)))
  BY <1>1, <1>2, <1>3, UseAt
<1>5. ~Q!IsLast(w) => run[w].n < Len(run[w].limits)
  BY <1>1 DEF Q!IsLast
<1>6. Q!Zones[Q!Zone(w)].rate \in Nat
  BY <1>1, NoneIsNoKey DEF ReqInv
<1> QED
  BY <1>1, <1>3, <1>4, <1>5, <1>6

(* The keys of the nodes are never None, and who holds a node has a clock. *)
LEMMA NodesAre ==
  ASSUME Q!LimitReqAssumption, ReqInv, NEW z \in DOMAIN Q!Zones
  PROVE  /\ \A k \in DOMAIN zone[z].node : k # None /\ k \in Keys(z) /\ zone[z].node[k] \in NodeRec
         /\ Q!Zones[z].rate \in Nat
         /\ \A w \in Workers : run[w].lag \in Nat /\ run[w].lag \in 0..Q!MaxLag
<1>1. \A k \in DOMAIN zone[z].node : k \in Keys(z) /\ zone[z].node[k] \in NodeRec
  BY NodeAt
<1>2. None \notin Keys(z) /\ Q!Zones[z].rate \in Nat
  BY NoneIsNoKey DEF ReqInv
<1>3. \A w \in Workers : run[w].lag \in 0..Q!MaxLag
  BY DEF ReqInv, ReqTypeOK, RunRec
<1>4. Q!MaxLag \in Nat
  BY SetupSound DEF ReqInv, ReqTypeOK
<1>5. \A w \in Workers : run[w].lag \in Nat
  BY <1>3, <1>4
<1> QED
  BY <1>1, <1>2, <1>3, <1>5

-----------------------------------------------------------------------------
(* Nodes went, or lost a reference. *)
LEMMA FewerNodes ==
  ASSUME Q!LimitReqAssumption, BurstInv, UNCHANGED setup,
         \A v \in Workers : \A z \in DOMAIN Q!Zones :
           /\ node'[v][z] # None => run'[v].lag = run[v].lag
           /\ node'[v][z] = node[v][z] \/ node'[v][z] = None,
         \A z \in DOMAIN Q!Zones : \A k \in DOMAIN zone'[z].node :
           /\ k \in DOMAIN zone[z].node
           /\ zone'[z].node[k].excess = zone[z].node[k].excess
           /\ zone'[z].node[k].age = zone[z].node[k].age
  PROVE  HeldLoose' /\ Bursting'
<1>1. HeldLoose'
  BY LooseFrame
<1>2. \A z \in DOMAIN Q!Zones : \A k \in DOMAIN zone[z].node : k # None
  BY NodesAre DEF BurstInv
<1>3. PICK y, j : y = None /\ j = None
  OBVIOUS
<1>a. y \in DOMAIN Q!Zones => j \notin DOMAIN zone'[y].node
  BY <1>2, <1>3
<1>b. \A v \in Workers : \A z \in DOMAIN Q!Zones :
        node'[v][z] # None => run'[v].lag = run[v].lag
  OBVIOUS
<1>c. \A z \in DOMAIN Q!Zones : \A k \in DOMAIN zone'[z].node :
        \/ z = y /\ k = j
        \/ /\ k \in DOMAIN zone[z].node /\ k # None
           /\ zone'[z].node[k].excess = zone[z].node[k].excess
           /\ zone'[z].node[k].age = zone[z].node[k].age
           /\ \A v \in Workers : node'[v][z] = k => node[v][z] = k
  BY <1>2
<1>d. BurstInv /\ UNCHANGED setup
  OBVIOUS
<1>e. y \in DOMAIN Q!Zones /\ j \in DOMAIN zone'[y].node =>
        Fits(y, zone'[y].node[j], Refs(node', y, j), run')
  BY <1>a
<1>4. Bursting'
  BY ONLY <1>b, <1>c, <1>d, <1>e, NodeAlone
<1> QED
  BY <1>1, <1>4

LEMMA StillBurst ==
  ASSUME Q!LimitReqAssumption, BurstInv, ReqInv', NEW w \in Workers, Q!Start(w) \/ Q!Skip(w),
         UNCHANGED setup
  PROVE  BurstInv'
<1>1. UNCHANGED <<zone, node>>
  BY DEF Q!Start, Q!Skip
<1>2. \A v \in Workers : \A z \in DOMAIN Q!Zones : node'[v][z] # None => run'[v].lag = run[v].lag
  <2>1. CASE Q!Skip(w)
    BY <2>1, GotoLags DEF Q!Skip, BurstInv
  <2>2. CASE Q!Start(w)
    <3>1. \A z \in DOMAIN Q!Zones : node[w][z] = None
      BY <2>2 DEF BurstInv, ReqInv, Walks, Passed, Q!Start
    <3>2. run \in [Workers -> RunRec]
      BY DEF BurstInv, ReqInv, ReqTypeOK
    <3>3. \A v \in Workers : v # w => run'[v] = run[v]
      BY <2>2, <3>2 DEF Q!Start
    <3> QED
      BY <1>1, <3>1, <3>3
  <2> QED
    BY <2>1, <2>2
<1>3. HeldLoose' /\ Bursting'
  BY <1>1, <1>2, FewerNodes
<1> QED
  BY <1>3 DEF BurstInv

LEMMA CrashBurst ==
  ASSUME Q!LimitReqAssumption, BurstInv, ReqInv', NEW w \in Workers, Q!Crash(w), UNCHANGED setup
  PROVE  BurstInv'
<1>1. /\ zone' = zone /\ node' = [node EXCEPT ![w] = [z \in DOMAIN Q!Zones |-> None]]
      /\ run' = [run EXCEPT ![w] = Q!IdleRun]
  BY DEF Q!Crash
<1>2. /\ run \in [Workers -> RunRec] /\ DOMAIN node = Workers
  BY DEF BurstInv, ReqInv, ReqTypeOK
<1>3. \A v \in Workers : \A z \in DOMAIN Q!Zones :
        /\ node'[v][z] = IF v = w THEN None ELSE node[v][z]
        /\ v # w => run'[v] = run[v]
  BY <1>1, <1>2
<1>4. HeldLoose' /\ Bursting'
  BY <1>1, <1>3, FewerNodes
<1> QED
  BY <1>4 DEF BurstInv

LEMMA TickBurst ==
  ASSUME Q!LimitReqAssumption, BurstInv, ReqInv', Q!Tick, UNCHANGED setup
  PROVE  BurstInv'
<1>0. ReqInv /\ Bursting /\ setup \in ReqSetups
  BY DEF BurstInv, ReqInv, ReqTypeOK
<1>1. /\ zone' = [z \in DOMAIN Q!Zones |->
                    [zone[z] EXCEPT !.node =
                      [k \in DOMAIN zone[z].node |-> Q!Older(zone[z].node[k])]]]
      /\ run' = [w \in Workers |-> IF run[w].pc = "idle" THEN run[w]
                                   ELSE [run[w] EXCEPT !.lag = @ + 1]]
      /\ node' = node
  BY DEF Q!Tick
<1>2. HeldLoose'
  BY <1>1, LooseFrame
<1>3. ASSUME NEW z \in DOMAIN Q!Zones, NEW k \in DOMAIN zone'[z].node
      PROVE  Fits(z, zone'[z].node[k], Refs(node', z, k), run')
  <2>1. zone[z] \in ZoneRec(z)
    BY <1>0 DEF ReqInv, ReqTypeOK, ZoneOK
  <2>2. PICK m : m = [x \in DOMAIN zone[z].node |-> Q!Older(zone[z].node[x])]
    OBVIOUS
  <2>3. zone'[z] = [zone[z] EXCEPT !.node = m]
    BY <1>1, <2>2
  <2>4. zone'[z].node = m
    BY <2>1, <2>3 DEF ZoneRec
  <2>5. k \in DOMAIN zone[z].node /\ zone'[z].node[k] = Q!Older(zone[z].node[k])
    BY <1>3, <2>2, <2>4
  <2>6. PICK nd \in NodeRec : nd = zone[z].node[k]
    BY <1>0, <2>5, NodesAre
  <2>7. PICK H \in SUBSET Workers : H = Q!Holders(z, k) /\ H = Refs(node', z, k)
    BY <1>1 DEF Q!Holders, Refs
  <2>8. PICK p : p = run'
    OBVIOUS
  <2>9. Q!Zones[z].rate \in Nat /\ k # None
    BY <1>0, <2>5, NodesAre
  <2>10. \A w \in H : run[w].lag \in Nat /\ p[w].lag = run[w].lag + 1 /\ p[w].lag \in 0..Q!MaxLag
    <3> SUFFICES ASSUME NEW w \in H
                 PROVE  run[w].lag \in Nat /\ p[w].lag = run[w].lag + 1 /\ p[w].lag \in 0..Q!MaxLag
      OBVIOUS
    <3>1. w \in Workers /\ node[w][z] # None
      BY <2>7, <2>9 DEF Q!Holders
    <3>2. run[w].pc # "idle"
      BY <1>0, <3>1 DEF ReqInv, Walks, Passed
    <3>3. run[w] \in RunRec /\ run[w].lag \in Nat
      BY <1>0, <3>1, NodesAre DEF ReqInv, ReqTypeOK
    <3>4. run'[w] = [run[w] EXCEPT !.lag = @ + 1]
      BY <1>1, <3>1, <3>2
    <3>5. run'[w].lag = run[w].lag + 1
      BY <3>3, <3>4 DEF RunRec
    <3>6. Q!MaxLag' = Q!MaxLag /\ run'[w] \in RunRec'
      BY <3>1 DEF Q!MaxLag, ReqInv, ReqTypeOK
    <3>7. run'[w].lag \in 0..Q!MaxLag
      BY <3>6 DEF RunRec
    <3> QED
      BY <2>8, <3>3, <3>5, <3>7
  <2>11. Fits(z, nd, H, run)
    BY <1>0, <2>5, <2>6, <2>7 DEF Bursting
  <2>12. Fits(z, Q!Older(nd), H, p)
    BY <1>0, <2>9, <2>10, <2>11, FitsOlder
  <2> QED
    BY <2>5, <2>6, <2>7, <2>8, <2>12
<1>4. Bursting'
  BY <1>3, FitsFrame
<1> QED
  BY <1>2, <1>4 DEF BurstInv

LEMMA LagsAfter ==
  ASSUME Q!LimitReqAssumption, ReqInv', UNCHANGED setup
  PROVE  \A v \in Workers : run'[v].lag \in Nat /\ run'[v].lag \in 0..Q!MaxLag
<1>1. Q!MaxLag' = Q!MaxLag /\ setup \in ReqSetups /\ run' \in [Workers -> RunRec']
  BY DEF Q!MaxLag, ReqInv, ReqTypeOK
<1>2. Q!MaxLag \in Nat
  BY <1>1, SetupSound
<1>3. \A v \in Workers : run'[v].lag \in 0..Q!MaxLag
  BY <1>1 DEF RunRec
<1> QED
  BY <1>2, <1>3

(* A look-up in zone y that does no more than to drop nodes, or to move one. *)
LEMMA ZoneFewer ==
  ASSUME Q!LimitReqAssumption, BurstInv, ReqInv', UNCHANGED <<setup, node>>,
         NEW w \in Workers, NEW at, NEW n, Q!Goto(w, at, n),
         NEW y \in DOMAIN Q!Zones, NEW t, zone' = [zone EXCEPT ![y] = t],
         DOMAIN t.node \subseteq DOMAIN zone[y].node,
         \A k \in DOMAIN t.node : t.node[k] = zone[y].node[k]
  PROVE  BurstInv'
<1>1. DOMAIN zone = DOMAIN Q!Zones /\ ReqInv
  BY DEF BurstInv, ReqInv, ReqTypeOK
<1>2. \A z \in DOMAIN Q!Zones : zone'[z] = IF z = y THEN t ELSE zone[z]
  BY <1>1
<1>3. \A v \in Workers : \A z \in DOMAIN Q!Zones : node'[v][z] # None => run'[v].lag = run[v].lag
  BY <1>1, GotoLags
<1>4. HeldLoose' /\ Bursting'
  BY <1>2, <1>3, FewerNodes
<1> QED
  BY <1>4 DEF BurstInv

(* A step that leaves in zone y what was there, except for a node j of which the bucket fits. *)
LEMMA ZoneOther ==
  ASSUME Q!LimitReqAssumption, BurstInv, ReqInv', UNCHANGED setup,
         NEW w \in Workers, NEW at, NEW n, Q!Goto(w, at, n),
         NEW y \in DOMAIN Q!Zones, NEW t, zone' = [zone EXCEPT ![y] = t],
         NEW j \in DOMAIN t.node,
         \A v \in Workers : \A z \in DOMAIN Q!Zones :
           node'[v][z] = node[v][z] \/ node'[v][z] = None \/ (z = y /\ node'[v][z] = j),
         \A k \in DOMAIN t.node \ {j} : k \in DOMAIN zone[y].node /\ t.node[k] = zone[y].node[k],
         Fits(y, t.node[j], Refs(node', y, j), run')
  PROVE  Bursting'
<1>1. DOMAIN zone = DOMAIN Q!Zones /\ ReqInv
  BY DEF BurstInv, ReqInv, ReqTypeOK
<1>2. \A z \in DOMAIN Q!Zones : zone'[z] = IF z = y THEN t ELSE zone[z]
  BY <1>1
<1>4. \A v \in Workers : \A z \in DOMAIN Q!Zones : node'[v][z] # None => run'[v].lag = run[v].lag
  BY <1>1, GotoLags
<1>5. \A z \in DOMAIN Q!Zones : \A k \in DOMAIN zone[z].node : k # None
  BY <1>1, NodesAre
<1>6. \A z \in DOMAIN Q!Zones : \A k \in DOMAIN zone'[z].node :
        \/ z = y /\ k = j
        \/ /\ k \in DOMAIN zone[z].node /\ k # None
           /\ zone'[z].node[k].excess = zone[z].node[k].excess
           /\ zone'[z].node[k].age = zone[z].node[k].age
           /\ \A v \in Workers : node'[v][z] = k => node[v][z] = k
  BY <1>2, <1>5
<1>7. BurstInv /\ UNCHANGED setup
  OBVIOUS
<1>8. y \in DOMAIN Q!Zones /\ j \in DOMAIN zone'[y].node =>
        Fits(y, zone'[y].node[j], Refs(node', y, j), run')
  BY <1>2
<1> QED
  BY ONLY <1>4, <1>6, <1>7, <1>8, NodeAlone

LEMMA FoundBurst ==
  ASSUME Q!LimitReqAssumption, BurstInv, ReqInv', NEW w \in Workers, Q!At(w),
         NEW k \in Keys(Q!Zone(w)), Q!Found(w, k), UNCHANGED setup
  PROVE  BurstInv'
<1>a. ReqInv /\ setup \in ReqSetups
  BY DEF BurstInv, ReqInv, ReqTypeOK
<1>0. PICK y : y = Q!Zone(w)
  OBVIOUS
<1>b. PICK b : b = Q!Limit(w).burst
  OBVIOUS
<1>1. /\ y \in DOMAIN Q!Zones /\ run[w].lag \in Nat /\ Q!Zones[y].rate \in Nat /\ node[w][y] = None
      /\ b \in Bursts(y) /\ b \in Nat /\ (~Q!IsLast(w) => Loose(y))
  BY <1>a, <1>0, <1>b, LimitAt, NoneHeldAt
<1>2. k \in DOMAIN zone[y].node
  BY <1>0 DEF Q!Found
<1>c. PICK s : s = Q!ToHead(zone[y], k)
  OBVIOUS
<1>d. PICK nd : nd = s.node[k]
  OBVIOUS
<1>3. /\ ZoneOK(y, s) /\ s.node = zone[y].node /\ nd \in NodeRec /\ nd = zone[y].node[k]
      /\ k \in Keys(y) /\ k # None
  BY <1>a, <1>1, <1>2, <1>c, <1>d, NodeAt, ToHeadOK, NodesAre
<1>e. ~Q!TooMany(w, nd) => Q!Left(y, nd, run[w].lag) + Unit <= b /\ Q!Excess(y, nd, run[w].lag) <= b
  <2>1. Q!Excess(y, nd, run[w].lag) \in Nat /\ Q!Left(y, nd, run[w].lag) \in Int
    BY <1>a, <1>1, <1>3, ExcessNat, LeftIs
  <2>2. Unit \in Nat
    BY DEF Q!LimitReqAssumption
  <2>3. Q!TooMany(w, nd) <=> Q!Excess(y, nd, run[w].lag) > b
    BY <1>0, <1>b DEF Q!TooMany
  <2> QED
    BY <1>1, <2>1, <2>2, <2>3 DEF Q!Excess
<1>f. /\ DOMAIN node = Workers /\ DOMAIN node[w] = DOMAIN Q!Zones
      /\ \A v \in Workers : DOMAIN node[v] = DOMAIN Q!Zones
  BY <1>a DEF ReqInv, ReqTypeOK
<1>4. CASE /\ zone' = [zone EXCEPT ![y] = s]
           /\ Q!Goto(w, "drop", run[w].n - 1) /\ UNCHANGED <<node, req_leaked>>
  BY <1>1, <1>3, <1>4, ZoneFewer
<1>5. CASE /\ ~Q!TooMany(w, nd)
           /\ zone' = [zone EXCEPT ![y] =
                         Q!Put(s, k, [nd EXCEPT !.excess = Q!Excess(y, nd, run[w].lag),
                                                !.age = run[w].lag])]
           /\ Q!Goto(w, "account", run[w].n - 1) /\ UNCHANGED <<node, req_leaked>>
  <2>2. PICK e : e = [nd EXCEPT !.excess = Q!Excess(y, nd, run[w].lag), !.age = run[w].lag]
    OBVIOUS
  <2>3. e \in NodeRec /\ e.excess = Q!Excess(y, nd, run[w].lag)
    BY <1>a, <1>1, <1>3, <2>2, ExcessNat DEF NodeRec
  <2>4. PICK t : t = Q!Put(s, k, e)
    OBVIOUS
  <2>5. /\ ZoneOK(y, t) /\ DOMAIN t.node = DOMAIN s.node /\ t.node[k] = e
        /\ \A x \in DOMAIN s.node \ {k} : t.node[x] = s.node[x]
    BY <1>2, <1>3, <2>3, <2>4, PutOK
  <2>6. zone' = [zone EXCEPT ![y] = t]
    BY <1>5, <2>2, <2>4
  <2>7. \A v \in Workers : \A z \in DOMAIN Q!Zones :
          node'[v][z] = node[v][z] \/ node'[v][z] = None \/ (z = y /\ node'[v][z] = k)
    BY <1>5
  <2>8. PICK H \in SUBSET (Workers \ {w}) : H = Refs(node', y, k)
    BY <1>1, <1>3, <1>5 DEF Refs
  <2>9. PICK p : p = run' /\ \A v \in H : p[v].lag \in Nat
    BY LagsAfter
  <2>10. e.excess <= b
    BY <1>5, <1>e, <2>3
  <2>11. Fits(y, e, H, p)
    BY <1>a, <1>1, <2>3, <2>9, <2>10, FitsSettled
  <2>12. Fits(y, t.node[k], Refs(node', y, k), run')
    BY <2>5, <2>8, <2>9, <2>11
  <2>13. k \in DOMAIN t.node /\ \A x \in DOMAIN t.node \ {k} :
           x \in DOMAIN zone[y].node /\ t.node[x] = zone[y].node[x]
    BY <1>2, <1>3, <2>5
  <2>a. /\ Q!LimitReqAssumption /\ BurstInv /\ ReqInv' /\ UNCHANGED setup /\ w \in Workers
        /\ Q!Goto(w, "account", run[w].n - 1) /\ y \in DOMAIN Q!Zones
    BY <1>1, <1>5
  <2>14. Bursting'
    BY ONLY <2>a, <2>6, <2>7, <2>12, <2>13, ZoneOther
  <2>15. HeldLoose'
    BY <1>5, LooseFrame
  <2> QED
    BY <2>14, <2>15 DEF BurstInv
<1>6. CASE /\ ~Q!TooMany(w, nd) /\ ~Q!IsLast(w)
           /\ zone' = [zone EXCEPT ![y] = Q!Put(s, k, [nd EXCEPT !.count = @ + 1])]
           /\ node' = [node EXCEPT ![w][y] = k]
           /\ Q!Goto(w, "lookup", run[w].n + 1) /\ UNCHANGED req_leaked
  <2>2. PICK e : e = [nd EXCEPT !.count = @ + 1]
    OBVIOUS
  <2>3. e \in NodeRec /\ e.excess = nd.excess /\ e.age = nd.age
    BY <1>3, <2>2 DEF NodeRec
  <2>4. PICK t : t = Q!Put(s, k, e)
    OBVIOUS
  <2>5. /\ ZoneOK(y, t) /\ DOMAIN t.node = DOMAIN s.node /\ t.node[k] = e
        /\ \A x \in DOMAIN s.node \ {k} : t.node[x] = s.node[x]
    BY <1>2, <1>3, <2>3, <2>4, PutOK
  <2>6. zone' = [zone EXCEPT ![y] = t]
    BY <1>6, <2>2, <2>4
  <2>7. \A v \in Workers : \A z \in DOMAIN Q!Zones :
          node'[v][z] = IF v = w /\ z = y THEN k ELSE node[v][z]
    BY <1>6, <1>f
  <2>8. PICK H \in SUBSET Workers : H = Q!Holders(y, k)
    BY DEF Q!Holders
  <2>9. Refs(node', y, k) = H \cup {w}
    BY <1>1, <2>7, <2>8 DEF Refs, Q!Holders
  <2>10. Fits(y, nd, H, run)
    BY <1>1, <1>2, <1>3, <2>8 DEF BurstInv, Bursting
  <2>11. Fits(y, nd, H \cup {w}, run)
    BY <1>a, <1>1, <1>3, <1>6, <1>e, <2>10, FitsJoin
  <2>12. \A v \in Workers : \A z \in DOMAIN Q!Zones : node'[v][z] # None => run'[v].lag = run[v].lag
    BY <1>a, <1>6, GotoLags
  <2>13. \A v \in H \cup {w} : run'[v].lag = run[v].lag
    BY <1>1, <1>3, <2>9, <2>12 DEF Refs
  <2>14. PICK G \in SUBSET (H \cup {w}) : G = Refs(node', y, k)
    BY <2>9
  <2>15. PICK p : p = run' /\ \A v \in G : p[v].lag = run[v].lag
    BY <2>13
  <2>16. Fits(y, e, G, p)
    BY <2>3, <2>11, <2>15, FitsFewer
  <2>17. Fits(y, t.node[k], Refs(node', y, k), run')
    BY <2>5, <2>14, <2>15, <2>16
  <2>18. k \in DOMAIN t.node /\ \A x \in DOMAIN t.node \ {k} :
           x \in DOMAIN zone[y].node /\ t.node[x] = zone[y].node[x]
    BY <1>2, <1>3, <2>5
  <2>19. \A v \in Workers : \A z \in DOMAIN Q!Zones :
           node'[v][z] = node[v][z] \/ node'[v][z] = None \/ (z = y /\ node'[v][z] = k)
    BY <2>7
  <2>a. /\ Q!LimitReqAssumption /\ BurstInv /\ ReqInv' /\ UNCHANGED setup /\ w \in Workers
        /\ Q!Goto(w, "lookup", run[w].n + 1) /\ y \in DOMAIN Q!Zones
    BY <1>1, <1>6
  <2>20. Bursting'
    BY ONLY <2>a, <2>6, <2>17, <2>18, <2>19, ZoneOther
  <2>21. HeldLoose'
    BY <1>1, <1>6, <2>7, LooseFrame
  <2> QED
    BY <2>20, <2>21 DEF BurstInv
<1> QED
  BY <1>0, <1>c, <1>d, <1>4, <1>5, <1>6 DEF Q!Found

LEMMA NewBurst ==
  ASSUME Q!LimitReqAssumption, BurstInv, ReqInv', NEW w \in Workers, Q!At(w),
         NEW k \in Keys(Q!Zone(w)), Q!New(w, k), UNCHANGED setup
  PROVE  BurstInv'
<1>a. ReqInv /\ setup \in ReqSetups
  BY DEF BurstInv, ReqInv, ReqTypeOK
<1>0. PICK y : y = Q!Zone(w)
  OBVIOUS
<1>b. PICK b : b = Q!Limit(w).burst
  OBVIOUS
<1>1. /\ y \in DOMAIN Q!Zones /\ run[w].lag \in Nat /\ Q!Zones[y].rate \in Nat /\ node[w][y] = None
      /\ b \in Bursts(y) /\ b \in Nat /\ (~Q!IsLast(w) => Loose(y))
  BY <1>a, <1>0, <1>b, LimitAt, NoneHeldAt
<1>2. k \notin DOMAIN zone[y].node /\ k \in Keys(y) /\ k # None
  BY <1>a, <1>0, <1>1, NoneIsNoKey DEF Q!New, ReqInv
<1>3. PICK s : s = Q!MakeRoom(y, run[w].lag)
  OBVIOUS
<1>4. /\ ZoneOK(y, s) /\ DOMAIN s.node \subseteq DOMAIN zone[y].node
      /\ \A x \in DOMAIN s.node : s.node[x] = zone[y].node[x]
  <2>1. ZoneOK(y, zone[y])
    BY <1>a, <1>1 DEF ReqInv, ReqTypeOK
  <2>2. Kept(y, zone[y], s)
    BY <1>3, <2>1, MakeRoomKept
  <2> QED
    BY <2>2 DEF Kept
<1>6. k \in Keys(y) \ DOMAIN s.node
  BY <1>2, <1>4
<1>7. CASE /\ zone' = [zone EXCEPT ![y] = s]
           /\ Q!Goto(w, "drop", run[w].n - 1) /\ UNCHANGED <<node, req_leaked>>
  BY <1>1, <1>4, <1>7, ZoneFewer
<1>8. CASE /\ zone' = [zone EXCEPT ![y] =
                         Q!Added(s, k, [age |-> run[w].lag, excess |-> 0, count |-> 0])]
           /\ Q!Goto(w, "account", run[w].n - 1) /\ UNCHANGED <<node, req_leaked>>
  <2>2. PICK e : e = [age |-> run[w].lag, excess |-> 0, count |-> 0]
    OBVIOUS
  <2>3. e \in NodeRec /\ e.excess <= b
    BY <1>1, <2>2 DEF NodeRec
  <2>4. PICK t : t = Q!Added(s, k, e)
    OBVIOUS
  <2>5. /\ ZoneOK(y, t) /\ DOMAIN t.node = DOMAIN s.node \cup {k} /\ t.node[k] = e
        /\ \A x \in DOMAIN s.node : t.node[x] = s.node[x]
    BY <1>4, <1>6, <2>3, <2>4, AddedOK
  <2>6. zone' = [zone EXCEPT ![y] = t]
    BY <1>8, <2>2, <2>4
  <2>7. \A v \in Workers : \A z \in DOMAIN Q!Zones :
          node'[v][z] = node[v][z] \/ node'[v][z] = None \/ (z = y /\ node'[v][z] = k)
    BY <1>8
  <2>8. PICK H \in SUBSET (Workers \ {w}) : H = Refs(node', y, k)
    BY <1>1, <1>2, <1>8 DEF Refs
  <2>9. PICK p : p = run' /\ \A v \in H : p[v].lag \in Nat
    BY LagsAfter
  <2>11. Fits(y, e, H, p)
    BY <1>a, <1>1, <2>3, <2>9, FitsSettled
  <2>12. Fits(y, t.node[k], Refs(node', y, k), run')
    BY <2>5, <2>8, <2>9, <2>11
  <2>13. k \in DOMAIN t.node /\ \A x \in DOMAIN t.node \ {k} :
           x \in DOMAIN zone[y].node /\ t.node[x] = zone[y].node[x]
    BY <1>4, <2>5
  <2>a. /\ Q!LimitReqAssumption /\ BurstInv /\ ReqInv' /\ UNCHANGED setup /\ w \in Workers
        /\ Q!Goto(w, "account", run[w].n - 1) /\ y \in DOMAIN Q!Zones
    BY <1>1, <1>8
  <2>14. Bursting'
    BY ONLY <2>a, <2>6, <2>7, <2>12, <2>13, ZoneOther
  <2>15. HeldLoose'
    BY <1>8, LooseFrame
  <2> QED
    BY <2>14, <2>15 DEF BurstInv
<1>9. CASE /\ ~Q!IsLast(w)
           /\ zone' = [zone EXCEPT ![y] =
                         Q!Added(s, k, [age |-> Q!MaxAge, excess |-> 0, count |-> 1])]
           /\ node' = [node EXCEPT ![w][y] = k]
           /\ Q!Goto(w, "lookup", run[w].n + 1) /\ UNCHANGED req_leaked
  <2>1. Q!MaxAge \in Nat
    BY <1>a, SetupSound
  <2>2. PICK e : e = [age |-> Q!MaxAge, excess |-> 0, count |-> 1]
    OBVIOUS
  <2>3. e \in NodeRec /\ e.excess = 0 /\ e.age >= Q!MaxAge
    BY <2>1, <2>2 DEF NodeRec
  <2>4. PICK t : t = Q!Added(s, k, e)
    OBVIOUS
  <2>5. /\ ZoneOK(y, t) /\ DOMAIN t.node = DOMAIN s.node \cup {k} /\ t.node[k] = e
        /\ \A x \in DOMAIN s.node : t.node[x] = s.node[x]
    BY <1>4, <1>6, <2>3, <2>4, AddedOK
  <2>6. zone' = [zone EXCEPT ![y] = t]
    BY <1>9, <2>2, <2>4
  <2>7. \A v \in Workers : \A z \in DOMAIN Q!Zones :
          node'[v][z] = IF v = w /\ z = y THEN k ELSE node[v][z]
    BY <1>a, <1>9 DEF ReqInv, ReqTypeOK
  <2>8. PICK H \in SUBSET Workers : H = Refs(node', y, k)
    BY DEF Refs
  <2>9. PICK p : p = run' /\ \A v \in H : p[v].lag \in 0..Q!MaxLag
    BY LagsAfter
  <2>10. Under(y, e)
    <3>1. {w} \in SUBSET Workers /\ {w} # {}
      OBVIOUS
    <3>2. Spare \in Nat
      BY <3>1, SomeWorkers
    <3> QED
      BY <1>1, <2>3, <3>2 DEF Under, Over
  <2>11. Fits(y, e, H, p)
    BY <1>a, <1>1, <2>3, <2>9, <2>10, FitsOld
  <2>12. Fits(y, t.node[k], Refs(node', y, k), run')
    BY <2>5, <2>8, <2>9, <2>11
  <2>13. k \in DOMAIN t.node /\ \A x \in DOMAIN t.node \ {k} :
           x \in DOMAIN zone[y].node /\ t.node[x] = zone[y].node[x]
    BY <1>4, <2>5
  <2>14. \A v \in Workers : \A z \in DOMAIN Q!Zones :
           node'[v][z] = node[v][z] \/ node'[v][z] = None \/ (z = y /\ node'[v][z] = k)
    BY <2>7
  <2>a. /\ Q!LimitReqAssumption /\ BurstInv /\ ReqInv' /\ UNCHANGED setup /\ w \in Workers
        /\ Q!Goto(w, "lookup", run[w].n + 1) /\ y \in DOMAIN Q!Zones
    BY <1>1, <1>9
  <2>15. Bursting'
    BY ONLY <2>a, <2>6, <2>12, <2>13, <2>14, ZoneOther
  <2>16. HeldLoose'
    BY <1>1, <1>9, <2>7, LooseFrame
  <2> QED
    BY <2>15, <2>16 DEF BurstInv
<1> QED
  BY <1>0, <1>3, <1>7, <1>8, <1>9 DEF Q!New

LEMMA BackBurst ==
  ASSUME Q!LimitReqAssumption, BurstInv, ReqInv', NEW w \in Workers, Q!Back(w), UNCHANGED setup
  PROVE  BurstInv'
<1>a. ReqInv /\ setup \in ReqSetups /\ DOMAIN zone = DOMAIN Q!Zones
  BY DEF BurstInv, ReqInv, ReqTypeOK
<1>0. PICK y : y = Q!Zone(w)
  OBVIOUS
<1>b. /\ run[w].pc \in {"account", "drop"} /\ run[w].n <= Len(run[w].limits)
      /\ Q!Goto(w, run[w].pc, run[w].n - 1)
  BY <1>a DEF Q!Back, ReqInv, ReqTypeOK, Walks, RunOK
<1>1. y \in DOMAIN Q!Zones /\ run[w].lag \in Nat
  BY <1>a, <1>0, <1>b, ZoneAt
<1>2. \A v \in Workers : \A z \in DOMAIN Q!Zones : node'[v][z] # None => run'[v].lag = run[v].lag
  BY <1>a, <1>b, GotoLags
<1>3. CASE node[w][y] = None /\ UNCHANGED <<zone, node>>
  <2>1. HeldLoose' /\ Bursting'
    BY <1>2, <1>3, FewerNodes
  <2> QED
    BY <2>1 DEF BurstInv
<1>4. CASE node[w][y] # None
  <2>1. PICK k \in Keys(y) : k = node[w][y]
    BY <1>a, <1>1, <1>4 DEF ReqInv, ReqTypeOK
  <2>2. k \in DOMAIN zone[y].node
    <3>1. Q!Held
      BY <1>a, ReqCounted
    <3>2. w \in Q!Holders(y, k)
      BY <2>1 DEF Q!Holders
    <3> QED
      BY <1>1, <3>1, <3>2 DEF Q!Held, Keys, Q!Names
  <2>3. PICK nd \in NodeRec : nd = zone[y].node[k]
    BY <1>a, <1>1, <2>2, NodeAt
  <2>4. PICK e : e = IF run[w].pc = "drop" THEN [nd EXCEPT !.count = @ - 1]
                     ELSE [excess |-> Q!Excess(y, nd, run[w].lag), age |-> run[w].lag,
                           count |-> nd.count - 1]
    OBVIOUS
  <2>5. zone' = [zone EXCEPT ![y] = [zone[y] EXCEPT !.node = [zone[y].node EXCEPT ![k] = e]]]
        /\ node' = [node EXCEPT ![w][y] = None]
    BY <1>0, <1>4, <2>1, <2>3, <2>4 DEF Q!Back
  <2>6. PICK m : m = [zone[y].node EXCEPT ![k] = e]
    OBVIOUS
  <2>7. PICK t : t = [zone[y] EXCEPT !.node = m]
    OBVIOUS
  <2>8. zone' = [zone EXCEPT ![y] = t]
    BY <2>5, <2>6, <2>7
  <2>9. zone[y] \in ZoneRec(y)
    BY <1>a, <1>1 DEF ReqInv, ReqTypeOK, ZoneOK
  <2>10. t.node = m
    BY <2>7, <2>9 DEF ZoneRec
  <2>11. DOMAIN t.node = DOMAIN zone[y].node /\ t.node[k] = e
         /\ \A x \in DOMAIN t.node \ {k} : t.node[x] = zone[y].node[x]
    BY <2>2, <2>6, <2>10
  <2>12. \A v \in Workers : \A z \in DOMAIN Q!Zones :
           node'[v][z] = IF v = w /\ z = y THEN None ELSE node[v][z]
    BY <1>a, <2>5 DEF ReqInv, ReqTypeOK
  <2>13. \A z \in DOMAIN Q!Zones : zone'[z] = IF z = y THEN t ELSE zone[z]
    BY <1>a, <2>8
  <2>14. Loose(y) /\ Q!Zones[y].rate \in Nat /\ k # None
    BY <1>a, <1>1, <1>4, <2>2, NodesAre DEF BurstInv, HeldLoose
  <2>15. HeldLoose'
    BY <2>12, LooseFrame
  <2>16. CASE run[w].pc = "drop"
    <3>1. e.excess = nd.excess /\ e.age = nd.age
      BY <2>3, <2>4, <2>16 DEF NodeRec
    <3>2. \A z \in DOMAIN Q!Zones : \A x \in DOMAIN zone'[z].node :
            /\ x \in DOMAIN zone[z].node
            /\ zone'[z].node[x].excess = zone[z].node[x].excess
            /\ zone'[z].node[x].age = zone[z].node[x].age
      BY <2>3, <2>11, <2>13, <3>1
    <3>3. Bursting'
      BY <1>2, <2>12, <3>2, FewerNodes
    <3> QED
      BY <2>15, <3>3 DEF BurstInv
  <2>17. CASE run[w].pc # "drop"
    <3>1. e = [excess |-> Q!Excess(y, nd, run[w].lag), age |-> run[w].lag, count |-> nd.count - 1]
      BY <2>4, <2>17
    <3>2. e.excess = Q!Excess(y, nd, run[w].lag) /\ e.age = run[w].lag
      BY <3>1
    <3>3. e \in NodeRec
      <4>1. Q!Zones' = Q!Zones /\ NodeRec' = NodeRec
        BY DEF Q!Zones, NodeRec
      <4>2. zone'[y].node[k] \in NodeRec
        BY <4>1, <1>1, <2>2, <2>11, <2>13 DEF ReqInv, ReqTypeOK, ZoneOK, ZoneRec, Nodes
      <4> QED
        BY <1>1, <2>11, <2>13, <4>2
    <3>4. PICK H \in SUBSET Workers : H = Q!Holders(y, k)
      BY DEF Q!Holders
    <3>5. w \in H /\ \A v \in H : run[v].lag \in Nat
      BY <1>a, <1>1, <2>1, <3>4, NodesAre DEF Q!Holders
    <3>6. Fits(y, nd, H, run)
      BY <1>1, <2>2, <2>3, <3>4 DEF BurstInv, Bursting
    <3>7. Fits(y, e, H \ {w}, run)
      BY <1>a, <1>1, <2>14, <3>2, <3>3, <3>5, <3>6, FitsAccount
    <3>8. PICK G \in SUBSET (H \ {w}) : G = Refs(node', y, k)
      BY <1>1, <2>12, <2>14, <3>4 DEF Refs, Q!Holders
    <3>9. PICK p : p = run' /\ \A v \in G : p[v].lag = run[v].lag
      BY <1>1, <1>2, <2>14, <3>8 DEF Refs
    <3>10. Fits(y, e, G, p)
      BY <3>7, <3>9, FitsFewer
    <3>11. Fits(y, t.node[k], Refs(node', y, k), run')
      BY <2>11, <3>8, <3>9, <3>10
    <3>12. k \in DOMAIN t.node /\ \A x \in DOMAIN t.node \ {k} :
             x \in DOMAIN zone[y].node /\ t.node[x] = zone[y].node[x]
      BY <2>2, <2>11
    <3>13. \A v \in Workers : \A z \in DOMAIN Q!Zones :
             node'[v][z] = node[v][z] \/ node'[v][z] = None \/ (z = y /\ node'[v][z] = k)
      BY <2>12
    <3>a. /\ Q!LimitReqAssumption /\ BurstInv /\ ReqInv' /\ UNCHANGED setup /\ w \in Workers
          /\ Q!Goto(w, run[w].pc, run[w].n - 1) /\ y \in DOMAIN Q!Zones
      BY <1>b, <1>1
    <3>14. Bursting'
      BY ONLY <3>a, <2>8, <3>11, <3>12, <3>13, ZoneOther
    <3> QED
      BY <2>15, <3>14 DEF BurstInv
  <2> QED
    BY <2>16, <2>17
<1> QED
  BY <1>0, <1>3, <1>4 DEF Q!Back

LEMMA InitBurst ==
  ASSUME Q!LimitReqAssumption, Q!Init
  PROVE  BurstInv
<1>1. ReqInv
  BY InitReqInv
<1>2. \A z \in DOMAIN Q!Zones : DOMAIN zone[z].node = {} /\ \A w \in Workers : node[w][z] = None
  BY DEF Q!Init
<1> QED
  BY <1>1, <1>2 DEF BurstInv, HeldLoose, Bursting

LEMMA NextBurst ==
  ASSUME Q!LimitReqAssumption, BurstInv, [Q!Next]_(Q!vars)
  PROVE  BurstInv'
<1>0. ReqInv'
  BY NextReqInv DEF BurstInv
<1>1. CASE Q!Next
  <2>0. UNCHANGED setup
    BY <1>1 DEF Q!Next
  <2>1. CASE Q!Tick
    BY <1>0, <2>0, <2>1, TickBurst
  <2>2. ASSUME NEW w \in Workers, Q!Step(w) PROVE BurstInv'
    <3>1. CASE Q!Start(w) \/ Q!Skip(w)
      BY <1>0, <2>0, <3>1, StillBurst
    <3>3. CASE Q!Back(w)
      BY <1>0, <2>0, <3>3, BackBurst
    <3>4. CASE Q!Crash(w)
      BY <1>0, <2>0, <3>4, CrashBurst
    <3>5. ASSUME Q!At(w), NEW k \in Keys(Q!Zone(w)), Q!Found(w, k) \/ Q!New(w, k) PROVE BurstInv'
      BY <1>0, <2>0, <3>5, FoundBurst, NewBurst
    <3> QED
      BY <2>2, <3>1, <3>3, <3>4, <3>5 DEF Q!Step, Keys, Q!Names
  <2> QED
    BY <1>1, <2>1, <2>2 DEF Q!Next
<1>2. CASE UNCHANGED Q!vars
  <2>1. UNCHANGED <<setup, zone, node, run>>
    BY <1>2 DEF Q!vars
  <2>2. HeldLoose' /\ Bursting'
    BY <2>1, FewerNodes
  <2> QED
    BY <1>0, <2>2 DEF BurstInv
<1> QED
  BY <1>1, <1>2

LEMMA BurstBound ==
  ASSUME BurstInv
  PROVE  Q!Burst
<1> SUFFICES ASSUME NEW z \in DOMAIN Q!Zones, NEW k \in DOMAIN zone[z].node
             PROVE  \E u \in Uses(z) : zone[z].node[k].excess <= u[1][u[2]].burst + Over(z)
  BY RateCardinality DEF Q!Burst, Uses, Over, Loose, Spare
<1>1. Under(z, zone[z].node[k])
  BY DEF BurstInv, Bursting, Fits
<1> QED
  BY <1>1 DEF Under, Bursts

RateInv == part = "limit_req" => BurstInv

(* For any number of workers, zones, values and lists of limits, and workers that die: the
   invariant of the request rate limits.  A worker holds nodes only in zones of its list that
   it has passed, the count of a node is that of its holders, and however the requests that
   are between their look-up and their accounting are accounted, the bucket is within a burst
   and what the other workers may add. *)
THEOREM RateInvariant == MCSpec => []RateInv
<1>1. MCInit => RateInv
  BY InitBurst, LimitReqAssumption DEF MCInit, RateInv
<1>2. ASSUME RateInv, [MCNext]_MCvars PROVE RateInv'
  <2> SUFFICES ASSUME part' = "limit_req" PROVE BurstInv'
    BY DEF RateInv
  <2>1. part = "limit_req" /\ BurstInv
    BY <1>2 DEF MCNext, MCvars, RateInv
  <2>2. [Q!Next]_(Q!vars)
    BY <1>2, <2>1 DEF MCNext, MCvars, qvars, Q!vars
  <2> QED
    BY <2>1, <2>2, NextBurst, LimitReqAssumption
<1> QED
  BY <1>1, <1>2, PTL DEF MCSpec, MCvars

(* A node of a zone is not freed while a request still has to account it, nor kept beyond:
   its count is the number of workers between ngx_http_limit_req_lookup() and
   ngx_http_limit_req_account(), and of those that died there; the queue from which
   ngx_http_limit_req_expire() takes the oldest has every node once. *)
THEOREM HeldHolds == MCSpec => []Held
<1>1. RateInv => Held
  BY ReqCounted, LimitReqAssumption DEF RateInv, BurstInv, Held
<1> QED
  BY <1>1, RateInvariant, PTL

(* The excess of the node of a value, of up to 255 bytes, is over the burst of a limit by at most
   one request for each of the other workers, and by none where the zone is always the last of its
   list: what ngx_http_limit_req_lookup() promises without accounting is bounded.  Nothing is said
   of longer values, whose requests have a node each. *)
THEOREM BurstHolds == MCSpec => []Burst
<1>1. RateInv => Burst
  BY BurstBound DEF RateInv, Burst
<1> QED
  BY <1>1, RateInvariant, PTL

-----------------------------------------------------------------------------
(* The lock word names every process that owns the mutex, living or dead. *)
Owner == \A p \in Procs : pc[p] \in {"held", "dead"} => lock = p

(* ngx_shmtx_wakeup() tests its copy of mtx->wait before the compare-and-set,
   so the counter is never decremented below zero. *)
SeenPositive == \A p \in All : pc[p] = "cas" => seen[p] > 0

IInv == TypeOK /\ Owner /\ SeenPositive

USE DEF Places, Locking, Waking, OnTheWay, All, Goto, ghosts

(* Type correctness and ownership hold initially. *)
LEMMA InitIInv == Init => IInv
<1> SUFFICES ASSUME Init PROVE IInv
  OBVIOUS
<1> USE ShmtxAssumption
<1>1. pc \in [All -> Places] /\ spin \in [Procs -> 0..Spins] /\ seen \in [All -> Nat]
  BY DEF Init
<1>2. lock \in Procs \cup {Free} /\ wait \in Nat /\ sem \in Nat
  BY DEF Init
<1>5. locks \in 0..MaxLocks /\ crashes \in 0..MaxCrashes
  BY DEF Init
<1>6. astray \in BOOLEAN /\ lost \in Nat
  BY DEF Init
<1>3. Owner /\ SeenPositive
  BY DEF Init, Owner, SeenPositive
<1>4. TypeOK
  BY <1>1, <1>2, <1>5, <1>6 DEF TypeOK
<1> QED
  BY <1>3, <1>4 DEF IInv

(* Every step of every process keeps types and ownership. *)
LEMMA NextIInv == IInv /\ [Next]_vars => IInv'
<1> SUFFICES ASSUME IInv, [Next]_vars PROVE IInv'
  OBVIOUS
<1> USE ShmtxAssumption DEF IInv, TypeOK, Owner, SeenPositive
<1>1. ASSUME NEW p \in Procs, Trylock(p) PROVE IInv'
  BY <1>1 DEF Trylock, Acquire
<1>2. ASSUME NEW p \in Procs, Lock(p) PROVE IInv'
  BY <1>2 DEF Lock
<1>3. ASSUME NEW p \in Procs, Try(p) PROVE IInv'
  BY <1>3 DEF Try, Acquire
<1>4. ASSUME NEW p \in Procs, Spin(p) PROVE IInv'
  BY <1>4 DEF Spin, Acquire
<1>5. ASSUME NEW p \in Procs, Announce(p) PROVE IInv'
  BY <1>5 DEF Announce
<1>6. ASSUME NEW p \in Procs, Retry(p) PROVE IInv'
  BY <1>6 DEF Retry, Acquire
<1>7. ASSUME NEW p \in Procs, Sleep(p) PROVE IInv'
  BY <1>7 DEF Sleep
<1>8. ASSUME NEW p \in Procs, Unlock(p) PROVE IInv'
  BY <1>8 DEF Unlock
<1>9. ASSUME NEW p \in Procs, Crash(p) PROVE IInv'
  BY <1>9 DEF Crash
<1>10. ASSUME NEW p \in Procs, ForceUnlock(p) PROVE IInv'
  BY <1>10 DEF ForceUnlock
<1>11. ASSUME NEW p \in All, Wake(p) PROVE IInv'
  BY <1>11 DEF Wake
<1>12. ASSUME NEW p \in All, WakeCas(p) PROVE IInv'
  BY <1>12 DEF WakeCas
<1>13. ASSUME NEW p \in All, Post(p) PROVE IInv'
  BY <1>13 DEF Post
<1>14. CASE UNCHANGED vars
  BY <1>14 DEF vars
<1> QED
  BY <1>1, <1>2, <1>3, <1>4, <1>5, <1>6, <1>7, <1>8, <1>9, <1>10, <1>11,
     <1>12, <1>13, <1>14 DEF Next, Step, WakeStep

(* Type correctness of the mutex. *)
THEOREM TypeCorrect == SafetySpec => []TypeOK
<1>1. IInv => TypeOK
  BY DEF IInv
<1> QED
  BY InitIInv, NextIInv, <1>1, PTL DEF SafetySpec

(* At most one process owns the mutex, whatever the number of processes, the
   length of the back-off loop and the number of workers that die, wherever they are. *)
THEOREM MutualExclusionHolds == SafetySpec => []MutualExclusion
<1>1. IInv => MutualExclusion
  BY DEF IInv, Owner, MutualExclusion
<1> QED
  BY InitIInv, NextIInv, <1>1, PTL DEF SafetySpec

-----------------------------------------------------------------------------
(* No lost wake-up.  The argument is an account of announcements.             *)

(* The processes whose announcement in mtx->wait may still be needed, and those
   that took one away and have yet to post. *)
Announced == {p \in Procs : pc[p] \in {"retry", "sleep"}}
Posters   == {p \in All : pc[p] = "post"}

(* Every process between its announcement and the end of its sleep is paid for: by the
   counter, by the semaphore or by a process that is about to post, unless that died. *)
PaidFor == Cardinality(Announced) <= wait + sem + Cardinality(Posters) + lost

(* Without a semaphore nobody announces, sleeps or wakes. *)
SemaphoreUsed ==
  ~Semaphore => \A p \in All : pc[p] \notin {"announce", "retry", "sleep"} \cup Waking

WInv == IInv /\ SemaphoreUsed /\ PaidFor /\ NoLostWakeup

(* The sets that are counted are finite. *)
LEMMA FiniteCounts ==
  ASSUME TypeOK
  PROVE  /\ IsFiniteSet(Announced) /\ Cardinality(Announced) \in Nat
         /\ IsFiniteSet(Posters) /\ Cardinality(Posters) \in Nat
<1>1. IsFiniteSet(All)
  BY ShmtxAssumption, FS_AddElement
<1>2. Announced \in SUBSET Procs /\ Posters \in SUBSET All
  BY DEF Announced, Posters
<1> QED
  BY <1>1, <1>2, ShmtxAssumption, FS_Subset, FS_CardinalityType

(* The sleepers are finitely many, all of them announced. *)
LEMMA SleepersAnnounced ==
  ASSUME TypeOK
  PROVE  /\ IsFiniteSet(Asleep) /\ Cardinality(Asleep) \in Nat
         /\ Cardinality(Asleep) <= Cardinality(Announced)
<1>1. Asleep \in SUBSET Announced
  BY DEF Asleep, Announced
<1> QED
  BY <1>1, FiniteCounts, FS_Subset, FS_CardinalityType

(* Who sleeps was announced: when more sleep than died before they posted, and neither
   the counter nor the semaphore pays for them, a poster does. *)
LEMMA SleeperPaidFor ==
  ASSUME TypeOK, PaidFor, Cardinality(Asleep) > lost, wait = 0, sem = 0
  PROVE  Posters # {}
<1>1. Cardinality(Announced) > lost
  BY SleepersAnnounced, FiniteCounts DEF TypeOK
<1>2. Cardinality(Posters) # 0 /\ Cardinality({}) = 0
  BY <1>1, FiniteCounts, FS_EmptySet DEF PaidFor, TypeOK
<1> QED
  BY <1>2

(* Announcing, waking up and posting keep the account. *)
LEMMA NextPaidFor == WInv /\ [Next]_vars => PaidFor'
<1> SUFFICES ASSUME WInv, [Next]_vars PROVE PaidFor'
  OBVIOUS
<1> USE ShmtxAssumption DEF WInv, IInv, TypeOK
<1> DEFINE a == Cardinality(Announced)
           b == Cardinality(Posters)
<1>a. /\ IsFiniteSet(Announced) /\ a \in Nat
      /\ IsFiniteSet(Posters) /\ b \in Nat
  BY FiniteCounts
<1>b. ASSUME NEW p PROVE
        /\ Cardinality(Announced \cup {p}) = IF p \in Announced THEN a ELSE a + 1
        /\ Cardinality(Announced \ {p}) = IF p \in Announced THEN a - 1 ELSE a
        /\ Cardinality(Posters \cup {p}) = IF p \in Posters THEN b ELSE b + 1
        /\ Cardinality(Posters \ {p}) = IF p \in Posters THEN b - 1 ELSE b
  BY <1>a, FS_AddElement, FS_RemoveElement
<1>c. a <= wait + sem + b + lost
  BY DEF PaidFor
<1> HIDE DEF a, b
<1>e. Cardinality(Announced') <= wait' + sem' + Cardinality(Posters') + lost' => PaidFor'
  BY DEF PaidFor
<1>d. ASSUME UNCHANGED <<wait, sem, lost>>, Announced' = Announced, Posters' = Posters
      PROVE  PaidFor'
  BY <1>c, <1>d DEF PaidFor, a, b
<1>1. ASSUME NEW p \in Procs, Trylock(p) PROVE PaidFor'
  BY <1>1, <1>d DEF Trylock, Acquire, Announced, Posters
<1>2. ASSUME NEW p \in Procs, Lock(p) PROVE PaidFor'
  BY <1>2, <1>d DEF Lock, Announced, Posters
<1>3. ASSUME NEW p \in Procs, Try(p) PROVE PaidFor'
  BY <1>3, <1>d DEF Try, Acquire, Announced, Posters
<1>4. ASSUME NEW p \in Procs, Spin(p) PROVE PaidFor'
  BY <1>4, <1>d DEF Spin, Acquire, Announced, Posters
<1>5. ASSUME NEW p \in Procs, Announce(p) PROVE PaidFor'
  <2>1. /\ Announced' = Announced \cup {p} /\ p \notin Announced
        /\ Posters' = Posters
    BY <1>5 DEF Announce, Announced, Posters
  <2>2. Cardinality(Announced') = a + 1 /\ Cardinality(Posters') = b
    BY <2>1, <1>b DEF b
  <2> QED
    BY <2>2, <1>5, <1>a, <1>c, <1>e DEF Announce
<1>6. ASSUME NEW p \in Procs, Retry(p) PROVE PaidFor'
  <2>1. Posters' = Posters
    BY <1>6 DEF Retry, Acquire, Posters
  <2>2. \/ Announced' = Announced
        \/ Announced' = Announced \ {p} /\ p \in Announced
    BY <1>6 DEF Retry, Acquire, Announced
  <2>3. Cardinality(Announced') \in {a, a - 1} /\ Cardinality(Posters') = b
    BY <2>1, <2>2, <1>b DEF a, b
  <2> QED
    BY <2>3, <1>6, <1>a, <1>c, <1>e DEF Retry
<1>7. ASSUME NEW p \in Procs, Sleep(p) PROVE PaidFor'
  <2>1. /\ Announced' = Announced \ {p} /\ p \in Announced
        /\ Posters' = Posters
    BY <1>7 DEF Sleep, Announced, Posters
  <2>2. Cardinality(Announced') = a - 1 /\ Cardinality(Posters') = b
    BY <2>1, <1>b DEF b
  <2> QED
    BY <2>2, <1>7, <1>a, <1>c, <1>e DEF Sleep
<1>8. ASSUME NEW p \in Procs, Unlock(p) PROVE PaidFor'
  BY <1>8, <1>d DEF Unlock, Announced, Posters
<1>9. ASSUME NEW p \in Procs, Crash(p) PROVE PaidFor'
  <2>1. Announced' = Announced \ {p} /\ Posters' = Posters \ {p}
    BY <1>9 DEF Crash, Announced, Posters
  <2>2. p \in Posters <=> pc[p] = "post"
    BY DEF Posters
  <2>3. /\ Cardinality(Announced') \in {a, a - 1}
        /\ Cardinality(Posters') = IF pc[p] = "post" THEN b - 1 ELSE b
    BY <2>1, <2>2, <1>b
  <2>4. UNCHANGED <<wait, sem>> /\ lost' = IF pc[p] = "post" THEN lost + 1 ELSE lost
    BY <1>9 DEF Crash
  <2> QED
    BY <2>3, <2>4, <1>a, <1>c, <1>e
<1>10. ASSUME NEW p \in Procs, ForceUnlock(p) PROVE PaidFor'
  BY <1>10, <1>d DEF ForceUnlock, Announced, Posters
<1>11. ASSUME NEW p \in All, Wake(p) PROVE PaidFor'
  BY <1>11, <1>d DEF Wake, Announced, Posters
<1>12. ASSUME NEW p \in All, WakeCas(p) PROVE PaidFor'
  <2>1. Announced' = Announced
    BY <1>12 DEF WakeCas, Announced
  <2>2. \/ wait' = wait /\ Posters' = Posters
        \/ wait' = wait - 1 /\ Posters' = Posters \cup {p} /\ p \notin Posters
    BY <1>12 DEF WakeCas, Posters
  <2>3. /\ Cardinality(Announced') = a
        /\ \/ wait' = wait /\ Cardinality(Posters') = b
           \/ wait' = wait - 1 /\ Cardinality(Posters') = b + 1
    BY <2>1, <2>2, <1>b DEF a, b
  <2> QED
    BY <2>3, <1>12, <1>a, <1>c, <1>e DEF WakeCas
<1>13. ASSUME NEW p \in All, Post(p) PROVE PaidFor'
  <2>1. /\ Announced' = Announced
        /\ Posters' = Posters \ {p} /\ p \in Posters
    BY <1>13 DEF Post, Announced, Posters
  <2>2. Cardinality(Announced') = a /\ Cardinality(Posters') = b - 1
    BY <2>1, <1>b DEF a
  <2> QED
    BY <2>2, <1>13, <1>a, <1>c, <1>e DEF Post
<1>14. CASE UNCHANGED vars
  BY <1>14, <1>d DEF vars, Announced, Posters
<1> QED
  BY <1>1, <1>2, <1>3, <1>4, <1>5, <1>6, <1>7, <1>8, <1>9, <1>10, <1>11,
     <1>12, <1>13, <1>14 DEF Next, Step, WakeStep

(* Who may look at the lock word or at mtx->wait before a sleeper is forgotten. *)
LEMMA NextNoLostWakeup == WInv /\ [Next]_vars => NoLostWakeup'
<1> DEFINE Someone == sem > 0 \/ \E p \in All : pc[p] \in OnTheWay
<1> SUFFICES ASSUME WInv, [Next]_vars, lock' = Free, Cardinality(Asleep') > lost', ~astray'
             PROVE  Someone'
  BY DEF NoLostWakeup
<1> USE ShmtxAssumption DEF WInv, IInv, TypeOK
<1>t. TypeOK /\ TypeOK'
  BY NextIInv
<1>a. lock = Free /\ Cardinality(Asleep) > lost /\ ~astray => Someone
  BY DEF NoLostWakeup
<1>b. PICK s \in Procs : pc'[s] = "sleep"
  <2>1. Asleep' # {}
    BY <1>t, FS_EmptySet
  <2> QED
    BY <2>1 DEF Asleep
<1>1. ASSUME NEW p \in Procs, Trylock(p) PROVE UNCHANGED vars
  BY <1>1 DEF Trylock, Acquire, vars
<1>2. ASSUME NEW p \in Procs, Lock(p) PROVE pc'[p] = "try"
  BY <1>2 DEF Lock
<1>3. ASSUME NEW p \in Procs, Try(p) PROVE pc'[p] = "spin"
  BY <1>3 DEF Try, Acquire
<1>4. ASSUME NEW p \in Procs, Spin(p) PROVE pc'[p] \in {"spin", "announce", "try"}
  BY <1>4 DEF Spin, Acquire
<1>5. ASSUME NEW p \in Procs, Announce(p) PROVE pc'[p] = "retry"
  BY <1>5 DEF Announce
<1>6. ASSUME NEW p \in Procs, Retry(p) PROVE FALSE
  BY <1>6 DEF Retry, Acquire
<1>7. ASSUME NEW p \in Procs, Sleep(p) PROVE pc'[p] = "try"
  BY <1>7 DEF Sleep
<1>8. ASSUME NEW p \in Procs, Unlock(p) PROVE pc'[p] = "wake"
  <2>1. Semaphore
    BY <1>8, <1>b DEF Unlock, SemaphoreUsed
  <2> QED
    BY <1>8, <2>1 DEF Unlock
<1>9. ASSUME NEW p \in Procs, Crash(p) PROVE Someone'
  <2>1. lock = Free /\ ~astray /\ pc[p] \notin OnTheWay /\ lost' = lost /\ sem' = sem
    BY <1>9 DEF Crash
  <2>2. Asleep' \in SUBSET Asleep
    BY <1>9 DEF Crash, Asleep
  <2>3. Cardinality(Asleep') <= Cardinality(Asleep) /\ Cardinality(Asleep') \in Nat
    BY <2>2, <1>t, SleepersAnnounced, FS_Subset, FS_CardinalityType
  <2>4. Someone
    BY <2>1, <2>3, <1>a, <1>t, SleepersAnnounced
  <2>5. ASSUME NEW q \in All, pc[q] \in OnTheWay PROVE pc'[q] \in OnTheWay
    BY <2>1, <2>5, <1>9 DEF Crash
  <2> QED
    BY <2>1, <2>4, <2>5
<1>10. ASSUME NEW p \in Procs, ForceUnlock(p) PROVE Someone'
  <2>1. CASE lock = p
    <3>1. Semaphore
      BY <1>10, <1>b DEF ForceUnlock, SemaphoreUsed
    <3> QED
      BY <1>10, <2>1, <3>1 DEF ForceUnlock
  <2>2. CASE lock # p
    <3>1. lock = Free /\ ~astray /\ lost' = lost /\ sem' = sem
      BY <1>10, <2>2 DEF ForceUnlock
    <3>2. Asleep' = Asleep
      BY <1>10, <2>2 DEF ForceUnlock, Asleep
    <3>3. Someone
      BY <3>1, <3>2, <1>a
    <3>4. ASSUME NEW q \in All, pc[q] \in OnTheWay PROVE pc'[q] = pc[q]
      BY <3>4, <1>10, <2>2 DEF ForceUnlock
    <3> QED
      BY <3>1, <3>3, <3>4
  <2> QED
    BY <2>1, <2>2
<1>11. ASSUME NEW p \in All, Wake(p) PROVE Someone'
  <2>1. CASE wait # 0
    BY <2>1, <1>11 DEF Wake
  <2>2. CASE wait = 0 /\ sem = 0
    <3>1. Asleep' = Asleep /\ lost' = lost
      BY <1>11 DEF Wake, Asleep
    <3>2. PICK q \in All : pc[q] = "post"
      BY <2>2, <3>1, SleeperPaidFor DEF Posters
    <3> QED
      BY <3>2, <1>11 DEF Wake
  <2> QED
    BY <2>1, <2>2, <1>11 DEF Wake
<1>12. ASSUME NEW p \in All, WakeCas(p) PROVE pc'[p] \in {"post", "wake"}
  BY <1>12 DEF WakeCas
<1>13. ASSUME NEW p \in All, Post(p) PROVE sem' > 0
  BY <1>13 DEF Post
<1>14. CASE UNCHANGED vars
  BY <1>14, <1>a DEF vars, Asleep
<1> QED
  BY <1>1, <1>2, <1>3, <1>4, <1>5, <1>6, <1>7, <1>8, <1>9, <1>10, <1>11,
     <1>12, <1>13, <1>14 DEF Next, Step, WakeStep

(* Without a semaphore the calls never reach it. *)
LEMMA NextSemaphoreUsed == WInv /\ [Next]_vars => SemaphoreUsed'
<1> SUFFICES ASSUME WInv, [Next]_vars, ~Semaphore, NEW q \in All
             PROVE  pc'[q] \notin {"announce", "retry", "sleep"} \cup Waking
  BY DEF SemaphoreUsed
<1> USE ShmtxAssumption DEF WInv, IInv, TypeOK, SemaphoreUsed
<1> QED
  BY DEF Next, Step, WakeStep, vars, Trylock, Lock, Try, Spin, Announce, Retry,
         Sleep, Unlock, Crash, ForceUnlock, Wake, WakeCas, Post, Acquire

(* While the mutex is free and more processes sleep than died just before they posted,
   the semaphore is posted, some process is on its way to look again, or a worker died
   on its way since the last unlock.  For any number of processes, any order of their
   steps, and workers that die at any point. *)
THEOREM NoLostWakeupHolds == SafetySpec => []NoLostWakeup
<1>1. Init => WInv
  <2>1. Init => TypeOK /\ Announced = {}
    BY InitIInv DEF IInv, Init, Announced
  <2>2. Init => PaidFor
    BY <2>1, FiniteCounts, FS_EmptySet DEF Init, PaidFor
  <2>3. Init => Asleep = {}
    BY ShmtxAssumption DEF Init, Asleep
  <2>4. Init => NoLostWakeup
    BY <2>3, FS_EmptySet DEF Init, NoLostWakeup
  <2> QED
    BY <2>2, <2>4, InitIInv, ShmtxAssumption DEF WInv, Init, SemaphoreUsed
<1>2. WInv /\ [Next]_vars => WInv'
  BY NextIInv, NextPaidFor, NextNoLostWakeup, NextSemaphoreUsed DEF WInv
<1>3. WInv => NoLostWakeup
  BY DEF WInv
<1> QED
  BY <1>1, <1>2, <1>3, PTL DEF SafetySpec

===============================================================================
