----------------------------- MODULE PhasesProofs -----------------------------
(* No content without permission, and an end to redirects, for every configuration:
   any number of handlers in each phase, any locations and any limit of changes.  The
   theorems are about the composition MCHttp, the proofs about its instance P of Phases. *)
EXTENDS MCHttp, TLAPS

Checkers == {"generic", "rewrite", "find_config", "post_rewrite", "access", "post_access",
             "try_files", "content"}
PhaseHandler  == [checker : Checkers, next : Nat]
Engine   == [ph : Seq(PhaseHandler), n : Nat, find : Nat, server : Nat, location : Nat]

(* What the walk through the handlers relies on: where each checker has its places, and
   where it may go on. *)

IsAt(e, i, checker) == i \in 0..Len(e.ph) - 1 /\ e.ph[i + 1].checker = checker
NextOf(e, i)        == e.ph[i + 1].next

\* what looks a location up, or has it looked up, if the URI was changed
LooksUp(e, i) == IsAt(e, i, "find_config") \/ IsAt(e, i, "post_rewrite")
\* what content has to pass
Guards(e, i) == IsAt(e, i, "access") \/ IsAt(e, i, "post_access") \/ IsAt(e, i, "try_files")

EngineOK(e) ==
  /\ e \in Engine
  /\ \A i \in Nat, j \in Nat : IsAt(e, i, "generic") /\ LooksUp(e, j) /\ i < j => NextOf(e, i) <= j
  /\ \A i \in Nat, j \in Nat : IsAt(e, i, "generic") /\ Guards(e, j) /\ i < j => NextOf(e, i) <= j
  /\ \A i \in Nat : IsAt(e, i, "rewrite") => \E j \in Nat : i < j /\ LooksUp(e, j)
  /\ \A i \in Nat : IsAt(e, i, "access") => \E j \in Nat : i < j /\ IsAt(e, j, "post_access")
  /\ \A i \in Nat, j \in Nat : IsAt(e, i, "access") /\ IsAt(e, j, "try_files") => NextOf(e, i) <= j
  /\ \A i \in Nat, j \in Nat : LooksUp(e, i) /\ (Guards(e, j) \/ IsAt(e, j, "content")) => i < j
  /\ \A i \in Nat, j \in Nat : Guards(e, i) /\ IsAt(e, j, "content") => i < j
  /\ IsAt(e, e.find, "find_config") /\ e.server <= e.find
  /\ \A j \in Nat : Guards(e, j) => e.location <= j
  /\ \A i \in Nat : IsAt(e, i, "post_rewrite") => NextOf(e, i) = e.find

-----------------------------------------------------------------------------
(* The handlers that a phase adds. *)

\* t is s with handlers x up to a length
Adds(s, t, to, x) ==
  /\ t \in Seq(PhaseHandler) /\ Len(t) = to
  /\ \A i \in 1..Len(s) : t[i] = s[i]
  /\ \A i \in Len(s) + 1..to : t[i] = x

LEMMA ManyAdds ==
  ASSUME NEW e \in Engine, NEW checker \in Checkers, NEW n \in Nat, NEW h \in Nat
  PROVE  LET f == P!Many(e, checker, n, h)
         IN  /\ Adds(e.ph, f.ph, Len(e.ph) + h, [checker |-> checker, next |-> n + h])
             /\ f \in Engine /\ f.n = n + h
             /\ f.find = e.find /\ f.server = e.server /\ f.location = e.location
<1> DEFINE x == [checker |-> checker, next |-> n + h]
           u == [i \in 1..h |-> x]
<1>1. x \in PhaseHandler
  BY DEF PhaseHandler
<1> HIDE DEF x
<1>2. u \in Seq(PhaseHandler) /\ Len(u) = h /\ \A i \in 1..h : u[i] = x
  BY <1>1
<1>3. e.ph \in Seq(PhaseHandler)
  BY DEF Engine
<1> HIDE DEF u
<1>4. Adds(e.ph, e.ph \o u, Len(e.ph) + h, x)
  BY <1>1, <1>2, <1>3 DEF Adds
<1>5. P!Many(e, checker, n, h) = [e EXCEPT !.ph = e.ph \o u, !.n = n + h]
  BY DEF P!Many, u, x
<1>6. e.ph \o u \in Seq(PhaseHandler) /\ n + h \in Nat
  BY <1>4 DEF Adds
<1> DEFINE f == P!Many(e, checker, n, h)
           v == e.ph \o u
<1>7. /\ f \in Engine /\ f.ph = v /\ f.n = n + h
      /\ f.find = e.find /\ f.server = e.server /\ f.location = e.location
  <2> HIDE DEF f, v
  <2>1. f = [e EXCEPT !.ph = v, !.n = n + h] /\ v \in Seq(PhaseHandler) /\ n + h \in Nat
    BY <1>5, <1>6 DEF f, v
  <2> QED
    BY <2>1 DEF Engine
<1> QED
  BY <1>4, <1>7 DEF x

LEMMA OneAdds ==
  ASSUME NEW e \in Engine, NEW checker \in Checkers, NEW next \in Nat, NEW n \in Nat
  PROVE  LET f == P!One(e, checker, next, n)
         IN  /\ Adds(e.ph, f.ph, Len(e.ph) + 1, [checker |-> checker, next |-> next])
             /\ f \in Engine /\ f.n = n
             /\ f.find = e.find /\ f.server = e.server /\ f.location = e.location
<1> DEFINE x == [checker |-> checker, next |-> next]
<1>1. x \in PhaseHandler
  BY DEF PhaseHandler
<1> HIDE DEF x
<1>2. e.ph \in Seq(PhaseHandler)
  BY DEF Engine
<1>3. Adds(e.ph, Append(e.ph, x), Len(e.ph) + 1, x)
  BY <1>1, <1>2 DEF Adds
<1>4. P!One(e, checker, next, n) = [e EXCEPT !.ph = Append(e.ph, x), !.n = n]
  BY DEF P!One, x
<1>5. Append(e.ph, x) \in Seq(PhaseHandler)
  BY <1>3 DEF Adds
<1> DEFINE f == P!One(e, checker, next, n)
           v == Append(e.ph, x)
<1>6. /\ f \in Engine /\ f.ph = v /\ f.n = n
      /\ f.find = e.find /\ f.server = e.server /\ f.location = e.location
  <2> HIDE DEF f, v
  <2>1. f = [e EXCEPT !.ph = v, !.n = n] /\ v \in Seq(PhaseHandler)
    BY <1>4, <1>5 DEF f, v
  <2> QED
    BY <2>1 DEF Engine
<1> QED
  BY <1>3, <1>6 DEF x

-----------------------------------------------------------------------------
(* The array of ngx_http_init_phase_handlers(): the places where its parts end. *)

Part(s, from, to, checker, next) ==
  \A i \in Nat : from <= i /\ i < to => s[i + 1].checker = checker /\ s[i + 1].next = next

LEMMA AddsPart ==
  ASSUME NEW s \in Seq(PhaseHandler), NEW t, NEW to \in Nat, Len(s) <= to,
         NEW checker \in Checkers, NEW next \in Nat,
         Adds(s, t, to, [checker |-> checker, next |-> next])
  PROVE  Part(t, Len(s), to, checker, next)
<1> DEFINE x == [checker |-> checker, next |-> next]
<1>1. x.checker = checker /\ x.next = next
  OBVIOUS
<1>2. \A i \in Len(s) + 1..to : t[i] = x
  BY DEF Adds
<1> HIDE DEF x
<1>3. Len(s) \in Nat
  OBVIOUS
<1> SUFFICES ASSUME NEW i \in Nat, Len(s) <= i, i < to
             PROVE  t[i + 1].checker = checker /\ t[i + 1].next = next
  BY DEF Part
<1>4. i + 1 \in Len(s) + 1..to
  BY <1>3
<1> QED
  BY <1>1, <1>2, <1>4, Zenon

LEMMA PartKept ==
  ASSUME NEW s \in Seq(PhaseHandler), NEW t, NEW to, NEW x, Adds(s, t, to, x),
         NEW a, NEW b \in Nat, NEW checker, NEW next, b <= Len(s), Part(s, a, b, checker, next)
  PROVE  Part(t, a, b, checker, next)
<1> SUFFICES ASSUME NEW i \in Nat, a <= i, i < b
             PROVE  t[i + 1].checker = checker /\ t[i + 1].next = next
  BY DEF Part
<1>1. i + 1 \in 1..Len(s)
  OBVIOUS
<1>2. t[i + 1] = s[i + 1]
  BY <1>1 DEF Adds
<1> QED
  BY <1>2, Zenon DEF Part

(* With c rewrite, g access and t try_files checkers, and what the other phases have. *)
LEMMA LayoutOK ==
  ASSUME NEW e \in Engine,
         NEW p1 \in Nat, NEW p2 \in Nat, NEW p4 \in Nat, NEW p5 \in Nat, NEW p6 \in Nat,
         NEW p7 \in Nat, NEW p8 \in Nat, NEW p9 \in Nat,
         p1 <= p2, p2 + 1 <= p4, p4 <= p5, p5 <= p6, p6 <= p7, p7 <= p8, p8 <= p9,
         p9 <= Len(e.ph),
         p2 + 1 < p4 => p4 < p5, p6 < p7 => p8 = p7 + 1,
         NEW n2 \in Nat, NEW n4 \in Nat, NEW n8 \in Nat, NEW n10 \in Nat,
         Part(e.ph, 0, p1, "generic", p1), Part(e.ph, p1, p2, "rewrite", n2),
         Part(e.ph, p2, p2 + 1, "find_config", 0), Part(e.ph, p2 + 1, p4, "rewrite", n4),
         Part(e.ph, p4, p5, "post_rewrite", p2), Part(e.ph, p5, p6, "generic", p6),
         Part(e.ph, p6, p7, "access", p7 + 1), Part(e.ph, p7, p8, "post_access", n8),
         Part(e.ph, p8, p9, "try_files", 0), Part(e.ph, p9, Len(e.ph), "content", n10),
         e.find = p2, e.server = p1, e.location = p2 + 1
  PROVE  EngineOK(e)
<1>0. Len(e.ph) \in Nat
  BY DEF Engine
<1> DEFINE C(i) == e.ph[i + 1].checker
           N(i) == NextOf(e, i)
           Spans(from, to, checker, next) ==
             \A i \in Nat : from <= i /\ i < to => C(i) = checker /\ N(i) = next
<1>a. /\ Spans(0, p1, "generic", p1) /\ Spans(p1, p2, "rewrite", n2)
      /\ Spans(p2, p2 + 1, "find_config", 0) /\ Spans(p2 + 1, p4, "rewrite", n4)
      /\ Spans(p4, p5, "post_rewrite", p2) /\ Spans(p5, p6, "generic", p6)
      /\ Spans(p6, p7, "access", p7 + 1) /\ Spans(p7, p8, "post_access", n8)
      /\ Spans(p8, p9, "try_files", 0) /\ Spans(p9, Len(e.ph), "content", n10)
  BY Zenon DEF Part, NextOf
<1>b. \A checker : \A i \in Nat : IsAt(e, i, checker) <=> i < Len(e.ph) /\ C(i) = checker
  BY SMTT(30), <1>0 DEF IsAt
<1> HIDE DEF C, N
<1>c. ASSUME NEW i \in Nat, i < Len(e.ph)
      PROVE  \/ i < p1 /\ C(i) = "generic" /\ N(i) = p1
             \/ p1 <= i /\ i < p2 /\ C(i) = "rewrite"
             \/ i = p2 /\ C(i) = "find_config"
             \/ p2 + 1 <= i /\ i < p4 /\ C(i) = "rewrite"
             \/ p4 <= i /\ i < p5 /\ C(i) = "post_rewrite" /\ N(i) = p2
             \/ p5 <= i /\ i < p6 /\ C(i) = "generic" /\ N(i) = p6
             \/ p6 <= i /\ i < p7 /\ C(i) = "access" /\ N(i) = p7 + 1
             \/ p7 <= i /\ i < p8 /\ C(i) = "post_access"
             \/ p8 <= i /\ i < p9 /\ C(i) = "try_files"
             \/ p9 <= i /\ C(i) = "content"
  <2>1. /\ i < p1 => C(i) = "generic" /\ N(i) = p1
        /\ p1 <= i /\ i < p2 => C(i) = "rewrite"
        /\ p2 <= i /\ i < p2 + 1 => C(i) = "find_config"
        /\ p2 + 1 <= i /\ i < p4 => C(i) = "rewrite"
        /\ p4 <= i /\ i < p5 => C(i) = "post_rewrite" /\ N(i) = p2
    BY SMTT(30), <1>a
  <2>2. /\ p5 <= i /\ i < p6 => C(i) = "generic" /\ N(i) = p6
        /\ p6 <= i /\ i < p7 => C(i) = "access" /\ N(i) = p7 + 1
        /\ p7 <= i /\ i < p8 => C(i) = "post_access"
    BY <1>a
  <2>3. /\ p8 <= i /\ i < p9 => C(i) = "try_files"
        /\ p9 <= i => C(i) = "content"
    BY <1>0, <1>a, <1>c
  <2> HIDE DEF Spans
  <2> QED
    BY SMTT(30), <1>0, <2>1, <2>2, <2>3
<1>1. \A i \in Nat : IsAt(e, i, "generic") => (i < p1 /\ N(i) = p1)
                                           \/ (p5 <= i /\ i < p6 /\ N(i) = p6)
  <2> HIDE DEF Spans
  <2>1. ASSUME NEW i \in Nat, IsAt(e, i, "generic")
        PROVE  (i < p1 /\ N(i) = p1) \/ (p5 <= i /\ i < p6 /\ N(i) = p6)
    <3>1. i < Len(e.ph) /\ C(i) = "generic"
      BY <1>b, <2>1
    <3> QED
      BY <1>c, <3>1
  <2> QED
    BY <2>1
<1>2. \A i \in Nat : IsAt(e, i, "rewrite") => (p1 <= i /\ i < p2) \/ (p2 + 1 <= i /\ i < p4)
  <2> HIDE DEF Spans
  <2>1. ASSUME NEW i \in Nat, IsAt(e, i, "rewrite")
        PROVE  (p1 <= i /\ i < p2) \/ (p2 + 1 <= i /\ i < p4)
    <3>1. i < Len(e.ph) /\ C(i) = "rewrite"
      BY <1>b, <2>1
    <3> QED
      BY <1>c, <3>1
  <2> QED
    BY <2>1
<1>3. \A i \in Nat : IsAt(e, i, "find_config") <=> i = p2
  BY SMTT(30), <1>0, <1>a, <1>b
<1> HIDE DEF Spans
<1>4. \A i \in Nat : /\ IsAt(e, i, "post_rewrite") <=> p4 <= i /\ i < p5
                     /\ IsAt(e, i, "post_rewrite") => N(i) = p2
  <2> TAKE i \in Nat
  <2>1. ASSUME IsAt(e, i, "post_rewrite") PROVE p4 <= i /\ i < p5 /\ N(i) = p2
    <3>1. i < Len(e.ph) /\ C(i) = "post_rewrite"
      BY <1>b, <2>1
    <3> QED
      BY <1>c, <3>1
  <2>2. p4 <= i /\ i < p5 => IsAt(e, i, "post_rewrite")
    BY SMTT(30), <1>0, <1>b, <1>c
  <2> QED
    BY <2>1, <2>2
<1>5. \A i \in Nat : IsAt(e, i, "access") => p6 <= i /\ i < p7 /\ N(i) = p7 + 1
  <2>1. ASSUME NEW i \in Nat, IsAt(e, i, "access") PROVE p6 <= i /\ i < p7 /\ N(i) = p7 + 1
    <3>1. i < Len(e.ph) /\ C(i) = "access"
      BY <1>b, <2>1
    <3> QED
      BY <1>c, <3>1
  <2> QED
    BY <2>1
<1>6. \A i \in Nat : IsAt(e, i, "post_access") <=> p7 <= i /\ i < p8
  <2> TAKE i \in Nat
  <2>1. ASSUME IsAt(e, i, "post_access") PROVE p7 <= i /\ i < p8
    <3>1. i < Len(e.ph) /\ C(i) = "post_access"
      BY <1>b, <2>1
    <3> QED
      BY <1>c, <3>1
  <2>2. p7 <= i /\ i < p8 => IsAt(e, i, "post_access")
    BY SMTT(30), <1>0, <1>b, <1>c
  <2> QED
    BY <2>1, <2>2
<1>7. \A i \in Nat : IsAt(e, i, "try_files") => p8 <= i /\ i < p9
  <2>1. ASSUME NEW i \in Nat, IsAt(e, i, "try_files") PROVE p8 <= i /\ i < p9
    <3>1. i < Len(e.ph) /\ C(i) = "try_files"
      BY <1>b, <2>1
    <3> QED
      BY <1>c, <3>1
  <2> QED
    BY <2>1
<1>8. \A i \in Nat : IsAt(e, i, "content") => p9 <= i
  <2>1. ASSUME NEW i \in Nat, IsAt(e, i, "content") PROVE p9 <= i
    <3>1. i < Len(e.ph) /\ C(i) = "content"
      BY <1>b, <2>1
    <3> QED
      BY <1>c, <3>1
  <2> QED
    BY <2>1
<1>9. \A i \in Nat : LooksUp(e, i) <=> i = p2 \/ (p4 <= i /\ i < p5)
  BY <1>3, <1>4 DEF LooksUp
<1>10. \A i \in Nat : Guards(e, i) => p6 <= i /\ i < p9
  BY SMTT(30), <1>5, <1>6, <1>7 DEF Guards
<1>11. \A i \in Nat, j \in Nat : IsAt(e, i, "generic") /\ LooksUp(e, j) /\ i < j => NextOf(e, i) <= j
  BY SMTT(30), <1>1, <1>9 DEF N
<1>12. \A i \in Nat, j \in Nat : IsAt(e, i, "generic") /\ Guards(e, j) /\ i < j => NextOf(e, i) <= j
  BY SMTT(30), <1>1, <1>10 DEF N
<1>13. \A i \in Nat : IsAt(e, i, "rewrite") => \E j \in Nat : i < j /\ LooksUp(e, j)
  BY <1>2, <1>9
<1>14. \A i \in Nat : IsAt(e, i, "access") => \E j \in Nat : i < j /\ IsAt(e, j, "post_access")
  BY <1>5, <1>6
<1>15. \A i \in Nat, j \in Nat : IsAt(e, i, "access") /\ IsAt(e, j, "try_files") => NextOf(e, i) <= j
  BY SMTT(30), <1>5, <1>7 DEF N
<1>16. \A i \in Nat, j \in Nat : LooksUp(e, i) /\ (Guards(e, j) \/ IsAt(e, j, "content")) => i < j
  BY SMTT(30), <1>8, <1>9, <1>10
<1>17. \A i \in Nat, j \in Nat : Guards(e, i) /\ IsAt(e, j, "content") => i < j
  BY <1>8, <1>10
<1>18. IsAt(e, e.find, "find_config") /\ e.server <= e.find
  BY <1>3
<1>19. \A j \in Nat : Guards(e, j) => e.location <= j
  BY <1>10, <1>0
<1>20. \A i \in Nat : IsAt(e, i, "post_rewrite") => NextOf(e, i) = e.find
  BY <1>4 DEF N
<1> QED
  BY <1>11, <1>12, <1>13, <1>14, <1>15, <1>16, <1>17, <1>18, <1>19, <1>20 DEF EngineOK

\* f has all parts of e
Kept(e, f) ==
  /\ Len(e.ph) <= Len(f.ph)
  /\ \A ck, m : \A a \in Nat, b \in Nat :
       b <= Len(e.ph) /\ Part(e.ph, a, b, ck, m) => Part(f.ph, a, b, ck, m)

\* f is e with a part of one checker more
Extends(e, f, checker, next) == Part(f.ph, Len(e.ph), Len(f.ph), checker, next) /\ Kept(e, f)

LEMMA KeptTransitive ==
  ASSUME NEW e \in Engine, NEW f \in Engine, NEW g \in Engine, Kept(e, f), Kept(f, g)
  PROVE  Kept(e, g)
<1>1. Len(e.ph) \in Nat /\ Len(f.ph) \in Nat /\ Len(g.ph) \in Nat
  BY SMTT(30) DEF Engine
<1>2. Len(e.ph) <= Len(g.ph)
  BY <1>1 DEF Kept
<1>3. ASSUME NEW ck, NEW m, NEW a \in Nat, NEW b \in Nat, b <= Len(e.ph), Part(e.ph, a, b, ck, m)
      PROVE  Part(g.ph, a, b, ck, m)
  <2>1. Part(f.ph, a, b, ck, m) /\ b <= Len(f.ph)
    BY <1>1, <1>3 DEF Kept
  <2> QED
    BY <2>1 DEF Kept
<1> QED
  BY <1>2, <1>3 DEF Kept

LEMMA AddsExtends ==
  ASSUME NEW e \in Engine, NEW f \in Engine, NEW h \in Nat,
         NEW checker \in Checkers, NEW next \in Nat,
         Adds(e.ph, f.ph, Len(e.ph) + h, [checker |-> checker, next |-> next])
  PROVE  Extends(e, f, checker, next) /\ Len(f.ph) = Len(e.ph) + h
<1>1. e.ph \in Seq(PhaseHandler) /\ Len(e.ph) \in Nat
  BY DEF Engine
<1> DEFINE to == Len(e.ph) + h
<1>2. to \in Nat /\ Len(e.ph) <= to
  BY <1>1
<1>3. Len(f.ph) = to
  BY DEF Adds
<1> HIDE DEF to
<1>4. Part(f.ph, Len(e.ph), to, checker, next)
  BY <1>1, <1>2, AddsPart DEF to
<1>5. ASSUME NEW a \in Nat, NEW b \in Nat, NEW ck, NEW m, b <= Len(e.ph), Part(e.ph, a, b, ck, m)
      PROVE  Part(f.ph, a, b, ck, m)
  BY <1>1, <1>5, PartKept
<1> QED
  BY <1>2, <1>3, <1>4, <1>5 DEF Extends, Kept, to

\* what a phase adds: the checkers of handlers, one without a handler, or nothing
LEMMA ManyExtends ==
  ASSUME NEW e \in Engine, NEW checker \in Checkers, NEW n \in Nat, NEW h \in Nat,
         NEW f, f = P!Many(e, checker, n, h)
  PROVE  /\ f \in Engine /\ Len(f.ph) = Len(e.ph) + h /\ f.n = n + h
         /\ Extends(e, f, checker, f.n)
         /\ f.find = e.find /\ f.server = e.server /\ f.location = e.location
<1>1. /\ Adds(e.ph, f.ph, Len(e.ph) + h, [checker |-> checker, next |-> n + h])
      /\ f \in Engine /\ f.n = n + h
      /\ f.find = e.find /\ f.server = e.server /\ f.location = e.location
  BY ManyAdds
<1>2. n + h \in Nat
  OBVIOUS
<1>3. Extends(e, f, checker, n + h) /\ Len(f.ph) = Len(e.ph) + h
  BY <1>1, <1>2, AddsExtends
<1> QED
  BY <1>1, <1>3

LEMMA OneExtends ==
  ASSUME NEW e \in Engine, NEW checker \in Checkers, NEW next \in Nat, NEW n \in Nat,
         NEW f, f = P!One(e, checker, next, n)
  PROVE  /\ f \in Engine /\ Len(f.ph) = Len(e.ph) + 1 /\ f.n = n
         /\ Extends(e, f, checker, next)
         /\ f.find = e.find /\ f.server = e.server /\ f.location = e.location
<1>1. /\ Adds(e.ph, f.ph, Len(e.ph) + 1, [checker |-> checker, next |-> next])
      /\ f \in Engine /\ f.n = n
      /\ f.find = e.find /\ f.server = e.server /\ f.location = e.location
  BY OneAdds
<1>2. Extends(e, f, checker, next) /\ Len(f.ph) = Len(e.ph) + 1
  BY <1>1, AddsExtends
<1> QED
  BY <1>1, <1>2

LEMMA NoneExtends ==
  ASSUME NEW e \in Engine, NEW checker, NEW next
  PROVE  Extends(e, e, checker, next)
<1>1. Len(e.ph) \in Nat
  BY DEF Engine
<1>2. Part(e.ph, Len(e.ph), Len(e.ph), checker, next)
  <2>1. \A i \in Nat : ~(Len(e.ph) <= i /\ i < Len(e.ph))
    BY <1>1
  <2> QED
    BY <2>1, Zenon DEF Part
<1> QED
  BY <1>1, <1>2 DEF Extends, Kept

(* The phases, one by one. *)

Config == [handlers : [P!HandlerPhases -> Nat], try_files : BOOLEAN]

LEMMA HandlersExtends ==
  ASSUME NEW conf \in Config, NEW p \in P!HandlerPhases, NEW checker \in Checkers,
         NEW e \in Engine, e.n = Len(e.ph), NEW f, f = P!Handlers(checker, conf, e, p)
  PROVE  /\ f \in Engine /\ f.n = Len(f.ph) /\ Len(f.ph) = Len(e.ph) + conf.handlers[p]
         /\ Extends(e, f, checker, f.n)
         /\ f.find = e.find /\ f.server = e.server /\ f.location = e.location
<1>1. PICK h \in Nat : h = conf.handlers[p]
  BY DEF Config
<1>2. f = P!Many(e, checker, e.n, h)
  BY <1>1, Zenon DEF P!Handlers
<1>3. e.n \in Nat
  BY DEF Engine
<1>4. /\ f \in Engine /\ Len(f.ph) = Len(e.ph) + h /\ f.n = e.n + h
      /\ Extends(e, f, checker, f.n)
      /\ f.find = e.find /\ f.server = e.server /\ f.location = e.location
  BY <1>1, <1>2, <1>3, ManyExtends
<1> QED
  BY <1>1, <1>4

LEMMA PostReadStage ==
  ASSUME NEW conf \in Config, NEW e \in Engine, e.n = Len(e.ph), NEW f, f = P!PostRead(conf, e)
  PROVE  /\ f \in Engine /\ f.n = Len(f.ph)
         /\ Extends(e, f, "generic", f.n)
         /\ f.find = e.find /\ f.server = e.server /\ f.location = e.location
<1>1. "post_read" \in P!HandlerPhases /\ "generic" \in Checkers
  BY DEF P!HandlerPhases, Checkers
<1>2. f = P!Handlers("generic", conf, e, "post_read")
  BY Zenon DEF P!PostRead
<1> QED
  BY <1>1, <1>2, HandlersExtends

LEMMA ServerRewriteStage ==
  ASSUME NEW conf \in Config, NEW e \in Engine, e.n = Len(e.ph), NEW f, f = P!ServerRewrite(conf, e)
  PROVE  /\ f \in Engine /\ f.n = Len(f.ph)
         /\ Extends(e, f, "rewrite", f.n)
         /\ f.server = Len(e.ph) /\ f.find = e.find /\ f.location = e.location
<1>1. "server_rewrite" \in P!HandlerPhases /\ "rewrite" \in Checkers /\ e.n \in Nat
  BY DEF P!HandlerPhases, Checkers, Engine
<1>2. PICK u : u = P!Handlers("rewrite", conf, e, "server_rewrite")
  OBVIOUS
<1>3. f = [u EXCEPT !.server = e.n]
  BY <1>2, Zenon DEF P!ServerRewrite
<1>4. /\ u \in Engine /\ u.n = Len(u.ph)
      /\ Extends(e, u, "rewrite", u.n)
      /\ u.find = e.find /\ u.server = e.server /\ u.location = e.location
  BY <1>1, <1>2, HandlersExtends
<1>5. f \in Engine /\ f.ph = u.ph /\ f.n = u.n /\ f.server = e.n /\ f.find = u.find /\
        f.location = u.location
  BY <1>1, <1>3, <1>4 DEF Engine
<1> QED
  BY <1>4, <1>5, Zenon DEF Extends, Kept

LEMMA FindConfigStage ==
  ASSUME NEW e \in Engine, e.n = Len(e.ph), NEW f, f = P!FindConfig(e)
  PROVE  /\ f \in Engine /\ f.n = Len(f.ph) /\ Len(f.ph) = Len(e.ph) + 1
         /\ Extends(e, f, "find_config", 0)
         /\ f.find = Len(e.ph) /\ f.server = e.server /\ f.location = e.location
<1>1. "find_config" \in Checkers /\ e.n \in Nat /\ e.n + 1 \in Nat
  BY DEF Checkers, Engine
<1>2. PICK u : u = P!One(e, "find_config", 0, e.n + 1)
  OBVIOUS
<1>3. f = [u EXCEPT !.find = e.n]
  BY <1>2, Zenon DEF P!FindConfig
<1>4. /\ u \in Engine /\ u.n = Len(u.ph) /\ Len(u.ph) = Len(e.ph) + 1
      /\ Extends(e, u, "find_config", 0)
      /\ u.find = e.find /\ u.server = e.server /\ u.location = e.location
  BY <1>1, <1>2, OneExtends
<1>5. f \in Engine /\ f.ph = u.ph /\ f.n = u.n /\ f.find = e.n /\ f.server = u.server /\
        f.location = u.location
  BY <1>1, <1>3, <1>4 DEF Engine
<1> QED
  BY <1>4, <1>5, Zenon DEF Extends, Kept

LEMMA RewriteStage ==
  ASSUME NEW conf \in Config, NEW e \in Engine, e.n = Len(e.ph), NEW f, f = P!Rewrite(conf, e)
  PROVE  /\ f \in Engine /\ f.n = Len(f.ph) /\ Len(f.ph) = Len(e.ph) + conf.handlers["rewrite"]
         /\ Extends(e, f, "rewrite", f.n)
         /\ f.location = Len(e.ph) /\ f.find = e.find /\ f.server = e.server
<1>1. "rewrite" \in P!HandlerPhases /\ "rewrite" \in Checkers /\ e.n \in Nat
  BY DEF P!HandlerPhases, Checkers, Engine
<1>2. PICK u : u = P!Handlers("rewrite", conf, e, "rewrite")
  OBVIOUS
<1>3. f = [u EXCEPT !.location = e.n]
  BY <1>2, Zenon DEF P!Rewrite
<1>4. /\ u \in Engine /\ u.n = Len(u.ph) /\ Len(u.ph) = Len(e.ph) + conf.handlers["rewrite"]
      /\ Extends(e, u, "rewrite", u.n)
      /\ u.find = e.find /\ u.server = e.server /\ u.location = e.location
  BY <1>1, <1>2, HandlersExtends
<1>5. f \in Engine /\ f.ph = u.ph /\ f.n = u.n /\ f.location = e.n /\ f.find = u.find /\
        f.server = u.server
  BY <1>1, <1>3, <1>4 DEF Engine
<1> QED
  BY <1>4, <1>5, Zenon DEF Extends, Kept

LEMMA PostRewriteStage ==
  ASSUME NEW conf \in Config, NEW e \in Engine, e.n = Len(e.ph), NEW f, f = P!PostRewrite(conf, e)
  PROVE  /\ f \in Engine /\ f.n = Len(f.ph)
         /\ conf.handlers["rewrite"] > 0 => Len(f.ph) = Len(e.ph) + 1
         /\ Extends(e, f, "post_rewrite", e.find)
         /\ f.find = e.find /\ f.server = e.server /\ f.location = e.location
<1>1. "post_rewrite" \in Checkers /\ e.find \in Nat /\ e.n + 1 \in Nat
  BY DEF Checkers, Engine
<1>2. CASE conf.handlers["rewrite"] > 0
  <2>1. f = P!One(e, "post_rewrite", e.find, e.n + 1)
    BY <1>2, Zenon DEF P!PostRewrite
  <2>2. /\ f \in Engine /\ Len(f.ph) = Len(e.ph) + 1 /\ f.n = e.n + 1
        /\ Extends(e, f, "post_rewrite", e.find)
        /\ f.find = e.find /\ f.server = e.server /\ f.location = e.location
    BY <1>1, <2>1, OneExtends
  <2> QED
    BY <1>2, <2>2
<1>3. CASE ~(conf.handlers["rewrite"] > 0)
  <2>1. f = e
    BY <1>3, Zenon DEF P!PostRewrite
  <2> QED
    BY <1>3, <2>1, NoneExtends
<1> QED
  BY <1>2, <1>3

LEMMA PreaccessStage ==
  ASSUME NEW conf \in Config, NEW e \in Engine, e.n = Len(e.ph), NEW f, f = P!Preaccess(conf, e)
  PROVE  /\ f \in Engine /\ f.n = Len(f.ph)
         /\ Extends(e, f, "generic", f.n)
         /\ f.find = e.find /\ f.server = e.server /\ f.location = e.location
<1>1. "preaccess" \in P!HandlerPhases /\ "generic" \in Checkers
  BY DEF P!HandlerPhases, Checkers
<1>2. f = P!Handlers("generic", conf, e, "preaccess")
  BY Zenon DEF P!Preaccess
<1> QED
  BY <1>1, <1>2, HandlersExtends

LEMMA AccessStage ==
  ASSUME NEW conf \in Config, NEW e \in Engine, e.n = Len(e.ph), NEW f, f = P!Access(conf, e)
  PROVE  /\ f \in Engine /\ f.n = Len(f.ph) + 1
         /\ Len(f.ph) = Len(e.ph) + conf.handlers["access"]
         /\ Extends(e, f, "access", f.n)
         /\ f.find = e.find /\ f.server = e.server /\ f.location = e.location
<1>1. PICK h \in Nat : h = conf.handlers["access"]
  BY DEF Config, P!HandlerPhases
<1>2. "access" \in Checkers /\ e.n \in Nat
  BY DEF Checkers, Engine
<1>n. PICK n \in Nat : n = e.n + 1
  BY <1>2
<1>3. f = P!Many(e, "access", n, h)
  BY <1>1, <1>n, Zenon DEF P!Access
<1>4. /\ f \in Engine /\ Len(f.ph) = Len(e.ph) + h /\ f.n = n + h
      /\ Extends(e, f, "access", f.n)
      /\ f.find = e.find /\ f.server = e.server /\ f.location = e.location
  BY <1>1, <1>2, <1>3, ManyExtends
<1>5. PICK k \in Nat : k = e.n
  BY <1>2
<1>6. Len(f.ph) = k + h /\ f.n = n + h /\ n = k + 1
  BY <1>n, <1>4, <1>5, Zenon
<1>7. f.n = (k + h) + 1
  BY <1>6
<1>8. f.n = Len(f.ph) + 1
  BY <1>6, <1>7, Zenon
<1>9. Len(f.ph) = Len(e.ph) + conf.handlers["access"]
  BY <1>1, <1>4, Zenon
<1> QED
  BY <1>4, <1>8, <1>9

LEMMA PostAccessStage ==
  ASSUME NEW conf \in Config, NEW e \in Engine, NEW f, f = P!PostAccess(conf, e)
  PROVE  /\ f \in Engine /\ (conf.handlers["access"] > 0 => Len(f.ph) = Len(e.ph) + 1)
         /\ Extends(e, f, "post_access", e.n)
         /\ f.find = e.find /\ f.server = e.server /\ f.location = e.location
<1>1. "post_access" \in Checkers /\ e.n \in Nat /\ e.n \in Nat
  BY DEF Checkers, Engine
<1>2. CASE conf.handlers["access"] > 0
  <2>1. f = P!One(e, "post_access", e.n, e.n)
    BY <1>2, Zenon DEF P!PostAccess
  <2>2. /\ f \in Engine /\ Len(f.ph) = Len(e.ph) + 1 /\ f.n = e.n
        /\ Extends(e, f, "post_access", e.n)
        /\ f.find = e.find /\ f.server = e.server /\ f.location = e.location
    BY <1>1, <2>1, OneExtends
  <2> QED
    BY <1>2, <2>2
<1>3. CASE ~(conf.handlers["access"] > 0)
  <2>1. f = e
    BY <1>3, Zenon DEF P!PostAccess
  <2> QED
    BY <1>3, <2>1, NoneExtends
<1> QED
  BY <1>2, <1>3

LEMMA TryFilesStage ==
  ASSUME NEW conf \in Config, NEW e \in Engine, NEW f, f = P!TryFiles(conf, e)
  PROVE  /\ f \in Engine
         /\ Extends(e, f, "try_files", 0)
         /\ f.find = e.find /\ f.server = e.server /\ f.location = e.location
<1>1. "try_files" \in Checkers /\ 0 \in Nat /\ e.n + 1 \in Nat
  BY DEF Checkers, Engine
<1>2. CASE conf.try_files
  <2>1. f = P!One(e, "try_files", 0, e.n + 1)
    BY <1>2, Zenon DEF P!TryFiles
  <2>2. /\ f \in Engine /\ Len(f.ph) = Len(e.ph) + 1 /\ f.n = e.n + 1
        /\ Extends(e, f, "try_files", 0)
        /\ f.find = e.find /\ f.server = e.server /\ f.location = e.location
    BY <1>1, <2>1, OneExtends
  <2> QED
    BY <1>2, <2>2
<1>3. CASE ~(conf.try_files)
  <2>1. f = e
    BY <1>3, Zenon DEF P!TryFiles
  <2> QED
    BY <1>3, <2>1, NoneExtends
<1> QED
  BY <1>2, <1>3

LEMMA ContentStage ==
  ASSUME NEW conf \in Config, NEW e \in Engine, NEW f, f = P!Content(conf, e)
  PROVE  /\ f \in Engine /\ Extends(e, f, "content", f.n)
         /\ f.find = e.find /\ f.server = e.server /\ f.location = e.location
<1>1. PICK h \in Nat : h = conf.handlers["content"]
  BY DEF Config, P!HandlerPhases
<1>2. "content" \in Checkers /\ e.n \in Nat
  BY DEF Checkers, Engine
<1>3. f = P!Many(e, "content", e.n, h)
  BY <1>1, Zenon DEF P!Content, P!Handlers
<1> QED
  BY <1>1, <1>2, <1>3, ManyExtends

LEMMA InitPhaseHandlersOK ==
  ASSUME P!PhasesAssumption, NEW conf \in Configs
  PROVE  EngineOK(P!InitPhaseHandlers(conf))
<1>c. conf \in Config /\ conf.handlers["rewrite"] \in Nat /\ conf.handlers["access"] \in Nat
  BY DEF P!PhasesAssumption, Config, P!HandlerPhases
<1>e0. PICK e0 : e0 = P!NoHandlers
  OBVIOUS
<1>s0. e0 \in Engine /\ Len(e0.ph) = 0 /\ e0.n = Len(e0.ph)
  BY <1>e0 DEF P!NoHandlers, Engine
<1>e1. PICK e1 : e1 = P!PostRead(conf, e0)
  OBVIOUS
<1>s1. /\ e1 \in Engine /\ e1.n = Len(e1.ph)
       /\ Extends(e0, e1, "generic", e1.n)
       /\ e1.find = e0.find /\ e1.server = e0.server /\ e1.location = e0.location
  BY <1>c, <1>e1, <1>s0, PostReadStage
<1>e2. PICK e2 : e2 = P!ServerRewrite(conf, e1)
  OBVIOUS
<1>s2. /\ e2 \in Engine /\ e2.n = Len(e2.ph)
       /\ Extends(e1, e2, "rewrite", e2.n)
       /\ e2.server = Len(e1.ph) /\ e2.find = e1.find /\ e2.location = e1.location
  BY <1>c, <1>e2, <1>s1, ServerRewriteStage
<1>e3. PICK e3 : e3 = P!FindConfig(e2)
  OBVIOUS
<1>s3. /\ e3 \in Engine /\ e3.n = Len(e3.ph) /\ Len(e3.ph) = Len(e2.ph) + 1
       /\ Extends(e2, e3, "find_config", 0)
       /\ e3.find = Len(e2.ph) /\ e3.server = e2.server /\ e3.location = e2.location
  BY <1>c, <1>e3, <1>s2, FindConfigStage
<1>e4. PICK e4 : e4 = P!Rewrite(conf, e3)
  OBVIOUS
<1>s4. /\ e4 \in Engine /\ e4.n = Len(e4.ph) /\ Len(e4.ph) = Len(e3.ph) + conf.handlers["rewrite"]
       /\ Extends(e3, e4, "rewrite", e4.n)
       /\ e4.location = Len(e3.ph) /\ e4.find = e3.find /\ e4.server = e3.server
  BY <1>c, <1>e4, <1>s3, RewriteStage
<1>e5. PICK e5 : e5 = P!PostRewrite(conf, e4)
  OBVIOUS
<1>s5. /\ e5 \in Engine /\ e5.n = Len(e5.ph)
       /\ conf.handlers["rewrite"] > 0 => Len(e5.ph) = Len(e4.ph) + 1
       /\ Extends(e4, e5, "post_rewrite", e4.find)
       /\ e5.find = e4.find /\ e5.server = e4.server /\ e5.location = e4.location
  BY <1>c, <1>e5, <1>s4, PostRewriteStage
<1>e6. PICK e6 : e6 = P!Preaccess(conf, e5)
  OBVIOUS
<1>s6. /\ e6 \in Engine /\ e6.n = Len(e6.ph)
       /\ Extends(e5, e6, "generic", e6.n)
       /\ e6.find = e5.find /\ e6.server = e5.server /\ e6.location = e5.location
  BY <1>c, <1>e6, <1>s5, PreaccessStage
<1>e7. PICK e7 : e7 = P!Access(conf, e6)
  OBVIOUS
<1>s7. /\ e7 \in Engine /\ e7.n = Len(e7.ph) + 1
       /\ Len(e7.ph) = Len(e6.ph) + conf.handlers["access"]
       /\ Extends(e6, e7, "access", e7.n)
       /\ e7.find = e6.find /\ e7.server = e6.server /\ e7.location = e6.location
  BY <1>c, <1>e7, <1>s6, AccessStage
<1>e8. PICK e8 : e8 = P!PostAccess(conf, e7)
  OBVIOUS
<1>s8. /\ e8 \in Engine /\ (conf.handlers["access"] > 0 => Len(e8.ph) = Len(e7.ph) + 1)
       /\ Extends(e7, e8, "post_access", e7.n)
       /\ e8.find = e7.find /\ e8.server = e7.server /\ e8.location = e7.location
  BY <1>c, <1>e8, <1>s7, PostAccessStage
<1>e9. PICK e9 : e9 = P!TryFiles(conf, e8)
  OBVIOUS
<1>s9. /\ e9 \in Engine
       /\ Extends(e8, e9, "try_files", 0)
       /\ e9.find = e8.find /\ e9.server = e8.server /\ e9.location = e8.location
  BY <1>c, <1>e9, <1>s8, TryFilesStage
<1>e10. PICK e10 : e10 = P!Content(conf, e9)
  OBVIOUS
<1>s10. /\ e10 \in Engine
        /\ Extends(e9, e10, "content", e10.n)
        /\ e10.find = e9.find /\ e10.server = e9.server /\ e10.location = e9.location
  BY <1>c, <1>e10, <1>s9, ContentStage
<1>k9. Kept(e9, e10)
  BY <1>s9, <1>s10 DEF Extends
<1>k8. Kept(e8, e10)
  BY <1>s8, <1>s9, <1>s10, <1>k9, KeptTransitive DEF Extends
<1>k7. Kept(e7, e10)
  BY <1>s7, <1>s8, <1>s10, <1>k8, KeptTransitive DEF Extends
<1>k6. Kept(e6, e10)
  BY <1>s6, <1>s7, <1>s10, <1>k7, KeptTransitive DEF Extends
<1>k5. Kept(e5, e10)
  BY <1>s5, <1>s6, <1>s10, <1>k6, KeptTransitive DEF Extends
<1>k4. Kept(e4, e10)
  BY <1>s4, <1>s5, <1>s10, <1>k5, KeptTransitive DEF Extends
<1>k3. Kept(e3, e10)
  BY <1>s3, <1>s4, <1>s10, <1>k4, KeptTransitive DEF Extends
<1>k2. Kept(e2, e10)
  BY <1>s2, <1>s3, <1>s10, <1>k3, KeptTransitive DEF Extends
<1>k1. Kept(e1, e10)
  BY <1>s1, <1>s2, <1>s10, <1>k2, KeptTransitive DEF Extends
<1>p1. PICK p1 \in Nat : p1 = Len(e1.ph)
  BY <1>s1 DEF Engine
<1>p2. PICK p2 \in Nat : p2 = Len(e2.ph)
  BY <1>s2 DEF Engine
<1>p3. PICK p3 \in Nat : p3 = Len(e3.ph)
  BY <1>s3 DEF Engine
<1>p4. PICK p4 \in Nat : p4 = Len(e4.ph)
  BY <1>s4 DEF Engine
<1>p5. PICK p5 \in Nat : p5 = Len(e5.ph)
  BY <1>s5 DEF Engine
<1>p6. PICK p6 \in Nat : p6 = Len(e6.ph)
  BY <1>s6 DEF Engine
<1>p7. PICK p7 \in Nat : p7 = Len(e7.ph)
  BY <1>s7 DEF Engine
<1>p8. PICK p8 \in Nat : p8 = Len(e8.ph)
  BY <1>s8 DEF Engine
<1>p9. PICK p9 \in Nat : p9 = Len(e9.ph)
  BY <1>s9 DEF Engine
<1>p10. PICK p10 \in Nat : p10 = Len(e10.ph)
  BY <1>s10 DEF Engine
<1>q1. Part(e10.ph, 0, p1, "generic", p1)
  <2>1. Part(e1.ph, 0, p1, "generic", p1)
    BY <1>s0, <1>p1, <1>s1 DEF Extends
  <2>2. p1 <= Len(e1.ph)
    BY <1>p1
  <2> QED
    BY <1>s0, <1>p1, <1>k1, <2>1, <2>2 DEF Kept
<1>q2. Part(e10.ph, p1, p2, "rewrite", e2.n)
  <2>1. Part(e2.ph, p1, p2, "rewrite", e2.n)
    BY <1>p1, <1>p2, <1>s2 DEF Extends
  <2>2. p2 <= Len(e2.ph)
    BY <1>p2
  <2> QED
    BY <1>p1, <1>p2, <1>k2, <2>1, <2>2 DEF Kept
<1>q3. Part(e10.ph, p2, p3, "find_config", 0)
  <2>1. Part(e3.ph, p2, p3, "find_config", 0)
    BY <1>p2, <1>p3, <1>s3 DEF Extends
  <2>2. p3 <= Len(e3.ph)
    BY <1>p3
  <2> QED
    BY <1>p2, <1>p3, <1>k3, <2>1, <2>2 DEF Kept
<1>q4. Part(e10.ph, p3, p4, "rewrite", e4.n)
  <2>1. Part(e4.ph, p3, p4, "rewrite", e4.n)
    BY <1>p3, <1>p4, <1>s4 DEF Extends
  <2>2. p4 <= Len(e4.ph)
    BY <1>p4
  <2> QED
    BY <1>p3, <1>p4, <1>k4, <2>1, <2>2 DEF Kept
<1>q5. Part(e10.ph, p4, p5, "post_rewrite", p2)
  <2>1. Part(e5.ph, p4, p5, "post_rewrite", p2)
    BY <1>p4, <1>p5, <1>s5, <1>s3, <1>s4, <1>p2 DEF Extends
  <2>2. p5 <= Len(e5.ph)
    BY <1>p5
  <2> QED
    BY <1>p4, <1>p5, <1>k5, <2>1, <2>2 DEF Kept
<1>q6. Part(e10.ph, p5, p6, "generic", p6)
  <2>1. Part(e6.ph, p5, p6, "generic", p6)
    BY <1>p5, <1>p6, <1>s6 DEF Extends
  <2>2. p6 <= Len(e6.ph)
    BY <1>p6
  <2> QED
    BY <1>p5, <1>p6, <1>k6, <2>1, <2>2 DEF Kept
<1>q7. Part(e10.ph, p6, p7, "access", p7 + 1)
  <2>1. Part(e7.ph, p6, p7, "access", p7 + 1)
    BY <1>p6, <1>p7, <1>s7 DEF Extends
  <2>2. p7 <= Len(e7.ph)
    BY <1>p7
  <2> QED
    BY <1>p6, <1>p7, <1>k7, <2>1, <2>2 DEF Kept
<1>q8. Part(e10.ph, p7, p8, "post_access", e7.n)
  <2>1. Part(e8.ph, p7, p8, "post_access", e7.n)
    BY <1>p7, <1>p8, <1>s8 DEF Extends
  <2>2. p8 <= Len(e8.ph)
    BY <1>p8
  <2> QED
    BY <1>p7, <1>p8, <1>k8, <2>1, <2>2 DEF Kept
<1>q9. Part(e10.ph, p8, p9, "try_files", 0)
  <2>1. Part(e9.ph, p8, p9, "try_files", 0)
    BY <1>p8, <1>p9, <1>s9 DEF Extends
  <2>2. p9 <= Len(e9.ph)
    BY <1>p9
  <2> QED
    BY <1>p8, <1>p9, <1>k9, <2>1, <2>2 DEF Kept
<1>q10. Part(e10.ph, p9, p10, "content", e10.n)
  <2>1. Part(e10.ph, p9, p10, "content", e10.n)
    BY <1>p9, <1>p10, <1>s10 DEF Extends
  <2> QED
    BY <2>1
<1>1. /\ p1 <= p2 /\ p4 <= p5 /\ p5 <= p6 /\ p6 <= p7 /\ p7 <= p8 /\ p8 <= p9 /\ p9 <= Len(e10.ph)
  BY <1>p1, <1>p2, <1>p4, <1>p5, <1>p6, <1>p7, <1>p8, <1>p9, <1>s2, <1>s5, <1>s6, <1>s7, <1>s8,
     <1>s9, <1>s10 DEF Extends, Kept
<1>2. p3 = p2 + 1 /\ p2 + 1 <= p4 /\ (p2 + 1 < p4 => p4 < p5) /\ (p6 < p7 => p8 = p7 + 1)
  <2>1. p3 = p2 + 1
    BY <1>p2, <1>p3, <1>s3
  <2>2. p4 = p3 + conf.handlers["rewrite"]
    BY <1>p3, <1>p4, <1>s4
  <2>3. conf.handlers["rewrite"] > 0 => p5 = p4 + 1
    BY <1>p4, <1>p5, <1>s5
  <2>4. p7 = p6 + conf.handlers["access"]
    BY <1>p6, <1>p7, <1>s7
  <2>5. conf.handlers["access"] > 0 => p8 = p7 + 1
    BY <1>p7, <1>p8, <1>s8
  <2>6. PICK a \in Nat, b \in Nat : a = conf.handlers["rewrite"] /\ b = conf.handlers["access"]
    BY <1>c
  <2>7. /\ p4 = p3 + a /\ (a > 0 => p5 = p4 + 1) /\ p7 = p6 + b /\ (b > 0 => p8 = p7 + 1)
    BY <2>2, <2>3, <2>4, <2>5, <2>6, Zenon
  <2>8. /\ a \in Nat /\ b \in Nat /\ p2 \in Nat /\ p3 \in Nat /\ p4 \in Nat /\ p5 \in Nat
        /\ p6 \in Nat /\ p7 \in Nat /\ p8 \in Nat
    BY <1>p2, <1>p3, <1>p4, <1>p5, <1>p6, <1>p7, <1>p8, <2>6
  <2> QED
    BY <2>1, <2>7, <2>8
<1>3. /\ e10 \in Engine /\ e2.n \in Nat /\ e4.n \in Nat /\ e7.n \in Nat /\ e10.n \in Nat
  BY <1>s2, <1>s4, <1>s7, <1>s10 DEF Engine
<1>4. e10.find = p2 /\ e10.server = p1 /\ e10.location = p2 + 1
  BY <1>2, <1>p1, <1>p2, <1>p3, <1>s2, <1>s3, <1>s4, <1>s5, <1>s6, <1>s7, <1>s8, <1>s9, <1>s10
<1>5. EngineOK(e10)
  <2>1. Part(e10.ph, p2, p2 + 1, "find_config", 0) /\ Part(e10.ph, p2 + 1, p4, "rewrite", e4.n)
    BY <1>2, <1>q3, <1>q4
  <2>2. Part(e10.ph, p9, Len(e10.ph), "content", e10.n)
    BY <1>p10, <1>q10
  <2> QED
    BY <1>1, <1>2, <1>3, <1>4, <1>q1, <1>q2, <1>q5, <1>q6, <1>q7, <1>q8, <1>q9, <2>1, <2>2,
       LayoutOK
<1> QED
  BY <1>5, <1>e0, <1>e1, <1>e2, <1>e3, <1>e4, <1>e5, <1>e6, <1>e7, <1>e8, <1>e9, <1>e10, Zenon
  DEF P!InitPhaseHandlers

-----------------------------------------------------------------------------
(* The invariant of a request on its way. *)

Request ==
  [ph : Nat, loc : Locations \cup Named \cup {Server}, main : BOOLEAN, internal : BOOLEAN,
   changed : BOOLEAN, changes : 0..Width - 1, denied : BOOLEAN, page : BOOLEAN,
   handler : BOOLEAN, post : BOOLEAN,
   pc : {"run", "wait", "content", "error", "end", "fail", "done"},
   seen : SUBSET (Nat \X {"declined", "ok", "denied", "passed"}), hops : Nat]

\* a changed URI is still going to be looked up
LookupPending(e, ph, changed) == changed => \E i \in Nat : ph <= i /\ LooksUp(e, i)
\* the access phase agreed, up to here, or it is going to refuse
Permitted(e, ph, loc, denied, seen) ==
  \/ loc \in SatisfyAny /\ \E i \in Nat : <<i, "ok">> \in seen
  \/ \A i \in Nat : IsAt(e, i, "access") /\ i < ph =>
       <<i, "declined">> \in seen \/ <<i, "ok">> \in seen
  \/ denied /\ \E i \in Nat : ph <= i /\ IsAt(e, i, "post_access")
Passed(e, ph, seen) == \A i \in Nat : IsAt(e, i, "try_files") /\ i < ph => <<i, "passed">> \in seen

Checked(e, q) ==
  /\ LookupPending(e, q.ph, q.changed)
  /\ q.main => Permitted(e, q.ph, q.loc, q.denied, q.seen)
  /\ Passed(e, q.ph, q.seen)
  /\ q.loc \in Internal => q.internal
  /\ q.pc = "content" => IsAt(e, q.ph, "content")

\* the field that counts the changes wraps at most once, for a post_action
Limited(post, changes, hops) ==
  /\ ~post => changes + hops = MaxChanges + 1
  /\ changes + hops <= MaxChanges + 1 + Width

OnTheWay == {"run", "wait", "content"}

RequestOK(e, q) ==
  /\ q \in Request
  /\ Limited(q.post, q.changes, q.hops)
  /\ q.pc \in OnTheWay => q.changes # 0 /\ Checked(e, q)

IInv == EngineOK(engine) /\ RequestOK(engine, phase_r)

-----------------------------------------------------------------------------
(* How the request moves. *)

\* what is ahead of a is ahead of b
Skips(e, a, b) == \A j \in Nat : (LooksUp(e, j) \/ Guards(e, j)) /\ a <= j => b <= j
\* all that a request has to pass is still ahead
Fresh(e, b) == \A j \in Nat : Guards(e, j) => b <= j

LEMMA SkipsKeeps ==
  ASSUME NEW e, NEW a \in Nat, NEW b \in Nat, Skips(e, a, b), NEW loc, NEW changed, NEW denied,
         NEW seen
  PROVE  /\ LookupPending(e, a, changed) => LookupPending(e, b, changed)
         /\ Permitted(e, a, loc, denied, seen) => Permitted(e, b, loc, denied, seen)
         /\ Passed(e, a, seen) => Passed(e, b, seen)
<1>1. LookupPending(e, a, changed) => LookupPending(e, b, changed)
  BY DEF LookupPending, Skips
<1>2. Permitted(e, a, loc, denied, seen) => Permitted(e, b, loc, denied, seen)
  BY DEF Permitted, Skips, Guards
<1>3. Passed(e, a, seen) => Passed(e, b, seen)
  BY DEF Passed, Skips, Guards
<1> QED
  BY <1>1, <1>2, <1>3

LEMMA FreshIsGood ==
  ASSUME NEW e, NEW b \in Nat, Fresh(e, b), NEW loc, NEW denied, NEW seen
  PROVE  Permitted(e, b, loc, denied, seen) /\ Passed(e, b, seen)
BY DEF Permitted, Passed, Fresh, Guards

LEMMA OnlyOne ==
  ASSUME NEW e, NEW i \in Nat, NEW ck, NEW d, IsAt(e, i, ck), ck # d
  PROVE  ~IsAt(e, i, d)
BY DEF IsAt

\* past a place that nothing has to pass
LEMMA StepSkips ==
  ASSUME NEW e, NEW i \in Nat, ~LooksUp(e, i), ~Guards(e, i)
  PROVE  Skips(e, i, i + 1)
<1> SUFFICES ASSUME NEW j \in Nat, LooksUp(e, j) \/ Guards(e, j), i <= j
             PROVE  i + 1 <= j
  BY DEF Skips
<1>1. j # i
  OBVIOUS
<1> QED
  BY <1>1

LEMMA NextTyped ==
  ASSUME NEW e, EngineOK(e), NEW i \in Nat, NEW checker, IsAt(e, i, checker)
  PROVE  NextOf(e, i) \in Nat
<1>1. PICK s : s = e.ph
  OBVIOUS
<1>2. s \in Seq(PhaseHandler)
  BY <1>1 DEF EngineOK, Engine
<1>3. i + 1 \in 1..Len(s)
  BY <1>1, <1>2 DEF IsAt
<1>4. s[i + 1] \in PhaseHandler
  BY <1>2, <1>3
<1>5. NextOf(e, i) = s[i + 1].next
  BY <1>1 DEF NextOf
<1> QED
  BY <1>4, <1>5 DEF PhaseHandler

\* the handlers of a generic phase go on with the next phase
LEMMA GenericSkips ==
  ASSUME NEW e, EngineOK(e), NEW i \in Nat, IsAt(e, i, "generic")
  PROVE  NextOf(e, i) \in Nat /\ Skips(e, i, NextOf(e, i))
<1>1. ~LooksUp(e, i) /\ ~Guards(e, i)
  BY OnlyOne DEF LooksUp, Guards
<1>2. NextOf(e, i) \in Nat
  BY NextTyped
<1>3. \A j \in Nat : (LooksUp(e, j) \/ Guards(e, j)) /\ i < j => NextOf(e, i) <= j
  BY DEF EngineOK
<1> SUFFICES ASSUME NEW j \in Nat, LooksUp(e, j) \/ Guards(e, j), i <= j
             PROVE  NextOf(e, i) <= j
  BY <1>2 DEF Skips
<1>4. j # i
  BY <1>1
<1> QED
  BY <1>2, <1>3, <1>4

-----------------------------------------------------------------------------
(* What the checkers do to the request. *)

LEMMA GoesOut ==
  ASSUME NEW e, NEW q \in Request, Limited(q.post, q.changes, q.hops),
         NEW at \in {"error", "end", "fail", "done"}
  PROVE  RequestOK(e, P!Goes(q, at))
<1> DEFINE g == P!Goes(q, at)
<1>1. g \in Request /\ g.pc = at /\ g.post = q.post /\ g.changes = q.changes /\ g.hops = q.hops
  BY DEF P!Goes, Request
<1> HIDE DEF g
<1>2. g.pc \notin OnTheWay
  BY <1>1 DEF OnTheWay
<1>3. Limited(g.post, g.changes, g.hops)
  BY <1>1, Zenon
<1>4. RequestOK(e, g)
  BY <1>1, <1>2, <1>3 DEF RequestOK
<1> QED
  BY <1>4 DEF g

\* the request goes on, at another place and perhaps with another location
LEMMA GoesOn ==
  ASSUME NEW e, NEW q \in Request, Limited(q.post, q.changes, q.hops), q.changes # 0,
         LookupPending(e, q.ph, q.changed), q.main => Permitted(e, q.ph, q.loc, q.denied, q.seen),
         Passed(e, q.ph, q.seen), q.loc \in Internal => q.internal, q.pc # "content"
  PROVE  RequestOK(e, q)
BY DEF RequestOK, Checked

LEMMA HopCounts ==
  ASSUME P!PhasesAssumption, NEW q \in Request
  PROVE  /\ P!Hop(q) \in Request
         /\ P!Hop(q).changes = IF q.changes = 0 THEN Width - 1 ELSE q.changes - 1
         /\ P!Hop(q).hops = q.hops + 1
         /\ P!Hop(q).loc = q.loc /\ P!Hop(q).ph = q.ph /\ P!Hop(q).main = q.main /\
              P!Hop(q).internal = q.internal
         /\ P!Hop(q).changed = q.changed /\ P!Hop(q).denied = q.denied /\ P!Hop(q).handler = q.handler
         /\ P!Hop(q).post = q.post /\ P!Hop(q).pc = q.pc /\ P!Hop(q).seen = q.seen
<1>1. Width \in Nat /\ 1 < Width /\ q.changes \in 0..Width - 1 /\ q.hops \in Nat
  BY DEF P!PhasesAssumption, Request
<1>2. (q.changes + Width - 1) % Width = IF q.changes = 0 THEN Width - 1 ELSE q.changes - 1
  <2>1. CASE q.changes = 0
    BY <1>1, <2>1
  <2>2. CASE q.changes # 0
    BY <1>1, <2>2
  <2> QED
    BY <2>1, <2>2
<1> DEFINE ck == (q.changes + Width - 1) % Width
<1>3. ck \in 0..Width - 1
  BY <1>1, <1>2
<1>4. P!Hop(q) = [q EXCEPT !.changes = ck, !.hops = q.hops + 1]
  BY DEF P!Hop
<1> HIDE DEF ck
<1>5. q.hops + 1 \in Nat
  BY <1>1
<1> DEFINE n == q.hops + 1
<1>6. n \in Nat /\ P!Hop(q) = [q EXCEPT !.changes = ck, !.hops = n]
  BY <1>4, <1>5
<1> HIDE DEF n
<1>7. P!Hop(q) \in Request
  BY <1>3, <1>6 DEF Request
<1>8. P!Hop(q).changes = ck /\ P!Hop(q).hops = n
  BY <1>6 DEF Request
<1>9. /\ P!Hop(q).loc = q.loc /\ P!Hop(q).ph = q.ph /\ P!Hop(q).main = q.main
      /\ P!Hop(q).internal = q.internal /\ P!Hop(q).changed = q.changed /\ P!Hop(q).denied = q.denied
      /\ P!Hop(q).handler = q.handler
  BY <1>6 DEF Request
<1>10. P!Hop(q).post = q.post /\ P!Hop(q).pc = q.pc /\ P!Hop(q).seen = q.seen
  BY <1>6 DEF Request
<1> QED
  BY <1>2, <1>7, <1>8, <1>9, <1>10 DEF ck, n

-----------------------------------------------------------------------------
(* Redirects. *)

\* the requests that are sent back
Redirectable(q) ==
  /\ q \in Request /\ Limited(q.post, q.changes, q.hops)
  /\ q.changes # 0 \/ (q.post /\ q.changes + q.hops <= MaxChanges + 1)

LEMMA HopLimited ==
  ASSUME P!PhasesAssumption, NEW q, Redirectable(q)
  PROVE  LET h == P!Hop(q) IN h \in Request /\ Limited(h.post, h.changes, h.hops)
<1>1. q \in Request /\ Limited(q.post, q.changes, q.hops)
      /\ (q.changes # 0 \/ (q.post /\ q.changes + q.hops <= MaxChanges + 1))
  BY DEF Redirectable
<1>2. PICK h : h = P!Hop(q)
  OBVIOUS
<1>3. /\ h \in Request /\ h.hops = q.hops + 1 /\ h.post = q.post
      /\ h.changes = IF q.changes = 0 THEN Width - 1 ELSE q.changes - 1
  BY <1>1, <1>2, HopCounts
<1>4. q.changes \in Nat /\ q.hops \in Nat /\ Width \in Nat /\ MaxChanges \in Nat /\ q.post \in BOOLEAN
  BY <1>1 DEF Request, P!PhasesAssumption
<1>5. Limited(h.post, h.changes, h.hops)
  BY <1>1, <1>3, <1>4 DEF Limited
<1> QED
  BY <1>2, <1>3, <1>5

LEMMA FreshPlaces ==
  ASSUME NEW e, EngineOK(e)
  PROVE  /\ e.server \in Nat /\ Fresh(e, e.server) /\ LookupPending(e, e.server, TRUE)
         /\ e.find \in Nat /\ Fresh(e, e.find) /\ LookupPending(e, e.find, TRUE)
         /\ e.location \in Nat /\ Fresh(e, e.location)
         /\ \A i \in Nat : LooksUp(e, i) => Fresh(e, i + 1)
<1>1. e.server \in Nat /\ e.find \in Nat /\ e.location \in Nat
  BY DEF EngineOK, Engine
<1>2. LooksUp(e, e.find) /\ e.server <= e.find
  BY DEF EngineOK, LooksUp
<1>3. \A i \in Nat, j \in Nat : LooksUp(e, i) /\ Guards(e, j) => i < j
  BY DEF EngineOK
<1>4. \A j \in Nat : Guards(e, j) => e.location <= j
  BY DEF EngineOK
<1>5. Fresh(e, e.server) /\ Fresh(e, e.find) /\ Fresh(e, e.location)
  BY <1>1, <1>2, <1>3, <1>4 DEF Fresh
<1>6. LookupPending(e, e.server, TRUE) /\ LookupPending(e, e.find, TRUE)
  BY <1>1, <1>2 DEF LookupPending
<1>7. \A i \in Nat : LooksUp(e, i) => Fresh(e, i + 1)
  BY <1>3 DEF Fresh
<1> QED
  BY <1>1, <1>5, <1>6, <1>7

LEMMA InternalRedirectOK ==
  ASSUME P!PhasesAssumption, NEW q, Redirectable(q), EngineOK(engine)
  PROVE  RequestOK(engine, P!InternalRedirect(q))
<1>1. PICK h : h = P!Hop(q)
  OBVIOUS
<1>2. h \in Request /\ Limited(h.post, h.changes, h.hops)
  BY <1>1, HopLimited
<1>3. CASE h.changes = 0
  <2>1. P!InternalRedirect(q) = P!Goes(h, "error")
    BY <1>1, <1>3 DEF P!InternalRedirect
  <2> QED
    BY <1>2, <2>1, GoesOut
<1>4. CASE h.changes # 0
  <2>1. P!InternalRedirect(q) =
          P!Goes([P!Located(h, Server) EXCEPT !.internal = TRUE, !.ph = engine.server], "run")
    BY <1>1, <1>4 DEF P!InternalRedirect
  <2>2. engine.server \in Nat /\ Fresh(engine, engine.server) /\
          LookupPending(engine, engine.server, TRUE)
    BY FreshPlaces
  <2>3. PICK g : g = P!Goes([P!Located(h, Server) EXCEPT !.internal = TRUE,
          !.ph = engine.server], "run")
    OBVIOUS
  <2>4. /\ g \in Request /\ g.ph = engine.server /\ g.internal = TRUE /\ g.pc = "run"
        /\ g.changes = h.changes /\ g.hops = h.hops /\ g.post = h.post
        /\ g.changed \in BOOLEAN
    BY ZenonT(60), <1>2, <2>2, <2>3 DEF P!Goes, P!Located, Request
  <2>5. /\ LookupPending(engine, g.ph, g.changed) /\ Passed(engine, g.ph, g.seen)
        /\ Permitted(engine, g.ph, g.loc, g.denied, g.seen)
    <3>1. LookupPending(engine, engine.server, g.changed)
      BY <2>2 DEF LookupPending
    <3> QED
      BY <2>2, <2>4, <3>1, FreshIsGood
  <2>6. Limited(g.post, g.changes, g.hops) /\ g.changes # 0
    BY <1>2, <1>4, <2>4, Zenon
  <2>7. RequestOK(engine, g)
    BY <2>4, <2>5, <2>6, GoesOn
  <2> QED
    BY <2>1, <2>3, <2>7
<1> QED
  BY <1>3, <1>4

LEMMA NamedLocationOK ==
  ASSUME P!PhasesAssumption, NEW q, Redirectable(q), EngineOK(engine), NEW l
  PROVE  RequestOK(engine, P!NamedLocation(q, l))
<1>1. PICK h : h = P!Hop(q)
  OBVIOUS
<1>2. h \in Request /\ Limited(h.post, h.changes, h.hops)
  BY <1>1, HopLimited
<1>3. CASE h.changes = 0 \/ l \notin Named
  <2>1. P!NamedLocation(q, l) = P!Goes(h, "error")
    BY <1>1, <1>3 DEF P!NamedLocation
  <2> QED
    BY <1>2, <2>1, GoesOut
<1>4. CASE ~(h.changes = 0 \/ l \notin Named)
  <2> DEFINE x == P!Goes([P!Located([h EXCEPT !.handler = FALSE], l) EXCEPT
                            !.internal = TRUE, !.changed = FALSE, !.ph = engine.location], "run")
  <2>1. P!NamedLocation(q, l) = x
    BY <1>1, <1>4 DEF P!NamedLocation
  <2>2. engine.location \in Nat /\ Fresh(engine, engine.location)
    BY FreshPlaces
  <2>3. PICK g : g = x
    OBVIOUS
  <2>4. /\ g \in Request /\ g.ph = engine.location /\ g.internal = TRUE /\ g.pc = "run"
        /\ g.changes = h.changes /\ g.hops = h.hops /\ g.post = h.post
        /\ g.changed = FALSE
    BY ZenonT(60), <1>2, <1>4, <2>2, <2>3 DEF P!Goes, P!Located, Request
  <2>5. /\ LookupPending(engine, g.ph, g.changed) /\ Passed(engine, g.ph, g.seen)
        /\ Permitted(engine, g.ph, g.loc, g.denied, g.seen)
    <3>1. LookupPending(engine, engine.location, FALSE)
      BY DEF LookupPending
    <3> QED
      BY <2>2, <2>4, <3>1, FreshIsGood
  <2>6. Limited(g.post, g.changes, g.hops) /\ g.changes # 0
    BY <1>2, <1>4, <2>4, Zenon
  <2>7. RequestOK(engine, g)
    BY <2>4, <2>5, <2>6, GoesOn
  <2> QED
    BY <2>1, <2>3, <2>7
<1> QED
  BY <1>3, <1>4

LEMMA RedirectedOK ==
  ASSUME P!PhasesAssumption, NEW q, Redirectable(q), EngineOK(engine), P!Redirected(q)
  PROVE  IInv'
<1>1. \A l : RequestOK(engine, P!NamedLocation(q, l))
  BY NamedLocationOK
<1>2. RequestOK(engine, P!InternalRedirect(q))
  BY InternalRedirectOK
<1>3. engine' = engine /\ RequestOK(engine, phase_r')
  BY <1>1, <1>2 DEF P!Redirected, P!Becomes
<1> QED
  BY <1>3 DEF IInv

-----------------------------------------------------------------------------
(* The actions. *)

LEMMA BecomesOK ==
  ASSUME EngineOK(engine), NEW q, RequestOK(engine, q), P!Becomes(q)
  PROVE  IInv'
<1>1. engine' = engine /\ phase_r' = q
  BY DEF P!Becomes
<1> QED
  BY <1>1 DEF IInv

LEMMA OutOK ==
  ASSUME IInv, NEW at \in {"error", "end", "fail", "done"}
  PROVE  RequestOK(engine, P!Goes(phase_r, at))
<1>1. phase_r \in Request /\ Limited(phase_r.post, phase_r.changes, phase_r.hops)
  BY DEF IInv, RequestOK
<1> QED
  BY <1>1, GoesOut

\* waiting for an event, and going on after it
LEMMA WaitOK ==
  ASSUME IInv, phase_r.pc \in OnTheWay, NEW at \in {"run", "wait"}
  PROVE  RequestOK(engine, P!Goes(phase_r, at))
<1>1. PICK g : g = P!Goes(phase_r, at)
  OBVIOUS
<1>2. phase_r \in Request /\ Limited(phase_r.post, phase_r.changes, phase_r.hops) /\
        phase_r.changes # 0 /\ Checked(engine, phase_r)
  BY DEF IInv, RequestOK
<1>3. /\ g \in Request /\ g.ph = phase_r.ph /\ g.loc = phase_r.loc /\ g.main = phase_r.main
      /\ g.internal = phase_r.internal /\ g.changed = phase_r.changed /\ g.changes = phase_r.changes
      /\ g.denied = phase_r.denied /\ g.post = phase_r.post /\ g.pc = at /\ g.seen = phase_r.seen
      /\ g.hops = phase_r.hops
  BY <1>1, <1>2 DEF P!Goes, Request
<1>4. Limited(g.post, g.changes, g.hops) /\ g.changes # 0
  BY <1>2, <1>3, Zenon
<1>5. /\ LookupPending(engine, g.ph, g.changed) /\ Passed(engine, g.ph, g.seen)
      /\ g.main => Permitted(engine, g.ph, g.loc, g.denied, g.seen)
      /\ g.loc \in Internal => g.internal
  BY <1>2, <1>3 DEF Checked
<1>6. g.pc # "content"
  BY <1>3
<1>7. RequestOK(engine, g)
  BY <1>3, <1>4, <1>5, <1>6, GoesOn
<1> QED
  BY <1>1, <1>7

\* past what nothing has to pass, to a place from which the same is ahead
LEMMA AheadOK ==
  ASSUME IInv, phase_r.pc = "run", NEW b \in Nat, Skips(engine, phase_r.ph, b),
         NEW g \in Request, g.ph = b, g.loc = phase_r.loc, g.main = phase_r.main,
           g.internal \in {phase_r.internal, TRUE},
         LookupPending(engine, b, g.changed), g.changes = phase_r.changes, g.denied = phase_r.denied,
         g.post = phase_r.post, g.pc = "run", g.seen = phase_r.seen, g.hops = phase_r.hops
  PROVE  RequestOK(engine, g)
<1>1. phase_r \in Request /\ Limited(phase_r.post, phase_r.changes, phase_r.hops) /\
        phase_r.changes # 0 /\ Checked(engine, phase_r)
  BY DEF IInv, RequestOK, OnTheWay
<1>2. Limited(g.post, g.changes, g.hops) /\ g.changes # 0
  BY <1>1, Zenon
<1>3. phase_r.ph \in Nat
  BY <1>1 DEF Request
<1>4. /\ Passed(engine, g.ph, g.seen)
      /\ g.main => Permitted(engine, g.ph, g.loc, g.denied, g.seen)
  BY <1>1, <1>3, SkipsKeeps DEF Checked
<1>5. g.loc \in Internal => g.internal
  BY <1>1 DEF Checked
<1> QED
  BY <1>2, <1>4, <1>5, GoesOn

LEMMA AtPlace ==
  ASSUME EngineOK(engine), RequestOK(engine, phase_r), NEW checker, P!At(checker)
  PROVE  /\ phase_r.pc = "run" /\ phase_r.ph \in Nat /\ IsAt(engine, phase_r.ph, checker)
         /\ P!NextPhase = NextOf(engine, phase_r.ph) /\ P!NextPhase \in Nat
<1>1. phase_r.ph \in Nat /\ engine.ph \in Seq(PhaseHandler)
  BY DEF RequestOK, Request, EngineOK, Engine
<1>2. IsAt(engine, phase_r.ph, checker) /\ phase_r.pc = "run"
  BY <1>1 DEF P!At, IsAt
<1>3. P!NextPhase = NextOf(engine, phase_r.ph)
  BY DEF P!NextPhase, NextOf
<1>4. NextOf(engine, phase_r.ph) \in Nat
  BY <1>1, <1>2, NextTyped
<1> QED
  BY <1>1, <1>2, <1>3, <1>4

LEMMA GenericPhaseOK ==
  ASSUME IInv, P!GenericPhase
  PROVE  IInv'
<1>1. EngineOK(engine) /\ RequestOK(engine, phase_r) /\ phase_r \in Request
  BY DEF IInv, RequestOK
<1>2. phase_r.pc = "run" /\ phase_r.ph \in Nat /\ IsAt(engine, phase_r.ph, "generic")
      /\ P!NextPhase = NextOf(engine, phase_r.ph) /\ P!NextPhase \in Nat
  BY <1>1, AtPlace DEF P!GenericPhase
<1>3. Checked(engine, phase_r)
  BY <1>1, <1>2 DEF RequestOK, OnTheWay
<1>4. \A b \in Nat : Skips(engine, phase_r.ph, b) => RequestOK(engine, [phase_r EXCEPT !.ph = b])
  <2> TAKE b \in Nat
  <2> HAVE Skips(engine, phase_r.ph, b)
  <2>1. PICK g : g = [phase_r EXCEPT !.ph = b]
    OBVIOUS
  <2>2. /\ g \in Request /\ g.ph = b /\ g.loc = phase_r.loc /\ g.main = phase_r.main
        /\ g.internal \in {phase_r.internal, TRUE} /\ g.changed = phase_r.changed /\
             g.changes = phase_r.changes
        /\ g.denied = phase_r.denied /\ g.post = phase_r.post /\ g.pc = "run" /\ g.seen = phase_r.seen
        /\ g.hops = phase_r.hops
    BY <1>1, <1>2, <2>1 DEF Request
  <2>3. LookupPending(engine, b, g.changed)
    BY <1>2, <1>3, <2>2, SkipsKeeps DEF Checked
  <2>4. RequestOK(engine, g)
    BY <1>2, <2>2, <2>3, AheadOK
  <2> QED
    BY <2>1, <2>4
<1>5. Skips(engine, phase_r.ph, P!NextPhase)
  BY <1>1, <1>2, GenericSkips
<1>6. Skips(engine, phase_r.ph, phase_r.ph + 1) /\ phase_r.ph + 1 \in Nat
  <2>1. ~LooksUp(engine, phase_r.ph) /\ ~Guards(engine, phase_r.ph)
    BY <1>2, OnlyOne DEF LooksUp, Guards
  <2> QED
    BY <1>2, <2>1, StepSkips
<1>7. RequestOK(engine, [phase_r EXCEPT !.ph = P!NextPhase]) /\ RequestOK(engine, P!Advanced(phase_r))
  BY <1>2, <1>4, <1>5, <1>6 DEF P!Advanced
<1>8. \A at \in {"wait", "error", "fail"} : RequestOK(engine, P!Goes(phase_r, at))
  BY <1>2, OutOK, WaitOK DEF OnTheWay
<1> QED
  BY <1>1, <1>7, <1>8, BecomesOK DEF P!GenericPhase

LEMMA RewritePhaseOK ==
  ASSUME IInv, P!RewritePhase
  PROVE  IInv'
<1>1. EngineOK(engine) /\ RequestOK(engine, phase_r) /\ phase_r \in Request /\
        Limited(phase_r.post, phase_r.changes, phase_r.hops)
  BY DEF IInv, RequestOK
<1>2. phase_r.pc = "run" /\ phase_r.ph \in Nat /\ IsAt(engine, phase_r.ph, "rewrite")
  BY <1>1, AtPlace DEF P!RewritePhase
<1>3. Checked(engine, phase_r)
  BY <1>1, <1>2 DEF RequestOK, OnTheWay
<1>4. Skips(engine, phase_r.ph, phase_r.ph + 1) /\ phase_r.ph + 1 \in Nat
  <2>1. ~LooksUp(engine, phase_r.ph) /\ ~Guards(engine, phase_r.ph)
    BY <1>2, OnlyOne DEF LooksUp, Guards
  <2> QED
    BY <1>2, <2>1, StepSkips
<1>5. LookupPending(engine, phase_r.ph + 1, TRUE)
  <2>1. PICK j \in Nat : phase_r.ph < j /\ LooksUp(engine, j)
    BY <1>1, <1>2 DEF EngineOK
  <2>2. phase_r.ph + 1 <= j
    BY <1>2, <2>1
  <2> QED
    BY <2>1, <2>2 DEF LookupPending
<1>6. \A change \in {"none", "last", "break"} : RequestOK(engine, P!Advanced(P!Script(phase_r,
        change)))
  <2> TAKE change \in {"none", "last", "break"}
  <2>0. PICK q : q = P!Script(phase_r, change)
    OBVIOUS
  <2>q. /\ q \in Request /\ q.ph = phase_r.ph /\ q.loc = phase_r.loc /\ q.main = phase_r.main
        /\ q.internal \in {phase_r.internal, TRUE} /\ q.changes = phase_r.changes
        /\ q.denied = phase_r.denied /\ q.post = phase_r.post /\ q.pc = "run" /\ q.seen = phase_r.seen
        /\ q.hops = phase_r.hops
    <3>1. CASE change = "none"
      BY <1>1, <1>2, <2>0, <3>1 DEF P!Script
    <3>2. CASE change # "none"
      <4>1. PICK b \in BOOLEAN : b = (change = "last")
        OBVIOUS
      <4>2. q = [phase_r EXCEPT !.internal = TRUE, !.changed = b]
        BY <2>0, <3>2, <4>1 DEF P!Script
      <4> QED
        BY <1>1, <1>2, <4>2 DEF Request
    <3> QED
      BY <3>1, <3>2
  <2>p. PICK p \in Nat : p = phase_r.ph + 1
    BY <1>2
  <2>1. PICK g : g = [q EXCEPT !.ph = p]
    OBVIOUS
  <2>g. g = P!Advanced(q)
    BY <2>q, <2>p, <2>1 DEF P!Advanced
  <2>2. /\ g \in Request /\ g.ph = phase_r.ph + 1 /\ g.loc = phase_r.loc /\ g.main = phase_r.main
        /\ g.internal \in {phase_r.internal, TRUE} /\ g.changed \in BOOLEAN /\
             g.changes = phase_r.changes
        /\ g.denied = phase_r.denied /\ g.post = phase_r.post /\ g.pc = "run" /\ g.seen = phase_r.seen
        /\ g.hops = phase_r.hops
    BY <2>q, <2>p, <2>1 DEF Request
  <2>3. LookupPending(engine, phase_r.ph + 1, g.changed)
    BY <1>5 DEF LookupPending
  <2>4. RequestOK(engine, g)
    BY <1>2, <1>4, <2>2, <2>3, AheadOK
  <2> QED
    BY <2>0, <2>g, <2>4
<1>7. \A change \in {"none", "last", "break"}, at \in {"end", "error"} :
        RequestOK(engine, P!Goes(P!Script(phase_r, change), at))
  <2> TAKE change \in {"none", "last", "break"}, at \in {"end", "error"}
  <2>1. PICK g : g = P!Script(phase_r, change)
    OBVIOUS
  <2>2. g \in Request /\ g.changes = phase_r.changes /\ g.post = phase_r.post /\ g.hops = phase_r.hops
    BY <1>1, <2>1 DEF Request, P!Script
  <2>3. Limited(g.post, g.changes, g.hops)
    BY <1>1, <2>2, Zenon
  <2>4. RequestOK(engine, P!Goes(g, at))
    BY <2>2, <2>3, GoesOut
  <2> QED
    BY <2>1, <2>4
<1>8. RequestOK(engine, P!Advanced(phase_r))
  <2>1. P!Advanced(phase_r) = P!Advanced(P!Script(phase_r, "none"))
    BY DEF P!Script
  <2> QED
    BY <1>6, <2>1
<1> QED
  BY <1>1, <1>6, <1>7, <1>8, BecomesOK DEF P!RewritePhase

LEMMA FindConfigPhaseOK ==
  ASSUME IInv, P!FindConfigPhase
  PROVE  IInv'
<1>1. EngineOK(engine) /\ RequestOK(engine, phase_r) /\ phase_r \in Request /\
        Limited(phase_r.post, phase_r.changes, phase_r.hops)
  BY DEF IInv, RequestOK
<1>2. phase_r.pc = "run" /\ phase_r.ph \in Nat /\ IsAt(engine, phase_r.ph, "find_config")
  BY <1>1, AtPlace DEF P!FindConfigPhase
<1>3. phase_r.changes # 0 /\ phase_r.ph + 1 \in Nat /\ Fresh(engine, phase_r.ph + 1)
  <2>1. LooksUp(engine, phase_r.ph)
    BY <1>2 DEF LooksUp
  <2>2. Fresh(engine, phase_r.ph + 1)
    BY <1>1, <1>2, <2>1, FreshPlaces
  <2> QED
    BY <1>1, <1>2, <2>2 DEF RequestOK, OnTheWay
<1> DEFINE At2(l) == [phase_r EXCEPT !.handler = FALSE, !.changed = FALSE, !.loc = l, !.seen = {}]
<1>4. \A l \in Locations \cup {Server} : RequestOK(engine, P!Goes(At2(l), "error"))
  <2> TAKE l \in Locations \cup {Server}
  <2>1. PICK g : g = At2(l)
    OBVIOUS
  <2>2. g \in Request /\ g.changes = phase_r.changes /\ g.post = phase_r.post /\ g.hops = phase_r.hops
    BY <1>1, <2>1 DEF Request
  <2>3. Limited(g.post, g.changes, g.hops)
    BY <1>1, <2>2, Zenon
  <2>4. RequestOK(engine, P!Goes(g, "error"))
    BY <2>2, <2>3, GoesOut
  <2> QED
    BY <2>1, <2>4
<1>5. \A l \in Locations \cup {Server} :
        (l \in Internal => phase_r.internal) => RequestOK(engine, P!Advanced(P!Located(At2(l), l)))
  <2> TAKE l \in Locations \cup {Server}
  <2> HAVE l \in Internal => phase_r.internal
  <2>0. PICK q : q = At2(l)
    OBVIOUS
  <2>q. /\ q \in Request /\ q.changes = phase_r.changes /\ q.post = phase_r.post /\
             q.hops = phase_r.hops
        /\ q.ph = phase_r.ph /\ q.loc = l /\ q.changed = FALSE /\ q.internal = phase_r.internal
        /\ q.pc = "run"
    BY <1>1, <1>2, <2>0 DEF Request
  <2>p. PICK p \in Nat : p = phase_r.ph + 1
    BY <1>2
  <2>h. PICK h \in BOOLEAN : h = (q.handler \/ l \in Handled)
    OBVIOUS
  <2>1. PICK g : g = [q EXCEPT !.loc = l, !.handler = h, !.seen = {}, !.ph = p]
    OBVIOUS
  <2>g. g = P!Advanced(P!Located(q, l))
    BY <2>q, <2>p, <2>h, <2>1 DEF P!Advanced, P!Located, Request
  <2>2. /\ g \in Request /\ g.changes = phase_r.changes /\ g.post = phase_r.post /\
             g.hops = phase_r.hops
        /\ g.ph = phase_r.ph + 1 /\ g.loc = l /\ g.changed = FALSE /\ g.internal = phase_r.internal
        /\ g.pc = "run"
    BY ZenonT(60), <2>q, <2>p, <2>h, <2>1 DEF Request
  <2>3. Limited(g.post, g.changes, g.hops) /\ g.changes # 0
    BY <1>1, <1>3, <2>2, Zenon
  <2>4. /\ LookupPending(engine, g.ph, g.changed) /\ Passed(engine, g.ph, g.seen)
        /\ Permitted(engine, g.ph, g.loc, g.denied, g.seen)
    BY <1>3, <2>2, FreshIsGood DEF LookupPending
  <2>5. RequestOK(engine, g)
    BY <2>2, <2>3, <2>4, GoesOn
  <2> QED
    BY <2>0, <2>g, <2>5
<1> QED
  BY <1>1, <1>4, <1>5, BecomesOK DEF P!FindConfigPhase

LEMMA RedirectableNow ==
  ASSUME IInv, phase_r.pc \in OnTheWay \/ phase_r.changes # 0
  PROVE  Redirectable(phase_r)
BY DEF IInv, RequestOK, Redirectable

LEMMA PostRewritePhaseOK ==
  ASSUME P!PhasesAssumption, IInv, P!PostRewritePhase
  PROVE  IInv'
<1>1. EngineOK(engine) /\ RequestOK(engine, phase_r) /\ phase_r \in Request /\
        Limited(phase_r.post, phase_r.changes, phase_r.hops)
  BY DEF IInv, RequestOK
<1>2. phase_r.pc = "run" /\ phase_r.ph \in Nat /\ IsAt(engine, phase_r.ph, "post_rewrite")
      /\ P!NextPhase = NextOf(engine, phase_r.ph) /\ P!NextPhase \in Nat
  BY <1>1, AtPlace DEF P!PostRewritePhase
<1>3. phase_r.changes # 0 /\ phase_r.ph + 1 \in Nat /\ Fresh(engine, phase_r.ph + 1) /\
        Checked(engine, phase_r)
  <2>1. LooksUp(engine, phase_r.ph)
    BY <1>2 DEF LooksUp
  <2>2. Fresh(engine, phase_r.ph + 1)
    BY <1>1, <1>2, <2>1, FreshPlaces
  <2> QED
    BY <1>1, <1>2, <2>2 DEF RequestOK, OnTheWay
<1>4. ASSUME ~phase_r.changed PROVE RequestOK(engine, P!Advanced(phase_r))
  <2>1. PICK g : g = P!Advanced(phase_r)
    OBVIOUS
  <2>2. /\ g \in Request /\ g.changes = phase_r.changes /\ g.post = phase_r.post /\
             g.hops = phase_r.hops
        /\ g.ph = phase_r.ph + 1 /\ g.loc = phase_r.loc /\ ~g.changed /\ g.internal = phase_r.internal
        /\ g.pc = "run"
    BY <1>1, <1>2, <1>4, <2>1 DEF Request, P!Advanced
  <2>3. Limited(g.post, g.changes, g.hops) /\ g.changes # 0
    BY <1>1, <1>3, <2>2, Zenon
  <2>4. /\ LookupPending(engine, g.ph, g.changed) /\ Passed(engine, g.ph, g.seen)
        /\ Permitted(engine, g.ph, g.loc, g.denied, g.seen)
    BY <1>3, <2>2, FreshIsGood DEF LookupPending
  <2>5. RequestOK(engine, g)
    BY <1>3, <2>2, <2>3, <2>4, GoesOn DEF Checked
  <2> QED
    BY <2>1, <2>5
<1> DEFINE Back(q) == IF q.changes = 0 THEN P!Goes(q, "error")
                      ELSE [q EXCEPT !.ph = P!NextPhase, !.loc = Server, !.seen = {}]
<1>5. RequestOK(engine, Back(P!Hop(phase_r)))
  <2>1. PICK h : h = P!Hop(phase_r)
    OBVIOUS
  <2>2. h \in Request /\ Limited(h.post, h.changes, h.hops) /\ h.pc = "run"
    BY <1>1, <1>2, <2>1, HopLimited, HopCounts, RedirectableNow DEF OnTheWay
  <2>3. CASE h.changes = 0
    BY <2>1, <2>2, <2>3, GoesOut
  <2>4. CASE h.changes # 0
    <3>1. PICK g : g = [h EXCEPT !.ph = P!NextPhase, !.loc = Server, !.seen = {}]
      OBVIOUS
    <3>2. P!NextPhase = engine.find /\ Fresh(engine, engine.find) /\
            LookupPending(engine, engine.find, TRUE)
      BY <1>1, <1>2, FreshPlaces DEF EngineOK
    <3>3. /\ g \in Request /\ g.changes = h.changes /\ g.post = h.post /\ g.hops = h.hops
          /\ g.ph = engine.find /\ g.loc = Server /\ g.pc = "run" /\ g.changed \in BOOLEAN
      BY <1>2, <2>2, <3>1, <3>2 DEF Request
    <3>4. Limited(g.post, g.changes, g.hops) /\ g.changes # 0
      BY <2>2, <2>4, <3>3, Zenon
    <3>5. /\ LookupPending(engine, g.ph, g.changed) /\ Passed(engine, g.ph, g.seen)
          /\ Permitted(engine, g.ph, g.loc, g.denied, g.seen)
      <4>1. engine.find \in Nat
        BY <1>2, <3>2
      <4> QED
        BY <3>2, <3>3, <4>1, FreshIsGood DEF LookupPending
    <3>6. g.loc \notin Internal
      BY <3>3 DEF P!PhasesAssumption
    <3>7. RequestOK(engine, g)
      BY <3>3, <3>4, <3>5, <3>6, GoesOn
    <3> QED
      BY <2>1, <2>4, <3>1, <3>7
  <2> QED
    BY <2>3, <2>4
<1> HIDE DEF Back
<1>6. \/ ~phase_r.changed /\ P!Becomes(P!Advanced(phase_r))
      \/ P!Becomes(Back(P!Hop(phase_r)))
  BY DEF P!PostRewritePhase, Back
<1> QED
  BY <1>1, <1>4, <1>5, <1>6, BecomesOK

\* what the access phase remembers of a handler
LEMMA AccessRemembers ==
  ASSUME NEW e, NEW p \in Nat, IsAt(e, p, "access"), NEW loc, NEW denied, NEW seen,
         NEW rc \in {"declined", "ok"}
  PROVE  /\ Permitted(e, p, loc, denied, seen)
              => Permitted(e, p + 1, loc, denied, seen \cup {<<p, rc>>})
         /\ \A rd : Passed(e, p, seen) => Passed(e, p + 1, seen \cup {<<p, rd>>})
<1>1. ~IsAt(e, p, "try_files") /\ ~IsAt(e, p, "post_access")
  BY OnlyOne
<1>2. \A rd : Passed(e, p, seen) => Passed(e, p + 1, seen \cup {<<p, rd>>})
  <2> TAKE rd
  <2> HAVE Passed(e, p, seen)
  <2> SUFFICES ASSUME NEW i \in Nat, IsAt(e, i, "try_files"), i < p + 1
               PROVE  <<i, "passed">> \in seen \cup {<<p, rd>>}
    BY DEF Passed
  <2>1. i < p
    BY <1>1
  <2> QED
    BY <2>1 DEF Passed
<1>3. ASSUME Permitted(e, p, loc, denied, seen)
      PROVE  Permitted(e, p + 1, loc, denied, seen \cup {<<p, rc>>})
  <2>1. CASE loc \in SatisfyAny /\ \E i \in Nat : <<i, "ok">> \in seen
    BY <2>1 DEF Permitted
  <2>2. CASE \A i \in Nat : IsAt(e, i, "access") /\ i < p =>
               <<i, "declined">> \in seen \/ <<i, "ok">> \in seen
    <3>1. ASSUME NEW i \in Nat, IsAt(e, i, "access"), i < p + 1
          PROVE  \/ <<i, "declined">> \in seen \cup {<<p, rc>>}
                 \/ <<i, "ok">> \in seen \cup {<<p, rc>>}
      <4>1. CASE i = p
        BY <4>1
      <4>2. CASE i # p
        <5>1. i < p
          BY <3>1, <4>2
        <5> QED
          BY <2>2, <3>1, <5>1
      <4> QED
        BY <4>1, <4>2
    <3> QED
      BY <3>1 DEF Permitted
  <2>3. CASE denied /\ \E i \in Nat : p <= i /\ IsAt(e, i, "post_access")
    <3>1. PICK i \in Nat : p <= i /\ IsAt(e, i, "post_access")
      BY <2>3
    <3>2. p + 1 <= i
      BY <1>1, <3>1
    <3> QED
      BY <2>3, <3>1, <3>2 DEF Permitted
  <2> QED
    BY <1>3, <2>1, <2>2, <2>3 DEF Permitted
<1> QED
  BY <1>2, <1>3

LEMMA AccessPhaseOK ==
  ASSUME P!PhasesAssumption, IInv, P!AccessPhase
  PROVE  IInv'
<1>1. EngineOK(engine) /\ RequestOK(engine, phase_r) /\ phase_r \in Request /\
        Limited(phase_r.post, phase_r.changes, phase_r.hops)
  BY DEF IInv, RequestOK
<1>2. phase_r.pc = "run" /\ phase_r.ph \in Nat /\ IsAt(engine, phase_r.ph, "access")
      /\ P!NextPhase = NextOf(engine, phase_r.ph) /\ P!NextPhase \in Nat
  BY <1>1, AtPlace DEF P!AccessPhase
<1>3. phase_r.changes # 0 /\ phase_r.ph + 1 \in Nat /\ Checked(engine, phase_r)
  BY <1>1, <1>2 DEF RequestOK, OnTheWay
\* no change of the URI is left to be looked up here, and try_files is behind
<1>4. ~phase_r.changed
  <2>1. \A i \in Nat : LooksUp(engine, i) => i < phase_r.ph
    BY <1>1, <1>2 DEF EngineOK, Guards
  <2> QED
    BY <1>2, <1>3, <2>1 DEF Checked, LookupPending
<1>5. \A seen : Passed(engine, P!NextPhase, seen)
  <2>1. \A j \in Nat : IsAt(engine, j, "try_files") => P!NextPhase <= j
    BY <1>1, <1>2 DEF EngineOK
  <2> QED
    BY <1>2, <2>1 DEF Passed
<1>6. ASSUME NEW g \in Request, g.loc = phase_r.loc, g.main = phase_r.main,
               g.internal = phase_r.internal,
             g.changed = phase_r.changed, g.changes = phase_r.changes, g.post = phase_r.post,
               g.pc = "run",
             g.hops = phase_r.hops, Passed(engine, g.ph, g.seen),
             g.main => Permitted(engine, g.ph, g.loc, g.denied, g.seen)
      PROVE  RequestOK(engine, g)
  <2>1. Limited(g.post, g.changes, g.hops) /\ g.changes # 0
    BY <1>1, <1>3, <1>6, Zenon
  <2>2. LookupPending(engine, g.ph, g.changed)
    BY <1>4, <1>6 DEF LookupPending
  <2>3. g.loc \in Internal => g.internal
    BY <1>3, <1>6 DEF Checked
  <2> QED
    BY <1>6, <2>1, <2>2, <2>3, GoesOn
<1>7. ASSUME ~phase_r.main PROVE RequestOK(engine, [phase_r EXCEPT !.ph = P!NextPhase])
  <2>1. PICK g : g = [phase_r EXCEPT !.ph = P!NextPhase]
    OBVIOUS
  <2>2. /\ g \in Request /\ g.loc = phase_r.loc /\ g.main = phase_r.main /\
             g.internal = phase_r.internal
        /\ g.changed = phase_r.changed /\ g.changes = phase_r.changes /\ g.post = phase_r.post /\
             g.pc = "run"
        /\ g.hops = phase_r.hops /\ g.ph = P!NextPhase /\ ~g.main
    BY <1>1, <1>2, <1>7, <2>1 DEF Request
  <2>3. Passed(engine, g.ph, g.seen)
    BY <1>5, <2>2
  <2> QED
    BY <1>6, <2>1, <2>2, <2>3
<1>8. ASSUME phase_r.main, NEW rc \in {"declined", "ok"} PROVE RequestOK(engine,
               P!Advanced(P!Saw(phase_r, rc)))
  <2>0. PICK s : s = phase_r.seen \cup {<<phase_r.ph, rc>>}
    OBVIOUS
  <2>s. s \in SUBSET (Nat \X {"declined", "ok", "denied", "passed"})
    BY <1>1, <1>2, <1>8, <2>0 DEF Request
  <2>1. PICK g : g = P!Advanced(P!Saw(phase_r, rc))
    OBVIOUS
  <2>p. PICK p \in Nat : p = phase_r.ph + 1
    BY <1>2
  <2>g. g = [phase_r EXCEPT !.seen = s, !.ph = p]
    BY <1>1, <2>0, <2>1, <2>p DEF P!Saw, P!Advanced, Request
  <2>2. /\ g \in Request /\ g.loc = phase_r.loc /\ g.main = phase_r.main /\
             g.internal = phase_r.internal
        /\ g.changed = phase_r.changed /\ g.changes = phase_r.changes /\ g.post = phase_r.post /\
             g.pc = "run"
        /\ g.hops = phase_r.hops /\ g.ph = phase_r.ph + 1 /\ g.denied = phase_r.denied
        /\ g.seen = phase_r.seen \cup {<<phase_r.ph, rc>>}
    BY <1>1, <1>2, <2>0, <2>s, <2>p, <2>g DEF Request
  <2>3. Permitted(engine, phase_r.ph, phase_r.loc, phase_r.denied, phase_r.seen) /\
          Passed(engine, phase_r.ph, phase_r.seen)
    BY <1>3, <1>8 DEF Checked
  <2>4. Permitted(engine, phase_r.ph + 1, phase_r.loc, phase_r.denied,
          phase_r.seen \cup {<<phase_r.ph, rc>>})
    BY <1>2, <1>8, <2>3, AccessRemembers
  <2>5. Passed(engine, phase_r.ph + 1, phase_r.seen \cup {<<phase_r.ph, rc>>})
    BY <1>2, <2>3, AccessRemembers
  <2>6. Permitted(engine, g.ph, g.loc, g.denied, g.seen) /\ Passed(engine, g.ph, g.seen)
    BY <2>2, <2>4, <2>5
  <2> QED
    BY <1>6, <2>1, <2>2, <2>6
<1>9. ASSUME phase_r.main, phase_r.loc \in SatisfyAny
      PROVE  RequestOK(engine, [P!Saw(phase_r, "ok") EXCEPT !.denied = FALSE, !.ph = P!NextPhase])
  <2>0. PICK s : s = phase_r.seen \cup {<<phase_r.ph, "ok">>}
    OBVIOUS
  <2>s. s \in SUBSET (Nat \X {"declined", "ok", "denied", "passed"})
    BY <1>1, <1>2, <2>0 DEF Request
  <2>1. PICK g : g = [P!Saw(phase_r, "ok") EXCEPT !.denied = FALSE, !.ph = P!NextPhase]
    OBVIOUS
  <2>g. g = [phase_r EXCEPT !.seen = s, !.denied = FALSE, !.ph = P!NextPhase]
    BY <1>1, <2>0, <2>1 DEF P!Saw, P!Advanced, Request
  <2>2. /\ g \in Request /\ g.loc = phase_r.loc /\ g.main = phase_r.main /\
             g.internal = phase_r.internal
        /\ g.changed = phase_r.changed /\ g.changes = phase_r.changes /\ g.post = phase_r.post /\
             g.pc = "run"
        /\ g.hops = phase_r.hops /\ g.ph = P!NextPhase /\ <<phase_r.ph, "ok">> \in g.seen
    BY <1>1, <1>2, <2>0, <2>s, <2>g DEF Request
  <2>3. Permitted(engine, g.ph, g.loc, g.denied, g.seen)
    BY <1>2, <1>9, <2>2 DEF Permitted
  <2>4. Passed(engine, g.ph, g.seen)
    BY <1>5, <2>2
  <2> QED
    BY <1>6, <2>1, <2>2, <2>3, <2>4
<1>10. ASSUME phase_r.main PROVE RequestOK(engine, P!Advanced([P!Saw(phase_r,
                "denied") EXCEPT !.denied = TRUE]))
  <2>0. PICK s : s = phase_r.seen \cup {<<phase_r.ph, "denied">>}
    OBVIOUS
  <2>s. s \in SUBSET (Nat \X {"declined", "ok", "denied", "passed"})
    BY <1>1, <1>2, <2>0 DEF Request
  <2>1. PICK g : g = P!Advanced([P!Saw(phase_r, "denied") EXCEPT !.denied = TRUE])
    OBVIOUS
  <2>p. PICK p \in Nat : p = phase_r.ph + 1
    BY <1>2
  <2>g. g = [phase_r EXCEPT !.seen = s, !.denied = TRUE, !.ph = p]
    BY <1>1, <2>0, <2>1, <2>p DEF P!Saw, P!Advanced, Request
  <2>2. /\ g \in Request /\ g.loc = phase_r.loc /\ g.main = phase_r.main /\
             g.internal = phase_r.internal
        /\ g.changed = phase_r.changed /\ g.changes = phase_r.changes /\ g.post = phase_r.post /\
             g.pc = "run"
        /\ g.hops = phase_r.hops /\ g.ph = phase_r.ph + 1 /\ g.denied = TRUE
        /\ g.seen = phase_r.seen \cup {<<phase_r.ph, "denied">>}
    BY <1>1, <1>2, <2>0, <2>s, <2>p, <2>g DEF Request
  <2>3. PICK j \in Nat : phase_r.ph < j /\ IsAt(engine, j, "post_access")
    BY <1>1, <1>2 DEF EngineOK
  <2>4. phase_r.ph + 1 <= j
    BY <1>2, <2>3
  <2>5. Permitted(engine, g.ph, g.loc, g.denied, g.seen)
    BY <2>2, <2>3, <2>4 DEF Permitted
  <2>6. Passed(engine, g.ph, g.seen)
    <3>1. Passed(engine, phase_r.ph, phase_r.seen)
      BY <1>3 DEF Checked
    <3>2. Passed(engine, phase_r.ph + 1, phase_r.seen \cup {<<phase_r.ph, "denied">>})
      BY <1>2, <3>1, AccessRemembers
    <3> QED
      BY <2>2, <3>2
  <2> QED
    BY <1>6, <2>1, <2>2, <2>5, <2>6
<1>11. \A at \in {"wait", "error", "fail"} : RequestOK(engine, P!Goes(phase_r, at))
  BY <1>2, OutOK, WaitOK DEF OnTheWay
<1>12. \/ ~phase_r.main /\ P!Becomes([phase_r EXCEPT !.ph = P!NextPhase])
       \/ phase_r.main /\ \E rc \in {"declined", "ok"} : P!Becomes(P!Advanced(P!Saw(phase_r, rc)))
       \/ /\ phase_r.main /\ phase_r.loc \in SatisfyAny
          /\ P!Becomes([P!Saw(phase_r, "ok") EXCEPT !.denied = FALSE, !.ph = P!NextPhase])
       \/ phase_r.main /\ P!Becomes(P!Advanced([P!Saw(phase_r, "denied") EXCEPT !.denied = TRUE]))
       \/ \E at \in {"wait", "error", "fail"} : P!Becomes(P!Goes(phase_r, at))
  BY DEF P!AccessPhase
<1> QED
  BY <1>1, <1>7, <1>8, <1>9, <1>10, <1>11, <1>12, BecomesOK

LEMMA PostAccessPhaseOK ==
  ASSUME IInv, P!PostAccessPhase
  PROVE  IInv'
<1>1. EngineOK(engine) /\ RequestOK(engine, phase_r) /\ phase_r \in Request /\
        Limited(phase_r.post, phase_r.changes, phase_r.hops)
  BY DEF IInv, RequestOK
<1>2. phase_r.pc = "run" /\ phase_r.ph \in Nat /\ IsAt(engine, phase_r.ph, "post_access")
  BY <1>1, AtPlace DEF P!PostAccessPhase
<1>3. phase_r.changes # 0 /\ phase_r.ph + 1 \in Nat /\ Checked(engine, phase_r)
  BY <1>1, <1>2 DEF RequestOK, OnTheWay
<1>4. ~phase_r.changed
  <2>1. \A i \in Nat : LooksUp(engine, i) => i < phase_r.ph
    BY <1>1, <1>2 DEF EngineOK, Guards
  <2> QED
    BY <1>2, <1>3, <2>1 DEF Checked, LookupPending
<1>5. RequestOK(engine, P!Goes([phase_r EXCEPT !.denied = FALSE], "error"))
  <2>1. PICK g : g = [phase_r EXCEPT !.denied = FALSE]
    OBVIOUS
  <2>2. g \in Request /\ g.changes = phase_r.changes /\ g.post = phase_r.post /\ g.hops = phase_r.hops
    BY <1>1, <2>1 DEF Request
  <2>3. Limited(g.post, g.changes, g.hops)
    BY <1>1, <2>2, Zenon
  <2>4. RequestOK(engine, P!Goes(g, "error"))
    BY <2>2, <2>3, GoesOut
  <2> QED
    BY <2>1, <2>4
<1>6. ASSUME ~phase_r.denied PROVE RequestOK(engine, P!Advanced(phase_r))
  <2>1. PICK g : g = P!Advanced(phase_r)
    OBVIOUS
  <2>2. /\ g \in Request /\ g.loc = phase_r.loc /\ g.main = phase_r.main /\
             g.internal = phase_r.internal
        /\ ~g.changed /\ g.changes = phase_r.changes /\ g.post = phase_r.post /\ g.pc = "run"
        /\ g.hops = phase_r.hops /\ g.ph = phase_r.ph + 1 /\ ~g.denied /\ g.seen = phase_r.seen
    BY <1>1, <1>2, <1>4, <1>6, <2>1 DEF Request, P!Advanced
  <2>3. ~IsAt(engine, phase_r.ph, "access") /\ ~IsAt(engine, phase_r.ph, "try_files")
    BY <1>2, OnlyOne
  <2>4. \A i \in Nat : i < phase_r.ph + 1 /\ i # phase_r.ph => i < phase_r.ph
    BY <1>2
  <2>5. Passed(engine, g.ph, g.seen)
    <3>1. Passed(engine, phase_r.ph, phase_r.seen)
      BY <1>3 DEF Checked
    <3> QED
      BY <2>2, <2>3, <2>4, <3>1 DEF Passed
  <2>6. ASSUME g.main PROVE Permitted(engine, g.ph, g.loc, g.denied, g.seen)
    <3>1. Permitted(engine, phase_r.ph, phase_r.loc, phase_r.denied, phase_r.seen)
      BY <1>3, <2>2, <2>6 DEF Checked
    <3>2. \/ phase_r.loc \in SatisfyAny /\ \E i \in Nat : <<i, "ok">> \in phase_r.seen
          \/ \A i \in Nat : IsAt(engine, i, "access") /\ i < phase_r.ph =>
               <<i, "declined">> \in phase_r.seen \/ <<i, "ok">> \in phase_r.seen
      BY <1>6, <3>1 DEF Permitted
    <3> QED
      BY <2>2, <2>3, <2>4, <3>2 DEF Permitted
  <2>7. Limited(g.post, g.changes, g.hops) /\ g.changes # 0
    BY <1>1, <1>3, <2>2, Zenon
  <2>8. LookupPending(engine, g.ph, g.changed) /\ (g.loc \in Internal => g.internal)
    BY <1>3, <2>2 DEF LookupPending, Checked
  <2>9. RequestOK(engine, g)
    BY <2>2, <2>5, <2>6, <2>7, <2>8, GoesOn
  <2> QED
    BY <2>1, <2>9
<1> QED
  BY <1>1, <1>5, <1>6, BecomesOK DEF P!PostAccessPhase

LEMMA TryFilesPhaseOK ==
  ASSUME P!PhasesAssumption, IInv, P!TryFilesPhase
  PROVE  IInv'
<1>1. EngineOK(engine) /\ RequestOK(engine, phase_r) /\ phase_r \in Request /\
        Limited(phase_r.post, phase_r.changes, phase_r.hops)
  BY DEF IInv, RequestOK
<1>2. phase_r.pc = "run" /\ phase_r.ph \in Nat /\ IsAt(engine, phase_r.ph, "try_files")
  BY <1>1, AtPlace DEF P!TryFilesPhase
<1>3. phase_r.changes # 0 /\ phase_r.ph + 1 \in Nat /\ Checked(engine, phase_r)
  BY <1>1, <1>2 DEF RequestOK, OnTheWay
<1>4. ~phase_r.changed
  <2>1. \A i \in Nat : LooksUp(engine, i) => i < phase_r.ph
    BY <1>1, <1>2 DEF EngineOK, Guards
  <2> QED
    BY <1>2, <1>3, <2>1 DEF Checked, LookupPending
<1>5. RequestOK(engine, P!Advanced(P!Saw(phase_r, "passed")))
  <2>0. PICK s : s = phase_r.seen \cup {<<phase_r.ph, "passed">>}
    OBVIOUS
  <2>s. s \in SUBSET (Nat \X {"declined", "ok", "denied", "passed"})
    BY <1>1, <1>2, <2>0 DEF Request
  <2>1. PICK g : g = P!Advanced(P!Saw(phase_r, "passed"))
    OBVIOUS
  <2>p. PICK p \in Nat : p = phase_r.ph + 1
    BY <1>2
  <2>g. g = [phase_r EXCEPT !.seen = s, !.ph = p]
    BY <1>1, <2>0, <2>1, <2>p DEF P!Saw, P!Advanced, Request
  <2>2. /\ g \in Request /\ g.loc = phase_r.loc /\ g.main = phase_r.main /\
             g.internal = phase_r.internal
        /\ ~g.changed /\ g.changes = phase_r.changes /\ g.post = phase_r.post /\ g.pc = "run"
        /\ g.hops = phase_r.hops /\ g.ph = phase_r.ph + 1 /\ g.denied = phase_r.denied
        /\ g.seen = phase_r.seen \cup {<<phase_r.ph, "passed">>}
    BY <1>1, <1>2, <1>4, <2>0, <2>s, <2>p, <2>g DEF Request
  <2>3. ~IsAt(engine, phase_r.ph, "access") /\ ~IsAt(engine, phase_r.ph, "post_access")
    BY <1>2, OnlyOne
  <2>4. /\ \A i \in Nat : i < phase_r.ph + 1 /\ i # phase_r.ph => i < phase_r.ph
        /\ \A i \in Nat : phase_r.ph <= i /\ i # phase_r.ph => phase_r.ph + 1 <= i
    BY <1>2
  <2>5. Passed(engine, g.ph, g.seen)
    <3>1. Passed(engine, phase_r.ph, phase_r.seen)
      BY <1>3 DEF Checked
    <3> SUFFICES ASSUME NEW i \in Nat, IsAt(engine, i, "try_files"), i < phase_r.ph + 1
                 PROVE  <<i, "passed">> \in phase_r.seen \cup {<<phase_r.ph, "passed">>}
      BY <2>2 DEF Passed
    <3>2. CASE i = phase_r.ph
      BY <3>2
    <3>3. CASE i # phase_r.ph
      BY <2>4, <3>1, <3>3 DEF Passed
    <3> QED
      BY <3>2, <3>3
  <2>6. ASSUME g.main PROVE Permitted(engine, g.ph, g.loc, g.denied, g.seen)
    <3>1. Permitted(engine, phase_r.ph, phase_r.loc, phase_r.denied, phase_r.seen)
      BY <1>3, <2>2, <2>6 DEF Checked
    <3>2. CASE phase_r.loc \in SatisfyAny /\ \E i \in Nat : <<i, "ok">> \in phase_r.seen
      BY <2>2, <3>2 DEF Permitted
    <3>3. CASE \A i \in Nat : IsAt(engine, i, "access") /\ i < phase_r.ph =>
                 <<i, "declined">> \in phase_r.seen \/ <<i, "ok">> \in phase_r.seen
      BY <2>2, <2>3, <2>4, <3>3 DEF Permitted
    <3>4. CASE phase_r.denied /\ \E i \in Nat : phase_r.ph <= i /\ IsAt(engine, i, "post_access")
      BY <2>2, <2>3, <2>4, <3>4 DEF Permitted
    <3> QED
      BY <3>1, <3>2, <3>3, <3>4 DEF Permitted
  <2>7. Limited(g.post, g.changes, g.hops) /\ g.changes # 0
    BY <1>1, <1>3, <2>2, Zenon
  <2>8. LookupPending(engine, g.ph, g.changed) /\ (g.loc \in Internal => g.internal)
    BY <1>3, <2>2 DEF LookupPending, Checked
  <2>9. RequestOK(engine, g)
    BY <2>2, <2>5, <2>6, <2>7, <2>8, GoesOn
  <2> QED
    BY <2>1, <2>9
<1>6. RequestOK(engine, P!Goes(phase_r, "error"))
  BY OutOK
<1>7. CASE P!Redirected(phase_r)
  <2>1. Redirectable(phase_r)
    BY <1>3, RedirectableNow
  <2> QED
    BY <1>1, <1>7, <2>1, RedirectedOK
<1>8. CASE P!Becomes(P!Advanced(P!Saw(phase_r, "passed"))) \/ P!Becomes(P!Goes(phase_r, "error"))
  BY <1>1, <1>5, <1>6, <1>8, BecomesOK
<1> QED
  BY <1>7, <1>8 DEF P!TryFilesPhase

LEMMA ContentPhaseOK ==
  ASSUME IInv, P!ContentPhase
  PROVE  IInv'
<1>1. EngineOK(engine) /\ RequestOK(engine, phase_r) /\ phase_r \in Request /\
        Limited(phase_r.post, phase_r.changes, phase_r.hops)
  BY DEF IInv, RequestOK
<1>2. phase_r.pc = "run" /\ phase_r.ph \in Nat /\ IsAt(engine, phase_r.ph, "content")
  BY <1>1, AtPlace DEF P!ContentPhase
<1>3. phase_r.changes # 0 /\ phase_r.ph + 1 \in Nat /\ Checked(engine, phase_r)
  BY <1>1, <1>2 DEF RequestOK, OnTheWay
<1>4. RequestOK(engine, P!Goes(phase_r, "content"))
  <2>1. PICK g : g = P!Goes(phase_r, "content")
    OBVIOUS
  <2>2. /\ g \in Request /\ g.ph = phase_r.ph /\ g.loc = phase_r.loc /\ g.main = phase_r.main
        /\ g.internal = phase_r.internal /\ g.changed = phase_r.changed /\ g.changes = phase_r.changes
        /\ g.denied = phase_r.denied /\ g.post = phase_r.post /\ g.pc = "content" /\
             g.seen = phase_r.seen
        /\ g.hops = phase_r.hops
    BY <1>1, <2>1 DEF P!Goes, Request
  <2>3. Limited(g.post, g.changes, g.hops) /\ g.changes # 0
    BY <1>1, <1>3, <2>2, Zenon
  <2>4. Checked(engine, g)
    BY <1>2, <1>3, <2>2 DEF Checked
  <2>5. RequestOK(engine, g)
    BY <2>2, <2>3, <2>4 DEF RequestOK
  <2> QED
    BY <2>1, <2>5
<1>5. RequestOK(engine, P!Advanced(phase_r))
  <2>1. PICK g : g = P!Advanced(phase_r)
    OBVIOUS
  <2>2. /\ g \in Request /\ g.ph = phase_r.ph + 1 /\ g.loc = phase_r.loc /\ g.main = phase_r.main
        /\ g.internal \in {phase_r.internal, TRUE} /\ g.changed = phase_r.changed /\
             g.changes = phase_r.changes
        /\ g.denied = phase_r.denied /\ g.post = phase_r.post /\ g.pc = "run" /\ g.seen = phase_r.seen
        /\ g.hops = phase_r.hops
    BY <1>1, <1>2, <2>1 DEF P!Advanced, Request
  <2>3. Skips(engine, phase_r.ph, phase_r.ph + 1)
    <3>1. ~LooksUp(engine, phase_r.ph) /\ ~Guards(engine, phase_r.ph)
      BY <1>2, OnlyOne DEF LooksUp, Guards
    <3> QED
      BY <1>2, <3>1, StepSkips
  <2>4. LookupPending(engine, phase_r.ph + 1, g.changed)
    BY <1>2, <1>3, <2>2, <2>3, SkipsKeeps DEF Checked
  <2>5. RequestOK(engine, g)
    BY <1>2, <1>3, <2>2, <2>3, <2>4, AheadOK
  <2> QED
    BY <2>1, <2>5
<1>6. RequestOK(engine, P!Goes(phase_r, "error"))
  BY OutOK
<1> QED
  BY <1>1, <1>4, <1>5, <1>6, BecomesOK DEF P!ContentPhase

LEMMA ContentEndsOK ==
  ASSUME P!PhasesAssumption, IInv, P!ContentEnds
  PROVE  IInv'
<1>1. EngineOK(engine) /\ RequestOK(engine, phase_r) /\ phase_r \in Request /\
        Limited(phase_r.post, phase_r.changes, phase_r.hops)
  BY DEF IInv, RequestOK
<1>2. phase_r.pc = "content" /\ phase_r.changes # 0 /\ Checked(engine, phase_r)
  BY <1>1 DEF P!ContentEnds, RequestOK, OnTheWay
<1>3. \A at \in {"end", "fail", "error"} : RequestOK(engine, P!Goes(phase_r, at))
  BY OutOK
<1>4. RequestOK(engine, P!InternalRedirect(phase_r))
  <2>1. Redirectable(phase_r)
    BY <1>2, RedirectableNow
  <2> QED
    BY <1>1, <2>1, InternalRedirectOK
<1>5. RequestOK(engine, P!Goes([phase_r EXCEPT !.handler = FALSE], "run"))
  <2>1. PICK g : g = P!Goes([phase_r EXCEPT !.handler = FALSE], "run")
    OBVIOUS
  <2>2. /\ g \in Request /\ g.ph = phase_r.ph /\ g.loc = phase_r.loc /\ g.main = phase_r.main
        /\ g.internal = phase_r.internal /\ g.changed = phase_r.changed /\ g.changes = phase_r.changes
        /\ g.denied = phase_r.denied /\ g.post = phase_r.post /\ g.pc = "run" /\ g.seen = phase_r.seen
        /\ g.hops = phase_r.hops
    BY <1>1, <2>1 DEF P!Goes, Request
  <2>3. Limited(g.post, g.changes, g.hops) /\ g.changes # 0
    BY <1>1, <1>2, <2>2, Zenon
  <2>4. Checked(engine, g)
    BY <1>2, <2>2 DEF Checked
  <2>5. RequestOK(engine, g)
    BY <2>2, <2>3, <2>4 DEF RequestOK
  <2> QED
    BY <2>1, <2>5
<1> QED
  BY <1>1, <1>3, <1>4, <1>5, BecomesOK DEF P!ContentEnds

LEMMA EventOK ==
  ASSUME IInv, P!Event
  PROVE  IInv'
<1>1. EngineOK(engine) /\ phase_r.pc = "wait"
  BY DEF IInv, P!Event
<1>2. \A at \in {"run", "fail"} : RequestOK(engine, P!Goes(phase_r, at))
  BY <1>1, OutOK, WaitOK DEF OnTheWay
<1> QED
  BY <1>1, <1>2, BecomesOK DEF P!Event

LEMMA SpecialResponseOK ==
  ASSUME P!PhasesAssumption, IInv, P!SpecialResponse
  PROVE  IInv'
<1>1. EngineOK(engine) /\ RequestOK(engine, phase_r) /\ phase_r \in Request /\
        Limited(phase_r.post, phase_r.changes, phase_r.hops)
  BY DEF IInv, RequestOK
<1>2. \A at \in {"end", "fail"} : RequestOK(engine, P!Goes(phase_r, at))
  BY OutOK
<1>3. PICK p : p = P!Paged(phase_r)
  OBVIOUS
<1>4. p \in Request /\ p.changes = phase_r.changes /\ p.post = phase_r.post /\ p.hops = phase_r.hops
  BY <1>1, <1>3 DEF P!Paged, Request
<1>5. Limited(p.post, p.changes, p.hops)
  BY <1>1, <1>4, Zenon
<1>6. \A at \in {"end", "fail"} : RequestOK(engine, P!Goes(p, at))
  BY <1>4, <1>5, GoesOut
<1>7. CASE phase_r.changes # 0 /\ P!Redirected(p)
  <2>1. Redirectable(p)
    BY <1>4, <1>5, <1>7 DEF Redirectable
  <2> QED
    BY <1>1, <1>7, <2>1, RedirectedOK
<1>8. CASE \E at \in {"end", "fail"} : P!Becomes(P!Goes(phase_r, at)) \/ P!Becomes(P!Goes(p, at))
  BY <1>1, <1>2, <1>6, <1>8, BecomesOK
<1> QED
  BY <1>3, <1>7, <1>8 DEF P!SpecialResponse

LEMMA EndRequestOK ==
  ASSUME P!PhasesAssumption, IInv, P!EndRequest
  PROVE  IInv'
<1>1. EngineOK(engine) /\ RequestOK(engine, phase_r) /\ phase_r \in Request /\
        Limited(phase_r.post, phase_r.changes, phase_r.hops)
  BY DEF IInv, RequestOK
<1>2. CASE P!Becomes(P!Goes(phase_r, "done"))
  <2>1. RequestOK(engine, P!Goes(phase_r, "done"))
    BY OutOK
  <2> QED
    BY <1>1, <1>2, <2>1, BecomesOK
<1>3. CASE ~(phase_r.post /\ phase_r.changes = 0) /\ P!Redirected([phase_r EXCEPT !.post = TRUE])
  <2>1. PICK p : p = [phase_r EXCEPT !.post = TRUE]
    OBVIOUS
  <2>2. p \in Request /\ p.changes = phase_r.changes /\ p.post = TRUE /\ p.hops = phase_r.hops
    BY <1>1, <2>1 DEF Request
  <2>3. phase_r.changes \in Nat /\ phase_r.hops \in Nat /\ MaxChanges \in Nat /\ Width \in Nat /\
          phase_r.post \in BOOLEAN
    BY <1>1 DEF Request, P!PhasesAssumption
  <2>4. /\ p.changes + p.hops <= MaxChanges + 1 + Width
        /\ p.changes # 0 \/ p.changes + p.hops <= MaxChanges + 1
    BY <1>1, <1>3, <2>2, <2>3 DEF Limited
  <2>5. Redirectable(p)
    BY <2>2, <2>4 DEF Redirectable, Limited
  <2>6. P!Redirected(p)
    BY <1>3, <2>1
  <2> QED
    BY <1>1, <2>5, <2>6, RedirectedOK
<1> QED
  BY <1>2, <1>3 DEF P!EndRequest

-----------------------------------------------------------------------------
(* The theorems. *)

LEMMA InitOK ==
  ASSUME P!PhasesAssumption, P!Init
  PROVE  IInv
<1>1. PICK conf \in Configs : engine = P!InitPhaseHandlers(conf)
  BY DEF P!Init
<1>2. EngineOK(engine)
  BY <1>1, InitPhaseHandlersOK
<1>3. PICK main \in BOOLEAN :
        phase_r = [ph |-> IF main THEN 0 ELSE engine.server, loc |-> Server, main |-> main,
                   internal |-> ~main, changed |-> FALSE, changes |-> MaxChanges + 1,
                   denied |-> FALSE, page |-> FALSE, handler |-> FALSE, post |-> FALSE,
                   pc |-> "run", seen |-> {}, hops |-> 0]
  BY DEF P!Init
<1>4. engine.server \in Nat /\ Fresh(engine, engine.server)
  BY <1>2, FreshPlaces
<1>5. PICK p \in Nat : p = (IF main THEN 0 ELSE engine.server) /\ Fresh(engine, p)
  <2>1. Fresh(engine, 0)
    BY DEF Fresh
  <2> QED
    BY <1>4, <2>1
<1>6. MaxChanges + 1 \in 0..Width - 1 /\ MaxChanges + 1 # 0 /\ Width \in Nat /\ MaxChanges \in Nat
  BY DEF P!PhasesAssumption
<1>7. /\ phase_r \in Request /\ phase_r.ph = p /\ phase_r.loc = Server /\ phase_r.changed = FALSE
      /\ phase_r.changes = MaxChanges + 1 /\ phase_r.post = FALSE /\ phase_r.pc = "run" /\
           phase_r.hops = 0
  BY <1>3, <1>5, <1>6 DEF Request
<1>8. Limited(phase_r.post, phase_r.changes, phase_r.hops) /\ phase_r.changes # 0
  BY <1>6, <1>7 DEF Limited
<1>9. /\ LookupPending(engine, phase_r.ph, phase_r.changed) /\ Passed(engine, phase_r.ph,
           phase_r.seen)
      /\ Permitted(engine, phase_r.ph, phase_r.loc, phase_r.denied, phase_r.seen)
  BY <1>5, <1>7, FreshIsGood DEF LookupPending
<1>10. phase_r.loc \notin Internal
  BY <1>7 DEF P!PhasesAssumption
<1>11. RequestOK(engine, phase_r)
  BY <1>7, <1>8, <1>9, <1>10, GoesOn
<1> QED
  BY <1>2, <1>11 DEF IInv

LEMMA StepOK ==
  ASSUME P!PhasesAssumption, IInv, [P!Next]_(P!vars)
  PROVE  IInv'
<1>1. CASE UNCHANGED P!vars
  BY <1>1 DEF IInv, P!vars
<1>2. CASE P!Next
  <2>1. CASE P!Done
    BY <2>1 DEF IInv, P!Done, P!vars
  <2> QED
    BY <1>2, <2>1, GenericPhaseOK, RewritePhaseOK, FindConfigPhaseOK, PostRewritePhaseOK,
       AccessPhaseOK, PostAccessPhaseOK, TryFilesPhaseOK, ContentPhaseOK, ContentEndsOK,
       EventOK, SpecialResponseOK, EndRequestOK DEF P!Next
<1> QED
  BY <1>1, <1>2

LEMMA IInvGuarded ==
  ASSUME IInv
  PROVE  P!Guarded
<1>1. EngineOK(engine) /\ RequestOK(engine, phase_r) /\ phase_r \in Request
  BY DEF IInv, RequestOK
<1> SUFFICES ASSUME P!At("content") \/ phase_r.pc = "content"
             PROVE  /\ ~phase_r.changed
                    /\ phase_r.main => \/ phase_r.loc \in SatisfyAny /\ P!Asked("ok") # {}
                                       \/ P!Places("access") \subseteq P!Asked("declined") \cup P!Asked("ok")
                    /\ P!Places("try_files") \subseteq P!Asked("passed")
                    /\ phase_r.loc \in Internal => phase_r.internal
  BY DEF P!Guarded
<1>2. IsAt(engine, phase_r.ph, "content") /\ phase_r.ph \in Nat /\ Checked(engine, phase_r)
  <2>1. CASE P!At("content")
    <3>1. phase_r.pc = "run" /\ phase_r.ph \in Nat /\ IsAt(engine, phase_r.ph, "content")
      BY <1>1, <2>1, AtPlace
    <3> QED
      BY <1>1, <3>1 DEF RequestOK, OnTheWay
  <2>2. CASE phase_r.pc = "content"
    BY <1>1, <2>2 DEF RequestOK, OnTheWay, Checked, Request
  <2> QED
    BY <2>1, <2>2
<1>3. /\ \A i \in Nat : LooksUp(engine, i) => i < phase_r.ph
      /\ \A i \in Nat : Guards(engine, i) => i < phase_r.ph
  BY <1>1, <1>2 DEF EngineOK
<1>4. ~phase_r.changed
  BY <1>2, <1>3 DEF Checked, LookupPending
<1>5. \A ck : \A i \in P!Places(ck) : i \in Nat /\ IsAt(engine, i, ck)
  BY <1>1 DEF P!Places, IsAt, EngineOK, Engine
<1>6. \A i, rc : <<i, rc>> \in phase_r.seen => i \in P!Asked(rc)
  <2> TAKE i, rc
  <2> HAVE <<i, rc>> \in phase_r.seen
  <2>1. PICK s : s = <<i, rc>>
    OBVIOUS
  <2>2. s \in phase_r.seen /\ s[1] = i /\ s[2] = rc
    BY <2>1
  <2> QED
    BY <2>2 DEF P!Asked
<1>7. P!Places("try_files") \subseteq P!Asked("passed")
  <2>1. Passed(engine, phase_r.ph, phase_r.seen)
    BY <1>2 DEF Checked
  <2> QED
    BY <1>3, <1>5, <1>6, <2>1 DEF Passed, Guards
<1>8. ASSUME phase_r.main
      PROVE  \/ phase_r.loc \in SatisfyAny /\ P!Asked("ok") # {}
             \/ P!Places("access") \subseteq P!Asked("declined") \cup P!Asked("ok")
  <2>1. Permitted(engine, phase_r.ph, phase_r.loc, phase_r.denied, phase_r.seen)
    BY <1>2, <1>8 DEF Checked
  <2>2. CASE phase_r.loc \in SatisfyAny /\ \E i \in Nat : <<i, "ok">> \in phase_r.seen
    BY <1>6, <2>2
  <2>3. CASE \A i \in Nat : IsAt(engine, i, "access") /\ i < phase_r.ph =>
               <<i, "declined">> \in phase_r.seen \/ <<i, "ok">> \in phase_r.seen
    BY <1>3, <1>5, <1>6, <2>3 DEF Guards
  <2>4. CASE phase_r.denied /\ \E i \in Nat : phase_r.ph <= i /\ IsAt(engine, i, "post_access")
    BY <1>2, <1>3, <2>4 DEF Guards
  <2> QED
    BY <2>1, <2>2, <2>3, <2>4 DEF Permitted
<1> QED
  BY <1>2, <1>4, <1>7, <1>8 DEF Checked

(* Each change of the URI and each hop leaves less to come. *)
LEMMA IInvBounded ==
  ASSUME P!PhasesAssumption, IInv
  PROVE  P!Bounded
<1>1. /\ Limited(phase_r.post, phase_r.changes, phase_r.hops) /\ phase_r.changes \in Nat /\
           phase_r.hops \in Nat
      /\ MaxChanges \in Nat /\ Width \in Nat /\ phase_r.post \in BOOLEAN
  BY DEF IInv, RequestOK, Request, P!PhasesAssumption
<1> QED
  BY <1>1 DEF Limited, P!Bounded

-----------------------------------------------------------------------------
MCvars == <<part, vars, hvars, pvars, uvars, ovars>>

PhasesInv == part = "phases" => IInv

(* Every step of the phase handlers keeps what content depends on: a look-up that is
   pending has its checker ahead, and the access phase and try_files are asked before it. *)
THEOREM PhasesInvariant == MCSpec => []PhasesInv
<1>1. MCInit => PhasesInv
  BY InitOK, PhasesAssumption DEF MCInit, PhasesInv
<1>2. ASSUME PhasesInv, [MCNext]_MCvars PROVE PhasesInv'
  <2> SUFFICES ASSUME part' = "phases" PROVE IInv'
    BY DEF PhasesInv
  <2>1. part = "phases" /\ IInv
    BY <1>2 DEF MCNext, MCvars, PhasesInv
  <2>2. [P!Next]_(P!vars)
    BY <1>2, <2>1 DEF MCNext, MCvars, pvars, P!vars
  <2> QED
    BY <2>1, <2>2, StepOK, PhasesAssumption
<1> QED
  BY <1>1, <1>2, PTL DEF MCSpec, MCvars

(* No content without permission: whatever the phases, the locations and the scripts are,
   and however often ngx_http_internal_redirect(), ngx_http_named_location() and error pages
   send a request back, ngx_http_core_content_phase() is reached with no look-up pending, with
   the consent of the access phase and of try_files, and in an internal location by internal
   requests only. *)
THEOREM GuardedHolds == MCSpec => []Guarded
<1>1. PhasesInv => Guarded
  BY IInvGuarded DEF PhasesInv, Guarded
<1> QED
  BY <1>1, PhasesInvariant, PTL

(* The changes of the URI come to an end: r->uri_changes never wraps before a post_action,
   and the request is sent back at most MaxChanges + 1 + Width times, for every limit and for
   every width of the field that can hold it. *)
THEOREM BoundedHolds == MCSpec => []Bounded
<1>1. PhasesInv => Bounded
  BY IInvBounded, PhasesAssumption DEF PhasesInv, Bounded
<1> QED
  BY <1>1, PhasesInvariant, PTL
=============================================================================
